-------------------------- MODULE DecisionsProofs --------------------------
(* What two people decide over money, for any number of rows, officers, desks, hands
   and amounts: a refund that counts as paid is in the books, a manual credit is made
   once and by two people, a dead member's savings leave once, a dividend is shared out
   to the last unit, a payment to anyone has three approvers and is booked once, what is filed
   with the regulator stays filed, and every part keeps its types.

   Each part has an inductive invariant of its own over its own variables (RefundInv,
   CreditInv, ClaimInv, DividendInv, FilingInv); a step of another part leaves those
   unchanged. *)
EXTENDS MCDecisions, TLAPS, Sums

-----------------------------------------------------------------------------
(* Payments to anyone.  The first lemmas say what each action's update does to a row or
   a handler, field by field (Is<X> names the update).  The invariant follows an approval
   from the read to the commit: a handler that saw approvals of others may rely on them,
   because a slot is only written while it is empty, and a row that is locked stays as it
   was.  The theorems of this section are about PayAnyone's own specification. *)

PayType == [Payments -> PayRow]
FinType == [Supers -> FinRow]
ProvType == [Payments -> {"none", "accepted", "sent", "failed"}]

\* n is w but for the row of p, which keeps its initiator and amount.
RowIs(n, w, p, st, a1, a2, a3, k) ==
    /\ n \in PayType /\ \A q \in Payments \ {p} : n[q] = w[q]
    /\ n[p].init = w[p].init /\ n[p].amount = w[p].amount
    /\ n[p].status = st /\ n[p].a1 = a1 /\ n[p].a2 = a2 /\ n[p].a3 = a3 /\ n[p].booked = k

\* A first approval fills the first slot.
IsFirst(n, w, p, st, s) == n = [w EXCEPT ![p].status = st, ![p].a1 = s, ![p].hot = TRUE]
LEMMA SetFirst ==
    ASSUME NEW w \in PayType, NEW p \in Payments, NEW st \in Statuses, NEW s \in Slots,
           NEW n, IsFirst(n, w, p, st, s)
    PROVE  RowIs(n, w, p, st, s, w[p].a2, w[p].a3, w[p].booked)
<1> DEFINE row == [w[p] EXCEPT !.status = st, !.a1 = s, !.hot = TRUE]
<1>1. w[p] \in PayRow
    BY DEF PayType
<1>2. /\ row \in PayRow /\ row.init = w[p].init /\ row.amount = w[p].amount
      /\ row.a3 = w[p].a3 /\ row.booked = w[p].booked
      /\ row.a2 = w[p].a2 /\ row.status = st /\ row.a1 = s
    BY <1>1 DEF PayRow
<1>3. n = [w EXCEPT ![p] = row]
    BY DEF IsFirst, PayType
<1> HIDE DEF row
<1>4. n \in PayType /\ n[p] = row /\ \A q \in Payments \ {p} : n[q] = w[q]
    BY <1>2, <1>3 DEF PayType
<1>5. QED BY <1>2, <1>4 DEF RowIs

\* A second approval fills the second slot.
IsSecond(n, w, p, st, s) == n = [w EXCEPT ![p].status = st, ![p].a2 = s, ![p].hot = TRUE]
LEMMA SetSecond ==
    ASSUME NEW w \in PayType, NEW p \in Payments, NEW st \in Statuses, NEW s \in Slots,
           NEW n, IsSecond(n, w, p, st, s)
    PROVE  RowIs(n, w, p, st, w[p].a1, s, w[p].a3, w[p].booked)
<1> DEFINE row == [w[p] EXCEPT !.status = st, !.a2 = s, !.hot = TRUE]
<1>1. w[p] \in PayRow
    BY DEF PayType
<1>2. /\ row \in PayRow /\ row.init = w[p].init /\ row.amount = w[p].amount
      /\ row.a3 = w[p].a3 /\ row.booked = w[p].booked
      /\ row.a1 = w[p].a1 /\ row.status = st /\ row.a2 = s
    BY <1>1 DEF PayRow
<1>3. n = [w EXCEPT ![p] = row]
    BY DEF IsSecond, PayType
<1> HIDE DEF row
<1>4. n \in PayType /\ n[p] = row /\ \A q \in Payments \ {p} : n[q] = w[q]
    BY <1>2, <1>3 DEF PayType
<1>5. QED BY <1>2, <1>4 DEF RowIs

\* A commit writes the status, the third slot and the books.
IsCommit(n, w, p, st, a3, h, k) ==
    n = [w EXCEPT ![p].status = st, ![p].a3 = a3, ![p].hot = h, ![p].booked = k]
LEMMA SetCommit ==
    ASSUME NEW w \in PayType, NEW p \in Payments, NEW st \in Statuses, NEW s \in Slots,
           NEW n, NEW h \in BOOLEAN, NEW k \in Nat, IsCommit(n, w, p, st, s, h, k)
    PROVE  RowIs(n, w, p, st, w[p].a1, w[p].a2, s, k)
<1> DEFINE row == [w[p] EXCEPT !.status = st, !.a3 = s, !.hot = h, !.booked = k]
<1>1. w[p] \in PayRow
    BY DEF PayType
<1>2. /\ row \in PayRow /\ row.init = w[p].init /\ row.amount = w[p].amount
      /\ row.a1 = w[p].a1 /\ row.a2 = w[p].a2
      /\ row.status = st /\ row.a3 = s /\ row.booked = k
    BY <1>1 DEF PayRow
<1>3. n = [w EXCEPT ![p] = row]
    BY DEF IsCommit, PayType
<1> HIDE DEF row
<1>4. n \in PayType /\ n[p] = row /\ \A q \in Payments \ {p} : n[q] = w[q]
    BY <1>2, <1>3 DEF PayType
<1>5. QED BY <1>2, <1>4 DEF RowIs

\* A reject writes the status alone.
IsStatus(n, w, p, st) == n = [w EXCEPT ![p].status = st]
LEMMA SetStatus ==
    ASSUME NEW w \in PayType, NEW p \in Payments, NEW st \in Statuses, NEW n, IsStatus(n, w, p, st)
    PROVE  RowIs(n, w, p, st, w[p].a1, w[p].a2, w[p].a3, w[p].booked)
BY DEF IsStatus, PayType, PayRow, RowIs

\* The end of the cool-off writes none of the fields the invariant reads.
IsCool(n, w, p) == n = [w EXCEPT ![p].hot = FALSE]
LEMMA SetCool ==
    ASSUME NEW w \in PayType, NEW p \in Payments, NEW n, IsCool(n, w, p)
    PROVE  RowIs(n, w, p, w[p].status, w[p].a1, w[p].a2, w[p].a3, w[p].booked)
BY DEF IsCool, PayType, PayRow, RowIs

\* A new request.
IsAsked(row, base, st, a, m) == row = [base EXCEPT !.status = st, !.init = a, !.amount = m]
LEMMA NewRow ==
    ASSUME NEW base \in PayRow, NEW st \in Statuses, NEW a \in Admins \cup Supers, NEW m \in Nat,
           NEW row, IsAsked(row, base, st, a, m)
    PROVE  /\ row \in PayRow /\ row.status = st /\ row.init = a /\ row.a1 = base.a1
           /\ row.a2 = base.a2 /\ row.a3 = base.a3 /\ row.booked = base.booked
BY DEF IsAsked, PayRow

\* A row that nobody asked for yet.
LEMMA FirstRow ==
    /\ NoRow \in PayRow /\ NoRow.status = "none" /\ NoRow.init = Nobody /\ NoRow.booked = 0
    /\ NoRow.a1 = Nobody /\ NoRow.a2 = Nobody /\ NoRow.a3 = Nobody
BY DEF NoRow, PayRow, Statuses, Slots

\* The handler of s, and nobody else's.
FinIs(s, pc, p, seen, third, locked, res) ==
    /\ fin' \in FinType /\ \A t \in Supers \ {s} : fin'[t] = fin[t]
    /\ fin'[s].pc = pc /\ fin'[s].p = p /\ fin'[s].seen = seen /\ fin'[s].third = third
    /\ fin'[s].locked = locked /\ fin'[s].res = res

\* The handler of s is replaced.
LEMMA PutFin ==
    ASSUME fin \in FinType, NEW s \in Supers, NEW f \in FinRow, fin' = [fin EXCEPT ![s] = f]
    PROVE  FinIs(s, f.pc, f.p, f.seen, f.third, f.locked, f.res)
BY DEF FinIs, FinType

\* A handler that ends is idle, and no other handler is touched.
IdleNow(s) == FinIs(s, "idle", NoPayment, "none", FALSE, FALSE, "none")
LEMMA Returns ==
    ASSUME fin \in FinType, NEW s \in Supers, Return(s)
    PROVE  IdleNow(s)
BY DEF Return, Idle, IdleNow, FinIs, FinType, FinRow

-----------------------------------------------------------------------------
(* The invariant.                                                          *)

HandlersRefer ==
    \A s \in Supers : fin[s].pc # "idle" => fin[s].p \in Payments /\ pay[fin[s].p].status # "none"

\* What the handler's read showed of the others' approvals still holds.
SeenHolds ==
    \A s \in Supers :
        LET row == pay[fin[s].p]
            paying == fin[s].pc \in {"check", "claim", "send", "settle", "orphan"}
        IN
        /\ fin[s].pc # "idle" => row.init # s
        /\ paying \/ (fin[s].pc = "step" /\ fin[s].seen \in {"approved1", "approved2"})
              => row.a1 # Nobody /\ row.a1 # s
        /\ paying \/ (fin[s].pc = "step" /\ fin[s].seen = "approved2")
              => row.a2 # Nobody /\ row.a2 # s

\* A locked row is in approved2 and belongs to one handler; the handler that
\* asks the bank has the lock.
Locks ==
    /\ \A s \in Supers : fin[s].locked => fin[s].pc # "idle" /\ pay[fin[s].p].status = "approved2"
    /\ \A s \in Supers : fin[s].pc \in {"send", "settle"} => fin[s].locked
    /\ \A s, t \in Supers : s # t /\ fin[s].locked /\ fin[t].locked => fin[s].p # fin[t].p

TypeInv == pay \in PayType /\ fin \in FinType /\ prov \in ProvType /\ HandlersRefer
Inv == TypeInv /\ SlotsMatchStatus /\ SeenHolds /\ Locks /\ BookedOnce

\* The typing half of the invariant is TypeOK.
LEMMA Types == TypeInv => TypeOK
BY DEF TypeInv, TypeOK, PayType, FinType, ProvType

\* The types of a row's fields.
LEMMA RowFields ==
    ASSUME TypeInv, NEW p \in Payments
    PROVE  /\ pay[p].status \in Statuses /\ pay[p].a1 \in Slots /\ pay[p].a2 \in Slots
           /\ pay[p].a3 \in Slots /\ pay[p].booked \in Nat /\ pay[p].hot \in BOOLEAN
           /\ pay[p].init \in Admins \cup Supers \cup {Nobody}
BY DEF TypeInv, PayType, PayRow

\* A step of handler s that leaves the rows alone keeps the invariant when what
\* s now relies on holds.
LEMMA OnlyHandler ==
    ASSUME Inv, NEW s \in Supers, fin' \in FinType, \A t \in Supers \ {s} : fin'[t] = fin[t],
           pay' = pay, prov' \in ProvType,
           fin'[s].pc # "idle" =>
              /\ fin'[s].p \in Payments /\ pay[fin'[s].p].status # "none"
              /\ pay[fin'[s].p].init # s,
           fin'[s].pc \in {"check", "claim", "send", "settle", "orphan"} =>
              /\ pay[fin'[s].p].a1 \notin {Nobody, s} /\ pay[fin'[s].p].a2 \notin {Nobody, s},
           fin'[s].pc = "step" /\ fin'[s].seen \in {"approved1", "approved2"} =>
              pay[fin'[s].p].a1 \notin {Nobody, s},
           fin'[s].pc = "step" /\ fin'[s].seen = "approved2" =>
              pay[fin'[s].p].a2 \notin {Nobody, s},
           fin'[s].pc \in {"send", "settle"} => fin'[s].locked,
           fin'[s].locked =>
              /\ fin'[s].pc # "idle" /\ pay[fin'[s].p].status = "approved2"
              /\ \A t \in Supers \ {s} : fin[t].locked => fin[t].p # fin'[s].p
    PROVE  Inv'
<1>1. TypeInv'
    BY DEF Inv, TypeInv, HandlersRefer
<1>2. SlotsMatchStatus' /\ BookedOnce'
    BY DEF Inv, SlotsMatchStatus, BookedOnce
<1>3. SeenHolds'
    BY DEF Inv, SeenHolds
<1>4. Locks'
    BY DEF Inv, Locks
<1>5. QED BY <1>1, <1>2, <1>3, <1>4 DEF Inv

\* A handler that ends without a write.
LEMMA Quits ==
    ASSUME Inv, NEW s \in Supers, Return(s), pay' = pay, prov' \in ProvType
    PROVE  Inv'
<1>1. IdleNow(s)
    BY Returns DEF Inv, TypeInv
<1>2. QED BY <1>1, OnlyHandler DEF IdleNow, FinIs

\* What may be written to the row of p: the slots that were taken keep their
\* approvers, and the row is one that SlotsMatchStatus and BookedOnce allow.
Fits(p, st, a1, a2, a3, k) ==
    /\ pay[p].status # "none" /\ st # "none"
    /\ pay[p].a1 # Nobody => a1 = pay[p].a1
    /\ pay[p].a2 # Nobody => a2 = pay[p].a2
    /\ st = "pending" => a1 = Nobody
    /\ st \in {"pending", "approved1"} => a2 = Nobody /\ a3 = Nobody
    /\ st \in {"approved1", "approved2", "paid", "failed"} => a1 # Nobody
    /\ st \in {"approved2", "paid", "failed"} => a2 # Nobody
    /\ st \in {"paid", "failed"} => a3 # Nobody
    /\ \A x \in {a1, a2, a3} \ {Nobody} : x # pay[p].init
    /\ a1 # Nobody => a1 \notin {a2, a3}
    /\ a2 # Nobody => a2 # a3
    /\ k = IF st = "paid" THEN 1 ELSE 0

\* One row is written; handlers that read it still see what they relied on.
LEMMA OneRow ==
    ASSUME Inv, NEW p \in Payments, NEW st, NEW a1, NEW a2, NEW a3, NEW k,
           RowIs(pay', pay, p, st, a1, a2, a3, k), Fits(p, st, a1, a2, a3, k),
           fin' \in FinType, prov' \in ProvType,
           \A t \in Supers : fin'[t] = fin[t] \/ (fin'[t].pc = "idle" /\ ~fin'[t].locked),
           \A t \in Supers : fin'[t].locked /\ fin'[t].p = p => st = "approved2"
    PROVE  Inv'
<1>1. /\ pay' \in PayType /\ \A q \in Payments \ {p} : pay'[q] = pay[q]
      /\ pay'[p].init = pay[p].init /\ pay'[p].status = st /\ pay'[p].a1 = a1
      /\ pay'[p].a2 = a2 /\ pay'[p].a3 = a3 /\ pay'[p].booked = k
    BY DEF RowIs
<1>2. TypeInv'
    BY <1>1 DEF Fits, Inv, TypeInv, HandlersRefer
<1>3. SlotsMatchStatus' /\ BookedOnce'
    BY <1>1 DEF Fits, Inv, SlotsMatchStatus, BookedOnce
<1>4. SeenHolds'
    BY <1>1 DEF Fits, Inv, TypeInv, HandlersRefer, SeenHolds
<1>5. Locks'
    BY <1>1 DEF Fits, Inv, TypeInv, HandlersRefer, Locks
<1>6. QED BY <1>2, <1>3, <1>4, <1>5 DEF Inv

\* A transaction that commits the row it locked, or may write in approved2.
LEMMA Commits ==
    ASSUME Inv, NEW s \in Supers, NEW st \in {"approved2", "paid", "failed"},
           NEW a3 \in {s, Nobody}, NEW k \in {0, 1}, Commit(s, st, a3, k),
           st = "approved2" \/ a3 = s, k = (IF st = "paid" THEN 1 ELSE 0),
           fin[s].pc \in {"check", "send", "settle"},
           pay[fin[s].p].status = "approved2",
           \A t \in Supers \ {s} : fin[t].locked => fin[t].p # fin[s].p
    PROVE  Inv'
<1> DEFINE p == fin[s].p
           h == pay[p].hot \/ fin[s].third
           n == pay[p].booked + k
<1>1. p \in Payments /\ pay[p].status # "none" /\ pay[p].init # s
    BY DEF Inv, TypeInv, HandlersRefer, SeenHolds
<1>2. /\ pay[p].a1 \in Slots \ {Nobody, s} /\ pay[p].a2 \in Slots \ {Nobody, s}
      /\ pay[p].a1 # pay[p].a2 /\ pay[p].init \notin {pay[p].a1, pay[p].a2}
    BY <1>1, RowFields DEF Inv, SeenHolds, SlotsMatchStatus
<1>3. pay[p].booked = 0 /\ n = k /\ n \in Nat
    BY <1>1 DEF Inv, BookedOnce
<1>4. h \in BOOLEAN
    BY <1>1, RowFields DEF Inv, TypeInv, FinType, FinRow
<1>5. IsCommit(pay', pay, p, st, a3, h, n) /\ Return(s) /\ prov' = prov
    BY Zenon DEF Commit, IsCommit
<1>6. st \in Statuses /\ a3 \in Slots
    BY DEF Statuses, Slots
<1>7. IdleNow(s)
    BY <1>5, Returns DEF Inv, TypeInv
<1> HIDE DEF h, n
<1>8. RowIs(pay', pay, p, st, pay[p].a1, pay[p].a2, a3, n)
    BY <1>1, <1>3, <1>4, <1>5, <1>6, SetCommit DEF Inv, TypeInv
<1>9. /\ fin' \in FinType /\ prov' \in ProvType
      /\ \A t \in Supers : fin'[t] = fin[t] \/ (fin'[t].pc = "idle" /\ ~fin'[t].locked)
      /\ \A t \in Supers : fin'[t].locked => fin'[t].p # p
    BY <1>5, <1>7 DEF IdleNow, FinIs, Inv, TypeInv
<1>10. Fits(p, st, pay[p].a1, pay[p].a2, a3, n)
    <2>1. s # Nobody /\ a3 \in {s, Nobody}
        BY PayAnyoneAssumption
    <2>2. /\ pay[p].a1 # Nobody /\ pay[p].a2 # Nobody
          /\ pay[p].a1 # s /\ pay[p].a2 # s
          /\ pay[p].init # pay[p].a1 /\ pay[p].init # pay[p].a2
        BY <1>2
    <2>3. st \notin {"none", "pending", "approved1"}
        OBVIOUS
    <2>4. st \in {"paid", "failed"} => a3 = s
        OBVIOUS
    <2>5. n = (IF st = "paid" THEN 1 ELSE 0)
        BY <1>3
    <2> HIDE DEF p
    <2>6. QED BY <1>1, <1>2, <2>1, <2>2, <2>3, <2>4, <2>5 DEF Fits
<1>11. QED BY <1>1, <1>8, <1>9, <1>10, OneRow

\* The third slot is given back.
LEMMA GivesBack ==
    ASSUME Inv, NEW s \in Supers, fin[s].pc = "check", GiveBack(s)
    PROVE  Inv'
<1>1. \A t \in Supers \ {s} : fin[t].locked => fin[t].p # fin[s].p
    BY DEF Inv, Locks, GiveBack, Locked
<1>2. CASE pay[fin[s].p].status = "approved2"
    <2>1. Commit(s, "approved2", Nobody, 0)
        BY <1>2 DEF GiveBack
    <2>2. QED BY <1>1, <1>2, <2>1, Commits
<1>3. CASE pay[fin[s].p].status # "approved2"
    <2>1. Return(s) /\ pay' = pay /\ prov' = prov
        BY <1>3 DEF GiveBack
    <2>2. QED BY <2>1, Quits DEF Inv, TypeInv
<1>4. QED BY <1>2, <1>3

\* Approvals 1 and 2.
LEMMA Records ==
    ASSUME Inv, NEW s \in Supers, RecordFirst(s) \/ RecordSecond(s)
    PROVE  Inv'
<1> DEFINE p == fin[s].p
<1>1. p \in Payments /\ pay[p].status # "none" /\ pay[p].init # s /\ s # Nobody
    BY PayAnyoneAssumption DEF RecordFirst, RecordSecond, Inv, TypeInv, HandlersRefer, SeenHolds
<1>2. Return(s) /\ prov' = prov
    BY DEF RecordFirst, RecordSecond
<1>3. IdleNow(s)
    BY <1>2, Returns DEF Inv, TypeInv
<1>4. \A t \in Supers : fin[t].locked => fin[t].p # p
    BY DEF RecordFirst, RecordSecond, Locked
<1>5. /\ fin' \in FinType /\ prov' \in ProvType
      /\ \A t \in Supers : fin'[t] = fin[t] \/ (fin'[t].pc = "idle" /\ ~fin'[t].locked)
      /\ \A t \in Supers : fin'[t].locked => fin'[t].p # p
    BY <1>2, <1>3, <1>4 DEF IdleNow, FinIs, Inv, TypeInv
<1>6. pay[p].booked = 0 \/ pay' = pay
    BY <1>1 DEF RecordFirst, RecordSecond, Inv, BookedOnce
<1>7. "approved1" \in Statuses /\ "approved2" \in Statuses /\ s \in Slots
    BY DEF Statuses, Slots
<1>8. CASE pay' = pay
    BY <1>2, <1>8, Quits DEF Inv, TypeInv
<1>9. CASE RecordFirst(s) /\ pay[p].status = "pending" /\ pay[p].a1 = Nobody
    <2>1. IsFirst(pay', pay, p, "approved1", s)
        BY <1>9 DEF RecordFirst, IsFirst
    <2>2. RowIs(pay', pay, p, "approved1", s, pay[p].a2, pay[p].a3, pay[p].booked)
        BY <1>1, <1>7, <2>1, SetFirst DEF Inv, TypeInv
    <2>3. pay[p].a2 = Nobody /\ pay[p].a3 = Nobody /\ pay[p].booked = 0
        BY <1>1, <1>9 DEF Inv, SlotsMatchStatus, BookedOnce
    <2>4. Fits(p, "approved1", s, pay[p].a2, pay[p].a3, pay[p].booked)
        BY <1>1, <1>9, <2>3 DEF Fits
    <2>5. QED BY <1>1, <1>5, <2>2, <2>4, OneRow
<1>10. CASE RecordSecond(s) /\ pay[p].status = "approved1" /\ pay[p].a2 = Nobody
    <2>1. IsSecond(pay', pay, p, "approved2", s)
        BY <1>10 DEF RecordSecond, IsSecond
    <2>2. RowIs(pay', pay, p, "approved2", pay[p].a1, s, pay[p].a3, pay[p].booked)
        BY <1>1, <1>7, <2>1, SetSecond DEF Inv, TypeInv
    <2>3. /\ pay[p].a1 # Nobody /\ pay[p].a1 # s /\ pay[p].a1 # pay[p].init
          /\ pay[p].a3 = Nobody /\ pay[p].booked = 0
        BY <1>1, <1>10 DEF RecordSecond, Inv, SlotsMatchStatus, SeenHolds, BookedOnce
    <2>4. Fits(p, "approved2", pay[p].a1, s, pay[p].a3, pay[p].booked)
        BY <1>1, <1>10, <2>3 DEF Fits
    <2>5. QED BY <1>1, <1>5, <2>2, <2>4, OneRow
<1>11. QED BY <1>8, <1>9, <1>10 DEF RecordFirst, RecordSecond

\* What a read leaves the handler with.
LEMMA Reads ==
    ASSUME Inv, NEW s \in Supers, NEW p \in Payments, ReadRow(s, p)
    PROVE  Inv'
<1>1. s # Nobody /\ pay[p].status \in {"pending", "approved1", "approved2"}
    BY PayAnyoneAssumption DEF ReadRow
<1>2. /\ pay[p].a3 = s => pay[p].a1 # s /\ pay[p].a2 # s /\ pay[p].init # s
      /\ pay[p].status \in {"approved1", "approved2"} => pay[p].a1 # Nobody
      /\ pay[p].status = "approved2" => pay[p].a2 # Nobody
    BY <1>1 DEF Inv, SlotsMatchStatus
<1>3. pay' = pay /\ prov' = prov
    BY DEF ReadRow
<1>4. CASE pay[p].a3 = s /\ pay[p].status = "approved2"
                         /\ fin' = [fin EXCEPT ![s] = [Idle EXCEPT !.pc = "check", !.p = p]]
    <2>1. FinIs(s, "check", p, "none", FALSE, FALSE, "none")
        BY <1>4 DEF Inv, TypeInv, FinType, FinRow, FinIs, Idle
    <2>2. QED BY <1>1, <1>2, <1>3, <1>4, <2>1, OnlyHandler DEF FinIs, Inv, TypeInv
<1>5. CASE MayApprove(s, p) /\ fin' = [fin EXCEPT ![s] =
                [Idle EXCEPT !.pc = "step", !.p = p, !.seen = pay[p].status]]
    <2>1. FinIs(s, "step", p, pay[p].status, FALSE, FALSE, "none")
        BY <1>1, <1>5 DEF Inv, TypeInv, FinType, FinRow, FinIs, Idle
    <2>2. QED BY <1>1, <1>2, <1>3, <1>5, <2>1, OnlyHandler DEF FinIs, MayApprove, Inv, TypeInv
<1>6. QED BY <1>4, <1>5 DEF ReadRow

\* A handler goes on: the third slot, the limits, the claim, the provider.
LEMMA Continues ==
    ASSUME Inv, NEW s \in Supers,
           TakeThird(s) \/ CheckLimits(s) \/ Claim(s) \/ CallProvider(s) \/ Expire(s)
    PROVE  Inv'
<1> DEFINE p == fin[s].p
<1>1. /\ p \in Payments /\ pay[p].status # "none" /\ pay[p].init # s /\ fin[s].pc # "idle"
      /\ fin[s].pc # "step" => pay[p].a1 \notin {Nobody, s} /\ pay[p].a2 \notin {Nobody, s}
    BY DEF TakeThird, CheckLimits, Claim, CallProvider, Expire, Inv, TypeInv, HandlersRefer,
           SeenHolds, FinType, FinRow
<1>2. fin[s].locked \/ ~Locked(p) => \A t \in Supers \ {s} : fin[t].locked => fin[t].p # p
    BY DEF Inv, Locks, Locked
<1>3. CASE TakeThird(s)
    <2>1. FinIs(s, "check", p, fin[s].seen, TRUE, TRUE, fin[s].res)
        <3> DEFINE f == [fin[s] EXCEPT !.pc = "check", !.third = TRUE, !.locked = TRUE]
        <3>1. fin \in FinType /\ fin[s] \in FinRow
            BY DEF Inv, TypeInv, FinType
        <3>2. /\ f \in FinRow /\ f.pc = "check" /\ f.p = p /\ f.seen = fin[s].seen
              /\ f.third = TRUE /\ f.locked = TRUE /\ f.res = fin[s].res
            BY <3>1 DEF FinRow
        <3>3. fin' = [fin EXCEPT ![s] = f]
            BY <1>3, <3>1 DEF TakeThird, FinType
        <3> HIDE DEF f
        <3>4. QED BY <3>1, <3>2, <3>3, PutFin
    <2>2. /\ pay' = pay /\ prov' = prov /\ pay[p].status = "approved2"
          /\ pay[p].a1 \notin {Nobody, s} /\ pay[p].a2 \notin {Nobody, s} /\ ~Locked(p)
        BY <1>1, <1>3 DEF TakeThird, SlotFree, Inv, SeenHolds
    <2>3. QED BY <1>1, <1>2, <2>1, <2>2, OnlyHandler DEF FinIs, Inv, TypeInv
<1>4. CASE CheckLimits(s)
    <2>1. FinIs(s, "claim", p, fin[s].seen, fin[s].third, fin[s].locked, fin[s].res)
        BY <1>4 DEF CheckLimits, Inv, TypeInv, FinType, FinRow, FinIs
    <2>2. pay' = pay /\ prov' = prov /\ fin[s].pc = "check"
        BY <1>4 DEF CheckLimits
    <2>3. fin[s].locked => pay[p].status = "approved2"
        BY DEF Inv, Locks
    <2>4. QED BY <1>1, <1>2, <2>1, <2>2, <2>3, OnlyHandler DEF FinIs, Inv, TypeInv
<1>5. CASE Claim(s)
    <2>1. CASE pay[p].status = "approved2"
        <3>1. FinIs(s, "send", p, fin[s].seen, fin[s].third, TRUE, fin[s].res)
            BY <1>5, <2>1 DEF Claim, Inv, TypeInv, FinType, FinRow, FinIs
        <3>2. pay' = pay /\ prov' = prov /\ fin[s].pc = "claim" /\ (fin[s].locked \/ ~Locked(p))
            BY <1>5 DEF Claim
        <3>3. QED BY <1>1, <1>2, <2>1, <3>1, <3>2, OnlyHandler DEF FinIs, Inv, TypeInv
    <2>2. CASE pay[p].status # "approved2"
        <3>1. Return(s) /\ pay' = pay /\ prov' = prov
            BY <1>5, <2>2 DEF Claim, Return
        <3>2. QED BY <3>1, Quits DEF Inv, TypeInv
    <2>3. QED BY <2>1, <2>2
<1>6. CASE CallProvider(s)
    <2>1. PICK ans \in Answers(p) : /\ prov' = [prov EXCEPT ![p] = ans.p]
                                    /\ fin' = [fin EXCEPT ![s].pc = "settle", ![s].res = ans.res]
        BY <1>6 DEF CallProvider
    <2>2. /\ ans.p \in {"none", "accepted", "sent", "failed"}
          /\ ans.res \in {"none", "ok", "pending", "lost", "refused"}
        BY <1>1, <2>1 DEF Answers, Inv, TypeInv, ProvType
    <2>3. prov' \in ProvType
        BY <1>1, <2>1, <2>2 DEF Inv, TypeInv, ProvType
    <2>4. FinIs(s, "settle", p, fin[s].seen, fin[s].third, fin[s].locked, ans.res)
        <3> DEFINE f == [fin[s] EXCEPT !.pc = "settle", !.res = ans.res]
        <3>1. fin \in FinType /\ fin[s] \in FinRow
            BY DEF Inv, TypeInv, FinType
        <3>2. /\ f \in FinRow /\ f.pc = "settle" /\ f.p = p /\ f.seen = fin[s].seen
              /\ f.third = fin[s].third /\ f.locked = fin[s].locked /\ f.res = ans.res
            BY <2>2, <3>1 DEF FinRow
        <3>3. fin' = [fin EXCEPT ![s] = f]
            BY <2>1, <3>1 DEF FinType
        <3> HIDE DEF f
        <3>4. QED BY <3>1, <3>2, <3>3, PutFin
    <2>5. pay' = pay /\ fin[s].pc = "send" /\ fin[s].locked /\ pay[p].status = "approved2"
        BY <1>6 DEF CallProvider, Inv, Locks
    <2>6. QED BY <1>1, <1>2, <2>3, <2>4, <2>5, OnlyHandler DEF FinIs
<1>7. CASE Expire(s)
    <2>1. FinIs(s, "orphan", p, "none", FALSE, FALSE, "none")
        BY <1>1, <1>7 DEF Expire, Inv, TypeInv, FinType, FinRow, FinIs, Idle
    <2>2. pay' = pay /\ prov' = prov /\ fin[s].pc = "send"
        BY <1>7 DEF Expire
    <2>3. QED BY <1>1, <2>1, <2>2, OnlyHandler DEF FinIs, Inv, TypeInv
<1>8. QED BY <1>3, <1>4, <1>5, <1>6, <1>7

\* A request, a reject and the end of the cool-off.
LEMMA RowSteps ==
    ASSUME Inv, NEW p \in Payments, fin' = fin,
           \/ \E a \in Admins \cup Supers, m \in Amounts : Request(a, p, m)
           \/ Reject(p) \/ CoolOffEnds(p)
    PROVE  Inv'
<1>1. fin' \in FinType /\ prov' \in ProvType /\ pay \in PayType /\ prov' = prov
    BY DEF Inv, TypeInv, Request, Reject, CoolOffEnds
<1>2. ASSUME NEW a \in Admins \cup Supers, NEW m \in Amounts, Request(a, p, m) PROVE Inv'
    <2> DEFINE row == [NoRow EXCEPT !.status = "pending", !.init = a, !.amount = m]
    <2>1. IsAsked(row, NoRow, "pending", a, m) /\ m \in Nat /\ "pending" \in Statuses
        BY PayAnyoneAssumption DEF IsAsked, Statuses
    <2>2. pay' = [pay EXCEPT ![p] = row] /\ pay[p].status = "none"
        BY <1>2 DEF Request
    <2> HIDE DEF row
    <2>3. /\ row \in PayRow /\ row.status = "pending" /\ row.init = a /\ row.a1 = Nobody
          /\ row.a2 = Nobody /\ row.a3 = Nobody /\ row.booked = 0
        BY <2>1, FirstRow, NewRow
    <2>4. pay' \in PayType /\ pay'[p] = row /\ \A q \in Payments \ {p} : pay'[q] = pay[q]
        BY <1>1, <2>2, <2>3 DEF PayType
    <2>5. \A s \in Supers : fin[s].pc # "idle" => fin[s].p \in Payments /\ fin[s].p # p
        BY <2>2 DEF Inv, TypeInv, HandlersRefer
    <2>6. TypeInv'
        BY <1>1, <2>4, <2>5 DEF Inv, TypeInv, HandlersRefer
    <2>7. SlotsMatchStatus' /\ BookedOnce'
        BY <2>3, <2>4 DEF Inv, SlotsMatchStatus, BookedOnce
    <2>8. SeenHolds'
        BY <2>4, <2>5 DEF Inv, SeenHolds
    <2>9. Locks'
        BY <2>4, <2>5 DEF Inv, Locks
    <2>10. QED BY <2>6, <2>7, <2>8, <2>9 DEF Inv
<1>3. CASE Reject(p)
    <2>1. IsStatus(pay', pay, p, "rejected") /\ "rejected" \in Statuses
        BY <1>3 DEF Reject, IsStatus, Statuses
    <2>2. RowIs(pay', pay, p, "rejected", pay[p].a1, pay[p].a2, pay[p].a3, pay[p].booked)
        BY <1>1, <2>1, SetStatus
    <2>3. Fits(p, "rejected", pay[p].a1, pay[p].a2, pay[p].a3, pay[p].booked)
        BY <1>3 DEF Reject, Fits, Inv, SlotsMatchStatus, BookedOnce
    <2>4. \A t \in Supers : fin'[t].locked => fin'[t].p # p
        BY <1>3 DEF Reject, Locked
    <2>5. QED BY <1>1, <2>2, <2>3, <2>4, OneRow
<1>4. CASE CoolOffEnds(p)
    <2>1. IsCool(pay', pay, p) /\ pay[p].hot
        BY <1>4 DEF CoolOffEnds, IsCool
    <2>2. RowIs(pay', pay, p, pay[p].status, pay[p].a1, pay[p].a2, pay[p].a3, pay[p].booked)
        BY <1>1, <2>1, SetCool
    <2>3. \A t \in Supers : fin'[t].locked => fin'[t].p # p
        BY <1>4 DEF CoolOffEnds, Locked
    <2>4. CASE pay[p].status # "none"
        <3>1. Fits(p, pay[p].status, pay[p].a1, pay[p].a2, pay[p].a3, pay[p].booked)
            BY <2>4 DEF Fits, Inv, SlotsMatchStatus, BookedOnce
        <3>2. QED BY <1>1, <2>2, <2>3, <3>1, OneRow
    <2>5. CASE pay[p].status = "none"
        <3>1. \A s \in Supers : fin[s].pc # "idle" => fin[s].p \in Payments /\ fin[s].p # p
            BY <2>5 DEF Inv, TypeInv, HandlersRefer
        <3>2. TypeInv' /\ SlotsMatchStatus' /\ BookedOnce'
            BY <1>1, <2>2, <3>1 DEF RowIs, Inv, TypeInv, HandlersRefer, SlotsMatchStatus, BookedOnce
        <3>3. SeenHolds' /\ Locks'
            BY <2>2, <3>1 DEF RowIs, Inv, SeenHolds, Locks
        <3>4. QED BY <3>2, <3>3 DEF Inv
    <2>6. QED BY <2>4, <2>5
<1>5. QED BY <1>2, <1>3, <1>4

\* Every step keeps the invariant.
LEMMA InvStep == Inv /\ [Next]_vars => Inv'
<1> SUFFICES ASSUME Inv, [Next]_vars PROVE Inv'
    OBVIOUS
<1>1. ASSUME NEW p \in Payments,
             \/ \E a \in Admins \cup Supers, m \in Amounts : Request(a, p, m)
             \/ Reject(p) \/ CoolOffEnds(p)
      PROVE  Inv'
    BY <1>1, RowSteps DEF Request, Reject, CoolOffEnds
<1>2. ASSUME NEW s \in Supers, NEW p \in Payments, ReadRow(s, p) PROVE Inv'
    BY <1>2, Reads
<1>3. ASSUME NEW s \in Supers, Handler(s) PROVE Inv'
    <2>1. CASE RecordFirst(s) \/ RecordSecond(s)
        BY <2>1, Records
    <2>2. CASE TakeThird(s) \/ CheckLimits(s) \/ Claim(s) \/ CallProvider(s) \/ Expire(s)
        BY <2>2, Continues
    <2>3. CASE ThirdRefused(s) \/ Crash(s)
        BY <2>3, Quits DEF ThirdRefused, Crash, Inv, TypeInv
    <2>4. CASE TooFast(s) \/ OverCeiling(s)
        BY <2>4, GivesBack DEF TooFast, OverCeiling
    <2>5. CASE NoProvider(s) \/ HoldName(s) \/ HoldScreening(s) \/ SettlePaid(s) \/ SettleRefused(s)
        <3>1. /\ fin[s].pc \in {"send", "settle"} /\ pay[fin[s].p].status = "approved2"
              /\ \A t \in Supers \ {s} : fin[t].locked => fin[t].p # fin[s].p
            BY <2>5 DEF NoProvider, HoldName, HoldScreening, SettlePaid, SettleRefused, Inv, Locks
        <3>2. \/ Commit(s, "failed", s, 0) \/ Commit(s, "approved2", Nobody, 0)
              \/ Commit(s, "approved2", s, 0) \/ Commit(s, "paid", s, 1)
            BY <2>5 DEF NoProvider, HoldName, HoldScreening, SettlePaid, SettleRefused
        <3>3. QED BY <3>1, <3>2, Commits
    <2>6. CASE OrphanCall(s)
        <3>1. PICK ans \in Answers(fin[s].p) : prov' = [prov EXCEPT ![fin[s].p] = ans.p]
            BY <2>6 DEF OrphanCall
        <3>2. fin[s].p \in Payments
            BY <2>6 DEF OrphanCall, Inv, TypeInv, HandlersRefer
        <3>3. ans.p \in {"none", "accepted", "sent", "failed"}
            BY <3>1, <3>2 DEF Answers, Inv, TypeInv, ProvType
        <3>4. prov' \in ProvType
            BY <3>1, <3>2, <3>3 DEF Inv, TypeInv, ProvType
        <3>5. QED BY <2>6, <3>4, Quits DEF OrphanCall
    <2>7. QED BY <1>3, <2>1, <2>2, <2>3, <2>4, <2>5, <2>6 DEF Handler
<1>4. ASSUME NEW p \in Payments, ProviderSettles(p) PROVE Inv'
    <2>1. prov' \in ProvType /\ UNCHANGED <<pay, fin>>
        BY <1>4 DEF ProviderSettles, Inv, TypeInv, ProvType
    <2>2. QED BY <2>1 DEF Inv, TypeInv, HandlersRefer, SlotsMatchStatus, SeenHolds, Locks, BookedOnce
<1>5. CASE UNCHANGED vars
    BY <1>5 DEF vars, Inv, TypeInv, HandlersRefer, SlotsMatchStatus, SeenHolds, Locks, BookedOnce
<1>6. QED BY <1>1, <1>2, <1>3, <1>4, <1>5 DEF Next

\* The invariant holds before any request.
LEMMA InvInit == Init => Inv
<1> SUFFICES ASSUME Init PROVE Inv
    OBVIOUS
<1>1. \A p \in Payments : pay[p] = NoRow
    BY DEF Init
<1>2. \A s \in Supers : fin[s] = Idle
    BY DEF Init
<1>3. TypeInv
    BY <1>2, FirstRow DEF Init, TypeInv, PayType, FinType, FinRow, ProvType, Idle, HandlersRefer
<1>4. SlotsMatchStatus /\ BookedOnce
    BY <1>1, FirstRow DEF SlotsMatchStatus, BookedOnce
<1>5. SeenHolds /\ Locks
    BY <1>2 DEF SeenHolds, Locks, Idle
<1>6. QED BY <1>3, <1>4, <1>5 DEF Inv

\* The invariant holds in every reachable state.
LEMMA Always == Spec => []Inv
BY InvInit, InvStep, PTL DEF Spec

\* Rows, handlers and the provider's record keep their types.
THEOREM TypeCorrect == Spec => []TypeOK
<1>1. Inv => TypeOK
    BY Types DEF Inv
<1>2. QED BY <1>1, Always, PTL

\* The approval slots and the status of a payment never disagree.
THEOREM SlotsCorrect == Spec => []SlotsMatchStatus
<1>1. Inv => SlotsMatchStatus
    BY DEF Inv
<1>2. QED BY <1>1, Always, PTL

\* Whoever asks the bank is the third of three distinct super admins, none of
\* them the initiator.
THEOREM ThreeApproversAlways == Spec => []ThreeApprovers
<1>1. Inv => ThreeApprovers
    <2> SUFFICES ASSUME Inv, NEW s \in Supers, fin[s].pc \in {"send", "settle", "orphan"}
                 PROVE  LET row == pay[fin[s].p] IN
                        /\ {row.a1, row.a2} \subseteq Supers \ {s}
                        /\ row.a1 # row.a2 /\ row.init \notin {s, row.a1, row.a2}
        BY DEF ThreeApprovers
    <2>1. fin[s].p \in Payments
        BY DEF Inv, TypeInv, HandlersRefer
    <2>2. pay[fin[s].p].a1 \in Slots \ {Nobody, s} /\ pay[fin[s].p].a2 \in Slots \ {Nobody, s}
        BY <2>1, RowFields DEF Inv, SeenHolds
    <2>3. QED BY <2>1, <2>2 DEF Inv, SeenHolds, SlotsMatchStatus, Slots
<1>2. QED BY <1>1, Always, PTL

\* Each paid payment is booked once, any other not at all.
THEOREM BookedOnceAlways == Spec => []BookedOnce
<1>1. Inv => BookedOnce
    BY DEF Inv
<1>2. QED BY <1>1, Always, PTL

\* A commit by the handler that locked the row, or in approved2, leaves decided
\* rows as they are.
LEMMA CommitSpares ==
    ASSUME Inv, NEW q \in Payments, pay[q].status \in {"paid", "failed", "rejected"},
           NEW s \in Supers, NEW st, NEW a3, NEW k, Commit(s, st, a3, k),
           fin[s].locked \/ pay[fin[s].p].status = "approved2"
    PROVE  pay'[q] = pay[q]
<1>1. fin[s].p # q
    BY DEF Inv, Locks
<1>2. pay \in PayType
    BY DEF Inv, TypeInv
<1> HIDE DEF Inv
<1>3. QED BY <1>1, <1>2 DEF Commit, PayType

\* No step touches the row of a decided payment but for its cool-off.
LEMMA StepSpares ==
    ASSUME Inv, [Next]_vars, NEW q \in Payments, pay[q].status \in {"paid", "failed", "rejected"}
    PROVE  pay'[q].status = pay[q].status
<1>1. pay \in PayType
    BY DEF Inv, TypeInv
<1>2. ASSUME NEW a \in Admins \cup Supers, NEW p \in Payments, NEW n \in Amounts, Request(a, p, n)
      PROVE  pay'[q].status = pay[q].status
    BY <1>1, <1>2 DEF Request, PayType
<1>3. ASSUME NEW s \in Supers, Handler(s)
      PROVE  pay'[q].status = pay[q].status
    <2>1. CASE RecordFirst(s) \/ RecordSecond(s)
        BY <1>1, <2>1 DEF RecordFirst, RecordSecond, PayType
    <2>2. CASE TooFast(s) \/ OverCeiling(s)
        BY <2>2, CommitSpares DEF TooFast, OverCeiling, GiveBack
    <2>3. CASE NoProvider(s) \/ HoldName(s) \/ HoldScreening(s) \/ SettlePaid(s) \/ SettleRefused(s)
        <3>1. fin[s].locked
            BY <2>3 DEF NoProvider, HoldName, HoldScreening, SettlePaid, SettleRefused, Inv, Locks
        <3>2. QED BY <2>3, <3>1, CommitSpares
                  DEF NoProvider, HoldName, HoldScreening, SettlePaid, SettleRefused
    <2>4. CASE TakeThird(s) \/ ThirdRefused(s) \/ CheckLimits(s) \/ Claim(s) \/ CallProvider(s)
               \/ Crash(s) \/ Expire(s) \/ OrphanCall(s)
        BY <2>4 DEF TakeThird, ThirdRefused, CheckLimits, Claim, CallProvider, Crash, Expire, OrphanCall
    <2>5. QED BY <1>3, <2>1, <2>2, <2>3, <2>4 DEF Handler
<1>4. ASSUME NEW p \in Payments, Reject(p) \/ CoolOffEnds(p) \/ ProviderSettles(p)
      PROVE  pay'[q].status = pay[q].status
    BY <1>1, <1>4 DEF Reject, CoolOffEnds, ProviderSettles, PayType, PayRow
<1>5. CASE UNCHANGED pay
    BY <1>5
<1>6. ASSUME NEW s \in Supers, NEW p \in Payments, ReadRow(s, p)
      PROVE  pay'[q].status = pay[q].status
    BY <1>6 DEF ReadRow
<1>7. QED BY <1>2, <1>3, <1>4, <1>5, <1>6 DEF Next, vars

\* Paid, failed and rejected payments stay so.
THEOREM DecidedStays == Spec => DecidedIsFinal
<1>1. ASSUME Inv, [Next]_vars
      PROVE  [\A p \in Payments :
                pay[p].status \in {"paid", "failed", "rejected"} => pay'[p].status = pay[p].status]_vars
    BY <1>1, StepSpares
<1>2. QED BY <1>1, Always, PTL DEF Spec, DecidedIsFinal

-----------------------------------------------------------------------------
(* Refunds and remedies *)

\* A handler that may approve has seen a refund that can be approved.
ClerkSaw ==
    \A k \in Clerks :
        /\ refundClerk[k].pc # "idle" => refundClerk[k].r \in Requests
        /\ refundClerk[k].pc = "approve" => refundClerk[k].saw \in {"pending", "failed"}

\* What a desk may be doing with nothing to be paid or marked.
QuietPcs == {"idle", "investigate", "decide", "recommend", "read", "claim", "record", "refused",
             "unsure", "cancel", "cancelled", "reset", "keep"}
DeskRow == [pc : QuietPcs \cup {"pay", "mark"}, r : Requests \cup {NoRecord},
            saw : R!RefundStatus \cup {"unsure"}]
QuietRow == [pc : QuietPcs, r : Requests \cup {NoRecord}, saw : R!RefundStatus \cup {"unsure"}]
DeskType == [Desks -> DeskRow]
CaseType == [status : {"none", "open", "investigating", "decided"},
             remedy : {"null", "applying", "applied", "unconfirmed"}]

OnRefund(d) == desk[d].pc \notin {"idle", "investigate", "decide"}

\* An ombudsman works on a refund of his own, and no two on the same.
DeskRefund ==
    \A d \in Desks : OnRefund(d) =>
        /\ desk[d].r \in Requests
        /\ \A e \in Desks : OnRefund(e) /\ desk[d].r = desk[e].r => d = e

\* What a desk knows of its refund between its statements.
DeskKnows ==
    \A d \in Desks :
        /\ desk[d].pc = "claim" => desk[d].saw \in {"pending", "failed"}
        /\ desk[d].pc \in {"pay", "mark"} => refund[desk[d].r].status = "approved"
        /\ desk[d].pc = "pay" => ~refundBank[desk[d].r].row
        /\ desk[d].pc = "mark" =>
            /\ desk[d].saw \in {"paid", "unsure", "failed"}
            /\ desk[d].saw = "paid" <=> refundBank[desk[d].r].row

\* The provider has taken whatever is in the books.
RowIsSent == \A r \in Requests : refundBank[r].row => refundBank[r].sent

RefundInv ==
    /\ R!TypeOK
    /\ ClerkSaw
    /\ DeskRefund
    /\ DeskKnows
    /\ RowIsSent
    /\ PaidMatchesBooks

(* What a call to the bank can do to a transfer. *)
LEMMA RefundSent ==
    ASSUME NEW t \in R!Transfers, NEW o \in R!SendToBank(t)
    PROVE  /\ o.bank \in R!Transfers
           /\ t.row => o.bank = t
           /\ R!OutcomeStatus(o.answer) \in {"paid", "unsure", "failed"}
           /\ (t.row => t.sent) => (o.bank.row => o.bank.sent)
           /\ ~t.row => (R!OutcomeStatus(o.answer) = "paid" <=> o.bank.row)
<1>1. /\ t.sent \in BOOLEAN /\ t.row \in BOOLEAN
      /\ \A x, y \in BOOLEAN : [sent |-> x, row |-> y] \in R!Transfers
  BY DEF R!Transfers
<1>2. CASE o \in R!Refused(t)
  <2>1. o.bank = t /\ R!OutcomeStatus(o.answer) = "failed"
    BY <1>2 DEF R!Refused, R!OutcomeStatus
  <2> QED BY <1>1, <2>1
<1>3. CASE o \in R!Paid /\ ~t.row
  <2>1. o.bank = [sent |-> TRUE, row |-> TRUE] /\ R!OutcomeStatus(o.answer) = "paid"
    BY <1>3 DEF R!Paid, R!OutcomeStatus
  <2>2. o.bank \in R!Transfers /\ o.bank.row /\ o.bank.sent
    BY <2>1 DEF R!Transfers
  <2> QED BY <1>3, <2>1, <2>2
<1>4. CASE o \in R!Unconfirmed /\ ~t.row
  <2>1. o.bank = [sent |-> TRUE, row |-> FALSE] /\ R!OutcomeStatus(o.answer) = "unsure"
    BY <1>4 DEF R!Unconfirmed, R!OutcomeStatus
  <2>2. o.bank \in R!Transfers /\ ~o.bank.row
    BY <2>1 DEF R!Transfers
  <2> QED BY <1>4, <2>1, <2>2
<1>5. CASE o \in R!AnswerLost /\ ~t.row
  <2>1. o.bank = [sent |-> TRUE, row |-> FALSE] /\ R!OutcomeStatus(o.answer) = "failed"
    BY <1>5 DEF R!AnswerLost, R!OutcomeStatus
  <2>2. o.bank \in R!Transfers /\ ~o.bank.row
    BY <2>1 DEF R!Transfers
  <2> QED BY <1>5, <2>1, <2>2
<1> QED BY <1>1, <1>2, <1>3, <1>4, <1>5 DEF R!SendToBank

(* A rolled back approval may have reached the provider; the books stay as they were. *)
LEMMA RefundRolledBack ==
    ASSUME NEW t \in R!Transfers, NEW b \in R!RolledBack(t)
    PROVE  b \in R!Transfers /\ b.row = t.row /\ (t.sent => b.sent)
<1>1. PICK o \in R!SendToBank(t) : b = [t EXCEPT !.sent = o.bank.sent]
  BY DEF R!RolledBack
<1>2. /\ o.bank.sent \in BOOLEAN
      /\ t.sent => o.bank.sent
  <2>1. o.bank = t \/ o.bank.sent = TRUE
    BY DEF R!SendToBank, R!Refused, R!Paid, R!Unconfirmed, R!AnswerLost
  <2> QED BY <2>1 DEF R!Transfers
<1> QED BY <1>1, <1>2 DEF R!Transfers

RefundRow == [status : R!RefundStatus, unsure : BOOLEAN,
              maker : Admins \cup Officers \cup {R!Ombudsman, Nobody},
              checker : Officers \cup {R!Ombudsman, Nobody}]

RefundType == [Requests -> RefundRow]
RefundBy == Officers \cup {R!Ombudsman, Nobody}

\* One refund is written, and nothing else.
RefundIs(n, w, r, row) == n = [w EXCEPT ![r] = row]

LEMMA RefundSet ==
    ASSUME NEW w \in RefundType, NEW r \in Requests, NEW row \in RefundRow, NEW n,
           RefundIs(n, w, r, row)
    PROVE  /\ n \in RefundType /\ n[r] = row
           /\ \A q \in Requests : q # r => n[q] = w[q]
BY DEF RefundIs, RefundType

(* The outcome of a transfer on the row: paid or failed, with or without the checker. *)
LEMMA MarkedRow ==
    ASSUME NEW w \in RefundRow, NEW o \in {"paid", "unsure", "failed"}, NEW ch \in RefundBy
    PROVE  /\ R!Marked(w, o) \in RefundRow
           /\ [R!Marked(w, o) EXCEPT !.checker = ch] \in RefundRow
           /\ R!Marked(w, o).status = [R!Marked(w, o) EXCEPT !.checker = ch].status
           /\ R!Marked(w, o).status \in {"paid", "failed"}
           /\ R!Marked(w, o).status = "paid" <=> o = "paid"
<1> DEFINE st == IF o = "unsure" THEN "failed" ELSE o
<1>1. st \in R!RefundStatus /\ st \in {"paid", "failed"} /\ (st = "paid" <=> o = "paid")
  BY DEF R!RefundStatus
<1>2. R!Marked(w, o) = [w EXCEPT !.status = st, !.unsure = o = "unsure"]
  BY DEF R!Marked
<1> HIDE DEF st
<1>3. (o = "unsure") \in BOOLEAN OBVIOUS
<1> QED BY <1>1, <1>2, <1>3 DEF RefundRow, RefundBy

(* The status alone of a row, or the status and the checker. *)
LEMMA StatusRow ==
    ASSUME NEW w \in RefundRow, NEW st \in R!RefundStatus, NEW ch \in RefundBy
    PROVE  /\ [w EXCEPT !.status = st] \in RefundRow
           /\ [w EXCEPT !.status = st].status = st
           /\ [w EXCEPT !.status = st, !.checker = ch] \in RefundRow
           /\ [w EXCEPT !.status = st, !.checker = ch].status = st
BY DEF RefundRow, RefundBy

(* RefundInv holds at the start: there is no refund and nobody works. *)
LEMMA RefundInit == ASSUME R!Init PROVE RefundInv
BY DEF R!Init, RefundInv, R!TypeOK, R!NewRefund, QuietPcs, R!IdleClerk, R!IdleDesk, R!RefundStatus,
       R!NoTransfer, R!Transfers, ClerkSaw, DeskRefund, OnRefund, DeskKnows, RowIsSent,
       PaidMatchesBooks, R!PaidMatchesBooks

(* A clerk reads a refund, to approve or to reject it. *)
LEMMA RefundOpen ==
    ASSUME RefundInv, NEW k \in Clerks, NEW s \in Officers, NEW r \in Requests,
           R!ReadApprove(k, s, r) \/ R!ReadReject(k, s, r)
    PROVE  RefundInv'
<1>1. R!TypeOK'
  BY DEF RefundInv, R!TypeOK, R!ReadApprove, R!ReadReject, R!Open
<1>2. ClerkSaw'
  BY DEF RefundInv, ClerkSaw, R!TypeOK, R!ReadApprove, R!ReadReject, R!Open, R!Approvable
<1>3. (DeskRefund /\ DeskKnows /\ RowIsSent /\ PaidMatchesBooks)'
  BY DEF RefundInv, DeskRefund, OnRefund, DeskKnows, RowIsSent, PaidMatchesBooks,
      R!PaidMatchesBooks,
     R!ReadApprove, R!ReadReject, R!Open
<1> QED BY <1>1, <1>2, <1>3 DEF RefundInv

(* The approval claims the refund as it was read, and sends the money. *)
LEMMA RefundApprove ==
    ASSUME RefundInv, NEW k \in Clerks, R!ApproveRefund(k)
    PROVE  RefundInv'
<1> DEFINE r == refundClerk[k].r
<1>1. CASE ~R!Claimed(r, refundClerk[k].saw)
  <2>1. UNCHANGED <<refund, refundBank, case, desk>> /\ refundClerk' = [refundClerk EXCEPT ![k] = R!IdleClerk]
    BY <1>1 DEF R!ApproveRefund, R!Close
  <2> QED
    BY <2>1 DEF RefundInv, R!TypeOK, ClerkSaw, DeskRefund, OnRefund, DeskKnows, RowIsSent,
        PaidMatchesBooks, R!PaidMatchesBooks, R!IdleClerk, R!RefundStatus
<1>2. CASE R!Claimed(r, refundClerk[k].saw) /\ r \in Requests
  <2>1. PICK o \in R!SendToBank(refundBank[r]) :
           /\ refundBank' = [refundBank EXCEPT ![r] = o.bank]
           /\ refund' = [refund EXCEPT ![r] = [R!Marked(@, R!OutcomeStatus(o.answer)) EXCEPT
                                                  !.checker = refundClerk[k].who]]
           /\ UNCHANGED <<case, desk>> /\ refundClerk' = [refundClerk EXCEPT ![k] = R!IdleClerk]
    BY <1>2 DEF R!ApproveRefund, R!Close
  <2>2. refund[r].status \in {"pending", "failed"} /\ refundBank[r] \in R!Transfers /\ ~refundBank[r].row
     BY <1>2 DEF R!ApproveRefund, RefundInv, ClerkSaw, R!Claimed, R!TypeOK, PaidMatchesBooks,
         R!PaidMatchesBooks
  <2>3. /\ o.bank \in R!Transfers
           /\ R!OutcomeStatus(o.answer) \in {"paid", "unsure", "failed"}
           /\ (o.bank.row => o.bank.sent)
           /\ (R!OutcomeStatus(o.answer) = "paid" <=> o.bank.row)
     BY <2>2, RefundSent
  <2> HIDE DEF r
  <2>10. refund \in RefundType /\ refund[r] \in RefundRow /\ refundClerk[k].who \in RefundBy
    BY <1>2 DEF RefundInv, R!TypeOK, RefundRow, RefundType, RefundBy
  <2>12. /\ refund' \in RefundType /\ refund'[r].status \in {"paid", "failed"}
         /\ refund'[r].status = "paid" <=> o.bank.row
         /\ \A q \in Requests : q # r => refund'[q] = refund[q]
    <3> DEFINE row == [R!Marked(refund[r], R!OutcomeStatus(o.answer)) EXCEPT
                         !.checker = refundClerk[k].who]
    <3>1. RefundIs(refund', refund, r, row)
      BY <1>2, <2>1, <2>10 DEF RefundIs, RefundType
    <3>2. row \in RefundRow /\ row.status \in {"paid", "failed"} /\ (row.status = "paid" <=> o.bank.row)
      BY <2>3, <2>10, MarkedRow
    <3> HIDE DEF row
    <3> QED BY <1>2, <2>10, <3>1, <3>2, RefundSet
  <2>4. R!TypeOK'
    BY <1>2, <2>1, <2>3, <2>12
      DEF RefundInv, R!TypeOK, R!RefundStatus, R!IdleClerk, RefundRow, RefundType
  <2>5. ClerkSaw' BY <2>1 DEF RefundInv, ClerkSaw, R!IdleClerk, R!TypeOK
  <2>6. DeskRefund' BY <2>1 DEF RefundInv, DeskRefund, OnRefund
  <2>7. DeskKnows' BY <2>1, <2>2, <2>12 DEF RefundInv, DeskKnows, R!TypeOK, DeskRefund, OnRefund
  <2>8. RowIsSent' BY <2>1, <2>3 DEF RefundInv, RowIsSent, R!TypeOK
  <2>9. PaidMatchesBooks'
    BY <2>1, <2>3, <2>12 DEF RefundInv, PaidMatchesBooks, R!PaidMatchesBooks, R!TypeOK
  <2> QED BY <2>4, <2>5, <2>6, <2>7, <2>8, <2>9 DEF RefundInv
<1>3. r \in Requests BY DEF R!ApproveRefund, RefundInv, ClerkSaw
<1> QED BY <1>1, <1>2, <1>3

(* A refund is made; it is pending. *)
LEMMA RefundNew ==
    ASSUME RefundInv, NEW r \in Requests, NEW who \in Admins \cup Officers \cup {R!Ombudsman},
           R!Create(r, who)
    PROVE  /\ refund' \in RefundType /\ refund[r].status = "none" /\ refund'[r].status = "pending"
           /\ \A q \in Requests : q # r => refund'[q] = refund[q]
<1> DEFINE row == [R!NewRefund EXCEPT !.status = "pending", !.maker = who]
<1>1. row \in RefundRow /\ row.status = "pending"
  BY DEF RefundRow, R!NewRefund, R!RefundStatus
<1>2. refund[r].status = "none" /\ refund' = [refund EXCEPT ![r] = row]
  BY DEF R!Create
<1>3. refund \in RefundType
  BY DEF RefundInv, R!TypeOK, RefundType, RefundRow
<1> HIDE DEF row
<1> QED BY <1>1, <1>2, <1>3 DEF RefundType

(* An admin recommends a refund in the chat. *)
LEMMA RefundRecommend ==
    ASSUME RefundInv, NEW a \in Admins \cup Officers, NEW r \in Requests, R!RecommendRefund(a, r)
    PROVE  RefundInv'
<1>1. /\ refund' \in RefundType /\ refund[r].status = "none" /\ refund'[r].status = "pending"
      /\ \A q \in Requests : q # r => refund'[q] = refund[q]
      /\ UNCHANGED <<refundBank, refundClerk, case, desk>>
  BY RefundNew DEF R!RecommendRefund
<1>2. R!TypeOK' BY <1>1 DEF RefundInv, R!TypeOK, RefundType, RefundRow
<1>3. ClerkSaw' /\ DeskRefund' /\ RowIsSent'
  BY <1>1 DEF RefundInv, ClerkSaw, DeskRefund, OnRefund, RowIsSent
<1>4. DeskKnows'
  BY <1>1 DEF RefundInv, DeskKnows, DeskRefund, OnRefund
<1>5. PaidMatchesBooks'
  BY <1>1 DEF RefundInv, PaidMatchesBooks, R!PaidMatchesBooks
<1> QED BY <1>2, <1>3, <1>4, <1>5 DEF RefundInv

(* An approval ends in an error, perhaps after the call to the provider. *)
LEMMA RefundAbort ==
    ASSUME RefundInv, NEW k \in Clerks, R!ApproveRolledBack(k)
    PROVE  RefundInv'
<1> DEFINE r == refundClerk[k].r
<1>1. r \in Requests /\ refundBank[r] \in R!Transfers /\ refund[r].status \in {"pending", "failed"}
  BY DEF R!ApproveRolledBack, R!Claimed, RefundInv, ClerkSaw, R!TypeOK
<1>2. PICK b \in R!RolledBack(refundBank[r]) : refundBank' = [refundBank EXCEPT ![r] = b]
  BY DEF R!ApproveRolledBack
<1>3. b \in R!Transfers /\ b.row = refundBank[r].row /\ (refundBank[r].sent => b.sent)
  BY <1>1, <1>2, RefundRolledBack
<1>4. UNCHANGED <<refund, case, desk>> /\ refundClerk' = [refundClerk EXCEPT ![k] = R!IdleClerk]
  BY DEF R!ApproveRolledBack, R!Close
<1> HIDE DEF r
<1>5. R!TypeOK'
  BY <1>1, <1>2, <1>3, <1>4 DEF RefundInv, R!TypeOK, R!IdleClerk, R!RefundStatus
<1>6. ClerkSaw' /\ DeskRefund'
  BY <1>4 DEF RefundInv, R!TypeOK, ClerkSaw, DeskRefund, OnRefund, R!IdleClerk
<1>7. \A q \in Requests : refundBank'[q].row = refundBank[q].row
                      /\ (refundBank[q].sent => refundBank'[q].sent)
  BY <1>1, <1>2, <1>3 DEF RefundInv, R!TypeOK
<1>8. DeskKnows' BY <1>4, <1>7 DEF RefundInv, DeskKnows, DeskRefund, OnRefund
<1>9. RowIsSent' /\ PaidMatchesBooks'
  BY <1>4, <1>7 DEF RefundInv, RowIsSent, PaidMatchesBooks, R!PaidMatchesBooks
<1> QED BY <1>5, <1>6, <1>8, <1>9 DEF RefundInv

(* A clerk rejects the refund it has read. *)
LEMMA RefundReject ==
    ASSUME RefundInv, NEW k \in Clerks, R!RejectRefund(k)
    PROVE  RefundInv'
<1> DEFINE r == refundClerk[k].r
<1>1. /\ UNCHANGED <<refundBank, case, desk>> /\ r \in Requests
      /\ refundClerk' = [refundClerk EXCEPT ![k] = R!IdleClerk]
  BY DEF R!RejectRefund, R!Close, RefundInv, ClerkSaw
<1>2. refund' = IF refund[r].status = "pending"
                THEN [refund EXCEPT ![r].status = "rejected"] ELSE refund
  BY DEF R!RejectRefund
<1> HIDE DEF r
<1>3. refund \in RefundType BY DEF RefundInv, R!TypeOK, RefundType, RefundRow
<1>4. /\ refund' \in RefundType
      /\ \A q \in Requests : \/ refund'[q].status = refund[q].status
                             \/ refund[q].status = "pending" /\ refund'[q].status = "rejected"
  <2>1. CASE refund[r].status = "pending"
    <3>1. RefundIs(refund', refund, r, [refund[r] EXCEPT !.status = "rejected"])
      BY <1>1, <1>2, <1>3, <2>1 DEF RefundIs, RefundType
    <3>2. "rejected" \in R!RefundStatus /\ refund[r] \in RefundRow /\ Nobody \in RefundBy
      BY <1>1, <1>3 DEF R!RefundStatus, RefundType, RefundBy
    <3>3. /\ [refund[r] EXCEPT !.status = "rejected"] \in RefundRow
          /\ [refund[r] EXCEPT !.status = "rejected"].status = "rejected"
      BY <3>2, StatusRow
    <3>4. refund' \in RefundType /\ refund'[r] = [refund[r] EXCEPT !.status = "rejected"]
          /\ \A q \in Requests : q # r => refund'[q] = refund[q]
      BY <1>1, <1>3, <3>1, <3>3, RefundSet
    <3> QED BY <2>1, <3>3, <3>4
  <2>2. CASE refund[r].status # "pending"
    BY <1>2, <1>3, <2>2
  <2> QED BY <2>1, <2>2
<1>5. R!TypeOK'
  BY <1>1, <1>4 DEF RefundInv, R!TypeOK, R!IdleClerk, R!RefundStatus, RefundType, RefundRow
<1>6. ClerkSaw' /\ DeskRefund' /\ RowIsSent'
  BY <1>1 DEF RefundInv, R!TypeOK, ClerkSaw, DeskRefund, OnRefund, RowIsSent, R!IdleClerk
<1>7. DeskKnows' BY <1>1, <1>4 DEF RefundInv, DeskKnows, DeskRefund, OnRefund
<1>8. PaidMatchesBooks' BY <1>1, <1>4 DEF RefundInv, PaidMatchesBooks, R!PaidMatchesBooks
<1> QED BY <1>5, <1>6, <1>7, <1>8 DEF RefundInv

(* A desk moves on while refunds and bank stay: to where it knows nothing of its refund,
   or on with the refund it had. *)
LEMMA DeskMoves ==
    ASSUME RefundInv, NEW d \in Desks, UNCHANGED <<refund, refundBank, refundClerk>>,
           case' \in CaseType,
           NEW row \in QuietRow,
           desk' = [desk EXCEPT ![d] = row],
           \/ row.pc \in {"idle", "investigate", "decide"}
           \/ OnRefund(d) /\ row.r = desk[d].r
           \/ row.r \in Requests /\ \A e \in Desks : desk[e].r # row.r,
           row.pc = "claim" => row.saw \in {"pending", "failed"}
    PROVE  RefundInv'
<1>1. R!TypeOK' BY DEF RefundInv, R!TypeOK, QuietRow, QuietPcs, CaseType
<1>2. ClerkSaw' /\ RowIsSent' /\ PaidMatchesBooks'
  BY DEF RefundInv, ClerkSaw, RowIsSent, PaidMatchesBooks, R!PaidMatchesBooks
<1>3. desk'[d] = row /\ \A e \in Desks : e # d => desk'[e] = desk[e]
  BY DEF RefundInv, R!TypeOK
<1>4. DeskRefund' BY <1>3 DEF RefundInv, DeskRefund, OnRefund
<1>5. DeskKnows' BY <1>3 DEF RefundInv, DeskKnows, QuietRow, QuietPcs
<1> QED BY <1>1, <1>2, <1>4, <1>5 DEF RefundInv

(* A desk that ends, at any point but with nothing left to be marked or paid. *)
LEMMA DeskLeaves ==
    ASSUME RefundInv, NEW d \in Desks, UNCHANGED <<refund, refundBank, refundClerk>>,
           case' \in CaseType,
           R!Leave(d)
    PROVE  RefundInv'
<1>1. R!IdleDesk \in QuietRow
  BY DEF R!IdleDesk, R!RefundStatus, QuietRow, QuietPcs
<1>2. R!IdleDesk.pc = "idle"
  BY DEF R!IdleDesk
<1> QED BY <1>1, <1>2, DeskMoves DEF R!Leave

(* A desk goes on to where there is nothing to be paid or marked, with its refund. *)
LEMMA DeskGoes ==
    ASSUME RefundInv, NEW d \in Desks, UNCHANGED <<refund, refundBank, refundClerk, case>>,
           NEW pc \in QuietPcs, pc # "claim", R!Goto(d, pc),
           OnRefund(d) \/ pc \in {"investigate", "decide"}
    PROVE  RefundInv'
<1> DEFINE row == [desk[d] EXCEPT !.pc = pc]
<1>1. desk[d] \in DeskRow /\ desk' = [desk EXCEPT ![d] = row] /\ case' \in CaseType
  BY DEF RefundInv, R!TypeOK, DeskRow, QuietPcs, CaseType, R!Goto
<1>2. row \in QuietRow /\ row.pc = pc /\ row.r = desk[d].r
  BY <1>1 DEF DeskRow, QuietRow
<1> HIDE DEF row
<1> QED BY <1>1, <1>2, DeskMoves

(* A case is read; a remedy is claimed; its refund is read, to be paid or after a
   refusal; a statement throws. *)
LEMMA DeskSteps ==
    ASSUME RefundInv, NEW d \in Desks,
           \/ \E plan \in {"investigate", "decide"} : R!ReadCase(d, plan)
           \/ \E r \in Requests : R!ClaimRemedy(d, r)
           \/ R!ReadRemedy(d) \/ R!ReadRefusal(d) \/ R!RemedyThrows(d)
    PROVE  RefundInv'
<1>1. /\ case \in CaseType /\ desk[d] \in DeskRow
      /\ desk = [e \in Desks |-> desk[e]]
  BY DEF RefundInv, R!TypeOK, DeskRow, QuietPcs, CaseType
<1>2. ASSUME NEW plan \in {"investigate", "decide"}, R!ReadCase(d, plan)
      PROVE  RefundInv'
  <2>1. /\ R!Goto(d, plan) /\ UNCHANGED <<refund, refundBank, refundClerk, case>>
        /\ plan \in QuietPcs /\ plan # "claim"
    BY <1>2 DEF R!ReadCase, R!refundVars, QuietPcs
  <2> QED BY <2>1, DeskGoes
<1>3. ASSUME NEW r \in Requests, R!ClaimRemedy(d, r)
      PROVE  RefundInv'
  <2> DEFINE row == [R!IdleDesk EXCEPT !.pc = "recommend", !.r = r]
  <2>1. /\ desk' = [desk EXCEPT ![d] = row] /\ UNCHANGED <<refund, refundBank, refundClerk>>
        /\ case' = [case EXCEPT !.remedy = "applying"]
        /\ \A e \in Desks : desk[e].r # r
    BY <1>1, <1>3 DEF R!ClaimRemedy, R!refundVars
  <2>2. row \in QuietRow /\ row.pc = "recommend" /\ row.r = r
    BY <1>1 DEF R!IdleDesk, R!RefundStatus, QuietRow, QuietPcs
  <2>3. case' \in CaseType
    BY <1>1, <2>1 DEF CaseType
  <2> HIDE DEF row
  <2> QED BY <2>1, <2>2, <2>3, DeskMoves
<1>4. CASE R!ReadRemedy(d)
  <2> DEFINE row == [desk[d] EXCEPT !.saw = refund[desk[d].r].status,
                            !.pc = IF R!Approvable(desk[d].r) THEN "claim" ELSE "refused"]
  <2>1. /\ desk' = [desk EXCEPT ![d] = row] /\ UNCHANGED <<refund, refundBank, refundClerk, case>>
        /\ desk[d].pc = "read"
    BY <1>1, <1>4 DEF R!ReadRemedy, R!refundVars, R!At
  <2>2. desk[d].r \in Requests /\ OnRefund(d)
    BY <2>1 DEF RefundInv, DeskRefund, OnRefund
  <2>3. row \in QuietRow /\ row.r = desk[d].r /\ (row.pc = "claim" => row.saw \in {"pending", "failed"})
    BY <1>1, <2>2 DEF R!Approvable, RefundInv, R!TypeOK, QuietRow, DeskRow, QuietPcs
  <2> HIDE DEF row
  <2> QED BY <1>1, <2>1, <2>2, <2>3, DeskMoves
<1>5. CASE R!ReadRefusal(d)
  <2> DEFINE pc == IF R!Unsure(desk[d].r) THEN "unsure" ELSE "cancel"
  <2>1. /\ R!Goto(d, pc) /\ UNCHANGED <<refund, refundBank, refundClerk, case>>
        /\ OnRefund(d) /\ pc \in QuietPcs /\ pc # "claim"
    BY <1>5 DEF R!ReadRefusal, R!refundVars, R!At, OnRefund, QuietPcs
  <2> HIDE DEF pc
  <2> QED BY <2>1, DeskGoes
<1>6. CASE R!RemedyThrows(d)
  <2> DEFINE pc == IF desk[d].pc # "recommend" /\ R!MayHavePaid(desk[d].r) THEN "keep" ELSE "reset"
  <2>1. /\ R!Goto(d, pc) /\ UNCHANGED <<refund, refundBank, refundClerk, case>>
        /\ OnRefund(d) /\ pc \in QuietPcs /\ pc # "claim"
    BY <1>6 DEF R!RemedyThrows, R!refundVars, OnRefund, QuietPcs
  <2> HIDE DEF pc
  <2> QED BY <2>1, DeskGoes
<1> QED BY <1>2, <1>3, <1>4, <1>5, <1>6

(* Steps on the case alone, and those with which a desk is done. *)
LEMMA CaseSteps ==
    ASSUME RefundInv,
           \/ R!EscalateCase
           \/ \E d \in Desks : R!Unfreeze(d)
    PROVE  RefundInv'
<1>1. UNCHANGED <<refund, refundBank, refundClerk, desk>> /\ R!TypeOK'
  BY DEF RefundInv, R!TypeOK, R!EscalateCase, R!Unfreeze, R!refundVars
<1> QED BY <1>1 DEF RefundInv, ClerkSaw, DeskRefund, OnRefund, DeskKnows, RowIsSent,
                    PaidMatchesBooks, R!PaidMatchesBooks

(* A case is looked into or decided; a remedy is recorded, freed or kept. *)
LEMMA LastSteps ==
    ASSUME RefundInv, NEW d \in Desks,
           \/ R!InvestigateCase(d) \/ R!DecideCase(d) \/ R!RecordRemedy(d)
           \/ R!ResetRemedy(d) \/ R!KeepClaim(d)
    PROVE  RefundInv'
<1>1. /\ UNCHANGED <<refund, refundBank, refundClerk>> /\ R!Leave(d)
      /\ case' \in CaseType
  BY DEF RefundInv, R!TypeOK, R!InvestigateCase, R!DecideCase, R!RecordRemedy, R!ResetRemedy,
         R!KeepClaim, R!refundVars, CaseType
<1> QED BY <1>1, DeskLeaves

(* A desk's process dies, perhaps in its call to the bank. *)
LEMMA DeskDying ==
    ASSUME RefundInv, NEW d \in Desks, R!DeskDies(d)
    PROVE  RefundInv'
<1> DEFINE r == desk[d].r
<1>1. UNCHANGED <<refund, refundClerk, case>> /\ R!Leave(d)
  BY DEF R!DeskDies
<1>2. CASE UNCHANGED refundBank
  <2>1. case' \in CaseType BY <1>1 DEF RefundInv, R!TypeOK, CaseType
  <2> QED BY <1>1, <1>2, <2>1, DeskLeaves
<1>3. CASE desk[d].pc = "pay"
  <2>1. r \in Requests /\ refundBank[r] \in R!Transfers
    BY <1>3 DEF RefundInv, DeskRefund, OnRefund, R!TypeOK
  <2>2. PICK b \in R!RolledBack(refundBank[r]) : refundBank' = [refundBank EXCEPT ![r] = b]
    BY <1>3 DEF R!DeskDies, R!At
  <2>3. b \in R!Transfers /\ b.row = refundBank[r].row /\ (refundBank[r].sent => b.sent)
    BY <2>1, <2>2, RefundRolledBack
  <2>4. desk' \in DeskType /\ desk'[d] = R!IdleDesk /\ \A e \in Desks : e # d => desk'[e] = desk[e]
    BY <1>1 DEF R!Leave, RefundInv, R!TypeOK, DeskType, DeskRow, QuietPcs, R!IdleDesk, R!RefundStatus
  <2> HIDE DEF r
  <2>5. R!TypeOK'
    BY <1>1, <2>1, <2>2, <2>3, <2>4 DEF RefundInv, R!TypeOK, DeskType, DeskRow, QuietPcs
  <2>6. \A q \in Requests : /\ refundBank'[q].row = refundBank[q].row
                            /\ refundBank[q].sent => refundBank'[q].sent
    BY <2>1, <2>2, <2>3 DEF RefundInv, R!TypeOK
  <2>7. ClerkSaw' /\ RowIsSent' /\ PaidMatchesBooks'
    BY <1>1, <2>6 DEF RefundInv, ClerkSaw, RowIsSent, PaidMatchesBooks, R!PaidMatchesBooks
  <2>8. DeskRefund' BY <2>4 DEF RefundInv, DeskRefund, OnRefund, R!IdleDesk
  <2>9. DeskKnows'
    BY <1>1, <2>4, <2>6 DEF RefundInv, DeskKnows, DeskRefund, OnRefund, R!IdleDesk
  <2> QED BY <2>5, <2>7, <2>8, <2>9 DEF RefundInv
<1> QED BY <1>2, <1>3 DEF R!DeskDies, R!At

(* A statement of a desk on its refund, with the refund's status: the other rows and
   desks stay as they are. *)
LEMMA DeskWrites ==
    ASSUME RefundInv, NEW d \in Desks, OnRefund(d), NEW r, r = desk[d].r,
           UNCHANGED <<refundBank, refundClerk>>, refund' \in RefundType,
           case' \in CaseType,
           \A q \in Requests : q # r => refund'[q] = refund[q],
           NEW pc \in {"read", "pay", "record", "refused", "cancelled"},
           desk'[d].pc = pc, desk' \in DeskType, desk'[d].r = r,
           \A e \in Desks : e # d => desk'[e] = desk[e],
           refundBank[r].row => refund'[r].status \in {"paid", "approved"},
           refund'[r].status = "paid" => refundBank[r].row,
           pc = "pay" => refund'[r].status = "approved" /\ ~refundBank[r].row
    PROVE  RefundInv'
<1>1. R!TypeOK'
  BY DEF RefundInv, R!TypeOK, RefundType, RefundRow, DeskType, DeskRow, QuietPcs, CaseType
<1>2. r \in Requests BY DEF RefundInv, DeskRefund
<1>3. ClerkSaw' /\ RowIsSent' BY DEF RefundInv, ClerkSaw, RowIsSent
<1>4. PaidMatchesBooks'
  BY <1>2 DEF RefundInv, RowIsSent, PaidMatchesBooks, R!PaidMatchesBooks
<1>5. DeskRefund' BY <1>2 DEF RefundInv, DeskRefund, OnRefund
<1>6. DeskKnows'
  <2> SUFFICES ASSUME NEW e \in Desks
      PROVE  /\ desk'[e].pc = "claim" => desk'[e].saw \in {"pending", "failed"}
             /\ desk'[e].pc \in {"pay", "mark"} => refund'[desk'[e].r].status = "approved"
             /\ desk'[e].pc = "pay" => ~refundBank[desk'[e].r].row
             /\ desk'[e].pc = "mark" =>
                  /\ desk'[e].saw \in {"paid", "unsure", "failed"}
                  /\ desk'[e].saw = "paid" <=> refundBank[desk'[e].r].row
    BY DEF DeskKnows
  <2>1. CASE e = d BY <2>1
  <2>2. CASE e # d
    <3>1. desk[e].pc \in {"pay", "mark"} => desk[e].r \in Requests /\ desk[e].r # r
      BY <2>2 DEF RefundInv, DeskRefund, OnRefund
    <3> QED BY <2>2, <3>1 DEF RefundInv, DeskKnows
  <2> QED BY <2>1, <2>2
<1> QED BY <1>1, <1>3, <1>4, <1>5, <1>6 DEF RefundInv

\* Where a desk is: the update of Goto.
GoesTo(n, w, d, pc) == n = [w EXCEPT ![d].pc = pc]

(* A desk goes to its next statement, with the refund it has. *)
LEMMA GoesToSet ==
    ASSUME NEW w \in DeskType, NEW d \in Desks,
           NEW pc \in {"read", "pay", "mark", "record", "refused", "cancelled"}, NEW n,
           GoesTo(n, w, d, pc)
    PROVE  /\ n \in DeskType /\ n[d].pc = pc /\ n[d].r = w[d].r /\ n[d].saw = w[d].saw
           /\ \A e \in Desks : e # d => n[e] = w[e]
BY DEF GoesTo, DeskType, DeskRow, QuietPcs

(* The types of RefundInv, in the form the lemmas above ask for. *)
LEMMA TypesHold ==
    ASSUME RefundInv
    PROVE  /\ refund \in RefundType /\ desk \in DeskType /\ refundBank \in [Requests -> R!Transfers]
           /\ case \in CaseType
BY DEF RefundInv, R!TypeOK, RefundType, RefundRow, DeskType, DeskRow, QuietPcs, CaseType

(* The ombudsman's refund is made. *)
LEMMA RemedyRecommended ==
    ASSUME RefundInv, NEW d \in Desks, R!RecommendRemedy(d)
    PROVE  RefundInv'
<1> DEFINE r == desk[d].r
<1>1. /\ OnRefund(d) /\ r \in Requests /\ UNCHANGED <<refundBank, refundClerk, case>>
      /\ R!Create(r, R!Ombudsman) /\ GoesTo(desk', desk, d, "read")
  BY DEF R!RecommendRemedy, R!At, OnRefund, RefundInv, DeskRefund, R!Goto, GoesTo
<1>2. /\ refund' \in RefundType /\ refund[r].status = "none" /\ refund'[r].status = "pending"
      /\ \A q \in Requests : q # r => refund'[q] = refund[q]
  BY <1>1, RefundNew
<1>3. /\ desk' \in DeskType /\ desk'[d].pc = "read" /\ desk'[d].r = r
      /\ \A e \in Desks : e # d => desk'[e] = desk[e]
  BY <1>1, TypesHold, GoesToSet
<1>4. ~refundBank[r].row BY <1>1, <1>2 DEF RefundInv, PaidMatchesBooks, R!PaidMatchesBooks
<1> HIDE DEF r
<1> QED BY <1>1, <1>2, <1>3, <1>4, TypesHold, DeskWrites DEF r, DeskType

(* The ombudsman's approval claims the refund, if its status still is the one read. *)
LEMMA RemedyClaimed ==
    ASSUME RefundInv, NEW d \in Desks, R!ClaimRefund(d)
    PROVE  RefundInv'
<1> DEFINE r == desk[d].r
<1>1. /\ OnRefund(d) /\ r \in Requests /\ UNCHANGED <<refundBank, refundClerk, case>>
      /\ desk[d].saw \in {"pending", "failed"}
  BY DEF R!ClaimRefund, R!At, OnRefund, RefundInv, DeskRefund, DeskKnows
<1>2. CASE R!Claimed(r, desk[d].saw)
  <2>1. /\ RefundIs(refund', refund, r,
                    [refund[r] EXCEPT !.status = "approved", !.checker = R!Ombudsman])
        /\ GoesTo(desk', desk, d, "pay")
        /\ refund[r].status \in {"pending", "failed"}
    BY <1>1, <1>2, TypesHold DEF R!ClaimRefund, R!Goto, GoesTo, RefundIs, R!Claimed, RefundType
  <2>2. /\ refund' \in RefundType /\ refund'[r].status = "approved"
        /\ \A q \in Requests : q # r => refund'[q] = refund[q]
    <3>1. "approved" \in R!RefundStatus /\ R!Ombudsman \in RefundBy /\ refund[r] \in RefundRow
      BY <1>1, TypesHold DEF R!RefundStatus, RefundBy, RefundType
    <3> DEFINE row == [refund[r] EXCEPT !.status = "approved", !.checker = R!Ombudsman]
    <3>2. row \in RefundRow /\ row.status = "approved" BY <3>1, StatusRow
    <3>3. RefundIs(refund', refund, r, row) BY <2>1
    <3> HIDE DEF row
    <3> QED BY <1>1, <3>2, <3>3, TypesHold, RefundSet
  <2>3. /\ desk' \in DeskType /\ desk'[d].pc = "pay" /\ desk'[d].r = r
        /\ \A e \in Desks : e # d => desk'[e] = desk[e]
    BY <2>1, TypesHold, GoesToSet
  <2>4. ~refundBank[r].row BY <1>1, <2>1 DEF RefundInv, PaidMatchesBooks, R!PaidMatchesBooks
  <2> HIDE DEF r
  <2> QED BY <1>1, <2>2, <2>3, <2>4, TypesHold, DeskWrites DEF r, DeskType
<1>3. CASE ~R!Claimed(r, desk[d].saw)
  <2>1. UNCHANGED refund /\ GoesTo(desk', desk, d, "refused")
    BY <1>3 DEF R!ClaimRefund, R!Goto, GoesTo
  <2>3. /\ desk' \in DeskType /\ desk'[d].pc = "refused" /\ desk'[d].r = r
        /\ \A e \in Desks : e # d => desk'[e] = desk[e]
    BY <2>1, TypesHold, GoesToSet
  <2>4. /\ refundBank[r].row => refund[r].status \in {"paid", "approved"}
        /\ refund[r].status = "paid" => refundBank[r].row
    BY <1>1 DEF RefundInv, PaidMatchesBooks, R!PaidMatchesBooks
  <2> HIDE DEF r
  <2> QED BY <1>1, <2>1, <2>3, <2>4, TypesHold, DeskWrites DEF r, DeskType
<1> QED BY <1>2, <1>3

(* The claimed refund is sent to the provider. *)
LEMMA RemedyPaid ==
    ASSUME RefundInv, NEW d \in Desks, R!PayRemedy(d)
    PROVE  RefundInv'
<1> DEFINE r == desk[d].r
<1>1. /\ OnRefund(d) /\ r \in Requests /\ refundBank[r] \in R!Transfers /\ ~refundBank[r].row
      /\ refund[r].status = "approved" /\ desk[d].pc = "pay"
      /\ UNCHANGED <<refund, refundClerk, case>>
  BY DEF R!PayRemedy, R!At, OnRefund, RefundInv, DeskRefund, DeskKnows, R!TypeOK
<1>2. PICK o \in R!SendToBank(refundBank[r]) :
        /\ refundBank' = [refundBank EXCEPT ![r] = o.bank]
        /\ desk' = [desk EXCEPT ![d].saw = R!OutcomeStatus(o.answer), ![d].pc = "mark"]
  BY DEF R!PayRemedy
<1>3. /\ o.bank \in R!Transfers
      /\ R!OutcomeStatus(o.answer) \in {"paid", "unsure", "failed"}
      /\ o.bank.row => o.bank.sent
      /\ R!OutcomeStatus(o.answer) = "paid" <=> o.bank.row
  BY <1>1, RefundSent
<1> HIDE DEF r
<1>4. /\ refundBank' \in [Requests -> R!Transfers] /\ refundBank'[r] = o.bank
      /\ \A q \in Requests : q # r => refundBank'[q] = refundBank[q]
  BY <1>1, <1>2, <1>3, TypesHold
<1>5. /\ desk' \in DeskType /\ desk'[d].pc = "mark" /\ desk'[d].r = r
      /\ desk'[d].saw = R!OutcomeStatus(o.answer)
      /\ \A e \in Desks : e # d => desk'[e] = desk[e]
  BY <1>2, <1>3, TypesHold DEF DeskType, DeskRow, R!RefundStatus, r
<1>6. R!TypeOK' BY <1>1, <1>4, <1>5 DEF RefundInv, R!TypeOK, DeskType, DeskRow, QuietPcs
<1>7. ClerkSaw' /\ RowIsSent' /\ PaidMatchesBooks'
  BY <1>1, <1>3, <1>4 DEF RefundInv, ClerkSaw, RowIsSent, PaidMatchesBooks, R!PaidMatchesBooks
<1>8. DeskRefund' BY <1>1, <1>5 DEF RefundInv, DeskRefund, OnRefund, r
<1>9. DeskKnows'
  <2> SUFFICES ASSUME NEW e \in Desks
      PROVE  /\ desk'[e].pc = "claim" => desk'[e].saw \in {"pending", "failed"}
             /\ desk'[e].pc \in {"pay", "mark"} => refund[desk'[e].r].status = "approved"
             /\ desk'[e].pc = "pay" => ~refundBank'[desk'[e].r].row
             /\ desk'[e].pc = "mark" =>
                  /\ desk'[e].saw \in {"paid", "unsure", "failed"}
                  /\ desk'[e].saw = "paid" <=> refundBank'[desk'[e].r].row
    BY <1>1 DEF DeskKnows
  <2>1. CASE e = d BY <1>1, <1>3, <1>4, <1>5, <2>1
  <2>2. CASE e # d
    <3>1. desk[e].pc \in {"pay", "mark"} => desk[e].r \in Requests /\ desk[e].r # r
      BY <1>1, <2>2 DEF RefundInv, DeskRefund, OnRefund, r
    <3> QED BY <1>4, <1>5, <2>2, <3>1 DEF RefundInv, DeskKnows
  <2> QED BY <2>1, <2>2
<1> QED BY <1>6, <1>7, <1>8, <1>9 DEF RefundInv

(* The provider's answer is written to the refund, if it still is approved. *)
LEMMA RemedyMarked ==
    ASSUME RefundInv, NEW d \in Desks, R!MarkRemedy(d)
    PROVE  RefundInv'
<1> DEFINE r == desk[d].r
           pc == IF desk[d].saw = "paid" THEN "record" ELSE "refused"
<1>1. /\ OnRefund(d) /\ r \in Requests /\ refund[r].status = "approved"
      /\ UNCHANGED <<refundBank, refundClerk, case>>
      /\ desk[d].saw \in {"paid", "unsure", "failed"}
      /\ desk[d].saw = "paid" <=> refundBank[r].row
  BY DEF R!MarkRemedy, R!At, OnRefund, RefundInv, DeskRefund, DeskKnows
<1>2. RefundIs(refund', refund, r, R!Marked(refund[r], desk[d].saw)) /\ GoesTo(desk', desk, d, pc)
  BY <1>1, TypesHold DEF R!MarkRemedy, R!Goto, GoesTo, RefundIs, RefundType
<1>3. /\ refund' \in RefundType /\ refund'[r].status \in {"paid", "failed"}
      /\ refund'[r].status = "paid" <=> desk[d].saw = "paid"
      /\ \A q \in Requests : q # r => refund'[q] = refund[q]
  <2>1. refund[r] \in RefundRow /\ Nobody \in RefundBy
    BY <1>1, TypesHold DEF RefundType, RefundBy
  <2> DEFINE row == R!Marked(refund[r], desk[d].saw)
  <2>2. row \in RefundRow /\ row.status \in {"paid", "failed"} /\ (row.status = "paid" <=> desk[d].saw = "paid")
    BY <1>1, <2>1, MarkedRow
  <2>3. RefundIs(refund', refund, r, row) BY <1>2
  <2> HIDE DEF row
  <2> QED BY <1>1, <2>2, <2>3, TypesHold, RefundSet
<1>4. pc \in {"record", "refused"} OBVIOUS
<1> HIDE DEF pc
<1>5. /\ desk' \in DeskType /\ desk'[d].pc = pc /\ desk'[d].r = r
      /\ \A e \in Desks : e # d => desk'[e] = desk[e]
  BY <1>2, <1>4, TypesHold, GoesToSet
<1> HIDE DEF r
<1> QED BY <1>1, <1>3, <1>4, <1>5, TypesHold, DeskWrites DEF r, DeskType

(* After a refusal an open refund is cancelled. *)
LEMMA RemedyCancelled ==
    ASSUME RefundInv, NEW d \in Desks, R!CancelRefund(d)
    PROVE  RefundInv'
<1> DEFINE r == desk[d].r
<1>1. /\ OnRefund(d) /\ r \in Requests /\ UNCHANGED <<refundBank, refundClerk, case>>
      /\ GoesTo(desk', desk, d, "cancelled")
  BY DEF R!CancelRefund, R!At, OnRefund, RefundInv, DeskRefund, R!Goto, GoesTo
<1>2. \/ UNCHANGED refund
      \/ /\ refund[r].status \in {"pending", "failed"}
         /\ RefundIs(refund', refund, r, [refund[r] EXCEPT !.status = "rejected"])
  BY <1>1, TypesHold DEF R!CancelRefund, RefundIs, RefundType
<1>3. /\ refund' \in RefundType /\ refund'[r].status \in {refund[r].status, "rejected"}
      /\ refund'[r].status = "rejected" => refund[r].status \in {"pending", "failed", "rejected"}
      /\ \A q \in Requests : q # r => refund'[q] = refund[q]
  <2>1. CASE UNCHANGED refund BY <2>1, TypesHold
  <2>2. CASE /\ refund[r].status \in {"pending", "failed"}
             /\ RefundIs(refund', refund, r, [refund[r] EXCEPT !.status = "rejected"])
    <3>1. "rejected" \in R!RefundStatus /\ Nobody \in RefundBy /\ refund[r] \in RefundRow
      BY <1>1, TypesHold DEF R!RefundStatus, RefundBy, RefundType
    <3> DEFINE row == [refund[r] EXCEPT !.status = "rejected"]
    <3>2. row \in RefundRow /\ row.status = "rejected" BY <3>1, StatusRow
    <3>3. RefundIs(refund', refund, r, row) BY <2>2
    <3> HIDE DEF row
    <3> QED BY <1>1, <2>2, <3>2, <3>3, TypesHold, RefundSet
  <2> QED BY <1>2, <2>1, <2>2
<1>4. /\ desk' \in DeskType /\ desk'[d].pc = "cancelled" /\ desk'[d].r = r
      /\ \A e \in Desks : e # d => desk'[e] = desk[e]
  BY <1>1, TypesHold, GoesToSet
<1>5. /\ refundBank[r].row => refund'[r].status \in {"paid", "approved"}
      /\ refund'[r].status = "paid" => refundBank[r].row
  BY <1>1, <1>3 DEF RefundInv, PaidMatchesBooks, R!PaidMatchesBooks
<1> HIDE DEF r
<1> QED BY <1>1, <1>3, <1>4, <1>5, TypesHold, DeskWrites DEF r, DeskType

(* Every step of the refunds keeps what the refunds rely on. *)
LEMMA RefundStep ==
    ASSUME RefundInv, R!Next
    PROVE  RefundInv'
<1>1. CASE R!EscalateCase \/ \E d \in Desks : R!Unfreeze(d)
  BY <1>1, CaseSteps
<1>2. CASE \E a \in Admins \cup Officers, r \in Requests : R!RecommendRefund(a, r)
  BY <1>2, RefundRecommend
<1>3. CASE \E k \in Clerks, s \in Officers, r \in Requests : R!ReadApprove(k, s, r) \/ R!ReadReject(k, s, r)
  BY <1>3, RefundOpen
<1>4. CASE \E k \in Clerks : R!ApproveRefund(k) \/ R!ApproveRolledBack(k) \/ R!RejectRefund(k)
  BY <1>4, RefundApprove, RefundAbort, RefundReject
<1>5. CASE \E d \in Desks : \/ \E plan \in {"investigate", "decide"} : R!ReadCase(d, plan)
                            \/ \E r \in Requests : R!ClaimRemedy(d, r)
                            \/ R!ReadRemedy(d) \/ R!ReadRefusal(d) \/ R!RemedyThrows(d)
  BY <1>5, DeskSteps
<1>6. CASE \E d \in Desks : \/ R!InvestigateCase(d) \/ R!DecideCase(d) \/ R!RecordRemedy(d)
                            \/ R!ResetRemedy(d) \/ R!KeepClaim(d) \/ R!DeskDies(d)
  BY <1>6, LastSteps, DeskDying
<1>7. CASE \E d \in Desks : R!RecommendRemedy(d) \/ R!ClaimRefund(d)
  BY <1>7, RemedyRecommended, RemedyClaimed
<1>8. CASE \E d \in Desks : R!PayRemedy(d) \/ R!MarkRemedy(d) \/ R!CancelRefund(d)
  BY <1>8, RemedyPaid, RemedyMarked, RemedyCancelled
<1> QED BY <1>1, <1>2, <1>3, <1>4, <1>5, <1>6, <1>7, <1>8 DEF R!Next

(* The other parts leave the refunds alone. *)
LEMMA RefundStutter ==
    ASSUME RefundInv, UNCHANGED refundsVars
    PROVE  RefundInv'
BY DEF refundsVars, RefundInv, R!TypeOK, ClerkSaw, DeskRefund, OnRefund, DeskKnows, RowIsSent,
       PaidMatchesBooks, R!PaidMatchesBooks

(* Refunds. *)
THEOREM RefundsMatchBooks == OfficeSpec => []PaidMatchesBooks
<1>1. OfficeInit => RefundInv BY RefundInit DEF OfficeInit
<1>2. RefundInv /\ [OfficeNext]_officeVars => RefundInv'
  <2> SUFFICES ASSUME RefundInv, [OfficeNext]_officeVars PROVE RefundInv'
    OBVIOUS
  <2>1. CASE R!Next BY <2>1, RefundStep
  <2>2. CASE UNCHANGED refundsVars BY <2>2, RefundStutter
  <2> QED BY <2>1, <2>2 DEF OfficeNext, officeVars
<1>3. RefundInv => PaidMatchesBooks BY DEF RefundInv
<1> QED BY <1>1, <1>2, <1>3, PTL DEF OfficeSpec

-----------------------------------------------------------------------------
(* Manual credits *)

\* A handler at work is one person's, on a credit that somebody has asked for.
CreditHandlers ==
    \A k \in Hands : creditClerk[k].pc # "idle" =>
        /\ creditClerk[k].who \in Supers
        /\ creditClerk[k].c \in Rows
        /\ credit[creditClerk[k].c].status # "none"

\* The initiator is fixed before anybody reads the credit, so that the check made
\* by the read still holds at the commit.
ApproversDiffer ==
    \A k \in Hands : creditClerk[k].pc = "approve" => credit[creditClerk[k].c].initiator # creditClerk[k].who

\* Only an approval credits, and it leaves pending for good.
UndecidedIsUncredited ==
    \A c \in Rows : credit[c].status \in {"none", "pending"} => credited[c] = 0

CreditInv ==
    /\ C!TypeOK
    /\ CreditHandlers
    /\ ApproversDiffer
    /\ UndecidedIsUncredited
    /\ CreditedOnceByTwo

(* CreditInv holds at the start: nothing is asked for. *)
LEMMA CreditInit ==
    ASSUME C!Init
    PROVE  CreditInv
BY DEF C!Init, CreditInv, C!TypeOK, CreditHandlers, ApproversDiffer, UndecidedIsUncredited,
       CreditedOnceByTwo, C!CreditedOnceByTwo, C!NewCredit, C!IdleClerk

(* A request makes a row that nobody works on. *)
LEMMA CreditRequested ==
    ASSUME CreditInv, NEW a \in Supers, NEW m \in Supers, NEW c \in Rows,
           C!RequestManualCredit(a, m, c)
    PROVE  CreditInv'
<1>1. /\ credit[c].status = "none" /\ UNCHANGED <<credited, creditClerk>>
      /\ credit' = [credit EXCEPT ![c] =
            [status |-> "pending", initiator |-> a, member |-> m, approver |-> Nobody]]
  BY DEF C!RequestManualCredit
<1>2. C!TypeOK' BY <1>1 DEF CreditInv, C!TypeOK
<1>3. \A k \in Hands : creditClerk[k].pc # "idle" => creditClerk[k].c # c
  BY <1>1 DEF CreditInv, CreditHandlers
<1>4. CreditHandlers' BY <1>1, <1>3 DEF CreditInv, C!TypeOK, CreditHandlers
<1>5. ApproversDiffer' BY <1>1, <1>3 DEF CreditInv, C!TypeOK, CreditHandlers, ApproversDiffer
<1>6. UndecidedIsUncredited' BY <1>1 DEF CreditInv, C!TypeOK, UndecidedIsUncredited
<1>7. CreditedOnceByTwo'
  <2>1. credited[c] = 0 BY <1>1 DEF CreditInv, UndecidedIsUncredited
  <2> QED BY <1>1, <2>1 DEF CreditInv, C!TypeOK, CreditedOnceByTwo, C!CreditedOnceByTwo
<1> QED BY <1>2, <1>4, <1>5, <1>6, <1>7 DEF CreditInv

(* A read takes up a pending credit; an approver's is not its initiator. *)
LEMMA CreditRead ==
    ASSUME CreditInv, NEW k \in Hands, NEW s \in Supers, NEW c \in Rows,
           NEW pc \in {"approve", "reject"}, C!Open(k, pc, s, c),
           pc = "approve" => credit[c].initiator # s
    PROVE  CreditInv'
<1>1. /\ credit[c].status = "pending" /\ UNCHANGED <<credit, credited>>
      /\ creditClerk' = [creditClerk EXCEPT ![k] = [pc |-> pc, who |-> s, c |-> c]]
  BY DEF C!Open
<1>2. C!TypeOK' BY <1>1 DEF CreditInv, C!TypeOK
<1>3. CreditHandlers' BY <1>1 DEF CreditInv, C!TypeOK, CreditHandlers
<1>4. ApproversDiffer' BY <1>1 DEF CreditInv, C!TypeOK, ApproversDiffer
<1>5. UndecidedIsUncredited' /\ CreditedOnceByTwo'
  BY <1>1 DEF CreditInv, UndecidedIsUncredited, CreditedOnceByTwo, C!CreditedOnceByTwo
<1> QED BY <1>2, <1>3, <1>4, <1>5 DEF CreditInv

(* A handler that ends leaves the other handlers as they are. *)
LEMMA CreditLeft ==
    ASSUME CreditInv, NEW k \in Hands, UNCHANGED <<credit, credited>>,
           creditClerk' = [creditClerk EXCEPT ![k] = C!IdleClerk]
    PROVE  CreditInv'
<1>1. C!TypeOK' BY DEF CreditInv, C!TypeOK, C!IdleClerk
<1>2. CreditHandlers' /\ ApproversDiffer'
  BY DEF CreditInv, C!TypeOK, CreditHandlers, ApproversDiffer, C!IdleClerk
<1>3. UndecidedIsUncredited' /\ CreditedOnceByTwo'
  BY DEF CreditInv, UndecidedIsUncredited, CreditedOnceByTwo, C!CreditedOnceByTwo
<1> QED BY <1>1, <1>2, <1>3 DEF CreditInv

(* An approval credits what nobody has decided yet. *)
LEMMA CreditApproved ==
    ASSUME CreditInv, NEW k \in Hands, C!ApproveManualCredit(k)
    PROVE  CreditInv'
<1> DEFINE c == creditClerk[k].c
           s == creditClerk[k].who
<1>1. /\ c \in Rows /\ s \in Supers /\ credit[c].initiator # s
      /\ creditClerk' = [creditClerk EXCEPT ![k] = C!IdleClerk]
  BY DEF C!ApproveManualCredit, CreditInv, CreditHandlers, ApproversDiffer
<1>2. CASE ~C!StillPending(c)
  BY <1>1, <1>2, CreditLeft DEF C!ApproveManualCredit
<1>3. CASE C!StillPending(c)
  <2>1. /\ credit' = [credit EXCEPT ![c].status = "approved", ![c].approver = s]
        /\ credited' = [credited EXCEPT ![c] = credited[c] + 1]
    BY <1>3 DEF C!ApproveManualCredit
  <2>2. credited[c] = 0 BY <1>1, <1>3 DEF CreditInv, UndecidedIsUncredited, C!StillPending
  <2>3. credited' \in [Rows -> Nat] /\ credited'[c] = 1
        /\ \A d \in Rows : d # c => credited'[d] = credited[d]
    BY <1>1, <2>1, <2>2 DEF CreditInv, C!TypeOK
  <2>4. C!TypeOK' BY <1>1, <2>1, <2>3 DEF CreditInv, C!TypeOK, C!IdleClerk
  <2>5. /\ credit'[c].status = "approved" /\ credit'[c].approver = s
        /\ credit'[c].initiator = credit[c].initiator
        /\ \A d \in Rows : d # c => credit'[d] = credit[d]
    BY <1>1, <2>1 DEF CreditInv, C!TypeOK
  <2>6. /\ \A j \in Hands : creditClerk'[j].pc # "idle" => creditClerk'[j] = creditClerk[j]
    BY <1>1 DEF CreditInv, C!TypeOK, C!IdleClerk
  <2>7. CreditHandlers' /\ ApproversDiffer'
    BY <2>5, <2>6 DEF CreditInv, CreditHandlers, ApproversDiffer
  <2>8. UndecidedIsUncredited' BY <2>3, <2>5 DEF CreditInv, UndecidedIsUncredited
  <2>9. CreditedOnceByTwo'
    BY <1>1, <2>3, <2>5, PayAnyoneAssumption
      DEF CreditInv, CreditedOnceByTwo, C!CreditedOnceByTwo
  <2> QED BY <2>4, <2>7, <2>8, <2>9 DEF CreditInv
<1> QED BY <1>2, <1>3

(* A rejection overwrites the status and nothing else. *)
LEMMA CreditRejected ==
    ASSUME CreditInv, NEW k \in Hands, C!RejectManualCredit(k)
    PROVE  CreditInv'
<1> DEFINE c == creditClerk[k].c
<1>1. /\ c \in Rows /\ UNCHANGED credited
      /\ credit' = [credit EXCEPT ![c].status = "rejected"]
      /\ creditClerk' = [creditClerk EXCEPT ![k] = C!IdleClerk]
  BY DEF C!RejectManualCredit, CreditInv, CreditHandlers
<1>2. C!TypeOK' BY <1>1 DEF CreditInv, C!TypeOK, C!IdleClerk
<1>3. /\ credit'[c].status = "rejected" /\ credit'[c].approver = credit[c].approver
      /\ credit'[c].initiator = credit[c].initiator
      /\ \A d \in Rows : d # c => credit'[d] = credit[d]
  BY <1>1 DEF CreditInv, C!TypeOK
<1>4. \A j \in Hands : creditClerk'[j].pc # "idle" => creditClerk'[j] = creditClerk[j]
  BY <1>1 DEF CreditInv, C!TypeOK, C!IdleClerk
<1>5. CreditHandlers' /\ ApproversDiffer'
  BY <1>3, <1>4 DEF CreditInv, CreditHandlers, ApproversDiffer
<1>6. UndecidedIsUncredited' /\ CreditedOnceByTwo'
  BY <1>1, <1>3 DEF CreditInv, UndecidedIsUncredited, CreditedOnceByTwo, C!CreditedOnceByTwo
<1> QED BY <1>2, <1>5, <1>6 DEF CreditInv

(* Every step of the manual credits keeps it. *)
LEMMA CreditStep ==
    ASSUME CreditInv, C!Next
    PROVE  CreditInv'
<1>1. CASE \E a, m \in Supers, c \in Rows : C!RequestManualCredit(a, m, c)
  BY <1>1, CreditRequested
<1>2. CASE \E k \in Hands, s \in Supers, c \in Rows : C!ReadApprove(k, s, c)
  BY <1>2, CreditRead DEF C!ReadApprove
<1>3. CASE \E k \in Hands, s \in Supers, c \in Rows : C!ReadReject(k, s, c)
  BY <1>3, CreditRead DEF C!ReadReject
<1>4. CASE \E k \in Hands : C!ApproveManualCredit(k)
  BY <1>4, CreditApproved
<1>5. CASE \E k \in Hands : C!RejectManualCredit(k)
  BY <1>5, CreditRejected
<1>6. CASE \E k \in Hands : C!Abandon(k)
  BY <1>6, CreditLeft DEF C!Abandon
<1> QED BY <1>1, <1>2, <1>3, <1>4, <1>5, <1>6 DEF C!Next

(* The other parts leave the manual credits alone. *)
LEMMA CreditStutter ==
    ASSUME CreditInv, UNCHANGED creditsVars
    PROVE  CreditInv'
BY DEF creditsVars, CreditInv, C!TypeOK, CreditHandlers, ApproversDiffer, UndecidedIsUncredited,
       CreditedOnceByTwo, C!CreditedOnceByTwo

-----------------------------------------------------------------------------
(* Death claims *)

ClaimRow == [status : {"none", "awaiting_certificate", "awaiting_validation",
                       "validated", "investigating", "paid", "rejected"},
             family : BOOLEAN, account : BOOLEAN, late : BOOLEAN]
ClaimHandRow == [pc : {"idle", "start", "validate", "approve", "payout", "reject"},
                 who : D!Voters \cup {Nobody}, c : Rows \cup {NoRecord},
                 ready : BOOLEAN, seen : SUBSET D!Voters, debt : 0..Debt0, wallet : 0..Balance0]
ClaimType == [Rows -> ClaimRow]
ClaimHandType == [Hands -> ClaimHandRow]

(* The instance counts as everybody does. *)
LEMMA Counted == \A S : D!Cardinality(S) = Cardinality(S)
BY DEF D!Cardinality, Cardinality

\* What a handler on a claim relies on: the people it saw are still there, and it is
\* not one of them; once it pays, all conditions of a payout hold.
HandRelies(k) ==
    LET h == claimHand[k] IN
    /\ h.pc # "idle" => h.c \in Rows /\ h.who \in D!Voters /\ h.who \notin h.seen
    /\ h.pc = "validate" => h.seen \subseteq valid[h.c]
    /\ h.pc \in {"approve", "payout"} =>
        /\ h.who \in Officers
        /\ h.seen \subseteq appr[h.c]
        /\ h.ready => claim[h.c].family /\ claim[h.c].late
    /\ h.pc = "payout" =>
        /\ h.ready /\ Cardinality(h.seen) + 1 >= 2
        /\ Cardinality(valid[h.c]) >= 2

PeopleFinite == \A c \in Rows : IsFiniteSet(valid[c]) /\ IsFiniteSet(appr[c])

ValidatedByTwo == \A c \in Rows : claim[c].status = "validated" => Cardinality(valid[c]) >= 2

\* The savings are there in full or gone.
WholeSavings ==
    /\ wallet \in {0, Balance0}
    /\ \A k \in Hands : claimHand[k].wallet \in {0, Balance0}

ClaimInv ==
    /\ D!TypeOK
    /\ \A k \in Hands : HandRelies(k)
    /\ PeopleFinite
    /\ ValidatedByTwo
    /\ WholeSavings
    /\ SavingsLeaveOnce

(* ClaimInv holds at the start: no claim is open. *)
LEMMA ClaimInit ==
    ASSUME D!Init PROVE ClaimInv
<1>1. D!TypeOK
  <2>1. claim \in ClaimType BY DEF D!Init, D!NewClaim, ClaimType, ClaimRow
  <2>2. claimBank \in [Rows -> D!Transfers] BY DEF D!Init, D!NoTransfer, D!Transfers
  <2>3. claimHand \in ClaimHandType
    BY DecisionsAssumption DEF D!Init, D!IdleHand, ClaimHandType, ClaimHandRow
  <2>4. dead \in BOOLEAN /\ valid \in [Rows -> SUBSET D!Voters] /\ appr \in [Rows -> SUBSET Officers]
    BY DEF D!Init
  <2>5. paidOut \in [Rows -> 0..Balance0]
    BY DecisionsAssumption DEF D!Init
  <2>6. wallet \in 0..Balance0 /\ debt \in 0..Debt0 /\ fund \in 0..Fund0 /\ writtenOff \in Nat
    BY DecisionsAssumption DEF D!Init
  <2> QED
    BY <2>1, <2>2, <2>3, <2>4, <2>5, <2>6
      DEF D!TypeOK, ClaimType, ClaimHandType, ClaimRow, ClaimHandRow
<1>2. \A k \in Hands : HandRelies(k)
  BY DEF D!Init, HandRelies, D!IdleHand
<1>3. PeopleFinite BY FS_EmptySet DEF D!Init, PeopleFinite
<1>4. ValidatedByTwo /\ WholeSavings
  BY DEF D!Init, ValidatedByTwo, WholeSavings, D!NewClaim, D!IdleHand
<1>5. SavingsLeaveOnce
  BY DEF D!Init, SavingsLeaveOnce, D!SavingsLeaveOnce, D!NoTransfer
<1> QED BY <1>1, <1>2, <1>3, <1>4, <1>5 DEF ClaimInv

(* Two people, one of whom was not among those seen. *)
LEMMA OneMore ==
    ASSUME NEW S, IsFiniteSet(S), NEW seen \in SUBSET S, NEW w, w \notin seen,
           Cardinality(seen) + 1 >= 2
    PROVE  /\ IsFiniteSet(S \cup {w}) /\ Cardinality(S \cup {w}) >= 2
<1>1. IsFiniteSet(seen) /\ Cardinality(seen) \in Nat
  BY FS_Subset, FS_CardinalityType
<1>2. IsFiniteSet(seen \cup {w}) /\ Cardinality(seen \cup {w}) = Cardinality(seen) + 1
  BY <1>1, FS_AddElement
<1>3. IsFiniteSet(S \cup {w}) BY FS_AddElement
<1>4. Cardinality(seen \cup {w}) <= Cardinality(S \cup {w}) /\ Cardinality(S \cup {w}) \in Nat
  BY <1>3, FS_Subset, FS_CardinalityType
<1> QED BY <1>1, <1>2, <1>3, <1>4

(* More people only help. *)
LEMMA StillTwo ==
    ASSUME NEW S, NEW T, IsFiniteSet(T), S \subseteq T, Cardinality(S) >= 2
    PROVE  Cardinality(T) >= 2
<1>1. IsFiniteSet(S) /\ Cardinality(S) <= Cardinality(T) BY FS_Subset
<1>2. Cardinality(S) \in Nat /\ Cardinality(T) \in Nat BY <1>1, FS_CardinalityType
<1> QED BY <1>1, <1>2

(* A step that pays nothing, and takes neither a person nor a condition away. *)
LEMMA ClaimFrame ==
    ASSUME ClaimInv, D!TypeOK', UNCHANGED <<paidOut, wallet>>,
           \A c \in Rows : /\ claimBank'[c].row = claimBank[c].row
                           /\ claim[c].family => claim'[c].family
                           /\ claim[c].late => claim'[c].late
                           /\ valid[c] \subseteq valid'[c] /\ IsFiniteSet(valid'[c])
                           /\ appr[c] \subseteq appr'[c] /\ IsFiniteSet(appr'[c])
                           /\ claim'[c].status = "validated" =>
                                claim[c].status = "validated" \/ Cardinality(valid'[c]) >= 2,
           \A k \in Hands : \/ claimHand'[k] = claimHand[k]
                            \/ HandRelies(k)' /\ claimHand'[k].wallet \in {0, Balance0}
    PROVE  ClaimInv'
<1>1. ASSUME NEW c \in Rows, Cardinality(valid[c]) >= 2 PROVE Cardinality(valid'[c]) >= 2
  BY <1>1, StillTwo
<1>2. ASSUME NEW c \in Rows, Cardinality(appr[c]) >= 2 PROVE Cardinality(appr'[c]) >= 2
  BY <1>2, StillTwo
<1>3. ASSUME NEW k \in Hands PROVE HandRelies(k)'
  BY <1>1, <1>3 DEF ClaimInv, HandRelies
<1>4. PeopleFinite' BY DEF PeopleFinite
<1>5. ValidatedByTwo' BY <1>1 DEF ClaimInv, ValidatedByTwo
<1>6. WholeSavings' BY DEF ClaimInv, WholeSavings
<1>7. SavingsLeaveOnce'
  <2>1. ASSUME NEW c \in Rows, claimBank'[c].row
        PROVE  /\ Cardinality(valid'[c]) >= 2 /\ Cardinality(appr'[c]) >= 2
               /\ claim'[c].family /\ claim'[c].late
               /\ claimBank[c].row /\ paidOut[c] = Balance0 /\ wallet = 0
    <3>1. claimBank[c].row BY <2>1
    <3>2. /\ Cardinality(valid[c]) >= 2 /\ Cardinality(appr[c]) >= 2
          /\ claim[c].family /\ claim[c].late /\ paidOut[c] = Balance0 /\ wallet = 0
      BY <3>1, Counted
        DEF ClaimInv, SavingsLeaveOnce, D!SavingsLeaveOnce, D!RequiredValidations,
                  D!ApprovalsRequired
    <3> QED BY <1>1, <1>2, <3>1, <3>2
  <2>2. \A c, d \in Rows : claimBank[c].row /\ claimBank[d].row => c = d
    BY DEF ClaimInv, SavingsLeaveOnce, D!SavingsLeaveOnce
  <2> QED
    BY <2>1, <2>2, Counted DEF SavingsLeaveOnce, D!SavingsLeaveOnce, D!RequiredValidations,
                            D!ApprovalsRequired
<1> QED BY <1>3, <1>4, <1>5, <1>6, <1>7 DEF ClaimInv

(* The types of ClaimInv, in the form the lemmas ask for. *)
LEMMA ClaimTypes ==
    ASSUME ClaimInv
    PROVE  /\ claim \in ClaimType /\ claimHand \in ClaimHandType
           /\ claimBank \in [Rows -> D!Transfers] /\ PeopleFinite
           /\ valid \in [Rows -> SUBSET D!Voters] /\ appr \in [Rows -> SUBSET Officers]
BY DEF ClaimInv, D!TypeOK, ClaimType, ClaimHandType, ClaimRow, ClaimHandRow

\* A status is set, and nothing else of the row.
ClaimStatusIs(n, w, c, st) == n = [w EXCEPT ![c].status = st]

(* A claim's status is written, and nothing else. *)
LEMMA ClaimStatusSet ==
    ASSUME NEW w \in ClaimType, NEW c \in Rows, NEW n,
           NEW st \in {"none", "awaiting_certificate", "awaiting_validation",
                       "validated", "investigating", "paid", "rejected"},
           ClaimStatusIs(n, w, c, st)
    PROVE  /\ n \in ClaimType /\ n[c].status = st
           /\ \A d \in Rows : n[d].family = w[d].family /\ n[d].late = w[d].late
                              /\ (d # c => n[d] = w[d])
<1> DEFINE row == [w[c] EXCEPT !.status = st]
<1>1. row \in ClaimRow /\ row.status = st /\ row.family = w[c].family /\ row.late = w[c].late
  BY DEF ClaimRow, ClaimType
<1>2. n = [w EXCEPT ![c] = row]
  BY DEF ClaimStatusIs, ClaimType
<1> HIDE DEF row
<1> QED BY <1>1, <1>2 DEF ClaimType

(* A hand at rest. *)
LEMMA IdleHandRow == D!IdleHand \in ClaimHandRow /\ D!IdleHand.pc = "idle" /\ D!IdleHand.wallet = 0
BY DecisionsAssumption DEF D!IdleHand, ClaimHandRow

\* A handler that ends is idle afterwards, and the others go on.
LEMMA ClaimEnded ==
    ASSUME claimHand \in ClaimHandType, NEW k \in Hands, D!End(k)
    PROVE  /\ claimHand' \in ClaimHandType /\ claimHand'[k] = D!IdleHand
           /\ \A j \in Hands : j # k => claimHand'[j] = claimHand[j]
BY IdleHandRow DEF D!End, ClaimHandType

\* A handler that starts is what it was told to be.
LEMMA ClaimBegun ==
    ASSUME claimHand \in ClaimHandType, NEW k \in Hands,
           NEW pc \in {"start", "validate", "approve", "reject"}, NEW who \in D!Voters,
           NEW c \in Rows, NEW ready \in BOOLEAN, NEW seen \in SUBSET D!Voters,
           D!Begin(k, pc, who, c, ready, seen)
    PROVE  /\ claimHand' \in ClaimHandType
           /\ \A j \in Hands : j # k => claimHand'[j] = claimHand[j]
           /\ claimHand'[k].pc = pc /\ claimHand'[k].who = who /\ claimHand'[k].c = c
           /\ claimHand'[k].seen = seen /\ (claimHand'[k].ready <=> ready)
           /\ claimHand'[k].wallet = 0
<1> DEFINE row == [D!IdleHand EXCEPT !.pc = pc, !.who = who, !.c = c, !.ready = ready, !.seen = seen]
<1>1. /\ row.pc = pc /\ row.who = who /\ row.c = c /\ row.seen = seen
      /\ (row.ready <=> ready) /\ row.debt = 0 /\ row.wallet = 0
  BY DEF D!IdleHand
<1>2. row \in [pc : {pc}, who : {who}, c : {c}, ready : BOOLEAN, seen : {seen}, debt : {0}, wallet : {0}]
  BY DEF D!IdleHand
<1>3. claimHand' = [claimHand EXCEPT ![k] = row]
  BY DEF D!Begin
<1> HIDE DEF row
<1>4. row \in ClaimHandRow
  BY <1>2, DecisionsAssumption DEF ClaimHandRow
<1>5. claimHand' \in ClaimHandType /\ claimHand'[k] = row
      /\ \A j \in Hands : j # k => claimHand'[j] = claimHand[j]
  BY <1>3, <1>4 DEF ClaimHandType
<1> QED BY <1>1, <1>5

(* A step that only changes claims and ends a handler, if it changes one. *)
LEMMA ClaimWrites ==
    ASSUME ClaimInv, claim' \in ClaimType, dead' \in BOOLEAN,
           UNCHANGED <<valid, appr, D!rest>>,
           \A c \in Rows : /\ claim[c].family => claim'[c].family
                           /\ claim[c].late => claim'[c].late
                           /\ claim'[c].status = "validated" => claim[c].status = "validated",
           UNCHANGED claimHand \/ \E k \in Hands : D!End(k)
    PROVE  ClaimInv'
<1>1. /\ claimHand' \in ClaimHandType
      /\ \A k \in Hands : claimHand'[k] = claimHand[k] \/ claimHand'[k] = D!IdleHand
  <2>1. CASE UNCHANGED claimHand BY <2>1, ClaimTypes
  <2>2. ASSUME NEW k \in Hands, D!End(k)
        PROVE  /\ claimHand' \in ClaimHandType
               /\ \A j \in Hands : claimHand'[j] = claimHand[j] \/ claimHand'[j] = D!IdleHand
     BY <2>2, ClaimTypes, ClaimEnded
  <2> QED BY <2>1, <2>2
<1>2. D!TypeOK'
  BY <1>1 DEF ClaimInv, D!TypeOK, D!rest, ClaimType, ClaimHandType, ClaimRow, ClaimHandRow
<1>3. ASSUME NEW k \in Hands, claimHand'[k] = D!IdleHand
      PROVE  HandRelies(k)' /\ claimHand'[k].wallet \in {0, Balance0}
  BY <1>3, IdleHandRow DEF HandRelies
<1> QED BY <1>1, <1>2, <1>3, ClaimTypes, ClaimFrame DEF D!rest, PeopleFinite

(* Filling in a claim: certificate, family, account, waiting period. *)
LEMMA ClaimFilled ==
    ASSUME ClaimInv, NEW c \in Rows,
           D!SubmitCertificate(c) \/ D!ConfirmFamily(c) \/ D!SetClaimBank(c) \/ D!WaitingPeriodEnds(c)
    PROVE  ClaimInv'
<1>1. UNCHANGED <<dead, valid, appr, D!rest, claimHand>> /\ dead \in BOOLEAN
  BY DEF D!SubmitCertificate, D!ConfirmFamily, D!SetClaimBank, D!WaitingPeriodEnds, ClaimInv,
      D!TypeOK
<1>2. CASE D!SubmitCertificate(c)
  <2>1. ClaimStatusIs(claim', claim, c, "awaiting_validation")
    BY <1>2 DEF D!SubmitCertificate, ClaimStatusIs
  <2>2. /\ claim' \in ClaimType /\ claim'[c].status = "awaiting_validation"
        /\ \A d \in Rows : claim'[d].family = claim[d].family /\ claim'[d].late = claim[d].late
                           /\ (d # c => claim'[d] = claim[d])
    BY <2>1, ClaimTypes, ClaimStatusSet
  <2> QED BY <1>1, <2>2, ClaimWrites
<1>3. CASE D!ConfirmFamily(c) \/ D!SetClaimBank(c) \/ D!WaitingPeriodEnds(c)
  <2> DEFINE row == IF D!ConfirmFamily(c) THEN [claim[c] EXCEPT !.family = TRUE]
                    ELSE IF D!SetClaimBank(c) THEN [claim[c] EXCEPT !.account = TRUE]
                    ELSE [claim[c] EXCEPT !.late = TRUE]
  <2>1. claim' = [claim EXCEPT ![c] = row]
    BY <1>3 DEF D!ConfirmFamily, D!SetClaimBank, D!WaitingPeriodEnds
  <2>2. claim[c] \in ClaimRow BY ClaimTypes DEF ClaimType
  <2>3. /\ row \in ClaimRow /\ row.status = claim[c].status
        /\ claim[c].family => row.family
        /\ claim[c].late => row.late
    BY <2>2 DEF ClaimRow
  <2> HIDE DEF row
  <2>4. /\ claim' \in ClaimType /\ claim'[c] = row
        /\ \A d \in Rows : d # c => claim'[d] = claim[d]
    BY <2>1, <2>3, ClaimTypes DEF ClaimType
  <2> QED BY <1>1, <2>3, <2>4, ClaimWrites
<1> QED BY <1>2, <1>3

(* Opening and rejecting overwrite the status. *)
LEMMA ClaimOverwritten ==
    ASSUME ClaimInv, NEW k \in Hands, D!StartDeathClaim(k) \/ D!RejectClaim(k)
    PROVE  ClaimInv'
<1> DEFINE c == claimHand[k].c
<1>1. /\ c \in Rows /\ UNCHANGED <<valid, appr, D!rest>> /\ dead' \in BOOLEAN /\ D!End(k)
      /\ \/ ClaimStatusIs(claim', claim, c, "awaiting_certificate")
         \/ ClaimStatusIs(claim', claim, c, "rejected")
  BY DEF D!StartDeathClaim, D!RejectClaim, D!SetStatus, ClaimStatusIs, ClaimInv, HandRelies,
      D!TypeOK
<1>2. /\ claim' \in ClaimType /\ claim'[c].status \in {"awaiting_certificate", "rejected"}
      /\ \A d \in Rows : claim'[d].family = claim[d].family /\ claim'[d].late = claim[d].late
                         /\ (d # c => claim'[d] = claim[d])
  BY <1>1, ClaimTypes, ClaimStatusSet
<1> HIDE DEF c
<1> QED BY <1>1, <1>2, ClaimWrites

(* A handler reads: what it saw is what is there. *)
LEMMA ClaimBegin ==
    ASSUME ClaimInv, NEW k \in Hands, NEW pc \in {"start", "validate", "approve", "reject"},
           NEW who \in D!Voters, NEW c \in Rows, NEW ready \in BOOLEAN, NEW seen \in SUBSET D!Voters,
           who \notin seen, D!Begin(k, pc, who, c, ready, seen),
           UNCHANGED <<dead, claim, valid, appr, D!rest>>,
           pc = "validate" => seen \subseteq valid[c],
           pc = "approve" => /\ who \in Officers /\ seen \subseteq appr[c]
                             /\ ready => claim[c].family /\ claim[c].late
    PROVE  ClaimInv'
<1>1. /\ claimHand' \in ClaimHandType
      /\ \A j \in Hands : j # k => claimHand'[j] = claimHand[j]
      /\ claimHand'[k].pc = pc /\ claimHand'[k].who = who /\ claimHand'[k].c = c
      /\ claimHand'[k].seen = seen /\ (claimHand'[k].ready <=> ready)
      /\ claimHand'[k].wallet = 0
  BY ClaimTypes, ClaimBegun
<1>2. D!TypeOK'
  BY <1>1 DEF ClaimInv, D!TypeOK, D!rest, ClaimHandType, ClaimHandRow
<1>3. HandRelies(k)' /\ claimHand'[k].wallet \in {0, Balance0}
  BY <1>1 DEF HandRelies
<1> QED BY <1>1, <1>2, <1>3, ClaimTypes, ClaimFrame DEF D!rest, PeopleFinite

(* A hand reads a claim, and keeps what it saw for its next statement. *)
LEMMA ClaimReads ==
    ASSUME ClaimInv, NEW k \in Hands, NEW c \in Rows,
           \/ \E s \in Officers : D!ReadStart(k, s, c)
           \/ \E m \in D!Voters : D!ReadValidate(k, m, c)
           \/ \E s \in Officers : D!ReadApprove(k, s, c)
           \/ \E s \in Officers : D!ReadReject(k, s, c)
    PROVE  ClaimInv'
<1>1. Officers \subseteq D!Voters /\ {} \in SUBSET D!Voters /\ FALSE \in BOOLEAN BY DEF D!Voters
<1>2. ASSUME NEW s \in Officers, D!ReadStart(k, s, c) PROVE ClaimInv'
  <2>1. s \in D!Voters /\ s \notin {} BY <1>1
  <2>2. D!Begin(k, "start", s, c, FALSE, {}) /\ UNCHANGED <<dead, claim, valid, appr, D!rest>>
    BY <1>2 DEF D!ReadStart
  <2> QED BY <1>1, <2>1, <2>2, ClaimBegin
<1>3. ASSUME NEW m \in D!Voters, D!ReadValidate(k, m, c) PROVE ClaimInv'
  BY <1>1, <1>3, ClaimTypes, ClaimBegin DEF D!ReadValidate
<1>4. ASSUME NEW s \in Officers, D!ReadApprove(k, s, c) PROVE ClaimInv'
  <2>1. appr[c] \in SUBSET D!Voters BY <1>1, ClaimTypes
  <2>2. claim[c].family \in BOOLEAN /\ claim[c].late \in BOOLEAN
    BY ClaimTypes DEF ClaimType, ClaimRow
  <2>3. (claim[c].family /\ claim[c].late) \in BOOLEAN BY <2>2
  <2> QED BY <1>1, <1>4, <2>1, <2>2, <2>3, ClaimBegin DEF D!ReadApprove
<1>5. ASSUME NEW s \in Officers, D!ReadReject(k, s, c) PROVE ClaimInv'
  <2>1. s \in D!Voters /\ s \notin {} BY <1>1
  <2>2. D!Begin(k, "reject", s, c, FALSE, {}) /\ UNCHANGED <<dead, claim, valid, appr, D!rest>>
    BY <1>5 DEF D!ReadReject
  <2> QED BY <1>1, <2>1, <2>2, ClaimBegin
<1> QED BY <1>2, <1>3, <1>4, <1>5

(* A step of handler k that may also insert a person into valid or appr of the
   claim it works on, and set that claim's status. *)
LEMMA ClaimHandFrame ==
    ASSUME ClaimInv, NEW k \in Hands, D!End(k), claim' \in ClaimType,
           UNCHANGED <<dead, D!rest>>,
           valid' \in [Rows -> SUBSET D!Voters], appr' \in [Rows -> SUBSET Officers],
           \A c \in Rows : /\ claim'[c].family = claim[c].family
                           /\ claim'[c].late = claim[c].late
                           /\ valid[c] \subseteq valid'[c] /\ IsFiniteSet(valid'[c])
                           /\ appr[c] \subseteq appr'[c] /\ IsFiniteSet(appr'[c])
                           /\ claim'[c].status = "validated" =>
                                claim[c].status = "validated" \/ Cardinality(valid'[c]) >= 2
    PROVE  ClaimInv'
<1>1. /\ claimHand' \in ClaimHandType /\ claimHand'[k] = D!IdleHand
      /\ \A j \in Hands : j # k => claimHand'[j] = claimHand[j]
  BY ClaimTypes, ClaimEnded
<1>2. D!TypeOK'
  BY <1>1 DEF ClaimInv, D!TypeOK, D!rest, ClaimType, ClaimHandType, ClaimRow, ClaimHandRow
<1>3. HandRelies(k)' /\ claimHand'[k].wallet \in {0, Balance0}
  BY <1>1, IdleHandRow DEF HandRelies
<1>4. \A j \in Hands : \/ claimHand'[j] = claimHand[j]
                       \/ HandRelies(j)' /\ claimHand'[j].wallet \in {0, Balance0}
  BY <1>1, <1>3
<1>5. UNCHANGED <<paidOut, wallet, claimBank>> BY DEF D!rest
<1> QED BY <1>2, <1>4, <1>5, ClaimFrame

(* A voter is added; the second one validates the claim. *)
LEMMA ClaimValidates ==
    ASSUME ClaimInv, NEW k \in Hands, D!ValidateClaim(k)
    PROVE  ClaimInv'
<1> DEFINE c == claimHand[k].c
           p == claimHand[k].who
           seen == claimHand[k].seen
<1>1. /\ c \in Rows /\ p \in D!Voters /\ p \notin seen /\ seen \in SUBSET valid[c]
  BY DEF ClaimInv, HandRelies, D!ValidateClaim
<1>2. valid' = [valid EXCEPT ![c] = @ \cup {p}] /\ D!End(k) /\ UNCHANGED <<dead, appr, D!rest>>
  BY DEF D!ValidateClaim
<1>3. claim' = claim \/ (Cardinality(seen) + 1 >= 2 /\ ClaimStatusIs(claim', claim, c, "validated"))
  BY Counted DEF D!ValidateClaim, ClaimStatusIs, D!RequiredValidations
<1> HIDE DEF c, p, seen
<1>4. /\ valid' \in [Rows -> SUBSET D!Voters] /\ valid'[c] = valid[c] \cup {p}
      /\ \A d \in Rows : valid[d] \subseteq valid'[d] /\ IsFiniteSet(valid'[d])
  <2>1. valid \in [Rows -> SUBSET D!Voters] /\ \A d \in Rows : IsFiniteSet(valid[d])
    BY ClaimTypes DEF PeopleFinite
  <2>2. /\ valid' \in [Rows -> SUBSET D!Voters] /\ valid'[c] = valid[c] \cup {p}
        /\ \A d \in Rows : d # c => valid'[d] = valid[d]
    BY <1>1, <1>2, <2>1
  <2>3. IsFiniteSet(valid'[c]) BY <1>1, <2>1, <2>2, FS_AddElement
  <2> QED BY <2>1, <2>2, <2>3
<1>5. /\ appr' \in [Rows -> SUBSET Officers]
      /\ \A d \in Rows : appr[d] \subseteq appr'[d] /\ IsFiniteSet(appr'[d])
  BY <1>2, ClaimTypes DEF PeopleFinite
<1>6. CASE claim' = claim
  BY <1>2, <1>4, <1>5, <1>6, ClaimTypes, ClaimHandFrame
<1>7. CASE Cardinality(seen) + 1 >= 2 /\ ClaimStatusIs(claim', claim, c, "validated")
  <2>1. Cardinality(valid'[c]) >= 2
    BY <1>1, <1>4, <1>7, ClaimTypes, OneMore DEF PeopleFinite
  <2>2. /\ claim' \in ClaimType
        /\ \A d \in Rows : claim'[d].family = claim[d].family /\ claim'[d].late = claim[d].late
                           /\ (d # c => claim'[d] = claim[d])
    BY <1>1, <1>7, ClaimTypes, ClaimStatusSet
  <2> QED BY <1>1, <1>2, <1>4, <1>5, <2>1, <2>2, ClaimHandFrame
<1> QED BY <1>3, <1>6, <1>7

(* An approval is added while the claim stays as it is. *)
LEMMA ClaimRecords ==
    ASSUME ClaimInv, NEW k \in Hands, D!RecordApproval(k)
    PROVE  ClaimInv'
<1> DEFINE c == claimHand[k].c
           p == claimHand[k].who
<1>1. c \in Rows /\ p \in Officers
  BY DEF ClaimInv, HandRelies, D!RecordApproval
<1>2. appr' = [appr EXCEPT ![c] = @ \cup {p}] /\ D!End(k) /\ UNCHANGED <<dead, claim, valid, D!rest>>
  BY DEF D!RecordApproval, D!Approval
<1> HIDE DEF c, p
<1>3. /\ appr' \in [Rows -> SUBSET Officers]
      /\ \A d \in Rows : appr[d] \subseteq appr'[d] /\ IsFiniteSet(appr'[d])
  <2>1. appr \in [Rows -> SUBSET Officers] /\ \A d \in Rows : IsFiniteSet(appr[d])
    BY ClaimTypes DEF PeopleFinite
  <2>2. /\ appr' \in [Rows -> SUBSET Officers] /\ appr'[c] = appr[c] \cup {p}
        /\ \A d \in Rows : d # c => appr'[d] = appr[d]
    BY <1>1, <1>2, <2>1
  <2>3. IsFiniteSet(appr'[c]) BY <1>1, <2>1, <2>2, FS_AddElement
  <2> QED BY <2>1, <2>2, <2>3
<1>4. /\ valid' \in [Rows -> SUBSET D!Voters]
      /\ \A d \in Rows : valid[d] \subseteq valid'[d] /\ IsFiniteSet(valid'[d])
  BY <1>2, ClaimTypes DEF PeopleFinite
<1> QED BY <1>2, <1>3, <1>4, ClaimTypes, ClaimHandFrame

(* The claim is taken: all conditions hold of the committed rows. *)
LEMMA ClaimTaken ==
    ASSUME ClaimInv, NEW k \in Hands, D!ClaimPayout(k)
    PROVE  ClaimInv'
<1> DEFINE row == [claimHand[k] EXCEPT !.pc = "payout", !.debt = debt, !.wallet = wallet]
<1>1. /\ claimHand' = [claimHand EXCEPT ![k] = row]
      /\ claimHand[k].pc = "approve" /\ claimHand[k].ready
      /\ Cardinality(claimHand[k].seen) + 1 >= 2
      /\ claim[claimHand[k].c].status = "validated"
      /\ UNCHANGED <<dead, claim, valid, appr, D!rest>>
  BY Counted, ClaimTypes
    DEF D!ClaimPayout, D!ConditionsMet, D!ApprovalsRequired, ClaimHandType, ClaimHandRow
<1>2. claimHand[k] \in ClaimHandRow BY ClaimTypes DEF ClaimHandType
<1>3. debt \in 0..Debt0 /\ wallet \in 0..Balance0 /\ wallet \in {0, Balance0}
  BY DEF ClaimInv, D!TypeOK, WholeSavings
<1>4. /\ row \in ClaimHandRow /\ row.pc = "payout" /\ row.wallet = wallet
      /\ row.who = claimHand[k].who /\ row.c = claimHand[k].c
      /\ (row.ready <=> claimHand[k].ready) /\ row.seen = claimHand[k].seen
  BY <1>2, <1>3 DEF ClaimHandRow
<1> HIDE DEF row
<1>5. /\ claimHand' \in ClaimHandType /\ claimHand'[k] = row
      /\ \A j \in Hands : j # k => claimHand'[j] = claimHand[j]
  BY <1>1, <1>4, ClaimTypes DEF ClaimHandType
<1>6. D!TypeOK'
  BY <1>1, <1>5 DEF ClaimInv, D!TypeOK, D!rest, ClaimHandType, ClaimHandRow
<1>7. HandRelies(k)
  BY DEF ClaimInv
<1>8. Cardinality(valid[claimHand[k].c]) >= 2
  BY <1>1, <1>7 DEF ClaimInv, ValidatedByTwo, HandRelies
<1>9. HandRelies(k)'
  BY <1>1, <1>4, <1>5, <1>7, <1>8 DEF HandRelies
<1>10. claimHand'[k].wallet \in {0, Balance0}
  BY <1>3, <1>4, <1>5
<1> QED BY <1>1, <1>5, <1>6, <1>9, <1>10, ClaimTypes, ClaimFrame DEF D!rest, PeopleFinite

\* What a payout relies on, in one place.
LEMMA PayoutMet ==
    ASSUME ClaimInv, NEW k \in Hands, claimHand[k].pc = "payout"
    PROVE  LET c == claimHand[k].c IN
           /\ c \in Rows /\ claimHand[k].who \in Officers
           /\ claimHand[k].who \notin claimHand[k].seen
           /\ claimHand[k].seen \in SUBSET appr[c] /\ Cardinality(claimHand[k].seen) + 1 >= 2
           /\ Cardinality(valid[c]) >= 2 /\ claim[c].family /\ claim[c].late
BY DEF ClaimInv, HandRelies

(* The write-off leaves debt, fund and journal within their types. *)
LEMMA WriteOffTypes ==
    ASSUME ClaimInv, NEW k \in Hands, D!WriteOff(k)
    PROVE  debt' \in 0..Debt0 /\ fund' \in 0..Fund0 /\ writtenOff' \in Nat
<1>1. /\ debt \in 0..Debt0 /\ fund \in 0..Fund0 /\ writtenOff \in Nat
      /\ claimHand[k].debt \in 0..Debt0
  BY DEF ClaimInv, D!TypeOK
<1>2. Debt0 \in Nat /\ Fund0 \in Nat
  BY DecisionsAssumption
<1>3. debt' \in 0..Debt0
  <2>1. debt' = IF claimHand[k].debt > 0 THEN 0 ELSE debt
    BY DEF D!WriteOff
  <2> QED BY <1>1, <1>2, <2>1
<1>4. fund' \in 0..Fund0
  <2>1. fund' = fund - (IF claimHand[k].debt <= fund THEN claimHand[k].debt ELSE fund)
    BY DEF D!WriteOff, D!FromFund
  <2> DEFINE seen == claimHand[k].debt
  <2>2. seen \in Nat /\ fund' = fund - (IF seen <= fund THEN seen ELSE fund)
    BY <1>1, <1>2, <2>1
  <2> HIDE DEF seen
  <2> QED BY <1>1, <1>2, <2>2
<1>5. writtenOff' \in Nat
  BY <1>1, <1>2 DEF D!WriteOff
<1> QED BY <1>3, <1>4, <1>5

(* A hand sees all of the savings or none; so does the wallet. *)
LEMMA SavingsWhole ==
    ASSUME ClaimInv, NEW k \in Hands
    PROVE  D!Savings(k) \in {0, Balance0} /\ wallet \in {0, Balance0}
BY DEF ClaimInv, WholeSavings, D!Savings

\* What the bank may answer: a row is written by a success only.
LEMMA ClaimSent ==
    ASSUME NEW t \in D!Transfers, NEW o \in D!SendToBank(t)
    PROVE  /\ o.bank \in D!Transfers
           /\ o.answer # "successful" => o.bank.row = t.row
<1>1. \A x, y \in BOOLEAN : [sent |-> x, row |-> y] \in D!Transfers
  BY DEF D!Transfers
<1>2. CASE o \in D!Refused(t)
  <2>1. o.bank = t BY <1>2 DEF D!Refused
  <2> QED BY <2>1
<1>3. CASE o \in D!Paid
  <2>1. o.bank = [sent |-> TRUE, row |-> TRUE] /\ o.answer = "successful"
    BY <1>3 DEF D!Paid
  <2> QED BY <1>1, <2>1
<1>4. CASE ~t.row /\ o \in D!Unconfirmed \cup D!AnswerLost
  <2>1. o.bank = [sent |-> TRUE, row |-> FALSE]
    <3>1. CASE o \in D!Unconfirmed BY <3>1 DEF D!Unconfirmed
    <3>2. CASE o \in D!AnswerLost BY <3>2 DEF D!AnswerLost
    <3> QED BY <1>4, <3>1, <3>2
  <2>2. t.row \in BOOLEAN BY DEF D!Transfers
  <2>3. t.row = FALSE BY <1>4, <2>2
  <2>4. o.bank.row = FALSE BY <2>1
  <2> QED BY <1>1, <2>1, <2>3, <2>4
<1> QED BY <1>2, <1>3, <1>4 DEF D!SendToBank

(* A rolled back payout may have reached the bank; the books stay as they were. *)
LEMMA ClaimRolledBack ==
    ASSUME NEW t \in D!Transfers, NEW b \in D!RolledBack(t)
    PROVE  b \in D!Transfers /\ b.row = t.row
<1>1. PICK o \in D!SendToBank(t) : b = [t EXCEPT !.sent = o.bank.sent]
  BY DEF D!RolledBack
<1>2. o.bank.sent \in BOOLEAN
  BY ClaimSent DEF D!Transfers
<1> QED BY <1>1, <1>2 DEF D!Transfers

(* What may become of a claim's transfer, its row and the wallet in a payout:
   nothing of it, the debit alone, or all of it. *)
LEMMA PayoutMoves ==
    ASSUME ClaimInv, NEW k \in Hands, NEW c, c = claimHand[k].c, c \in Rows,
           D!CloseEmpty(k) \/ D!BalanceChanged(k) \/ D!SendSavings(k)
    PROVE  /\ claimBank' \in [Rows -> D!Transfers]
           /\ \A d \in Rows : d # c => claimBank'[d] = claimBank[d]
           /\ \/ claim' = claim
              \/ \E st \in {"paid", "investigating"} : ClaimStatusIs(claim', claim, c, st)
           /\ \/ /\ claimBank'[c].row = claimBank[c].row /\ UNCHANGED <<paidOut, wallet>>
              \/ /\ claimBank'[c].row = claimBank[c].row /\ UNCHANGED paidOut
                 /\ wallet > 0 /\ wallet' = 0 /\ Balance0 > 0 /\ wallet = Balance0
              \/ /\ paidOut' = [paidOut EXCEPT ![c] = Balance0]
                 /\ wallet > 0 /\ wallet' = 0 /\ Balance0 > 0 /\ wallet = Balance0
<1>1. CASE D!CloseEmpty(k)
  BY <1>1, ClaimTypes DEF D!CloseEmpty, D!SetStatus, ClaimStatusIs
<1>2. CASE D!BalanceChanged(k)
  BY <1>2, ClaimTypes DEF D!BalanceChanged
<1>3. CASE D!SendSavings(k)
  <2>1. wallet = Balance0 /\ D!Savings(k) = Balance0 /\ Balance0 > 0 /\ Balance0 \in Nat
    BY <1>3, SavingsWhole, DecisionsAssumption DEF D!SendSavings
  <2>2. wallet - D!Savings(k) = 0 BY <2>1
  <2>3. PICK o \in D!SendToBank(claimBank[c]) :
          /\ claimBank' = [claimBank EXCEPT ![c] = o.bank]
          /\ CASE o.answer = "successful" ->
                    /\ D!SetStatus(c, "paid")
                    /\ paidOut' = [paidOut EXCEPT ![c] = D!Savings(k)]
                    /\ wallet' = wallet - D!Savings(k)
             [] o.answer = "unsure" ->
                    /\ D!SetStatus(c, "investigating")
                    /\ wallet' = wallet - D!Savings(k)
                    /\ UNCHANGED paidOut
             [] OTHER -> UNCHANGED <<claim, wallet, paidOut>>
    BY <1>3 DEF D!SendSavings
  <2>4. claimBank[c] \in D!Transfers BY ClaimTypes
  <2>5. /\ o.bank \in D!Transfers
        /\ o.answer # "successful" => o.bank.row = claimBank[c].row
    BY <2>3, <2>4, ClaimSent
  <2>6. /\ claimBank' \in [Rows -> D!Transfers] /\ claimBank'[c] = o.bank
        /\ \A d \in Rows : d # c => claimBank'[d] = claimBank[d]
    BY <2>3, <2>5, ClaimTypes
  <2>7. CASE o.answer = "successful"
    <3>1. D!SetStatus(c, "paid") /\ paidOut' = [paidOut EXCEPT ![c] = D!Savings(k)]
          /\ wallet' = wallet - D!Savings(k)
      BY <2>3, <2>7
    <3> QED BY <2>1, <2>2, <2>6, <3>1 DEF D!SetStatus, ClaimStatusIs
  <2>8. CASE o.answer # "successful" /\ o.answer = "unsure"
    <3>1. D!SetStatus(c, "investigating") /\ UNCHANGED paidOut /\ wallet' = wallet - D!Savings(k)
      BY <2>3, <2>8
    <3> QED BY <2>1, <2>2, <2>5, <2>6, <2>8, <3>1 DEF D!SetStatus, ClaimStatusIs
  <2>9. CASE o.answer # "successful" /\ o.answer # "unsure"
    <3>1. UNCHANGED <<claim, wallet, paidOut>>
      BY <2>3, <2>9
    <3> QED BY <2>5, <2>6, <2>9, <3>1
  <2> QED BY <2>7, <2>8, <2>9
<1> QED BY <1>1, <1>2, <1>3

(* A payout ends: the claim is paid or looked into, the savings leave the wallet. *)
LEMMA ClaimFinalized ==
    ASSUME ClaimInv, NEW k \in Hands, D!FinalizeClaim(k)
    PROVE  ClaimInv'
<1> DEFINE c == claimHand[k].c
           p == claimHand[k].who
           seen == claimHand[k].seen
<1>1. /\ c \in Rows /\ p \in Officers /\ p \notin seen /\ seen \in SUBSET appr[c]
      /\ Cardinality(seen) + 1 >= 2
      /\ Cardinality(valid[c]) >= 2 /\ claim[c].family /\ claim[c].late
  BY PayoutMet DEF D!FinalizeClaim
<1>2. /\ appr' = [appr EXCEPT ![c] = @ \cup {p}] /\ D!End(k) /\ UNCHANGED <<dead, valid>>
      /\ D!WriteOff(k)
  BY DEF D!FinalizeClaim, D!Approval
<1>3. /\ claimBank' \in [Rows -> D!Transfers]
      /\ \A d \in Rows : d # c => claimBank'[d] = claimBank[d]
      /\ \/ claim' = claim
         \/ \E st \in {"paid", "investigating"} : ClaimStatusIs(claim', claim, c, st)
      /\ \/ /\ claimBank'[c].row = claimBank[c].row /\ UNCHANGED <<paidOut, wallet>>
         \/ /\ claimBank'[c].row = claimBank[c].row /\ UNCHANGED paidOut
            /\ wallet > 0 /\ wallet' = 0 /\ Balance0 > 0 /\ wallet = Balance0
         \/ /\ paidOut' = [paidOut EXCEPT ![c] = Balance0]
            /\ wallet > 0 /\ wallet' = 0 /\ Balance0 > 0 /\ wallet = Balance0
  BY <1>1, PayoutMoves DEF D!FinalizeClaim
<1> HIDE DEF c, p, seen
<1>4. /\ appr' \in [Rows -> SUBSET Officers] /\ appr'[c] = appr[c] \cup {p}
      /\ \A d \in Rows : appr[d] \subseteq appr'[d] /\ IsFiniteSet(appr'[d])
  <2>1. appr \in [Rows -> SUBSET Officers] /\ \A d \in Rows : IsFiniteSet(appr[d])
    BY ClaimTypes DEF PeopleFinite
  <2>2. /\ appr' \in [Rows -> SUBSET Officers] /\ appr'[c] = appr[c] \cup {p}
        /\ \A d \in Rows : d # c => appr'[d] = appr[d]
    BY <1>1, <1>2, <2>1
  <2>3. IsFiniteSet(appr'[c]) BY <1>1, <2>1, <2>2, FS_AddElement
  <2> QED BY <2>1, <2>2, <2>3
<1>5. Cardinality(appr'[c]) >= 2
  BY <1>1, <1>4, ClaimTypes, OneMore DEF PeopleFinite
<1>6. /\ claim' \in ClaimType
      /\ \A d \in Rows : /\ claim'[d].family = claim[d].family /\ claim'[d].late = claim[d].late
                         /\ claim'[d].status = "validated" => claim[d].status = "validated"
  <2>1. CASE claim' = claim BY <2>1, ClaimTypes
  <2>2. ASSUME NEW st \in {"paid", "investigating"}, ClaimStatusIs(claim', claim, c, st)
        PROVE  /\ claim' \in ClaimType /\ claim'[c].status = st
               /\ \A d \in Rows : claim'[d].family = claim[d].family /\ claim'[d].late = claim[d].late
                                  /\ (d # c => claim'[d] = claim[d])
    BY <1>1, <2>2, ClaimTypes, ClaimStatusSet
  <2> QED BY <1>3, <2>1, <2>2
<1>7. /\ claimHand' \in ClaimHandType /\ claimHand'[k] = D!IdleHand
      /\ \A j \in Hands : j # k => claimHand'[j] = claimHand[j]
  BY <1>2, ClaimTypes, ClaimEnded
<1>8. D!TypeOK'
  <2>1. debt' \in 0..Debt0 /\ fund' \in 0..Fund0 /\ writtenOff' \in Nat
    BY <1>2, WriteOffTypes
  <2>2. paidOut' \in [Rows -> 0..Balance0] /\ wallet' \in 0..Balance0
    <3>1. paidOut \in [Rows -> 0..Balance0] /\ wallet \in 0..Balance0 /\ Balance0 \in Nat
      BY DecisionsAssumption DEF ClaimInv, D!TypeOK
    <3>2. 0 \in 0..Balance0 /\ Balance0 \in 0..Balance0 BY <3>1
    <3>3. [paidOut EXCEPT ![c] = Balance0] \in [Rows -> 0..Balance0] BY <3>1, <3>2
    <3> QED BY ONLY <1>3, <3>1, <3>2, <3>3
  <2> QED BY <1>2, <1>3, <1>4, <1>6, <1>7, <2>1, <2>2
          DEF ClaimInv, D!TypeOK, ClaimType, ClaimHandType, ClaimRow, ClaimHandRow
<1>9. HandRelies(k)' /\ claimHand'[k].wallet \in {0, Balance0}
  BY <1>7, IdleHandRow DEF HandRelies
<1>10. CASE claimBank'[c].row = claimBank[c].row /\ UNCHANGED <<paidOut, wallet>>
  <2>1. \A d \in Rows : claimBank'[d].row = claimBank[d].row BY <1>3, <1>10
  <2>2. \A d \in Rows : valid[d] \subseteq valid'[d] /\ IsFiniteSet(valid'[d])
    BY <1>2, ClaimTypes DEF PeopleFinite
  <2> QED BY <1>4, <1>6, <1>7, <1>8, <1>9, <1>10, <2>1, <2>2, ClaimFrame
<1>11. CASE wallet > 0 /\ wallet' = 0 /\ Balance0 > 0 /\ wallet = Balance0
            /\ \/ claimBank'[c].row = claimBank[c].row /\ UNCHANGED paidOut
               \/ paidOut' = [paidOut EXCEPT ![c] = Balance0]
  <2>1. \A d \in Rows : ~claimBank[d].row
    BY <1>11 DEF ClaimInv, SavingsLeaveOnce, D!SavingsLeaveOnce
  <2>2. \A d \in Rows : claimBank'[d].row => d = c /\ paidOut'[c] = Balance0
    BY <1>1, <1>3, <1>11, <2>1 DEF ClaimInv, D!TypeOK
  <2>3. SavingsLeaveOnce'
    BY <1>1, <1>2, <1>5, <1>6, <1>11, <2>2, Counted
       DEF SavingsLeaveOnce, D!SavingsLeaveOnce, D!RequiredValidations, D!ApprovalsRequired
  <2>4. PeopleFinite' /\ ValidatedByTwo'
    BY <1>2, <1>4, <1>6 DEF ClaimInv, PeopleFinite, ValidatedByTwo
  <2>5. WholeSavings'
    BY <1>7, <1>9, <1>11 DEF ClaimInv, WholeSavings
  <2>6. ASSUME NEW j \in Hands PROVE HandRelies(j)'
    BY <1>2, <1>4, <1>6, <1>7, <1>9 DEF ClaimInv, HandRelies
  <2> QED BY <1>8, <2>3, <2>4, <2>5, <2>6 DEF ClaimInv
<1> QED BY <1>3, <1>10, <1>11

(* A transaction is rolled back: nothing of it stays but what the bank has done. *)
LEMMA ClaimAborted ==
    ASSUME ClaimInv, NEW k \in Hands, D!RollBack(k)
    PROVE  ClaimInv'
<1> DEFINE c == claimHand[k].c
<1>1. c \in Rows BY DEF ClaimInv, HandRelies, D!RollBack
<1>2. /\ D!End(k) /\ UNCHANGED <<dead, claim, valid, appr, paidOut, wallet, debt, fund, writtenOff>>
      /\ \E b \in {claimBank[c]} \cup D!RolledBack(claimBank[c]) : claimBank' = [claimBank EXCEPT ![c] = b]
  BY DEF D!RollBack
<1> HIDE DEF c
<1>3. PICK b \in {claimBank[c]} \cup D!RolledBack(claimBank[c]) : claimBank' = [claimBank EXCEPT ![c] = b]
  BY <1>2
<1>4. b \in D!Transfers /\ b.row = claimBank[c].row
  BY <1>1, ClaimTypes, ClaimRolledBack
<1>5. claimBank' \in [Rows -> D!Transfers] /\ \A d \in Rows : claimBank'[d].row = claimBank[d].row
  BY <1>1, <1>3, <1>4, ClaimTypes
<1>6. /\ claimHand' \in ClaimHandType /\ claimHand'[k] = D!IdleHand
      /\ \A j \in Hands : j # k => claimHand'[j] = claimHand[j]
  BY <1>2, ClaimTypes, ClaimEnded
<1>7. D!TypeOK'
  BY <1>2, <1>5, <1>6 DEF ClaimInv, D!TypeOK, ClaimHandType, ClaimHandRow
<1>8. HandRelies(k)' /\ claimHand'[k].wallet \in {0, Balance0}
  BY <1>6, IdleHandRow DEF HandRelies
<1> QED BY <1>2, <1>5, <1>6, <1>7, <1>8, ClaimTypes, ClaimFrame DEF PeopleFinite

(* Every step of the death claims keeps ClaimInv. *)
LEMMA ClaimStep ==
    ASSUME ClaimInv, D!Next
    PROVE  ClaimInv'
<1>1. ASSUME NEW k \in Hands, NEW s \in Officers, NEW c \in Rows,
             D!ReadStart(k, s, c) \/ D!ReadApprove(k, s, c) \/ D!ReadReject(k, s, c)
      PROVE  ClaimInv'
  BY <1>1, ClaimReads
<1>2. ASSUME NEW k \in Hands, NEW m \in D!Voters, NEW c \in Rows, D!ReadValidate(k, m, c)
      PROVE  ClaimInv'
  BY <1>2, ClaimReads
<1>3. ASSUME NEW c \in Rows, \/ D!SubmitCertificate(c) \/ D!ConfirmFamily(c) \/ D!SetClaimBank(c)
                             \/ D!WaitingPeriodEnds(c)
      PROVE  ClaimInv'
  BY <1>3, ClaimFilled
<1>4. ASSUME NEW k \in Hands, \/ D!StartDeathClaim(k) \/ D!RejectClaim(k) \/ D!ValidateClaim(k)
                              \/ D!RecordApproval(k) \/ D!ClaimPayout(k) \/ D!FinalizeClaim(k)
                              \/ D!RollBack(k)
      PROVE  ClaimInv'
  BY <1>4, ClaimOverwritten, ClaimValidates, ClaimRecords, ClaimTaken, ClaimFinalized,
      ClaimAborted
<1> QED BY <1>1, <1>2, <1>3, <1>4 DEF D!Next

(* The other parts leave the death claims alone. *)
LEMMA ClaimStutter ==
    ASSUME ClaimInv, UNCHANGED claimsVars
    PROVE  ClaimInv'
BY DEF ClaimInv, claimsVars, D!TypeOK, HandRelies, PeopleFinite, ValidatedByTwo, WholeSavings,
       SavingsLeaveOnce, D!SavingsLeaveOnce

(* SavingsLeaveOnce: deathclaims.ts pays a claim only when two members validated
   it, two super admins approved it, the family confirmed and 72 hours passed, and
   the dead member's savings leave once. *)
THEOREM SavingsLeaveOnceTheorem == OfficeSpec => []SavingsLeaveOnce
<1>1. OfficeInit => ClaimInv
  BY ClaimInit DEF OfficeInit
<1>2. ClaimInv /\ [OfficeNext]_officeVars => ClaimInv'
  BY ClaimStep, ClaimStutter DEF OfficeNext, officeVars
<1>3. ClaimInv => SavingsLeaveOnce
  BY DEF ClaimInv
<1> QED BY <1>1, <1>2, <1>3, PTL DEF OfficeSpec

(* CreditedOnceByTwo: manualcredit.ts credits a wallet only for two different
   super admins, and once. *)
THEOREM CreditedByTwo == OfficeSpec => []CreditedOnceByTwo
<1>1. OfficeInit => CreditInv BY CreditInit DEF OfficeInit
<1>2. CreditInv /\ [OfficeNext]_officeVars => CreditInv'
  BY CreditStep, CreditStutter DEF OfficeNext, officeVars
<1>3. CreditInv => CreditedOnceByTwo BY DEF CreditInv
<1> QED BY <1>1, <1>2, <1>3, PTL DEF OfficeSpec

-----------------------------------------------------------------------------
(* The shares of a pool: the floors of the exact parts, and a kobo more for as many
   members as kobos are left over *)

LEMMA SumOfRun == \A f : V!SumFunction(f) = SumFunctionOnSet(f, DOMAIN f)
BY DEF V!SumFunction, V!SumFunctionOnSet, V!FoldFunctionOnSet, V!MapThenFoldSet,
       SumFunctionOnSet, FoldFunctionOnSet, MapThenFoldSet

Floors(P) == [m \in V!Savers |-> V!Floor(P, m)]
Remainders(P) == [m \in V!Savers |-> V!Remainder(P, m)]
Leftover(P) == P - SumFunctionOnSet(Floors(P), V!Savers)
HasRemainder(P) == {m \in V!Savers : V!Remainder(P, m) > 0}
Rank(P, m) == Cardinality(V!Before(P, m))
Favoured(P) == {m \in V!Eligible : Rank(P, m) < Leftover(P)}

LEMMA WeightType ==
    /\ V!Savers \in SUBSET Nat /\ IsFiniteSet(V!Savers) /\ V!Savers = DOMAIN Weight
    /\ \A m \in V!Savers : Weight[m] \in Nat
    /\ V!TotalWeight = SumFunctionOnSet(Weight, V!Savers)
    /\ V!TotalWeight \in Int
<1>1. V!Savers = 1..Len(Weight) /\ Len(Weight) \in Nat BY DecisionsAssumption DEF V!Savers
<1>2. IsFiniteSet(V!Savers) BY <1>1, FS_Interval
<1>3. \A m \in V!Savers : Weight[m] \in Nat BY <1>1, DecisionsAssumption
<1>4. V!TotalWeight = SumFunctionOnSet(Weight, V!Savers)
  BY SumOfRun DEF V!TotalWeight, V!Savers
<1>5. V!TotalWeight \in Int BY <1>2, <1>3, <1>4, SumInt
<1> QED BY <1>1, <1>2, <1>3, <1>4, <1>5 DEF V!Savers

LEMMA DivMod ==
    \A a \in Nat, b \in Nat \ {0} :
        a \div b \in Nat /\ a % b \in 0..(b - 1) /\ a = b * (a \div b) + (a % b)
OBVIOUS

LEMMA Times == \A a, b \in Nat : a * b \in Nat /\ a * b = b * a
OBVIOUS

LEMMA FloorRemainder ==
    ASSUME NEW P \in Nat, V!TotalWeight > 0, NEW m \in V!Savers
    PROVE  /\ V!Floor(P, m) \in Nat
           /\ V!Remainder(P, m) \in Nat /\ V!Remainder(P, m) < V!TotalWeight
           /\ P * Weight[m] = V!TotalWeight * V!Floor(P, m) + V!Remainder(P, m)
           /\ Weight[m] = 0 => V!Remainder(P, m) = 0
<1>1. Weight[m] * P \in Nat /\ Weight[m] * P = P * Weight[m] BY WeightType, Times
<1>2. V!TotalWeight \in Nat \ {0} BY WeightType
<1>3. V!Floor(P, m) = (Weight[m] * P) \div V!TotalWeight
      /\ V!Remainder(P, m) = (Weight[m] * P) % V!TotalWeight
  BY DEF V!Floor, V!Remainder
<1>4. Weight[m] = 0 => Weight[m] * P = 0 OBVIOUS
<1>5. 0 % V!TotalWeight = 0 BY <1>2
<1> DEFINE a == Weight[m] * P
           W == V!TotalWeight
<1>6. /\ a \div W \in Nat /\ a % W \in 0..(W - 1)
      /\ a = W * (a \div W) + (a % W)
  <2> HIDE DEF a, W
  <2>1. a \in Nat /\ W \in Nat \ {0} BY <1>1, <1>2 DEF a, W
  <2> QED BY <2>1, DivMod
<1>7. a = 0 => a % W = 0 BY <1>5
<1>8. W \in Nat \ {0} /\ a = P * Weight[m] BY <1>1, <1>2
<1>9. V!Floor(P, m) = a \div W /\ V!Remainder(P, m) = a % W BY <1>3
<1>10. Weight[m] = 0 => a = 0 BY <1>4
<1> HIDE DEF a, W
<1>11. W = V!TotalWeight BY DEF W
<1> QED BY SMTT(30), <1>6, <1>7, <1>8, <1>9, <1>10, <1>11

LEMMA Less == \A a, b \in Int, w \in Nat \ {0} : w * a <= w * b => a <= b
OBVIOUS

LEMMA LeftoverSum ==
    ASSUME NEW P \in Nat, V!TotalWeight > 0
    PROVE  /\ Leftover(P) \in Int
           /\ V!TotalWeight * Leftover(P) = SumFunctionOnSet(Remainders(P), V!Savers)
<1> DEFINE S == V!Savers
           W == V!TotalWeight
           exact == [m \in S |-> P * Weight[m]]
           whole == [m \in S |-> W * Floors(P)[m]]
<1>1. IsFiniteSet(S) /\ W \in Int /\ W = SumFunctionOnSet(Weight, S) BY WeightType
<1>2. \A m \in S : /\ Floors(P)[m] = V!Floor(P, m) /\ Remainders(P)[m] = V!Remainder(P, m)
                   /\ exact[m] = P * Weight[m] /\ whole[m] = W * Floors(P)[m]
  BY DEF Floors, Remainders
<1>3. \A m \in S : /\ Floors(P)[m] \in Int /\ Remainders(P)[m] \in Int /\ Weight[m] \in Int
                   /\ whole[m] \in Int
                   /\ exact[m] = whole[m] + Remainders(P)[m]
  <2> TAKE m \in S
  <2> HIDE DEF exact, whole, S, W
  <2>1. /\ V!Floor(P, m) \in Nat /\ V!Remainder(P, m) \in Nat
        /\ P * Weight[m] = W * V!Floor(P, m) + V!Remainder(P, m)
    BY FloorRemainder DEF S, W
  <2>2. Weight[m] \in Int BY WeightType DEF S
  <2>3. W * V!Floor(P, m) \in Int BY <1>1, <2>1
  <2> QED BY <1>2, <2>1, <2>2, <2>3
<1> HIDE DEF S, W, exact, whole
<1>4. SumFunctionOnSet(exact, S) = P * W BY <1>1, <1>2, <1>3, SumScale
<1>5. SumFunctionOnSet(whole, S) = W * SumFunctionOnSet(Floors(P), S) BY <1>1, <1>2, <1>3, SumScale
<1>6. SumFunctionOnSet(exact, S)
        = SumFunctionOnSet(whole, S) + SumFunctionOnSet(Remainders(P), S)
  BY <1>1, <1>3, SumAdd
<1>7. SumFunctionOnSet(Floors(P), S) \in Int /\ SumFunctionOnSet(Remainders(P), S) \in Int
  BY <1>1, <1>3, SumInt
<1>8. W * (P - SumFunctionOnSet(Floors(P), S)) = P * W - W * SumFunctionOnSet(Floors(P), S)
  BY <1>1, <1>7
<1> QED BY <1>1, <1>4, <1>5, <1>6, <1>7, <1>8 DEF Leftover, S, W

(* There are not more kobos left over than members with a remainder. *)
LEMMA LeftoverBound ==
    ASSUME NEW P \in Nat, V!TotalWeight > 0
    PROVE  Leftover(P) \in Nat /\ Leftover(P) <= Cardinality(HasRemainder(P))
<1> DEFINE S == V!Savers
           W == V!TotalWeight
           H == HasRemainder(P)
           zero == [m \in S |-> 0]
           ones == [m \in S |-> 1]
           limit == [m \in S |-> W * ones[m]]
<1>1. IsFiniteSet(S) /\ W \in Nat \ {0} BY WeightType
<1>2. H \in SUBSET S /\ IsFiniteSet(H) /\ Cardinality(H) \in Nat
  BY <1>1, FS_Subset, FS_CardinalityType DEF HasRemainder
<1>3. \A m \in S : /\ Remainders(P)[m] \in Nat /\ Remainders(P)[m] < W
                   /\ (m \notin H => Remainders(P)[m] = 0)
                   /\ zero[m] = 0 /\ ones[m] = 1 /\ limit[m] = W * ones[m] /\ limit[m] = W
  BY <1>1, FloorRemainder DEF Remainders, HasRemainder
<1> HIDE DEF S, W, H, zero, ones, limit
<1>4. SumFunctionOnSet(zero, S) = 0
  <2>1. {} \in SUBSET S OBVIOUS
  <2>2. SumFunctionOnSet(zero, S) = SumFunctionOnSet(zero, {}) BY <1>1, <1>3, <2>1, SumSupport
  <2> QED BY <2>2, SumEmpty
<1>5. 0 <= SumFunctionOnSet(Remainders(P), S) BY <1>1, <1>3, <1>4, SumLess
<1>6. SumFunctionOnSet(Remainders(P), S) = SumFunctionOnSet(Remainders(P), H)
  BY <1>1, <1>2, <1>3, SumSupport
<1>7. \A m \in H : /\ Remainders(P)[m] \in Int /\ limit[m] \in Int /\ Remainders(P)[m] <= limit[m]
                   /\ ones[m] = 1 /\ ones[m] \in Int /\ limit[m] = W * ones[m]
  BY <1>1, <1>2, <1>3
<1>8. SumFunctionOnSet(Remainders(P), H) <= SumFunctionOnSet(limit, H) BY <1>2, <1>7, SumLess
<1>9. SumFunctionOnSet(limit, H) = W * Cardinality(H)
  <2>1. SumFunctionOnSet(ones, H) = Cardinality(H) BY <1>2, <1>7, SumOnes
  <2>2. SumFunctionOnSet(limit, H) = W * SumFunctionOnSet(ones, H) BY <1>1, <1>2, <1>7, SumScale
  <2> QED BY <2>1, <2>2
<1>10. Leftover(P) \in Int /\ W * Leftover(P) = SumFunctionOnSet(Remainders(P), S)
  BY LeftoverSum DEF S, W
<1>11. W * 0 = 0 BY <1>1
<1>12. 0 <= Leftover(P) BY <1>1, <1>5, <1>10, <1>11, Less
<1>13. Leftover(P) <= Cardinality(H) BY <1>1, <1>2, <1>6, <1>8, <1>9, <1>10, Less
<1> QED BY <1>10, <1>12, <1>13 DEF H

(* Members come one after the other: by remainder, then by their place. *)
LEMMA BeforeOrders ==
    ASSUME NEW P \in Nat, V!TotalWeight > 0, NEW m \in V!Eligible, NEW n \in V!Eligible
    PROVE  /\ V!Before(P, m) \in SUBSET V!Eligible /\ m \notin V!Before(P, m)
           /\ m # n => n \in V!Before(P, m) \/ m \in V!Before(P, n)
           /\ n \in V!Before(P, m) => V!Before(P, n) \in SUBSET V!Before(P, m)
<1>1. \A k \in V!Eligible : k \in Nat /\ V!Remainder(P, k) \in Nat
  BY WeightType, FloorRemainder DEF V!Eligible
<1>2. \A j, k \in V!Eligible :
        k \in V!Before(P, j) <=> \/ V!Remainder(P, k) > V!Remainder(P, j)
                                 \/ V!Remainder(P, k) = V!Remainder(P, j) /\ k < j
  BY DEF V!Before
<1>3. V!Before(P, m) \in SUBSET V!Eligible /\ V!Before(P, n) \in SUBSET V!Eligible
  BY DEF V!Before
<1>4. m \notin V!Before(P, m) BY <1>1, <1>2
<1>5. m # n => n \in V!Before(P, m) \/ m \in V!Before(P, n) BY <1>1, <1>2
<1>6. ASSUME n \in V!Before(P, m), NEW k \in V!Before(P, n) PROVE k \in V!Before(P, m)
  BY <1>1, <1>2, <1>3, <1>6
<1> QED BY <1>3, <1>4, <1>5, <1>6

LEMMA RankType ==
    ASSUME NEW P \in Nat, V!TotalWeight > 0, NEW m \in V!Eligible
    PROVE  /\ IsFiniteSet(V!Eligible) /\ Cardinality(V!Eligible) \in Nat
           /\ IsFiniteSet(V!Before(P, m))
           /\ Rank(P, m) \in Nat /\ Rank(P, m) < Cardinality(V!Eligible)
<1>1. IsFiniteSet(V!Eligible) BY WeightType, FS_Subset DEF V!Eligible
<1>2. V!Before(P, m) \in SUBSET (V!Eligible \ {m}) BY BeforeOrders
<1>3. IsFiniteSet(V!Eligible \ {m}) /\ Cardinality(V!Eligible \ {m}) = Cardinality(V!Eligible) - 1
  BY <1>1, FS_RemoveElement
<1>4. IsFiniteSet(V!Before(P, m)) /\ Rank(P, m) <= Cardinality(V!Eligible \ {m})
  BY <1>2, <1>3, FS_Subset DEF Rank
<1>5. Rank(P, m) \in Nat /\ Cardinality(V!Eligible) \in Nat
  BY <1>1, <1>4, FS_CardinalityType DEF Rank
<1> QED BY <1>1, <1>3, <1>4, <1>5

LEMMA RankLess ==
    ASSUME NEW P \in Nat, V!TotalWeight > 0, NEW m \in V!Eligible, NEW n \in V!Before(P, m)
    PROVE  Rank(P, n) < Rank(P, m)
<1>1. n \in V!Eligible BY BeforeOrders
<1>2. V!Before(P, n) \in SUBSET V!Before(P, m) /\ V!Before(P, n) # V!Before(P, m)
  BY <1>1, BeforeOrders
<1>3. IsFiniteSet(V!Before(P, m)) /\ Rank(P, n) \in Nat /\ Rank(P, m) \in Nat BY <1>1, RankType
<1>4. Rank(P, n) <= Rank(P, m) /\ Rank(P, n) # Rank(P, m) BY <1>2, <1>3, FS_Subset DEF Rank
<1> QED BY <1>3, <1>4

(* So k of them have a rank below k. *)
LEMMA RankCount ==
    ASSUME NEW P \in Nat, V!TotalWeight > 0,
           NEW k \in Nat, k <= Cardinality(V!Eligible)
    PROVE  Cardinality({m \in V!Eligible : Rank(P, m) < k}) = k
<1> DEFINE E == V!Eligible
           c == Cardinality(E)
           rank == [m \in E |-> Rank(P, m)]
           T == {m \in E : Rank(P, m) < k}
           first == [m \in T |-> Rank(P, m)]
<1>1. IsFiniteSet(E) /\ c \in Nat
  <2>1. IsFiniteSet(V!Eligible) BY WeightType, FS_Subset DEF V!Eligible
  <2> QED BY <2>1, FS_CardinalityType
<1>2. \A m \in E : Rank(P, m) \in 0..(c - 1)
  <2>1. ASSUME NEW m \in V!Eligible PROVE Rank(P, m) \in Nat /\ Rank(P, m) < Cardinality(V!Eligible)
    BY RankType
  <2> QED BY <2>1, <1>1
<1>3. \A m, n \in E : Rank(P, m) = Rank(P, n) => m = n
  <2> SUFFICES ASSUME NEW m \in E, NEW n \in E, m # n PROVE Rank(P, m) # Rank(P, n)
    OBVIOUS
  <2>1. Rank(P, m) \in Nat /\ Rank(P, n) \in Nat BY <1>1, <1>2
  <2>2. CASE n \in V!Before(P, m)
    <3>1. Rank(P, n) < Rank(P, m) BY <2>2, RankLess
    <3> QED BY <2>1, <3>1
  <2>3. CASE m \in V!Before(P, n)
    <3>1. Rank(P, m) < Rank(P, n) BY <2>3, RankLess
    <3> QED BY <2>1, <3>1
  <2> QED BY <2>2, <2>3, BeforeOrders
<1> HIDE DEF E, c
<1>4. rank \in Injection(E, 0..(c - 1))
  <2>1. rank \in [E -> 0..(c - 1)] BY <1>2
  <2>2. DOMAIN rank = E /\ \A m \in E : rank[m] = Rank(P, m) OBVIOUS
  <2> HIDE DEF rank
  <2> QED BY <1>3, <2>1, <2>2 DEF Injection, IsInjective
<1>5. IsFiniteSet(0..(c - 1)) /\ Cardinality(0..(c - 1)) = c
  <2>1. 0 \in Int /\ c - 1 \in Int /\ (c - 1) - 0 + 1 = c /\ (0 > c - 1 => c = 0) BY <1>1
  <2> QED BY <2>1, FS_Interval
<1>6. rank \in Surjection(E, 0..(c - 1)) BY <1>4, <1>5, FS_Injection DEF c
<1>7. \A i \in 0..(c - 1) : \E m \in E : Rank(P, m) = i BY <1>6 DEF Surjection
<1>8. IsFiniteSet(T) BY <1>1, FS_Subset
<1>9. first \in Surjection(T, 0..(k - 1))
  <2>1. first \in [T -> 0..(k - 1)] BY <1>1, <1>2
  <2>2. ASSUME NEW i \in 0..(k - 1) PROVE \E m \in T : first[m] = i
    <3>1. i \in 0..(c - 1) /\ i < k BY <1>1, <2>2 DEF c, E
    <3>2. PICK m \in E : Rank(P, m) = i BY <1>7, <3>1
    <3> QED BY <3>1, <3>2
  <2> QED BY <2>1, <2>2 DEF Surjection
<1>10. first \in Injection(T, 0..(k - 1))
  <2>1. first \in [T -> 0..(k - 1)] BY <1>9 DEF Surjection
  <2>2. DOMAIN first = T /\ \A m \in T : m \in E /\ first[m] = Rank(P, m) OBVIOUS
  <2> HIDE DEF first, T
  <2> QED BY <1>3, <2>1, <2>2 DEF Injection, IsInjective
<1>11. Cardinality(0..(k - 1)) = k BY FS_Interval
<1>12. Cardinality(0..(k - 1)) = Cardinality(T) BY <1>8, <1>9, <1>10, FS_Surjection
<1> QED BY <1>11, <1>12 DEF E

(* Whoever gets a kobo more has a remainder, and they are as many as the kobos. *)
LEMMA FavouredCount ==
    ASSUME NEW P \in Nat, V!TotalWeight > 0
    PROVE  /\ Favoured(P) \in SUBSET HasRemainder(P) /\ HasRemainder(P) \in SUBSET V!Savers
           /\ Cardinality(Favoured(P)) = Leftover(P)
<1>1. HasRemainder(P) \in SUBSET V!Eligible
  <2>1. ASSUME NEW m \in HasRemainder(P) PROVE m \in V!Savers /\ V!Remainder(P, m) > 0
    BY <2>1 DEF HasRemainder
  <2>2. ASSUME NEW m \in HasRemainder(P) PROVE Weight[m] # 0 /\ Weight[m] \in Nat
    BY <2>1, <2>2, FloorRemainder, WeightType
  <2> QED BY <2>1, <2>2 DEF V!Eligible
<1>2. Leftover(P) \in Nat /\ Leftover(P) <= Cardinality(HasRemainder(P)) BY LeftoverBound
<1>3. ASSUME NEW m \in Favoured(P) PROVE m \in HasRemainder(P)
  <2> SUFFICES ASSUME m \notin HasRemainder(P) PROVE FALSE OBVIOUS
  <2>1. m \in V!Eligible /\ Rank(P, m) < Leftover(P) BY <1>3 DEF Favoured
  <2>2. V!Remainder(P, m) = 0
    <3>1. m \in V!Savers BY <2>1 DEF V!Eligible
    <3>2. V!Remainder(P, m) \in Nat BY <3>1, FloorRemainder
    <3> QED BY <3>1, <3>2 DEF HasRemainder
  <2>3. HasRemainder(P) \in SUBSET V!Before(P, m)
    BY <1>1, <2>2 DEF HasRemainder, V!Before
  <2>4. Cardinality(HasRemainder(P)) <= Rank(P, m) BY <2>1, <2>3, RankType, FS_Subset DEF Rank
  <2>5. Cardinality(HasRemainder(P)) \in Nat BY <2>1, <2>3, RankType, FS_Subset, FS_CardinalityType
  <2>6. Rank(P, m) \in Nat BY <2>1, RankType
  <2> QED BY <1>2, <2>1, <2>4, <2>5, <2>6
<1>4. Leftover(P) <= Cardinality(V!Eligible)
  <2>1. IsFiniteSet(V!Eligible) BY WeightType, FS_Subset DEF V!Eligible
  <2>2. Cardinality(HasRemainder(P)) <= Cardinality(V!Eligible) BY <1>1, <2>1, FS_Subset
  <2>3. Cardinality(HasRemainder(P)) \in Nat /\ Cardinality(V!Eligible) \in Nat
    BY <1>1, <2>1, FS_Subset, FS_CardinalityType
  <2> QED BY <1>2, <2>2, <2>3
<1>5. Cardinality(Favoured(P)) = Leftover(P) BY <1>2, <1>4, RankCount DEF Favoured
<1> QED BY <1>3, <1>5 DEF HasRemainder

LEMMA CountedToo == \A X : V!Cardinality(X) = Cardinality(X)
BY DEF V!Cardinality, Cardinality

LEMMA ShareIs ==
    ASSUME NEW P \in Nat, NEW m \in V!Savers
    PROVE  V!AllocateShares(P)[m] = V!Floor(P, m) + (IF m \in Favoured(P) THEN 1 ELSE 0)
<1>1. V!SumFunction([x \in V!Savers |-> V!Floor(P, x)]) = SumFunctionOnSet(Floors(P), V!Savers)
  BY SumOfRun DEF Floors
<1> DEFINE before == V!Before(P, m)
           left == P - SumFunctionOnSet(Floors(P), V!Savers)
<1>2. V!AllocateShares(P)[m] = V!Floor(P, m) +
        (IF m \in V!Eligible /\ V!Cardinality(before) < left THEN 1 ELSE 0)
  BY <1>1 DEF V!AllocateShares
<1>3. V!Cardinality(before) = Rank(P, m) BY CountedToo DEF Rank
<1>4. m \in Favoured(P) <=> m \in V!Eligible /\ Rank(P, m) < left BY DEF Favoured, Leftover
<1> HIDE DEF before, left
<1> QED BY <1>2, <1>3, <1>4

(* The shares of a pool are natural numbers, add up to it, and each is within one kobo
   of the exact part; allocateShares in dividends.ts. *)
THEOREM SharesAddUp ==
    ASSUME NEW P \in Nat, V!TotalWeight > 0
    PROVE  /\ V!AllocateShares(P) \in [V!Savers -> Nat]
           /\ V!SumFunction(V!AllocateShares(P)) = P
           /\ \A m \in V!Savers :
                V!Abs(V!AllocateShares(P)[m] * V!TotalWeight - Weight[m] * P) < V!TotalWeight
<1> DEFINE S == V!Savers
           W == V!TotalWeight
           F == Favoured(P)
           share == V!AllocateShares(P)
           extra == [m \in S |-> IF m \in F THEN 1 ELSE 0]
<1>1. IsFiniteSet(S) /\ W \in Nat \ {0} BY WeightType
<1>2. \A m \in S : /\ Floors(P)[m] = V!Floor(P, m) /\ V!Floor(P, m) \in Nat
                   /\ extra[m] = (IF m \in F THEN 1 ELSE 0)
                   /\ share[m] = V!Floor(P, m) + extra[m]
  BY FloorRemainder, ShareIs DEF Floors
<1>3. F \in SUBSET HasRemainder(P) /\ F \in SUBSET S /\ Cardinality(F) = Leftover(P)
  BY FavouredCount
<1>4. DOMAIN share = S /\ share = [m \in S |-> share[m]] BY DEF V!AllocateShares
<1>5. V!SumFunction(share) = SumFunctionOnSet(share, S) BY <1>4, SumOfRun
<1>w. W = V!TotalWeight /\ S = V!Savers OBVIOUS
<1> HIDE DEF S, W, F, share, extra
<1>6. share \in [S -> Nat] BY <1>2, <1>4
<1>7. SumFunctionOnSet(share, S) = P
  <2>1. \A m \in S : /\ Floors(P)[m] \in Int /\ extra[m] \in Int
                     /\ share[m] = Floors(P)[m] + extra[m] /\ (m \notin F => extra[m] = 0)
                     /\ (m \in F => extra[m] = 1)
    BY <1>2
  <2>2. SumFunctionOnSet(share, S) = SumFunctionOnSet(Floors(P), S) + SumFunctionOnSet(extra, S)
    BY <1>1, <2>1, SumAdd
  <2>3. SumFunctionOnSet(extra, S) = SumFunctionOnSet(extra, F) BY <1>1, <1>3, <2>1, SumSupport
  <2>4. IsFiniteSet(F) BY <1>1, <1>3, FS_Subset
  <2>5. SumFunctionOnSet(extra, F) = Cardinality(F) BY <1>3, <2>1, <2>4, SumOnes
  <2>6. SumFunctionOnSet(Floors(P), S) \in Int BY <1>1, <2>1, SumInt
  <2> QED BY <1>3, <2>2, <2>3, <2>5, <2>6 DEF Leftover, S
<1>8. ASSUME NEW m \in S PROVE V!Abs(share[m] * W - Weight[m] * P) < W
  <2> DEFINE fl == V!Floor(P, m)
             re == V!Remainder(P, m)
  <2>1. /\ fl \in Nat /\ re \in Nat /\ re < W /\ P * Weight[m] = W * fl + re
        /\ Weight[m] \in Nat
    BY <1>8, <1>w, FloorRemainder, WeightType
  <2>2. m \in F => re > 0 BY <1>3 DEF HasRemainder
  <2>3. share[m] = fl + extra[m] /\ extra[m] = (IF m \in F THEN 1 ELSE 0) BY <1>2, <1>8
  <2> HIDE DEF fl, re
  <2>4. Weight[m] * P = W * fl + re BY <2>1, Times
  <2>5. W * fl \in Int /\ fl * W = W * fl BY <1>1, <2>1, Times
  <2>6. CASE m \in F
    <3>1. share[m] * W = W * fl + W BY <1>1, <2>1, <2>3, <2>6
    <3>2. share[m] * W - Weight[m] * P = W - re BY <1>1, <2>1, <2>4, <2>5, <3>1
    <3> QED BY <1>1, <2>1, <2>2, <2>6, <3>2 DEF V!Abs
  <2>7. CASE m \notin F
    <3>1. share[m] * W = W * fl BY <2>1, <2>3, <2>5, <2>7
    <3>2. share[m] * W - Weight[m] * P = -re BY <1>1, <2>1, <2>4, <2>5, <3>1
    <3> QED BY <1>1, <2>1, <3>2 DEF V!Abs
  <2> QED BY <2>6, <2>7
<1> QED BY <1>5, <1>6, <1>7, <1>8 DEF S, W, share

-----------------------------------------------------------------------------
(* Dividend runs *)

AskedRates == Rates \cup {0}
VoteRow == [status : {"none", "open", "approved", "rejected", "closed"}, rate : AskedRates,
            yes : SUBSET V!Savers, no : SUBSET V!Savers]
RunRow == [status : {"none", "distributed"}, rate : AskedRates, pool : 0..Profit]
DividendHandRow == [pc : {"idle", "distribute"}, rate : AskedRates, remaining : 0..Profit,
                    takes : BOOLEAN]
EntryRow == [V!Savers -> {"none", "pending", "processing", "settled", "failed"}]
BankRow == [V!Savers -> V!Transfers]

\* V!TypeOK but for how often the statutory funds were taken.
RunTypes ==
    /\ asking \in [Officers -> AskedRates] /\ lastRate \in AskedRates
    /\ vote \in [Votes -> VoteRow] /\ run \in [Rows -> RunRow]
    /\ entry \in [Rows -> EntryRow] /\ dividendBank \in [Rows -> BankRow]
    /\ returned \in [Rows -> SUBSET V!Savers] /\ reversed \in [Rows -> SUBSET V!Savers]
    /\ taken \in Nat /\ dividendHand \in [Officers -> DividendHandRow]
    /\ granted \in Nat /\ landed \in [V!Savers -> Nat]

\* Whoever is about to take the statutory funds takes them the first time, or races
\* another who does.
Takers == {s \in Officers : dividendHand[s].takes}
TakenByEach == taken + Cardinality(Takers) <= Cardinality(Officers)

\* There is something to share against.
Weighted ==
    /\ \A s \in Officers : dividendHand[s].pc = "distribute" => V!TotalWeight > 0
    /\ \A r \in Rows : run[r].status = "distributed" => V!TotalWeight > 0

\* A transfer is in the Payout table only for a run, and what is sent back was there.
RowsOfRuns ==
    \A r \in Rows, m \in V!Savers :
        /\ dividendBank[r][m].row => run[r].status = "distributed"
        /\ m \in returned[r] => dividendBank[r][m].row

\* Whoever has a share has an entry, and what is known of it matches the books.
EntryMatches(r) ==
    \A m \in V!Savers :
        /\ entry[r][m] = "none" <=> V!AllocateShares(run[r].pool)[m] = 0
        /\ entry[r][m] = "failed" => m \in reversed[r]
        /\ dividendBank[r][m].row => entry[r][m] \in {"settled", "failed"}

EntriesMatch == \A r \in Rows : run[r].status = "distributed" => EntryMatches(r)

DividendInv == RunTypes /\ TakenByEach /\ Weighted /\ RowsOfRuns /\ EntriesMatch

(* Nobody has voted, run or asked anything. *)
LEMMA DividendInit ==
    ASSUME V!Init PROVE DividendInv
<1>1. RunTypes
  <2>1. V!NoVote \in VoteRow BY DEF V!NoVote, VoteRow, AskedRates
  <2>2. V!NoRun \in RunRow BY DecisionsAssumption DEF V!NoRun, RunRow, AskedRates
  <2>3. V!IdleHand \in DividendHandRow BY DecisionsAssumption DEF V!IdleHand, DividendHandRow, AskedRates
  <2>4. V!NoTransfer \in V!Transfers BY DEF V!NoTransfer, V!Transfers
  <2>5. 0 \in AskedRates BY DEF AskedRates
  <2> HIDE DEF V!NoVote, V!NoRun, V!IdleHand, V!NoTransfer
  <2> QED BY <2>1, <2>2, <2>3, <2>4, <2>5 DEF RunTypes, V!Init, EntryRow, BankRow
<1>2. TakenByEach
  <2>1. Takers = {} BY DEF Takers, V!Init, V!IdleHand
  <2>2. Cardinality(Officers) \in Nat BY DecisionsAssumption, FS_CardinalityType
  <2> QED BY <2>1, <2>2, FS_EmptySet DEF TakenByEach, V!Init
<1>3. Weighted BY DEF Weighted, V!Init, V!IdleHand, V!NoRun
<1>4. RowsOfRuns BY DEF RowsOfRuns, V!Init, V!NoTransfer
<1>5. EntriesMatch BY DEF EntriesMatch, V!Init, V!NoRun
<1> QED BY <1>1, <1>2, <1>3, <1>4, <1>5 DEF DividendInv

(* A step that leaves the runs and their money alone. *)
LEMMA DividendFrame ==
    ASSUME DividendInv, RunTypes', TakenByEach',
           UNCHANGED <<run, entry, dividendBank, returned, reversed>>,
           \A s \in Officers : dividendHand'[s].pc = "distribute" =>
               dividendHand[s].pc = "distribute" \/ V!TotalWeight > 0
    PROVE  DividendInv'
BY DEF DividendInv, Weighted, RowsOfRuns, EntriesMatch, EntryMatches

(* What a member's bank can answer. *)
LEMMA DividendSent ==
    ASSUME NEW o \in V!SendToBank(V!NoTransfer)
    PROVE  /\ o.bank \in V!Transfers /\ o.answer \in {"failed", "successful", "unsure"}
           /\ o.bank.row <=> o.answer = "successful"
<1>1. V!NoTransfer = [sent |-> FALSE, row |-> FALSE] BY DEF V!NoTransfer
<1>2. \A x, y \in BOOLEAN : [sent |-> x, row |-> y] \in V!Transfers BY DEF V!Transfers
<1>3. CASE o \in V!Refused(V!NoTransfer)
  <2>1. o.bank = [sent |-> FALSE, row |-> FALSE] /\ o.answer = "failed"
    BY <1>1, <1>3 DEF V!Refused
  <2>2. ~o.bank.row BY <2>1
  <2> QED BY <1>2, <2>1, <2>2
<1>4. CASE o \in V!Paid
  <2>1. o.bank = [sent |-> TRUE, row |-> TRUE] /\ o.answer = "successful" BY <1>4 DEF V!Paid
  <2>2. o.bank.row BY <2>1
  <2> QED BY <1>2, <2>1, <2>2
<1>5. CASE o \in V!Unconfirmed
  <2>1. o.bank = [sent |-> TRUE, row |-> FALSE] /\ o.answer = "unsure" BY <1>5 DEF V!Unconfirmed
  <2>2. ~o.bank.row BY <2>1
  <2> QED BY <1>2, <2>1, <2>2
<1>6. CASE o \in V!AnswerLost
  <2>1. o.bank = [sent |-> TRUE, row |-> FALSE] /\ o.answer = "failed" BY <1>6 DEF V!AnswerLost
  <2>2. ~o.bank.row BY <2>1
  <2> QED BY <1>2, <2>1, <2>2
<1> QED BY <1>3, <1>4, <1>5, <1>6 DEF V!SendToBank

(* What is left of a profit is not more than the profit. *)
LEMMA RemainingType ==
    ASSUME RunTypes PROVE V!Remaining \in 0..Profit
<1> DEFINE pools == [r \in Rows |-> run[r].pool]
           zero == [r \in Rows |-> 0]
<1>1. V!Pools = SumFunctionOnSet(pools, Rows) BY SumOfRun DEF V!Pools
<1>2. \A r \in Rows : pools[r] \in Int /\ zero[r] \in Int /\ zero[r] <= pools[r] /\ zero[r] = 0
  BY DEF RunTypes, RunRow
<1> HIDE DEF pools, zero
<1>3. IsFiniteSet(Rows) /\ {} \in SUBSET Rows BY DecisionsAssumption
<1>4. SumFunctionOnSet(zero, Rows) = 0
  <2>1. SumFunctionOnSet(zero, Rows) = SumFunctionOnSet(zero, {}) BY <1>2, <1>3, SumSupport
  <2> QED BY <2>1, SumEmpty
<1>5. 0 <= V!Pools /\ V!Pools \in Int BY <1>1, <1>2, <1>3, <1>4, SumLess, SumInt
<1>6. taken * Statutory \in Nat BY DecisionsAssumption, Times DEF RunTypes
<1> DEFINE n == Profit - taken * Statutory - V!Pools
<1>7. n \in Int /\ n <= Profit /\ Profit \in Nat
  <2> DEFINE a == taken * Statutory
  <2>1. a \in Nat BY <1>6
  <2> HIDE DEF a
  <2> QED BY <1>5, <2>1, DecisionsAssumption DEF a
<1>8. V!Remaining = V!NonNegative(n) BY DEF V!Remaining
<1> HIDE DEF n
<1> QED BY <1>7, <1>8 DEF V!NonNegative

(* A pool is a part of it: at most a quarter, rounded. *)
LEMMA PoolType ==
    ASSUME NEW h \in DividendHandRow PROVE V!Pool(h) \in 0..Profit
<1> DEFINE d == V!NonNegative(h.remaining - (IF h.takes THEN Statutory ELSE 0))
<1>1. d \in 0..Profit BY DecisionsAssumption DEF DividendHandRow, V!NonNegative
<1>2. h.rate \in 0..25
  <2>1. h.rate \in AskedRates BY DEF DividendHandRow
  <2>2. \A x \in AskedRates : x \in 0..25 BY DecisionsAssumption DEF AskedRates
  <2> QED BY <2>1, <2>2
<1>3. V!Pool(h) = (2 * d * h.rate + 100) \div 200 BY DEF V!Pool
<1>4. Profit \in Nat BY DecisionsAssumption
<1> HIDE DEF d
<1>5. d * h.rate \in Nat /\ d * h.rate <= 25 * d
  <2>1. d \in Nat /\ h.rate \in Nat BY <1>1, <1>2, <1>4
  <2>2. h.rate <= 25 BY <1>2
  <2>3. d * h.rate \in Nat BY <2>1, Times
  <2>4. d * (25 - h.rate) \in Nat
    <3>1. 25 - h.rate \in Nat BY <2>1, <2>2
    <3> QED BY <2>1, <3>1, Times
  <2>5. d * (25 - h.rate) = 25 * d - d * h.rate BY <2>1
  <2> QED BY <2>1, <2>3, <2>4, <2>5
<1>6. 2 * d * h.rate = 2 * (d * h.rate)
  <2>1. d \in Nat /\ h.rate \in Nat BY <1>1, <1>2, <1>4
  <2> QED BY <2>1
<1> DEFINE x == d * h.rate
<1>7. V!Pool(h) = (2 * x + 100) \div 200 BY <1>3, <1>6
<1>8. x \in Nat /\ x <= 25 * d BY <1>5
<1> HIDE DEF x
<1> QED BY <1>1, <1>4, <1>7, <1>8

\* One place of a function is written.
PlaceIs(n, w, x, row) == n = [w EXCEPT ![x] = row]

LEMMA PlaceSet ==
    ASSUME NEW X, NEW Y, NEW w \in [X -> Y], NEW x \in X, NEW row \in Y, NEW n, PlaceIs(n, w, x, row)
    PROVE  n \in [X -> Y] /\ n[x] = row /\ \A y \in X : y # x => n[y] = w[y]
BY DEF PlaceIs

(* The vote on a rate touches the votes only. *)
LEMMA VoteSteps ==
    ASSUME DividendInv, NEW v \in Votes,
           \/ \E rate \in Rates : V!StartDividendVote(v, rate)
           \/ \E m \in V!Savers, c \in {"yes", "no"} : V!CastDividendVote(v, m, c)
           \/ V!VoteExpires(v)
           \/ \E d \in {"approve", "reject", "count"} : V!CloseDividendVote(v, d)
    PROVE  DividendInv'
<1> DEFINE row == vote[v]
<1>1. row \in VoteRow /\ vote \in [Votes -> VoteRow] BY DEF DividendInv, RunTypes
<1>2. /\ row.status \in {"none", "open", "approved", "rejected", "closed"} /\ row.rate \in AskedRates
      /\ row.yes \in SUBSET V!Savers /\ row.no \in SUBSET V!Savers
  BY <1>1 DEF VoteRow
<1>3. UNCHANGED <<asking, lastRate, run, entry, dividendBank, returned, reversed, taken,
                  dividendHand, granted, landed>>
  BY DEF V!StartDividendVote, V!CastDividendVote, V!VoteExpires, V!CloseDividendVote, V!money
<1>4. \E new \in VoteRow : PlaceIs(vote', vote, v, new)
  <2>1. ASSUME NEW rate \in Rates, V!StartDividendVote(v, rate)
        PROVE  \E new \in VoteRow : PlaceIs(vote', vote, v, new)
    <3> DEFINE new == [V!NoVote EXCEPT !.status = "open", !.rate = rate]
    <3>1. new \in VoteRow BY DEF V!NoVote, VoteRow, AskedRates
    <3>2. PlaceIs(vote', vote, v, new) BY <2>1 DEF V!StartDividendVote, PlaceIs
    <3> QED BY <3>1, <3>2
  <2>2. ASSUME NEW m \in V!Savers, NEW c \in {"yes", "no"}, V!CastDividendVote(v, m, c)
        PROVE  \E new \in VoteRow : PlaceIs(vote', vote, v, new)
    <3> DEFINE new == IF c = "yes" THEN [row EXCEPT !.yes = row.yes \cup {m}]
                                   ELSE [row EXCEPT !.no = row.no \cup {m}]
    <3>1. new \in VoteRow
      <4>1. row.yes \cup {m} \in SUBSET V!Savers /\ row.no \cup {m} \in SUBSET V!Savers BY <1>2
      <4> QED BY <1>1, <4>1 DEF VoteRow
    <3>2. PlaceIs(vote', vote, v, new) BY <1>1, <2>2 DEF V!CastDividendVote, PlaceIs
    <3> QED BY <3>1, <3>2
  <2>3. ASSUME NEW st \in {"closed", "approved", "rejected"}, vote' = [vote EXCEPT ![v].status = st]
        PROVE  \E new \in VoteRow : PlaceIs(vote', vote, v, new)
    <3> DEFINE new == [row EXCEPT !.status = st]
    <3>1. new \in VoteRow BY <1>1 DEF VoteRow
    <3>2. PlaceIs(vote', vote, v, new) BY <1>1, <2>3 DEF PlaceIs
    <3> QED BY <3>1, <3>2
  <2>4. ASSUME NEW d \in {"approve", "reject", "count"}, V!CloseDividendVote(v, d)
        PROVE  \E st \in {"approved", "rejected"} : vote' = [vote EXCEPT ![v].status = st]
    BY <2>4 DEF V!CloseDividendVote
  <2> QED BY <2>1, <2>2, <2>3, <2>4 DEF V!VoteExpires
<1>5. vote' \in [Votes -> VoteRow] BY <1>1, <1>4, PlaceSet
<1>6. RunTypes' BY <1>3, <1>5 DEF DividendInv, RunTypes
<1>7. TakenByEach' BY <1>3 DEF DividendInv, TakenByEach, Takers
<1> QED BY <1>3, <1>6, <1>7, DividendFrame

(* A step of a super admin that takes nothing: the hand is not one that takes, unless
   nothing was taken yet. *)
LEMMA HandStep ==
    ASSUME DividendInv, NEW s \in Officers, NEW h \in DividendHandRow,
           PlaceIs(dividendHand', dividendHand, s, h), h.takes => taken = 0,
           taken' = taken
    PROVE  dividendHand' \in [Officers -> DividendHandRow] /\ dividendHand'[s] = h /\ TakenByEach'
           /\ \A t \in Officers : t # s => dividendHand'[t] = dividendHand[t]
<1>1. /\ dividendHand' \in [Officers -> DividendHandRow] /\ dividendHand'[s] = h
      /\ \A t \in Officers : t # s => dividendHand'[t] = dividendHand[t]
  <2>1. dividendHand \in [Officers -> DividendHandRow] BY DEF DividendInv, RunTypes
  <2> QED BY <2>1 DEF PlaceIs
<1>2. IsFiniteSet(Officers) /\ Cardinality(Officers) \in Nat
  BY DecisionsAssumption, FS_CardinalityType
<1>3. Takers \in SUBSET Officers /\ Takers' \in SUBSET Officers BY DEF Takers
<1>4. /\ Cardinality(Takers) \in Nat /\ Cardinality(Takers') \in Nat
      /\ Cardinality(Takers') <= Cardinality(Officers)
      /\ Takers' \in SUBSET Takers => Cardinality(Takers') <= Cardinality(Takers)
  BY <1>2, <1>3, FS_Subset, FS_CardinalityType
<1>5. taken \in Nat BY DEF DividendInv, RunTypes
<1>6. CASE h.takes BY <1>1, <1>2, <1>4, <1>5, <1>6 DEF TakenByEach
<1>7. CASE ~h.takes
  <2>1. Takers' \in SUBSET Takers BY <1>1, <1>7 DEF Takers
  <2>2. taken + Cardinality(Takers) <= Cardinality(Officers) BY DEF DividendInv, TakenByEach
  <2> QED BY <1>1, <1>2, <1>4, <1>5, <2>1, <2>2 DEF TakenByEach
<1> QED BY <1>1, <1>6, <1>7

LEMMA IdleDividendHand ==
    V!IdleHand \in DividendHandRow /\ ~V!IdleHand.takes /\ V!IdleHand.pc = "idle"
BY DecisionsAssumption DEF V!IdleHand, DividendHandRow, AskedRates

(* Asking, leaving and refusing move no money. *)
LEMMA AskSteps ==
    ASSUME DividendInv, NEW s \in Officers,
           \/ \E rate \in Rates : V!PayDividend(s, rate)
           \/ V!CancelDividend(s) \/ V!RefuseRun(s)
    PROVE  DividendInv'
<1>1. /\ UNCHANGED <<lastRate, vote, run, entry, dividendBank, returned, reversed, taken, landed>>
      /\ granted' \in {granted, granted + 1}
      /\ \E rate \in AskedRates : PlaceIs(asking', asking, s, rate)
  <2>1. ASSUME NEW rate \in Rates, V!PayDividend(s, rate)
        PROVE  \E x \in AskedRates : PlaceIs(asking', asking, s, x)
    BY <2>1 DEF V!PayDividend, PlaceIs, AskedRates
  <2>2. ASSUME V!CancelDividend(s) \/ V!RefuseRun(s)
        PROVE  \E x \in AskedRates : PlaceIs(asking', asking, s, x)
    BY <2>2 DEF V!CancelDividend, V!RefuseRun, PlaceIs, AskedRates
  <2> QED BY <2>1, <2>2 DEF V!PayDividend, V!CancelDividend, V!RefuseRun, V!money
<1>2. /\ dividendHand' \in [Officers -> DividendHandRow] /\ TakenByEach'
      /\ \A t \in Officers : dividendHand'[t].pc = "distribute" => dividendHand[t].pc = "distribute"
  <2>1. CASE UNCHANGED dividendHand
    BY <1>1, <2>1 DEF DividendInv, RunTypes, TakenByEach, Takers
  <2>2. CASE PlaceIs(dividendHand', dividendHand, s, V!IdleHand)
    <3>1. /\ dividendHand' \in [Officers -> DividendHandRow] /\ dividendHand'[s] = V!IdleHand /\ TakenByEach'
          /\ \A t \in Officers : t # s => dividendHand'[t] = dividendHand[t]
      BY <1>1, <2>2, IdleDividendHand, HandStep
    <3>2. dividendHand'[s].pc # "distribute" BY <3>1, IdleDividendHand
    <3> QED BY <3>1, <3>2
  <2> QED BY <2>1, <2>2 DEF V!PayDividend, V!CancelDividend, V!RefuseRun, PlaceIs
<1>3. asking' \in [Officers -> AskedRates] BY <1>1, PlaceSet DEF DividendInv, RunTypes
<1>4. granted' \in Nat BY <1>1 DEF DividendInv, RunTypes
<1>5. RunTypes' BY <1>1, <1>2, <1>3, <1>4 DEF DividendInv, RunTypes
<1> QED BY <1>1, <1>2, <1>5, DividendFrame

(* The base is read; a run that is rolled back leaves transfers at the provider. *)
LEMMA ReadSteps ==
    ASSUME DividendInv, NEW s \in Officers, V!ReadBase(s)
    PROVE  DividendInv'
<1> DEFINE h == [pc |-> "distribute", rate |-> asking[s], remaining |-> V!Remaining, takes |-> taken = 0]
<1>1. /\ UNCHANGED <<asking, lastRate, vote, run, entry, dividendBank, returned, reversed, taken, landed, granted>>
      /\ PlaceIs(dividendHand', dividendHand, s, h) /\ V!TotalWeight > 0
  BY DEF V!ReadBase, V!money, PlaceIs
<1>2. h \in DividendHandRow /\ (h.takes => taken = 0)
  <2>1. asking[s] \in AskedRates /\ V!Remaining \in 0..Profit
    BY RemainingType DEF DividendInv, RunTypes
  <2>2. (taken = 0) \in BOOLEAN OBVIOUS
  <2> QED BY <2>1, <2>2 DEF DividendHandRow
<1> HIDE DEF h
<1>3. dividendHand' \in [Officers -> DividendHandRow] /\ TakenByEach' BY <1>1, <1>2, HandStep
<1>4. RunTypes' BY <1>1, <1>3 DEF DividendInv, RunTypes
<1> QED BY <1>1, <1>3, <1>4, DividendFrame

LEMMA RolledBackStep ==
    ASSUME DividendInv, NEW s \in Officers, V!RunRolledBack(s)
    PROVE  DividendInv'
<1>1. /\ UNCHANGED <<asking, lastRate, vote, run, entry, dividendBank, returned, reversed, taken, granted>>
      /\ PlaceIs(dividendHand', dividendHand, s, V!IdleHand)
      /\ \E o : landed' = [m \in V!Savers |-> landed[m] + IF m \in V!Taken(o) THEN 1 ELSE 0]
  BY DEF V!RunRolledBack, PlaceIs
<1>2. landed' \in [V!Savers -> Nat] BY <1>1 DEF DividendInv, RunTypes
<1>3. /\ dividendHand' \in [Officers -> DividendHandRow] /\ dividendHand'[s] = V!IdleHand /\ TakenByEach'
      /\ \A t \in Officers : t # s => dividendHand'[t] = dividendHand[t]
  BY <1>1, IdleDividendHand, HandStep
<1>4. \A t \in Officers : dividendHand'[t].pc = "distribute" => dividendHand[t].pc = "distribute"
  BY <1>3, IdleDividendHand
<1>5. RunTypes' BY <1>1, <1>2, <1>3 DEF DividendInv, RunTypes
<1> QED BY <1>1, <1>3, <1>4, <1>5, DividendFrame

(* What the provider reports of a transfer. *)
LEMMA ReportSteps ==
    ASSUME DividendInv, NEW r \in Rows, NEW m \in V!Savers,
           V!ProviderReturns(r, m) \/ V!ReportSuccess(r, m) \/ V!ReportFailure(r, m)
    PROVE  DividendInv'
<1>1. /\ UNCHANGED <<asking, lastRate, vote, run, dividendBank, taken, landed, dividendHand, granted>>
      /\ TakenByEach' /\ Weighted'
  BY DEF V!ProviderReturns, V!ReportSuccess, V!ReportFailure, DividendInv, TakenByEach, Takers, Weighted
<1>2. /\ entry \in [Rows -> EntryRow] /\ returned \in [Rows -> SUBSET V!Savers]
      /\ reversed \in [Rows -> SUBSET V!Savers]
  BY DEF DividendInv, RunTypes
<1>3. entry[r] \in EntryRow BY <1>2
<1>4. /\ run[r].status = "distributed" => EntryMatches(r)
      /\ \A q \in Rows : run[q].status = "distributed" => EntryMatches(q)
      /\ RowsOfRuns
  BY DEF DividendInv, EntriesMatch
<1>5. CASE V!ProviderReturns(r, m)
  <2> DEFINE new == returned[r] \cup {m}
  <2>1. new \in SUBSET V!Savers /\ UNCHANGED <<entry, reversed>> /\ dividendBank[r][m].row
        /\ returned' = [returned EXCEPT ![r] = new]
    BY <1>2, <1>5 DEF V!ProviderReturns
  <2>2. returned' \in [Rows -> SUBSET V!Savers] /\ returned'[r] = new
        /\ \A q \in Rows : q # r => returned'[q] = returned[q]
    BY <1>2, <2>1
  <2>3. RunTypes' BY <1>1, <2>1, <2>2 DEF DividendInv, RunTypes
  <2>4. RowsOfRuns' BY <1>1, <1>4, <2>1, <2>2 DEF RowsOfRuns
  <2>5. EntriesMatch' BY <1>1, <1>4, <2>1 DEF EntriesMatch, EntryMatches
  <2> QED BY <1>1, <2>3, <2>4, <2>5 DEF DividendInv
<1>6. ASSUME NEW st \in {"settled", "failed"}, PlaceIs(entry', entry, r, [entry[r] EXCEPT ![m] = st]),
             dividendBank[r][m].row, returned' = returned,
             reversed' \in [Rows -> SUBSET V!Savers],
             \A q \in Rows : reversed[q] \subseteq reversed'[q],
             st = "failed" => m \in reversed'[r]
      PROVE  DividendInv'
  <2> DEFINE new == [entry[r] EXCEPT ![m] = st]
  <2>1. new \in EntryRow /\ new[m] = st /\ \A n \in V!Savers : n # m => new[n] = entry[r][n]
    BY <1>3 DEF EntryRow
  <2>2. PlaceIs(entry', entry, r, new) BY <1>6
  <2> HIDE DEF new
  <2>3. entry' \in [Rows -> EntryRow] /\ entry'[r] = new
        /\ \A q \in Rows : q # r => entry'[q] = entry[q]
    BY <1>2, <2>1, <2>2 DEF PlaceIs
  <2>4. RunTypes' BY <1>1, <1>6, <2>3 DEF DividendInv, RunTypes
  <2>5. RowsOfRuns' BY <1>1, <1>4, <1>6 DEF RowsOfRuns
  <2>6. ASSUME NEW q \in Rows, run[q].status = "distributed" PROVE EntryMatches(q)'
    <3>1. EntryMatches(q) BY <1>4, <2>6
    <3>2. CASE q # r BY <1>1, <1>6, <2>3, <3>1, <3>2 DEF EntryMatches
    <3>3. CASE q = r
      <4>1. entry[r][m] # "none" /\ V!AllocateShares(run[r].pool)[m] # 0
        BY <1>6, <3>1, <3>3 DEF EntryMatches
      <4>2. entry'[r][m] = st /\ entry'[r][m] # "none" BY <1>6, <2>1, <2>3
      <4>3. \A n \in V!Savers : n # m => entry'[r][n] = entry[r][n] BY <2>1, <2>3
      <4> QED BY <1>1, <1>6, <3>1, <3>3, <4>1, <4>2, <4>3 DEF EntryMatches
    <3> QED BY <3>2, <3>3
  <2>7. EntriesMatch' BY <1>1, <2>6 DEF EntriesMatch
  <2> QED BY <1>1, <2>4, <2>5, <2>7 DEF DividendInv
<1>7. CASE V!ReportSuccess(r, m)
  <2>1. PlaceIs(entry', entry, r, [entry[r] EXCEPT ![m] = "settled"])
    BY <1>2, <1>7 DEF V!ReportSuccess, PlaceIs
  <2> QED BY <1>2, <1>6, <1>7, <2>1 DEF V!ReportSuccess
<1>8. CASE V!ReportFailure(r, m)
  <2>1. PlaceIs(entry', entry, r, [entry[r] EXCEPT ![m] = "failed"])
    BY <1>2, <1>8 DEF V!ReportFailure, PlaceIs
  <2>2. dividendBank[r][m].row BY <1>4, <1>8 DEF V!ReportFailure, RowsOfRuns
  <2>3. reversed' = [reversed EXCEPT ![r] = reversed[r] \cup {m}] /\ returned' = returned
    BY <1>8 DEF V!ReportFailure
  <2>4. reversed' \in [Rows -> SUBSET V!Savers] /\ m \in reversed'[r]
        /\ \A q \in Rows : reversed[q] \subseteq reversed'[q]
    BY <1>2, <2>3
  <2> QED BY <1>6, <2>1, <2>2, <2>3, <2>4
<1> QED BY <1>5, <1>7, <1>8

(* A run: every candidate has the entry of his bank's answer, every other member with a
   share is held. *)
LEMMA DistributeStep ==
    ASSUME DividendInv, NEW s \in Officers, NEW r \in Rows, V!DistributeDividend(s, r)
    PROVE  DividendInv'
<1> DEFINE h == dividendHand[s]
           P == V!Pool(h)
           share == V!AllocateShares(P)
           paid == V!Candidates(P)
<1>1. h \in DividendHandRow /\ h.pc = "distribute" /\ run[r].status = "none"
      /\ V!TotalWeight > 0
  BY DEF V!DistributeDividend, DividendInv, RunTypes, Weighted
<1>2. P \in 0..Profit /\ P \in Nat
  BY <1>1, PoolType, DecisionsAssumption
<1>3. share \in [V!Savers -> Nat] BY <1>1, <1>2, SharesAddUp
<1>4. paid \in SUBSET V!Savers /\ \A m \in V!Savers : m \in paid <=> m \in Banked /\ share[m] > 0
  BY DecisionsAssumption DEF V!Candidates, V!Savers
<1>5. \A m \in V!Savers : m \in V!Held(P) <=> m \notin Banked /\ share[m] > 0
  BY DEF V!Held
<1>6. PICK o \in V!Answers(P) :
        /\ run' = [run EXCEPT ![r] = [status |-> "distributed", rate |-> h.rate, pool |-> P]]
        /\ entry' = [entry EXCEPT ![r] = [m \in V!Savers |->
                IF m \in DOMAIN o THEN V!EntryStatus(o[m].answer)
                ELSE IF m \in V!Held(P) THEN "pending" ELSE "none"]]
        /\ dividendBank' = [dividendBank EXCEPT ![r] = [m \in V!Savers |->
                IF m \in DOMAIN o THEN o[m].bank ELSE V!NoTransfer]]
        /\ reversed' = [reversed EXCEPT ![r] = {m \in DOMAIN o : o[m].answer = "failed"}]
        /\ landed' = [m \in V!Savers |-> landed[m] + IF m \in V!Taken(o) THEN 1 ELSE 0]
  BY DEF V!DistributeDividend
<1>7. /\ taken' = IF h.takes THEN taken + 1 ELSE taken
      /\ lastRate' = h.rate
      /\ vote' = [v \in Votes |-> IF v \in V!ApprovedFor(h.rate)
                                  THEN [vote[v] EXCEPT !.status = "closed"] ELSE vote[v]]
      /\ PlaceIs(dividendHand', dividendHand, s, V!IdleHand)
      /\ PlaceIs(asking', asking, s, 0)
      /\ UNCHANGED <<returned, granted>>
  BY DEF V!DistributeDividend, PlaceIs
<1>8. DOMAIN o = paid /\ \A m \in paid : o[m] \in V!SendToBank(V!NoTransfer)
  BY <1>6 DEF V!Answers
<1> DEFINE newRun == [status |-> "distributed", rate |-> h.rate, pool |-> P]
           newEntry == [m \in V!Savers |-> IF m \in DOMAIN o THEN V!EntryStatus(o[m].answer)
                                           ELSE IF m \in V!Held(P) THEN "pending" ELSE "none"]
           newBank == [m \in V!Savers |-> IF m \in DOMAIN o THEN o[m].bank ELSE V!NoTransfer]
           newReversed == {m \in DOMAIN o : o[m].answer = "failed"}
<1>9. newRun \in RunRow /\ newRun.status = "distributed" /\ newRun.pool = P /\ h.rate \in AskedRates
  BY <1>1, <1>2 DEF RunRow, DividendHandRow
<1>10. /\ PlaceIs(run', run, r, newRun) /\ PlaceIs(entry', entry, r, newEntry)
       /\ PlaceIs(dividendBank', dividendBank, r, newBank) /\ PlaceIs(reversed', reversed, r, newReversed)
  BY <1>6 DEF PlaceIs
<1>11. ASSUME NEW m \in paid
       PROVE  /\ m \in V!Savers /\ share[m] > 0
              /\ newEntry[m] = V!EntryStatus(o[m].answer) /\ newEntry[m] \in {"settled", "processing", "failed"}
              /\ newEntry[m] = "failed" => m \in newReversed
              /\ newBank[m] = o[m].bank /\ newBank[m] \in V!Transfers
              /\ newBank[m].row => newEntry[m] = "settled"
  <2>1. o[m] \in V!SendToBank(V!NoTransfer) /\ m \in DOMAIN o /\ m \in V!Savers /\ share[m] > 0
    BY <1>4, <1>8, <1>11
  <2>2. /\ o[m].bank \in V!Transfers /\ o[m].answer \in {"failed", "successful", "unsure"}
        /\ o[m].bank.row <=> o[m].answer = "successful"
    BY <2>1, DividendSent
  <2>3. newEntry[m] = V!EntryStatus(o[m].answer) /\ newBank[m] = o[m].bank BY <2>1
  <2>4. /\ o[m].answer = "successful" => newEntry[m] = "settled"
        /\ o[m].answer = "unsure" => newEntry[m] = "processing"
        /\ o[m].answer = "failed" => newEntry[m] = "failed" /\ m \in newReversed
    BY <2>1, <2>3 DEF V!EntryStatus
  <2> HIDE DEF newEntry, newBank, newReversed
  <2> QED BY <2>1, <2>2, <2>3, <2>4
<1>12. ASSUME NEW m \in V!Savers, m \notin paid
       PROVE  /\ newEntry[m] \in {"pending", "none"} /\ (newEntry[m] = "none" <=> share[m] = 0)
              /\ newBank[m] \in V!Transfers /\ ~newBank[m].row
  <2>1. newEntry[m] = (IF m \in V!Held(P) THEN "pending" ELSE "none") /\ newBank[m] = V!NoTransfer
    BY <1>8, <1>12
  <2>2. m \in V!Held(P) <=> share[m] # 0 BY <1>3, <1>4, <1>5, <1>12
  <2>3. V!NoTransfer \in V!Transfers /\ ~V!NoTransfer.row BY DEF V!NoTransfer, V!Transfers
  <2> QED BY <2>1, <2>2, <2>3
<1>d. newEntry = [m \in V!Savers |-> newEntry[m]] /\ newBank = [m \in V!Savers |-> newBank[m]] OBVIOUS
<1>e. newReversed \in SUBSET V!Savers BY <1>4, <1>8
<1> HIDE DEF newRun, newEntry, newBank, newReversed, P, h, paid
<1>13. newEntry \in EntryRow /\ newBank \in BankRow
  <2>1. \A m \in V!Savers : newEntry[m] \in {"none", "pending", "processing", "settled", "failed"}
                            /\ newBank[m] \in V!Transfers
    BY <1>11, <1>12
  <2> QED BY <1>d, <2>1 DEF EntryRow, BankRow
<1>14. /\ run' \in [Rows -> RunRow] /\ run'[r] = newRun /\ (\A q \in Rows : q # r => run'[q] = run[q])
       /\ entry' \in [Rows -> EntryRow] /\ entry'[r] = newEntry
       /\ (\A q \in Rows : q # r => entry'[q] = entry[q])
  BY <1>9, <1>10, <1>13 DEF PlaceIs, DividendInv, RunTypes
<1>15. /\ dividendBank' \in [Rows -> BankRow] /\ dividendBank'[r] = newBank
       /\ (\A q \in Rows : q # r => dividendBank'[q] = dividendBank[q])
       /\ reversed' \in [Rows -> SUBSET V!Savers] /\ reversed'[r] = newReversed
       /\ (\A q \in Rows : q # r => reversed'[q] = reversed[q])
  BY <1>10, <1>13, <1>e DEF PlaceIs, DividendInv, RunTypes
<1>16. vote' \in [Votes -> VoteRow]
  <2>1. \A v \in Votes : vote[v] \in VoteRow /\ [vote[v] EXCEPT !.status = "closed"] \in VoteRow
    BY DEF DividendInv, RunTypes, VoteRow
  <2> QED BY <1>7, <2>1
<1>17. asking' \in [Officers -> AskedRates]
  <2>1. asking \in [Officers -> AskedRates] /\ 0 \in AskedRates BY DEF DividendInv, RunTypes, AskedRates
  <2> QED BY <1>7, <2>1 DEF PlaceIs
<1>18. landed' \in [V!Savers -> Nat] BY <1>6 DEF DividendInv, RunTypes
<1>19. /\ dividendHand' \in [Officers -> DividendHandRow] /\ dividendHand'[s] = V!IdleHand
       /\ \A t \in Officers : t # s => dividendHand'[t] = dividendHand[t]
  <2>1. dividendHand \in [Officers -> DividendHandRow] BY DEF DividendInv, RunTypes
  <2> QED BY <1>7, <2>1, IdleDividendHand DEF PlaceIs
<1>20. RunTypes'
  BY <1>7, <1>9, <1>14, <1>15, <1>16, <1>17, <1>18, <1>19 DEF DividendInv, RunTypes
<1>21. TakenByEach'
  <2>1. IsFiniteSet(Takers) /\ IsFiniteSet(Takers') /\ Cardinality(Takers) \in Nat
    BY DecisionsAssumption, FS_Subset, FS_CardinalityType DEF Takers
  <2>2. Takers' = Takers \ {s} BY <1>19, IdleDividendHand DEF Takers
  <2>3. Cardinality(Takers') = IF h.takes THEN Cardinality(Takers) - 1 ELSE Cardinality(Takers)
    BY <2>1, <2>2, FS_RemoveElement DEF Takers, h
  <2>4. taken \in Nat /\ taken + Cardinality(Takers) <= Cardinality(Officers)
    BY DEF DividendInv, RunTypes, TakenByEach
  <2> QED BY <1>7, <2>1, <2>3, <2>4 DEF TakenByEach
<1>22. Weighted' BY <1>1, <1>14, <1>19, IdleDividendHand DEF DividendInv, Weighted
<1>23. RowsOfRuns'
  <2>1. \A q \in Rows, m \in V!Savers :
          /\ dividendBank[q][m].row => run[q].status = "distributed"
          /\ m \in returned[q] => dividendBank[q][m].row
    BY DEF DividendInv, RowsOfRuns
  <2>2. \A m \in V!Savers : m \notin returned[r] BY <1>1, <2>1
  <2> QED BY <1>7, <1>9, <1>14, <1>15, <2>1, <2>2 DEF RowsOfRuns
<1>24. ASSUME NEW q \in Rows, run'[q].status = "distributed" PROVE EntryMatches(q)'
  <2>1. CASE q # r BY <1>14, <1>15, <1>24, <2>1 DEF DividendInv, EntriesMatch, EntryMatches
  <2>2. CASE q = r
    <3>1. V!AllocateShares(run'[q].pool) = share BY <1>9, <1>14, <2>2
    <3> HIDE DEF share
    <3>2. \A m \in V!Savers : /\ newEntry[m] = "none" <=> share[m] = 0
                              /\ newEntry[m] = "failed" => m \in newReversed
                              /\ newBank[m].row => newEntry[m] \in {"settled", "failed"}
      <4> TAKE m \in V!Savers
      <4>1. CASE m \in paid
        <5>1. share[m] > 0 /\ share[m] \in Nat BY <1>3, <1>11, <4>1
        <5> QED BY <1>11, <4>1, <5>1
      <4>2. CASE m \notin paid BY <1>12, <4>2
      <4> QED BY <4>1, <4>2
    <3> QED BY <1>14, <1>15, <2>2, <3>1, <3>2 DEF EntryMatches
  <2> QED BY <2>1, <2>2
<1>25. EntriesMatch' BY <1>24 DEF EntriesMatch
<1> QED BY <1>20, <1>21, <1>22, <1>23, <1>25 DEF DividendInv

(* Every step of the dividends keeps DividendInv. *)
LEMMA DividendStep ==
    ASSUME DividendInv, V!Next
    PROVE  DividendInv'
<1>1. ASSUME NEW v \in Votes,
             \/ \E rate \in Rates : V!StartDividendVote(v, rate)
             \/ \E m \in V!Savers, c \in {"yes", "no"} : V!CastDividendVote(v, m, c)
             \/ V!VoteExpires(v)
             \/ \E d \in {"approve", "reject", "count"} : V!CloseDividendVote(v, d)
      PROVE  DividendInv'
  BY <1>1, VoteSteps
<1>2. ASSUME NEW s \in Officers,
             \/ \E rate \in Rates : V!PayDividend(s, rate)
             \/ V!CancelDividend(s) \/ V!RefuseRun(s)
      PROVE  DividendInv'
  BY <1>2, AskSteps
<1>3. ASSUME NEW s \in Officers, V!ReadBase(s) PROVE DividendInv' BY <1>3, ReadSteps
<1>4. ASSUME NEW s \in Officers, V!RunRolledBack(s) PROVE DividendInv' BY <1>4, RolledBackStep
<1>5. ASSUME NEW s \in Officers, NEW r \in Rows, V!DistributeDividend(s, r) PROVE DividendInv'
  BY <1>5, DistributeStep
<1>6. ASSUME NEW r \in Rows, NEW m \in V!Savers,
             V!ProviderReturns(r, m) \/ V!ReportSuccess(r, m) \/ V!ReportFailure(r, m)
      PROVE  DividendInv'
  BY <1>6, ReportSteps
<1> QED BY <1>1, <1>2, <1>3, <1>4, <1>5, <1>6 DEF V!Next

(* The other parts leave the dividends alone. *)
LEMMA DividendStutter ==
    ASSUME DividendInv, UNCHANGED dividendsVars
    PROVE  DividendInv'
BY DEF dividendsVars, DividendInv, RunTypes, TakenByEach, Takers, Weighted, RowsOfRuns,
       EntriesMatch, EntryMatches

LEMMA DividendKept == DividendInv /\ [OfficeNext]_officeVars => DividendInv'
BY DividendStep, DividendStutter DEF OfficeNext, officeVars

(* PoolIsShared: dividends.ts gives every kobo of a pool to the members, nobody a kobo
   more or less than his part, whatever they have saved; the entries say what was done
   with each share. *)
THEOREM PoolSharedTheorem == OfficeSpec => []PoolIsShared
<1>1. OfficeInit => DividendInv BY DividendInit DEF OfficeInit
<1>2. DividendInv => PoolIsShared
  <2> SUFFICES ASSUME DividendInv PROVE V!PoolIsShared BY DEF PoolIsShared
  <2>1. ASSUME NEW r \in Rows, run[r].status = "distributed"
        PROVE  /\ V!SumFunction(V!AllocateShares(run[r].pool)) = run[r].pool
               /\ \A m \in V!Savers :
                    V!Abs(V!AllocateShares(run[r].pool)[m] * V!TotalWeight - Weight[m] * run[r].pool)
                        < V!TotalWeight
    <3>1. V!TotalWeight > 0 /\ run[r].pool \in Nat
      BY <2>1, DecisionsAssumption DEF DividendInv, Weighted, RunTypes, RunRow
    <3> QED BY <3>1, SharesAddUp
  <2>2. ASSUME NEW r \in Rows, run[r].status = "distributed" PROVE EntryMatches(r)
    BY <2>2 DEF DividendInv, EntriesMatch
  <2> QED BY <2>1, <2>2 DEF V!PoolIsShared, EntryMatches
<1> QED BY <1>1, <1>2, DividendKept, PTL DEF OfficeSpec

-----------------------------------------------------------------------------
(* Filings *)

PackRow == [status : {"none", "generated", "filed"}, asOf : 0..MaxDay, due : Q!DueDays,
            filedAt : 0..MaxDay]
FilerRow == [pc : {"idle", "configure", "make", "file"}, on : Packs \cup {Nobody, NoRecord},
             asOf : 0..MaxDay, due : Q!DueDays, filedAt : 0..MaxDay, filed : BOOLEAN, row : Nat]
MakerRow == [pc : {"idle", "next", "make", "claim"}, left : SUBSET Packs,
             on : Packs \cup {NoRecord}, asOf : 0..MaxDay, due : Q!DueDays,
             day : 0..MaxDay, list : SUBSET Packs, mine : SUBSET Packs]

FilingTypes ==
    /\ today \in Q!Days
    /\ regulator \in Seq(Dues)
    /\ pack \in [Packs -> PackRow]
    /\ filer \in [Hands -> FilerRow]
    /\ maker \in [Processes -> MakerRow]
    /\ claimed \subseteq Packs \X Q!Days
    /\ reminded \in [Packs \X Q!Days -> Nat]
    /\ crossed \subseteq Packs \cup {Nobody}
    /\ mishaps \subseteq (Packs \cup {Nobody}) \X {"doubled", "older", "remade", "refiled"}

\* A row says when it was filed, and is not of a day to come.
RowsTrue ==
    \A p \in Packs :
        /\ pack[p].status = "filed" <=> pack[p].filedAt # 0
        /\ pack[p].status = "none" <=> pack[p].asOf = 0
        /\ pack[p].asOf <= today

\* What a handler works on; one that files has seen the row, filed or not.
FilersKnow ==
    \A k \in Hands :
        /\ filer[k].pc = "configure" => filer[k].on = Nobody
        /\ filer[k].pc = "make" =>
            filer[k].on \in Packs /\ filer[k].asOf \in Q!Days /\ filer[k].asOf <= today
        /\ filer[k].pc = "file" =>
            /\ filer[k].on \in Packs
            /\ pack[filer[k].on].status # "none"
            /\ filer[k].filed <=> filer[k].filedAt # 0
            /\ filer[k].filed => pack[filer[k].on].status = "filed"

\* What a run of the job works on; what it is to remind of exists, and the claim is its own.
MakersKnow ==
    \A j \in Processes :
        /\ maker[j].pc \in {"idle", "claim"} => maker[j].left = {}
        /\ maker[j].pc # "claim" => maker[j].list = {} /\ maker[j].mine = {}
        /\ maker[j].pc # "idle" => maker[j].day \in Q!Days
        /\ maker[j].pc = "make" =>
            maker[j].on \in maker[j].left /\ maker[j].asOf \in Q!Days /\ maker[j].asOf <= today
        /\ \A p \in maker[j].list \cup maker[j].mine : pack[p].status # "none"
        /\ \A p \in maker[j].mine :
            <<p, maker[j].day>> \in claimed /\ reminded[<<p, maker[j].day>>] = 0

\* Two runs of the job never hold the same claim.
ClaimsApart ==
    \A i, j \in Processes : \A p \in Packs :
        i # j /\ p \in maker[i].mine /\ p \in maker[j].mine => maker[i].day # maker[j].day

RemindersTrue ==
    \A c \in Packs \X Q!Days :
        /\ reminded[c] <= 1
        /\ reminded[c] = 1 => c \in claimed /\ pack[c[1]].status # "none"

FilerOn(k, i) == filer[k].pc # "idle" /\ filer[k].on = i

\* What nobody crossed is in the hands of one, and what he read of it still holds.
SingleHanded ==
    \A i \in (Packs \cup {Nobody}) \ crossed :
        /\ \A k, l \in Hands : FilerOn(k, i) /\ FilerOn(l, i) => k = l
        /\ \A j, g \in Processes : i \in maker[j].left /\ i \in maker[g].left => j = g
        /\ \A k \in Hands, j \in Processes : ~(FilerOn(k, i) /\ i \in maker[j].left)

StillTrue ==
    \A i \in (Packs \cup {Nobody}) \ crossed :
        /\ \A k \in Hands : FilerOn(k, i) =>
            /\ filer[k].pc = "configure" => filer[k].row = Len(regulator)
            /\ filer[k].pc = "make" => pack[i].asOf <= filer[k].asOf
            /\ filer[k].pc = "file" =>
                /\ filer[k].filed <=> pack[i].status = "filed"
                /\ filer[k].filedAt = pack[i].filedAt
        /\ \A j \in Processes : i \in maker[j].left => pack[i].status = "none"

MishapsCrossed == \A m \in mishaps : m[1] \in crossed

FilingInv ==
    /\ FilingTypes /\ RowsTrue /\ FilersKnow /\ MakersKnow /\ ClaimsApart
    /\ RemindersTrue /\ SingleHanded /\ StillTrue /\ MishapsCrossed

(* FilingInv holds at the start: nothing is made, nobody is busy. *)
LEMMA FilingInit ==
    ASSUME Q!Init
    PROVE  FilingInv
<1> USE DEF Q!Init
<1>0. 0 \in Q!DueDays /\ 0 \in 0..MaxDay /\ MaxDay \in Nat /\ 1 \in Q!Days
  <2>1. MaxDay \in Nat \ {0} BY DecisionsAssumption DEF DecisionsAssumption
  <2> QED BY <2>1 DEF Q!DueDays, Q!Days
<1>1. Q!Unmade \in PackRow BY <1>0 DEF Q!Unmade, PackRow
<1>2. Q!IdleClerk \in FilerRow BY <1>0 DEF Q!IdleClerk, FilerRow
<1>3. Q!IdleJob \in MakerRow BY <1>0 DEF Q!IdleJob, MakerRow
<1>4. FilingTypes BY <1>0, <1>1, <1>2, <1>3 DEF FilingTypes
<1>5. RowsTrue BY DEF RowsTrue, Q!Unmade
<1>6. FilersKnow BY DEF FilersKnow, Q!IdleClerk
<1>7. MakersKnow /\ ClaimsApart BY DEF MakersKnow, ClaimsApart, Q!IdleJob
<1>8. RemindersTrue /\ MishapsCrossed BY DEF RemindersTrue, MishapsCrossed
<1>9. SingleHanded /\ StillTrue
  BY DEF SingleHanded, StillTrue, FilerOn, Q!IdleClerk, Q!IdleJob
<1> QED BY <1>4, <1>5, <1>6, <1>7, <1>8, <1>9 DEF FilingInv

\* Who is busy with something is a handler on it or a run of the job that is to make it.
LEMMA BusyMeans ==
    ASSUME NEW i, ~Q!Busy(i)
    PROVE  /\ \A k \in Hands : ~FilerOn(k, i)
           /\ \A j \in Processes : i \notin maker[j].left
BY DEF Q!Busy, FilerOn

\* What a handler has read when it starts work on i.
OpensOn(row, i) ==
    /\ row \in FilerRow /\ row.pc # "idle" /\ row.on = i
    /\ row.pc = "configure" => i = Nobody /\ row.row = Len(regulator)
    /\ row.pc = "make" => i \in Packs /\ row.asOf = today
    /\ row.pc = "file" => /\ i \in Packs /\ pack[i].status # "none"
                          /\ row.filed <=> pack[i].status = "filed"
                          /\ row.filedAt = pack[i].filedAt

\* A handler starts to work on something: when another is at it, it is crossed.
LEMMA FilerOpens ==
    ASSUME FilingInv, NEW k \in Hands, NEW i \in Packs \cup {Nobody}, NEW row,
           OpensOn(row, i), Q!Opens(k, i, row)
    PROVE  FilingInv'
<1> USE DEF FilingInv
<1>1. /\ filer[k].pc = "idle" /\ filer' = [filer EXCEPT ![k] = row]
      /\ crossed' = crossed \cup {x \in {i} : Q!Busy(x)}
      /\ UNCHANGED <<today, regulator, pack, maker, claimed, reminded, mishaps>>
  BY DEF Q!Opens, Q!Crosses
<1>2. /\ filer' \in [Hands -> FilerRow] /\ filer'[k] = row
      /\ \A l \in Hands \ {k} : filer'[l] = filer[l]
  BY <1>1 DEF FilingTypes, OpensOn
<1>3. crossed \subseteq crossed' /\ crossed' \subseteq Packs \cup {Nobody}
  BY <1>1 DEF FilingTypes
<1>4. i \notin crossed' => ~Q!Busy(i) BY <1>1
<1>5. FilingTypes' BY <1>1, <1>2, <1>3 DEF FilingTypes
<1>6. RowsTrue' BY <1>1 DEF RowsTrue
<1>7. FilersKnow'
  <2>1. row.pc = "make" => row.asOf \in Q!Days /\ row.asOf <= today
    BY DecisionsAssumption DEF OpensOn, FilingTypes, Q!Days, DecisionsAssumption
  <2>2. row.pc = "file" => (row.filed <=> row.filedAt # 0)
    BY DEF OpensOn, RowsTrue
  <2> QED BY <1>1, <1>2, <2>1, <2>2 DEF FilersKnow, OpensOn
<1>8. MakersKnow' /\ ClaimsApart' /\ RemindersTrue'
  BY <1>1 DEF MakersKnow, ClaimsApart, RemindersTrue
<1>9. SingleHanded'
  <2> SUFFICES ASSUME NEW x \in (Packs \cup {Nobody}) \ crossed'
               PROVE  /\ \A l, m \in Hands : FilerOn(l, x)' /\ FilerOn(m, x)' => l = m
                      /\ \A j, g \in Processes : x \in maker[j].left /\ x \in maker[g].left => j = g
                      /\ \A l \in Hands, j \in Processes : ~(FilerOn(l, x)' /\ x \in maker[j].left)
    BY <1>1 DEF SingleHanded
  <2>1. x \notin crossed BY <1>3
  <2>2. \A l \in Hands \ {k} : FilerOn(l, x)' <=> FilerOn(l, x) BY <1>2 DEF FilerOn
  <2>3. FilerOn(k, x)' => x = i BY <1>2 DEF FilerOn, OpensOn
  <2>4. x = i => /\ \A l \in Hands : ~FilerOn(l, x)
                 /\ \A j \in Processes : x \notin maker[j].left
    BY <1>4, BusyMeans
  <2> QED BY <2>1, <2>2, <2>3, <2>4 DEF SingleHanded
<1>10. StillTrue'
  <2> SUFFICES ASSUME NEW x \in (Packs \cup {Nobody}) \ crossed', NEW l \in Hands, FilerOn(l, x)'
               PROVE  /\ filer'[l].pc = "configure" => filer'[l].row = Len(regulator)
                      /\ filer'[l].pc = "make" => pack[x].asOf <= filer'[l].asOf
                      /\ filer'[l].pc = "file" => /\ filer'[l].filed <=> pack[x].status = "filed"
                                                  /\ filer'[l].filedAt = pack[x].filedAt
    BY <1>1, <1>3 DEF StillTrue
  <2>1. CASE l # k BY <1>2, <1>3, <2>1 DEF StillTrue, FilerOn
  <2>2. CASE l = k
    <3>1. x = i BY <1>2, <2>2 DEF FilerOn, OpensOn
    <3> QED BY <1>2, <2>2, <3>1 DEF OpensOn, RowsTrue
  <2> QED BY <2>1, <2>2
<1>11. MishapsCrossed' BY <1>1, <1>3 DEF MishapsCrossed
<1> QED BY <1>5, <1>6, <1>7, <1>8, <1>9, <1>10, <1>11

\* The three starts are of this kind.
LEMMA FilerReads ==
    ASSUME FilingInv, NEW k \in Hands,
           Q!ReadProfile(k) \/ \E p \in Packs : Q!GatherReport(k, p) \/ Q!ReadToFile(k, p)
    PROVE  FilingInv'
<1>0. /\ Q!IdleClerk \in FilerRow /\ Q!DueProfile \in Q!DueDays /\ today \in 0..MaxDay
      /\ Len(regulator) \in Nat
  <2>1. 0 \in Q!DueDays /\ 0 \in 0..MaxDay /\ MaxDay \in Nat
    BY DecisionsAssumption DEF DecisionsAssumption, Q!DueDays
  <2>2. Q!IdleClerk \in FilerRow BY <2>1 DEF Q!IdleClerk, FilerRow
  <2>3. Q!DueProfile \in Q!DueDays
    <3>1. regulator \in Seq(Dues) BY DEF FilingInv, FilingTypes
    <3>2. regulator # <<>> => regulator[Len(regulator)] \in Dues BY <3>1
    <3> QED BY <3>2 DEF Q!DueProfile, Q!DueDays
  <2> QED BY <2>1, <2>2, <2>3 DEF FilingInv, FilingTypes, Q!Days
<1>1. CASE Q!ReadProfile(k)
  <2> DEFINE row == [Q!IdleClerk EXCEPT !.pc = "configure", !.on = Nobody, !.row = Len(regulator)]
  <2>1. Q!Opens(k, Nobody, row) BY <1>1 DEF Q!ReadProfile
  <2>2. row \in FilerRow BY <1>0 DEF FilerRow
  <2>3. row.pc = "configure" /\ row.on = Nobody /\ row.row = Len(regulator)
    BY DEF Q!IdleClerk
  <2>4. OpensOn(row, Nobody) BY <2>2, <2>3 DEF OpensOn
  <2> QED BY <2>1, <2>4, FilerOpens
<1>2. ASSUME NEW p \in Packs, Q!GatherReport(k, p) PROVE FilingInv'
  <2> DEFINE row == [Q!IdleClerk EXCEPT !.pc = "make", !.on = p, !.asOf = today, !.due = Q!DueProfile]
  <2>1. Q!Opens(k, p, row) BY <1>2 DEF Q!GatherReport
  <2>2. row \in FilerRow BY <1>0 DEF FilerRow
  <2>3. row.pc = "make" /\ row.on = p /\ row.asOf = today BY DEF Q!IdleClerk
  <2>4. OpensOn(row, p) BY <2>2, <2>3 DEF OpensOn
  <2> QED BY <2>1, <2>4, FilerOpens
<1>3. ASSUME NEW p \in Packs, Q!ReadToFile(k, p) PROVE FilingInv'
  <2> DEFINE row == [Q!IdleClerk EXCEPT !.pc = "file", !.on = p, !.filedAt = pack[p].filedAt,
                                        !.filed = (pack[p].status = "filed")]
  <2>1. Q!Opens(k, p, row) /\ pack[p].status # "none" BY <1>3 DEF Q!ReadToFile
  <2>0. pack[p].filedAt \in 0..MaxDay BY DEF FilingInv, FilingTypes, PackRow
  <2>2. row \in FilerRow BY <1>0, <2>0 DEF FilerRow
  <2>3. row.pc = "file" /\ row.on = p /\ row.filedAt = pack[p].filedAt
    BY DEF Q!IdleClerk
  <2>4. row.filed = (pack[p].status = "filed") BY DEF Q!IdleClerk
  <2>5. OpensOn(row, p) BY <2>1, <2>2, <2>3, <2>4 DEF OpensOn
  <2> QED BY <2>1, <2>5, FilerOpens
<1> QED BY <1>1, <1>2, <1>3

\* A handler that ends is on nothing; the others are where they were.
LEMMA FilerCloses ==
    ASSUME FilingInv, NEW k \in Hands, Q!Closes(k)
    PROVE  /\ filer' \in [Hands -> FilerRow] /\ filer'[k].pc = "idle"
           /\ \A l \in Hands \ {k} : filer'[l] = filer[l]
           /\ \A l \in Hands : \A x : FilerOn(l, x)' => l # k /\ FilerOn(l, x)
           /\ UNCHANGED <<today, maker, claimed, reminded, crossed>>
           /\ SingleHanded' /\ ClaimsApart'
<1>1. filer' = [filer EXCEPT ![k] = Q!IdleClerk] /\ UNCHANGED <<today, maker, claimed, reminded, crossed>>
  BY DEF Q!Closes
<1>2. Q!IdleClerk \in FilerRow
  <2>1. 0 \in Q!DueDays /\ 0 \in 0..MaxDay /\ MaxDay \in Nat
    BY DecisionsAssumption DEF DecisionsAssumption, Q!DueDays
  <2> QED BY <2>1 DEF Q!IdleClerk, FilerRow
<1>3. /\ filer' \in [Hands -> FilerRow] /\ filer'[k].pc = "idle"
      /\ \A l \in Hands \ {k} : filer'[l] = filer[l]
  BY <1>1, <1>2 DEF FilingInv, FilingTypes, Q!IdleClerk
<1>4. \A l \in Hands : \A x : FilerOn(l, x)' => l # k /\ FilerOn(l, x) BY <1>3 DEF FilerOn
<1>5. SingleHanded' BY <1>1, <1>4 DEF FilingInv, SingleHanded
<1>6. ClaimsApart' BY <1>1 DEF FilingInv, ClaimsApart
<1> QED BY <1>1, <1>3, <1>4, <1>5, <1>6

\* A handler ends without a write.
LEMMA FilerFails ==
    ASSUME FilingInv, NEW k \in Hands, Q!ClerkFails(k)
    PROVE  FilingInv'
<1>1. Q!Closes(k) /\ UNCHANGED <<regulator, pack, mishaps>> BY DEF Q!ClerkFails
<1>2. /\ filer' \in [Hands -> FilerRow] /\ filer'[k].pc = "idle"
      /\ \A l \in Hands \ {k} : filer'[l] = filer[l]
      /\ \A l \in Hands : \A x : FilerOn(l, x)' => l # k /\ FilerOn(l, x)
      /\ UNCHANGED <<today, maker, claimed, reminded, crossed>>
      /\ SingleHanded' /\ ClaimsApart'
  BY <1>1, FilerCloses
<1>3. FilingTypes' BY <1>1, <1>2 DEF FilingInv, FilingTypes
<1>4. RowsTrue' /\ MakersKnow' /\ RemindersTrue' /\ MishapsCrossed'
  BY <1>1, <1>2 DEF FilingInv, RowsTrue, MakersKnow, RemindersTrue, MishapsCrossed
<1>5. FilersKnow' BY <1>1, <1>2 DEF FilingInv, FilersKnow
<1>6. StillTrue' BY <1>1, <1>2 DEF FilingInv, StillTrue
<1> QED BY <1>2, <1>3, <1>4, <1>5, <1>6 DEF FilingInv

\* A handler writes the profile it has seen, or the first one.
LEMMA ProfileSet ==
    ASSUME FilingInv, NEW k \in Hands, NEW d \in Dues, Q!SetProfile(k, d)
    PROVE  FilingInv'
<1>1. /\ filer[k].pc = "configure" /\ Q!Closes(k) /\ UNCHANGED pack
      /\ regulator' = IF filer[k].row = 0 THEN Append(regulator, d)
                      ELSE [regulator EXCEPT ![filer[k].row] = d]
      /\ Q!Mishap(Nobody, "doubled", filer[k].row = 0 /\ regulator # <<>>)
  BY DEF Q!SetProfile
<1>2. /\ filer' \in [Hands -> FilerRow] /\ filer'[k].pc = "idle"
      /\ \A l \in Hands \ {k} : filer'[l] = filer[l]
      /\ \A l \in Hands : \A x : FilerOn(l, x)' => l # k /\ FilerOn(l, x)
      /\ UNCHANGED <<today, maker, claimed, reminded, crossed>>
      /\ SingleHanded' /\ ClaimsApart'
  BY <1>1, FilerCloses
<1>3. FilerOn(k, Nobody) BY <1>1 DEF FilingInv, FilersKnow, FilerOn
<1>4. regulator' \in Seq(Dues)
  <2>1. regulator \in Seq(Dues) BY DEF FilingInv, FilingTypes
  <2>2. Append(regulator, d) \in Seq(Dues) BY <2>1
  <2>0. regulator \in [1..Len(regulator) -> Dues] /\ Len(regulator) \in Nat BY <2>1
  <2>3. [regulator EXCEPT ![filer[k].row] = d] \in [1..Len(regulator) -> Dues] BY <2>0
  <2>4. [regulator EXCEPT ![filer[k].row] = d] \in Seq(Dues) BY <2>0, <2>3
  <2> QED BY <1>1, <2>2, <2>4
<1>5. mishaps' \in {mishaps, mishaps \cup {<<Nobody, "doubled">>}} BY <1>1 DEF Q!Mishap
<1>6. MishapsCrossed'
  <2>1. CASE filer[k].row = 0 /\ regulator # <<>>
    <3>1. Len(regulator) # 0 BY <2>1 DEF FilingInv, FilingTypes
    <3>2. Nobody \in crossed BY <1>1, <1>3, <2>1, <3>1 DEF FilingInv, StillTrue
    <3> QED BY <1>2, <1>5, <3>2 DEF FilingInv, MishapsCrossed
  <2>2. CASE ~(filer[k].row = 0 /\ regulator # <<>>)
    <3>1. mishaps' = mishaps BY <1>1, <2>2 DEF Q!Mishap
    <3> QED BY <1>2, <3>1 DEF FilingInv, MishapsCrossed
  <2> QED BY <2>1, <2>2
<1>7. FilingTypes' BY <1>1, <1>2, <1>4, <1>5 DEF FilingInv, FilingTypes
<1>8. RowsTrue' /\ MakersKnow' /\ RemindersTrue'
  BY <1>1, <1>2 DEF FilingInv, RowsTrue, MakersKnow, RemindersTrue
<1>9. FilersKnow' BY <1>1, <1>2 DEF FilingInv, FilersKnow
<1>10. StillTrue'
  <2>1. ASSUME NEW l \in Hands, NEW x \in (Packs \cup {Nobody}) \ crossed, FilerOn(l, x)'
        PROVE  filer'[l].pc # "configure"
    <3>1. l # k /\ FilerOn(l, x) /\ filer'[l] = filer[l] BY <1>2, <2>1
    <3>2. filer[l].pc = "configure" => x = Nobody BY <3>1 DEF FilingInv, FilersKnow, FilerOn
    <3> QED BY <1>3, <3>1, <3>2 DEF FilingInv, SingleHanded
  <2> QED BY <1>1, <1>2, <2>1 DEF FilingInv, StillTrue
<1> QED BY <1>2, <1>6, <1>7, <1>8, <1>9, <1>10 DEF FilingInv

(* A row that is written by one who is on it: it is made and, once filed, stays filed,
   and what else is known of rows goes on to hold. *)
LEMMA RowWritten ==
    ASSUME FilingInv, NEW k \in Hands, Q!Closes(k), NEW p \in Packs, FilerOn(k, p),
           NEW row \in PackRow, pack' = [pack EXCEPT ![p] = row], UNCHANGED regulator,
           row.status # "none", row.asOf # 0, row.asOf <= today,
           row.status = "filed" <=> row.filedAt # 0,
           pack[p].status = "filed" => row.status = "filed"
    PROVE  /\ pack' \in [Packs -> PackRow]
           /\ RowsTrue' /\ FilersKnow' /\ MakersKnow' /\ RemindersTrue' /\ StillTrue'
<1>1. /\ filer' \in [Hands -> FilerRow] /\ filer'[k].pc = "idle"
      /\ \A l \in Hands \ {k} : filer'[l] = filer[l]
      /\ \A l \in Hands : \A x : FilerOn(l, x)' => l # k /\ FilerOn(l, x)
      /\ UNCHANGED <<today, maker, claimed, reminded, crossed>>
  BY FilerCloses
<1>2. pack' \in [Packs -> PackRow] /\ pack'[p] = row /\ \A q \in Packs \ {p} : pack'[q] = pack[q]
  BY DEF FilingInv, FilingTypes
<1>3. RowsTrue' BY <1>1, <1>2 DEF FilingInv, RowsTrue
<1>4. \A q \in Packs : /\ pack[q].status # "none" => pack'[q].status # "none"
                       /\ pack[q].status = "filed" => pack'[q].status = "filed"
  BY <1>2
<1>5. FilersKnow' BY <1>1, <1>4 DEF FilingInv, FilersKnow
<1>6. MakersKnow'
  <2>1. \A j \in Processes : \A q \in maker[j].list \cup maker[j].mine : q \in Packs
    BY DEF FilingInv, FilingTypes, MakerRow
  <2> QED BY <1>1, <1>4, <2>1 DEF FilingInv, MakersKnow
<1>7. RemindersTrue' BY <1>1, <1>4 DEF FilingInv, RemindersTrue
<1>8. StillTrue'
  <2>1. ASSUME NEW x \in (Packs \cup {Nobody}) \ crossed, NEW l \in Hands, FilerOn(l, x)'
        PROVE  x # p /\ FilerOn(l, x) /\ filer'[l] = filer[l]
    BY <1>1, <2>1 DEF FilingInv, SingleHanded
  <2>2. ASSUME NEW x \in (Packs \cup {Nobody}) \ crossed, NEW j \in Processes, x \in maker[j].left
        PROVE  x # p /\ pack'[x].status = "none"
    <3>1. x # p BY <2>2 DEF FilingInv, SingleHanded
    <3>2. x \in Packs BY <2>2 DEF FilingInv, FilingTypes, MakerRow
    <3> QED BY <1>2, <2>2, <3>1, <3>2 DEF FilingInv, StillTrue
  <2>3. ASSUME NEW x \in (Packs \cup {Nobody}) \ crossed, NEW l \in Hands, FilerOn(l, x)'
        PROVE  /\ filer'[l].pc = "configure" => filer'[l].row = Len(regulator)
               /\ filer'[l].pc = "make" => pack'[x].asOf <= filer'[l].asOf
               /\ filer'[l].pc = "file" => /\ filer'[l].filed <=> pack'[x].status = "filed"
                                           /\ filer'[l].filedAt = pack'[x].filedAt
    <3>1. x # p /\ FilerOn(l, x) /\ filer'[l] = filer[l] BY <2>1, <2>3
    <3>2. filer[l].pc \in {"make", "file"} => x \in Packs
      BY <3>1 DEF FilingInv, FilersKnow, FilerOn
    <3>3. filer[l].pc \in {"make", "file"} => pack'[x] = pack[x] BY <1>2, <3>1, <3>2
    <3> QED BY <3>1, <3>3 DEF FilingInv, StillTrue
  <2> QED BY <1>1, <2>2, <2>3 DEF StillTrue
<1> QED BY <1>2, <1>3, <1>5, <1>6, <1>7, <1>8

\* A handler writes the pack it has made.
LEMMA PackMade ==
    ASSUME FilingInv, NEW k \in Hands, Q!GenerateReport(k)
    PROVE  FilingInv'
<1> DEFINE p == filer[k].on
           row == Q!Upsert(pack[p], filer[k].asOf, filer[k].due)
<1>1. /\ filer[k].pc = "make" /\ Q!Closes(k) /\ UNCHANGED regulator
      /\ pack' = [pack EXCEPT ![p] = row]
      /\ Q!Mishap(p, "older", filer[k].asOf < pack[p].asOf)
  BY DEF Q!GenerateReport
<1>2. p \in Packs /\ FilerOn(k, p) BY <1>1 DEF FilingInv, FilersKnow, FilerOn
<1>3. /\ filer[k].asOf \in Q!Days /\ filer[k].asOf <= today /\ filer[k].asOf \in 0..MaxDay
      /\ filer[k].due \in Q!DueDays /\ pack[p] \in PackRow
  BY <1>1, <1>2 DEF FilingInv, FilersKnow, FilingTypes, FilerRow
<1>4. row \in PackRow BY <1>3 DEF Q!Upsert, PackRow
<1>5. /\ row.status # "none" /\ row.asOf # 0 /\ row.asOf <= today
      /\ row.status = "filed" <=> row.filedAt # 0
      /\ pack[p].status = "filed" => row.status = "filed"
  BY <1>2, <1>3 DEF Q!Upsert, FilingInv, RowsTrue, PackRow, Q!Days
<1> HIDE DEF row
<1>6. /\ pack' \in [Packs -> PackRow]
      /\ RowsTrue' /\ FilersKnow' /\ MakersKnow' /\ RemindersTrue' /\ StillTrue'
  BY <1>1, <1>2, <1>4, <1>5, RowWritten
<1>7. /\ filer' \in [Hands -> FilerRow] /\ SingleHanded' /\ ClaimsApart'
      /\ UNCHANGED <<today, maker, claimed, reminded, crossed>>
  BY <1>1, FilerCloses
<1>8. filer[k].asOf < pack[p].asOf => p \in crossed
  <2>1. p \notin crossed => pack[p].asOf <= filer[k].asOf
    BY <1>1, <1>2 DEF FilingInv, StillTrue
  <2> QED BY <1>3, <2>1 DEF PackRow, Q!Days
<1>9. /\ MishapsCrossed'
      /\ mishaps' \subseteq (Packs \cup {Nobody}) \X {"doubled", "older", "remade", "refiled"}
  BY <1>1, <1>2, <1>7, <1>8 DEF Q!Mishap, FilingInv, MishapsCrossed, FilingTypes
<1>10. FilingTypes' BY <1>1, <1>6, <1>7, <1>9 DEF FilingInv, FilingTypes
<1> QED BY <1>6, <1>7, <1>9, <1>10 DEF FilingInv

\* A handler marks the pack it has seen as filed.
LEMMA PackFiled ==
    ASSUME FilingInv, NEW k \in Hands, Q!MarkFiled(k)
    PROVE  FilingInv'
<1> DEFINE p == filer[k].on
           day == Q!FiledOn(filer[k].filedAt, today)
           row == [pack[p] EXCEPT !.status = "filed", !.filedAt = day]
<1>1. /\ filer[k].pc = "file" /\ Q!Closes(k) /\ UNCHANGED regulator
      /\ pack' = [pack EXCEPT ![p] = row]
      /\ Q!Mishap(p, "refiled",
                  pack[p].status = "filed" /\ (~filer[k].filed \/ day # pack[p].filedAt))
  BY DEF Q!MarkFiled
<1>2. p \in Packs /\ FilerOn(k, p) BY <1>1 DEF FilingInv, FilersKnow, FilerOn
<1>3. /\ filer[k].filedAt \in 0..MaxDay /\ today \in Q!Days /\ pack[p] \in PackRow
      /\ pack[p].status # "none" /\ MaxDay \in Nat
  BY <1>1, <1>2, DecisionsAssumption
  DEF FilingInv, FilersKnow, FilingTypes, FilerRow, DecisionsAssumption
<1>4. day \in 0..MaxDay /\ day # 0 BY <1>3 DEF Q!FiledOn, Q!Days
<1>5. row \in PackRow BY <1>3, <1>4 DEF PackRow
<1>6. row.status = "filed" /\ row.filedAt = day /\ row.asOf = pack[p].asOf
  BY <1>3 DEF PackRow
<1>7. row.asOf # 0 /\ row.asOf <= today BY <1>2, <1>3, <1>6 DEF FilingInv, RowsTrue
<1>8. /\ row.status # "none"
      /\ row.status = "filed" <=> row.filedAt # 0
      /\ pack[p].status = "filed" => row.status = "filed"
  BY <1>4, <1>6
<1>9. p \notin crossed =>
        ~(pack[p].status = "filed" /\ (~filer[k].filed \/ day # pack[p].filedAt))
  <2> SUFFICES ASSUME p \notin crossed, pack[p].status = "filed"
               PROVE  filer[k].filed /\ day = pack[p].filedAt
    OBVIOUS
  <2>1. filer[k].filed /\ filer[k].filedAt = pack[p].filedAt
    BY <1>1, <1>2 DEF FilingInv, StillTrue
  <2>2. pack[p].filedAt # 0 BY <1>2 DEF FilingInv, RowsTrue
  <2> QED BY <2>1, <2>2 DEF Q!FiledOn
<1> HIDE DEF row, day
<1>10. /\ pack' \in [Packs -> PackRow]
       /\ RowsTrue' /\ FilersKnow' /\ MakersKnow' /\ RemindersTrue' /\ StillTrue'
  BY <1>1, <1>2, <1>5, <1>7, <1>8, RowWritten
<1>11. /\ filer' \in [Hands -> FilerRow] /\ SingleHanded' /\ ClaimsApart'
       /\ UNCHANGED <<today, maker, claimed, reminded, crossed>>
  BY <1>1, FilerCloses
<1>12. /\ MishapsCrossed'
       /\ mishaps' \subseteq (Packs \cup {Nobody}) \X {"doubled", "older", "remade", "refiled"}
  BY <1>1, <1>2, <1>9, <1>11 DEF Q!Mishap, FilingInv, MishapsCrossed, FilingTypes
<1>13. FilingTypes' BY <1>1, <1>10, <1>11, <1>12 DEF FilingInv, FilingTypes
<1> QED BY <1>10, <1>11, <1>12, <1>13 DEF FilingInv

(* A run of the job goes on: the rows, the handlers and the day are left alone. What is
   asked of the run itself is asked of its new row. *)
LEMMA MakerGoesOn ==
    ASSUME FilingInv, NEW j \in Processes, NEW row \in MakerRow,
           maker' = [maker EXCEPT ![j] = row],
           UNCHANGED <<today, regulator, pack, filer>>
    PROVE  /\ maker' \in [Processes -> MakerRow] /\ maker'[j] = row
           /\ \A g \in Processes \ {j} : maker'[g] = maker[g]
           /\ RowsTrue' /\ FilersKnow'
BY DEF FilingInv, FilingTypes, RowsTrue, FilersKnow

\* What no longer is in the hands of a run, and what is crossed, takes no promise away.
LEMMA LessInHand ==
    ASSUME FilingInv, NEW j \in Processes, maker' \in [Processes -> MakerRow],
           \A g \in Processes \ {j} : maker'[g] = maker[g], maker'[j].left \subseteq maker[j].left,
           UNCHANGED filer, UNCHANGED crossed
    PROVE  SingleHanded'
<1>1. \A g \in Processes : maker'[g].left \subseteq maker[g].left OBVIOUS
<1> QED BY <1>1 DEF FilingInv, SingleHanded, FilerOn

\* The job reads which packs exist, and is to make the others.
LEMMA MakerStarts ==
    ASSUME FilingInv, NEW j \in Processes, Q!ReadExisting(j)
    PROVE  FilingInv'
<1> DEFINE todo == Packs \ Q!Existing
           row == [Q!IdleJob EXCEPT !.pc = "next", !.left = todo, !.day = today]
<1>1. /\ maker[j].pc = "idle" /\ maker' = [maker EXCEPT ![j] = row]
      /\ crossed' = crossed \cup {x \in todo : Q!Busy(x)}
      /\ UNCHANGED <<today, regulator, pack, filer, claimed, reminded, mishaps>>
  BY DEF Q!ReadExisting, Q!Runs, Q!Crosses
<1>2. 0 \in Q!DueDays /\ 0 \in 0..MaxDay /\ today \in 0..MaxDay /\ today \in Q!Days
  <2>1. MaxDay \in Nat BY DecisionsAssumption DEF DecisionsAssumption
  <2> QED BY <2>1 DEF Q!DueDays, Q!Days, FilingInv, FilingTypes
<1>3. row \in MakerRow BY <1>2 DEF Q!IdleJob, MakerRow
<1>4. /\ row.pc = "next" /\ row.left = todo /\ row.day = today
      /\ row.list = {} /\ row.mine = {}
  BY DEF Q!IdleJob
<1>5. \A x \in todo : x \in Packs /\ pack[x].status = "none" BY DEF Q!Existing
<1> HIDE DEF row, todo
<1>6. /\ maker' \in [Processes -> MakerRow] /\ maker'[j] = row
      /\ \A g \in Processes \ {j} : maker'[g] = maker[g]
      /\ RowsTrue' /\ FilersKnow'
  BY <1>1, <1>3, MakerGoesOn
<1>7. crossed \subseteq crossed' /\ crossed' \subseteq Packs \cup {Nobody}
  BY <1>1, <1>5 DEF FilingInv, FilingTypes
<1>8. FilingTypes' BY <1>1, <1>6, <1>7 DEF FilingInv, FilingTypes
<1>9. MakersKnow' BY <1>1, <1>2, <1>4, <1>6 DEF FilingInv, MakersKnow
<1>10. ClaimsApart' BY <1>4, <1>6 DEF FilingInv, ClaimsApart
<1>11. RemindersTrue' BY <1>1 DEF FilingInv, RemindersTrue
<1>12. ASSUME NEW x \in todo \ crossed'
       PROVE  /\ \A k \in Hands : ~FilerOn(k, x)
              /\ \A g \in Processes : x \notin maker[g].left
  BY <1>1, <1>12, BusyMeans
<1>13. SingleHanded'
  <2> SUFFICES ASSUME NEW x \in (Packs \cup {Nobody}) \ crossed'
               PROVE  /\ \A k, l \in Hands : FilerOn(k, x) /\ FilerOn(l, x) => k = l
                      /\ \A g, h \in Processes : x \in maker'[g].left /\ x \in maker'[h].left => g = h
                      /\ \A k \in Hands, g \in Processes : ~(FilerOn(k, x) /\ x \in maker'[g].left)
    BY <1>1 DEF SingleHanded, FilerOn
  <2>1. x \notin crossed BY <1>7
  <2>2. CASE x \in todo BY <1>6, <1>12, <2>2
  <2>3. CASE x \notin todo BY <1>4, <1>6, <2>1, <2>3 DEF FilingInv, SingleHanded
  <2> QED BY <2>2, <2>3
<1>14. StillTrue' BY <1>1, <1>4, <1>5, <1>6, <1>7 DEF FilingInv, StillTrue, FilerOn
<1>15. MishapsCrossed' BY <1>1, <1>7 DEF FilingInv, MishapsCrossed
<1> QED BY <1>6, <1>8, <1>9, <1>10, <1>11, <1>13, <1>14, <1>15 DEF FilingInv

\* A step of a run that has less to make afterwards and writes no row keeps what is known.
LEMMA MakerMoves ==
    ASSUME FilingInv, NEW j \in Processes, NEW row \in MakerRow,
           maker' = [maker EXCEPT ![j] = row],
           UNCHANGED <<today, regulator, pack, filer, crossed, mishaps>>,
           row.left \subseteq maker[j].left,
           claimed' \subseteq Packs \X Q!Days, reminded' \in [Packs \X Q!Days -> Nat],
           MakersKnow', ClaimsApart', RemindersTrue'
    PROVE  FilingInv'
<1>1. /\ maker' \in [Processes -> MakerRow] /\ maker'[j] = row
      /\ \A g \in Processes \ {j} : maker'[g] = maker[g]
      /\ RowsTrue' /\ FilersKnow'
  BY MakerGoesOn
<1>2. SingleHanded' BY <1>1, LessInHand
<1>3. \A g \in Processes : maker'[g].left \subseteq maker[g].left BY <1>1
<1>4. StillTrue' BY <1>3 DEF FilingInv, StillTrue, FilerOn
<1>5. FilingTypes' BY <1>1 DEF FilingInv, FilingTypes
<1>6. MishapsCrossed' BY DEF FilingInv, MishapsCrossed
<1> QED BY <1>1, <1>2, <1>4, <1>5, <1>6 DEF FilingInv

\* The job reads the data of a pack it is to make.
LEMMA MakerGathers ==
    ASSUME FilingInv, NEW j \in Processes, NEW p \in Packs, Q!GatherScheduled(j, p)
    PROVE  FilingInv'
<1> DEFINE row == [maker[j] EXCEPT !.pc = "make", !.on = p, !.asOf = today, !.due = Q!DueProfile]
<1>1. /\ maker[j].pc = "next" /\ p \in maker[j].left /\ maker' = [maker EXCEPT ![j] = row]
      /\ UNCHANGED <<today, regulator, pack, filer, claimed, reminded, crossed, mishaps>>
  BY DEF Q!GatherScheduled, Q!Runs
<1>2. Q!DueProfile \in Q!DueDays
  <2>1. regulator \in Seq(Dues) BY DEF FilingInv, FilingTypes
  <2>2. regulator # <<>> => regulator[Len(regulator)] \in Dues BY <2>1
  <2> QED BY <2>2 DEF Q!DueProfile, Q!DueDays
<1>3. /\ MaxDay \in Nat /\ today \in Q!Days /\ maker[j] \in MakerRow
      /\ maker \in [Processes -> MakerRow]
  BY DecisionsAssumption DEF DecisionsAssumption, FilingInv, FilingTypes
<1>4. today \in 0..MaxDay /\ today <= today BY <1>3 DEF Q!Days
<1>5. row \in MakerRow BY <1>2, <1>3, <1>4 DEF MakerRow
<1>6. /\ row.pc = "make" /\ row.on = p /\ row.asOf = today
      /\ row.left = maker[j].left /\ row.day = maker[j].day
      /\ row.list = maker[j].list /\ row.mine = maker[j].mine
  BY <1>3 DEF MakerRow
<1> HIDE DEF row
<1>7. /\ maker'[j] = row
      /\ \A g \in Processes \ {j} : maker'[g] = maker[g]
  BY <1>1, <1>3
<1>8. MakersKnow'
  <2>1. /\ maker[j].list = {} /\ maker[j].mine = {} /\ maker[j].day \in Q!Days
    BY <1>1 DEF FilingInv, MakersKnow
  <2> QED BY <1>1, <1>3, <1>4, <1>6, <1>7, <2>1 DEF FilingInv, MakersKnow
<1>9. ClaimsApart' BY <1>6, <1>7 DEF FilingInv, ClaimsApart
<1>10. RemindersTrue' BY <1>1 DEF FilingInv, RemindersTrue
<1>11. claimed' \subseteq Packs \X Q!Days /\ reminded' \in [Packs \X Q!Days -> Nat]
  BY <1>1 DEF FilingInv, FilingTypes
<1> QED BY <1>1, <1>5, <1>6, <1>8, <1>9, <1>10, <1>11, MakerMoves

\* The job lists what is due and not filed: all of it was made.
LEMMA MakerLists ==
    ASSUME FilingInv, NEW j \in Processes, Q!ReadDueFilings(j)
    PROVE  FilingInv'
<1> DEFINE due == {p \in Packs : pack[p].status = "generated" /\ pack[p].due <= maker[j].day}
           row == [maker[j] EXCEPT !.pc = "claim", !.list = due]
<1>1. /\ maker[j].pc = "next" /\ maker[j].left = {} /\ maker' = [maker EXCEPT ![j] = row]
      /\ UNCHANGED <<today, regulator, pack, filer, claimed, reminded, crossed, mishaps>>
  BY DEF Q!ReadDueFilings, Q!Runs
<1>2. maker[j] \in MakerRow /\ maker \in [Processes -> MakerRow] BY DEF FilingInv, FilingTypes
<1>3. \A p \in due : p \in Packs /\ pack[p].status # "none" OBVIOUS
<1>4. row \in MakerRow BY <1>2, <1>3 DEF MakerRow
<1>5. /\ row.pc = "claim" /\ row.left = {} /\ row.list = due
      /\ row.day = maker[j].day /\ row.mine = maker[j].mine
  BY <1>1, <1>2 DEF MakerRow
<1> HIDE DEF row, due
<1>6. /\ maker'[j] = row
      /\ \A g \in Processes \ {j} : maker'[g] = maker[g]
  BY <1>1, <1>2
<1>7. maker[j].mine = {} /\ maker[j].day \in Q!Days BY <1>1 DEF FilingInv, MakersKnow
<1>8. MakersKnow' BY <1>1, <1>3, <1>5, <1>6, <1>7 DEF FilingInv, MakersKnow
<1>9. ClaimsApart' BY <1>5, <1>6 DEF FilingInv, ClaimsApart
<1>10. RemindersTrue' BY <1>1 DEF FilingInv, RemindersTrue
<1>11. claimed' \subseteq Packs \X Q!Days /\ reminded' \in [Packs \X Q!Days -> Nat]
  BY <1>1 DEF FilingInv, FilingTypes
<1> QED BY <1>1, <1>4, <1>5, <1>8, <1>9, <1>10, <1>11, MakerMoves

\* The job claims a reminder; the claim is its own when nobody had it.
LEMMA MakerClaims ==
    ASSUME FilingInv, NEW j \in Processes, NEW p \in Packs, Q!ClaimReminder(j, p)
    PROVE  FilingInv'
<1> DEFINE c == <<p, maker[j].day>>
           kept == IF c \notin claimed THEN maker[j].mine \cup {p} ELSE maker[j].mine
           row == [maker[j] EXCEPT !.list = @ \ {p}, !.mine = kept]
<1>0. maker[j] \in MakerRow /\ maker \in [Processes -> MakerRow] BY DEF FilingInv, FilingTypes
<1>1. /\ maker[j].pc = "claim" /\ p \in maker[j].list /\ maker' = [maker EXCEPT ![j] = row]
      /\ claimed' = claimed \cup {c}
      /\ UNCHANGED <<today, regulator, pack, filer, reminded, crossed, mishaps>>
  BY DEF Q!ClaimReminder, Q!Runs, Q!Claimable
<1>2. kept \subseteq Packs BY <1>0 DEF MakerRow
<1>3. row \in MakerRow BY <1>0, <1>2 DEF MakerRow
<1>4. /\ row.pc = "claim" /\ row.left = maker[j].left /\ row.list = maker[j].list \ {p}
      /\ row.day = maker[j].day /\ row.mine = kept
  BY <1>0, <1>1 DEF MakerRow
<1>5. maker[j].day \in Q!Days /\ maker[j].left = {} /\ pack[p].status # "none"
  BY <1>1 DEF FilingInv, MakersKnow
<1>6. c \notin claimed => reminded[c] = 0
  <2>1. c \in Packs \X Q!Days /\ reminded[c] \in Nat BY <1>5 DEF FilingInv, FilingTypes
  <2> QED BY <2>1 DEF FilingInv, RemindersTrue
<1>7. \A q \in kept : q \in maker[j].mine \/ (q = p /\ c \notin claimed) OBVIOUS
<1>8. \A g \in Processes : p \in maker[g].mine => <<p, maker[g].day>> \in claimed
  BY DEF FilingInv, MakersKnow
<1> HIDE DEF row, kept
<1>9. /\ maker'[j] = row
      /\ \A g \in Processes \ {j} : maker'[g] = maker[g]
  BY <1>0, <1>1
<1>10. MakersKnow'
  <2>1. \A q \in kept : /\ pack[q].status # "none"
                        /\ <<q, maker[j].day>> \in claimed' /\ reminded[<<q, maker[j].day>>] = 0
    BY <1>1, <1>5, <1>6, <1>7 DEF FilingInv, MakersKnow
  <2>2. \A q \in row.list : pack[q].status # "none" BY <1>4 DEF FilingInv, MakersKnow
  <2> SUFFICES ASSUME NEW g \in Processes
               PROVE  /\ maker'[g].pc \in {"idle", "claim"} => maker'[g].left = {}
                      /\ maker'[g].pc # "claim" => maker'[g].list = {} /\ maker'[g].mine = {}
                      /\ maker'[g].pc # "idle" => maker'[g].day \in Q!Days
                      /\ maker'[g].pc = "make" => /\ maker'[g].on \in maker'[g].left
                                                 /\ maker'[g].asOf \in Q!Days
                                                 /\ maker'[g].asOf <= today
                      /\ \A q \in maker'[g].list \cup maker'[g].mine : pack[q].status # "none"
                      /\ \A q \in maker'[g].mine : /\ <<q, maker'[g].day>> \in claimed'
                                                   /\ reminded[<<q, maker'[g].day>>] = 0
    BY <1>1 DEF MakersKnow
  <2>3. CASE g = j BY <1>4, <1>5, <1>9, <2>1, <2>2, <2>3
  <2>4. CASE g # j BY <1>1, <1>9, <2>4 DEF FilingInv, MakersKnow
  <2> QED BY <2>3, <2>4
<1>11. ClaimsApart'
  <2> SUFFICES ASSUME NEW g \in Processes, g # j, NEW q \in Packs,
                      q \in maker[g].mine, q \in kept
               PROVE  maker[g].day # maker[j].day
    BY <1>4, <1>9 DEF FilingInv, ClaimsApart
  <2>1. CASE q \in maker[j].mine BY <2>1 DEF FilingInv, ClaimsApart
  <2>2. CASE q = p /\ c \notin claimed BY <1>8, <2>2
  <2> QED BY <1>7, <2>1, <2>2
<1>12. RemindersTrue' BY <1>1 DEF FilingInv, RemindersTrue
<1>13. claimed' \subseteq Packs \X Q!Days /\ reminded' \in [Packs \X Q!Days -> Nat]
  BY <1>1, <1>5 DEF FilingInv, FilingTypes
<1> QED BY <1>1, <1>3, <1>4, <1>10, <1>11, <1>12, <1>13, MakerMoves

\* The job sends the reminders that are its own.
LEMMA MakerReminds ==
    ASSUME FilingInv, NEW j \in Processes, Q!Remind(j)
    PROVE  FilingInv'
<1> DEFINE Sent(c) == c[1] \in maker[j].mine /\ c[2] = maker[j].day
<1>1. /\ maker[j].pc = "claim" /\ maker[j].list = {} /\ maker' = [maker EXCEPT ![j] = Q!IdleJob]
      /\ reminded' = [c \in Packs \X Q!Days |-> IF Sent(c) THEN reminded[c] + 1 ELSE reminded[c]]
      /\ UNCHANGED <<today, regulator, pack, filer, claimed, crossed, mishaps>>
  BY DEF Q!Remind, Q!Runs
<1>2. Q!IdleJob \in MakerRow
  <2>1. 0 \in Q!DueDays /\ 0 \in 0..MaxDay
    <3>1. MaxDay \in Nat BY DecisionsAssumption DEF DecisionsAssumption
    <3> QED BY <3>1 DEF Q!DueDays
  <2> QED BY <2>1 DEF Q!IdleJob, MakerRow
<1>3. maker \in [Processes -> MakerRow] /\ maker[j] \in MakerRow
  BY DEF FilingInv, FilingTypes
<1>4. /\ maker'[j] = Q!IdleJob
      /\ \A g \in Processes \ {j} : maker'[g] = maker[g]
  BY <1>1, <1>3
<1>5. \A c \in Packs \X Q!Days : Sent(c) => c \in claimed /\ reminded[c] = 0 /\ pack[c[1]].status # "none"
  <2> SUFFICES ASSUME NEW c \in Packs \X Q!Days, Sent(c)
               PROVE  c \in claimed /\ reminded[c] = 0 /\ pack[c[1]].status # "none"
    OBVIOUS
  <2>1. c = <<c[1], c[2]>> OBVIOUS
  <2>2. c = <<c[1], maker[j].day>> /\ c[1] \in maker[j].mine BY <2>1
  <2> QED BY <2>2 DEF FilingInv, MakersKnow
<1>6. \A c \in Packs \X Q!Days : reminded[c] \in Nat BY DEF FilingInv, FilingTypes
<1>7. \A c \in Packs \X Q!Days : reminded'[c] = IF Sent(c) THEN reminded[c] + 1 ELSE reminded[c]
  BY <1>1
<1>8. reminded' \in [Packs \X Q!Days -> Nat] BY <1>1, <1>6
<1>9. RemindersTrue'
  <2> SUFFICES ASSUME NEW c \in Packs \X Q!Days
               PROVE  /\ reminded'[c] <= 1
                      /\ reminded'[c] = 1 => c \in claimed /\ pack[c[1]].status # "none"
    BY <1>1 DEF RemindersTrue
  <2>1. CASE Sent(c) BY <1>5, <1>7, <2>1
  <2>2. CASE ~Sent(c)
    <3>1. reminded'[c] = reminded[c] BY <1>7, <2>2
    <3> QED BY <3>1 DEF FilingInv, RemindersTrue
  <2> QED BY <2>1, <2>2
<1>10. MakersKnow'
  <2> SUFFICES ASSUME NEW g \in Processes
               PROVE  /\ maker'[g].pc \in {"idle", "claim"} => maker'[g].left = {}
                      /\ maker'[g].pc # "claim" => maker'[g].list = {} /\ maker'[g].mine = {}
                      /\ maker'[g].pc # "idle" => maker'[g].day \in Q!Days
                      /\ maker'[g].pc = "make" => /\ maker'[g].on \in maker'[g].left
                                                 /\ maker'[g].asOf \in Q!Days
                                                 /\ maker'[g].asOf <= today
                      /\ \A q \in maker'[g].list \cup maker'[g].mine : pack[q].status # "none"
                      /\ \A q \in maker'[g].mine : /\ <<q, maker'[g].day>> \in claimed
                                                   /\ reminded'[<<q, maker'[g].day>>] = 0
    BY <1>1 DEF MakersKnow
  <2>1. CASE g = j BY <1>4, <2>1 DEF Q!IdleJob
  <2>2. CASE g # j
    <3>1. maker'[g] = maker[g] BY <1>4, <2>2
    <3>2. ASSUME NEW q \in maker[g].mine PROVE reminded'[<<q, maker[g].day>>] = 0
      <4> DEFINE c == <<q, maker[g].day>>
      <4>1. q \in Packs BY <3>2 DEF FilingInv, FilingTypes, MakerRow
      <4>2. maker[g].day \in Q!Days BY <3>2 DEF FilingInv, MakersKnow
      <4>3. c \in Packs \X Q!Days /\ c[1] = q /\ c[2] = maker[g].day BY <4>1, <4>2
      <4>4. ~Sent(c) BY <2>2, <3>2, <4>1, <4>3 DEF FilingInv, ClaimsApart
      <4>5. reminded[c] = 0 BY <3>2 DEF FilingInv, MakersKnow
      <4> QED BY <1>7, <4>3, <4>4, <4>5
    <3> QED BY <3>1, <3>2 DEF FilingInv, MakersKnow
  <2> QED BY <2>1, <2>2
<1>11. ClaimsApart' BY <1>4 DEF FilingInv, ClaimsApart, Q!IdleJob
<1>12. claimed' \subseteq Packs \X Q!Days BY <1>1 DEF FilingInv, FilingTypes
<1>13. Q!IdleJob.left \subseteq maker[j].left BY DEF Q!IdleJob
<1> QED BY <1>1, <1>2, <1>8, <1>9, <1>10, <1>11, <1>12, <1>13, MakerMoves

\* The job fails: it gives up what it was to make, and its claims.
LEMMA MakerFails ==
    ASSUME FilingInv, NEW j \in Processes, Q!JobFails(j)
    PROVE  FilingInv'
<1>1. /\ maker' = [maker EXCEPT ![j] = Q!IdleJob]
      /\ UNCHANGED <<today, regulator, pack, filer, claimed, reminded, crossed, mishaps>>
  BY DEF Q!JobFails, Q!Runs
<1>2. Q!IdleJob \in MakerRow
  <2>1. 0 \in Q!DueDays /\ 0 \in 0..MaxDay
    <3>1. MaxDay \in Nat BY DecisionsAssumption DEF DecisionsAssumption
    <3> QED BY <3>1 DEF Q!DueDays
  <2> QED BY <2>1 DEF Q!IdleJob, MakerRow
<1>3. /\ maker'[j] = Q!IdleJob
      /\ \A g \in Processes \ {j} : maker'[g] = maker[g]
  BY <1>1 DEF FilingInv, FilingTypes
<1>4. MakersKnow' BY <1>1, <1>3 DEF FilingInv, MakersKnow, Q!IdleJob
<1>5. ClaimsApart' BY <1>3 DEF FilingInv, ClaimsApart, Q!IdleJob
<1>6. RemindersTrue' BY <1>1 DEF FilingInv, RemindersTrue
<1>7. claimed' \subseteq Packs \X Q!Days /\ reminded' \in [Packs \X Q!Days -> Nat]
  BY <1>1 DEF FilingInv, FilingTypes
<1>8. Q!IdleJob.left \subseteq maker[j].left BY DEF Q!IdleJob
<1> QED BY <1>1, <1>2, <1>4, <1>5, <1>6, <1>7, <1>8, MakerMoves

(* The job writes a pack: what it finds in spite of what it has read is crossed, and a
   pack that is filed by then stays filed. *)
LEMMA MakerMakes ==
    ASSUME FilingInv, NEW j \in Processes, Q!GenerateScheduled(j)
    PROVE  FilingInv'
<1> DEFINE p == maker[j].on
           new == Q!Upsert(pack[p], maker[j].asOf, maker[j].due)
           row == [Q!IdleJob EXCEPT !.pc = "next", !.left = maker[j].left \ {p}, !.day = maker[j].day]
<1>1. /\ maker[j].pc = "make" /\ pack' = [pack EXCEPT ![p] = new]
      /\ Q!Mishap(p, "remade", pack[p].status # "none")
      /\ maker' = [maker EXCEPT ![j] = row]
      /\ UNCHANGED <<today, regulator, filer, claimed, reminded, crossed>>
  BY DEF Q!GenerateScheduled, Q!Runs
<1>2. /\ maker \in [Processes -> MakerRow] /\ maker[j] \in MakerRow
      /\ pack \in [Packs -> PackRow] /\ MaxDay \in Nat
  BY DecisionsAssumption DEF FilingInv, FilingTypes, DecisionsAssumption
<1>3. /\ p \in maker[j].left /\ p \in Packs
      /\ maker[j].asOf \in Q!Days /\ maker[j].asOf <= today /\ maker[j].day \in Q!Days
  <2>1. p \in maker[j].left BY <1>1 DEF FilingInv, MakersKnow
  <2> QED BY <1>1, <1>2, <2>1 DEF FilingInv, MakersKnow, MakerRow
<1>4. pack[p] \in PackRow /\ maker[j].asOf \in 0..MaxDay /\ maker[j].due \in Q!DueDays
  BY <1>2, <1>3 DEF MakerRow
<1>5. new \in PackRow BY <1>4 DEF Q!Upsert, PackRow
<1>6. /\ new.status # "none" /\ new.asOf # 0 /\ new.asOf <= today
      /\ new.status = "filed" <=> new.filedAt # 0
      /\ new.status = "filed" <=> pack[p].status = "filed"
      /\ new.filedAt = pack[p].filedAt
  BY <1>3, <1>4 DEF Q!Upsert, FilingInv, RowsTrue, PackRow, Q!Days
<1>7. row \in MakerRow
  <2>1. 0 \in Q!DueDays /\ 0 \in 0..MaxDay BY <1>2 DEF Q!DueDays
  <2> QED BY <1>2, <2>1 DEF Q!IdleJob, MakerRow
<1>8. /\ row.pc = "next" /\ row.left = maker[j].left \ {p} /\ row.day = maker[j].day
      /\ row.list = {} /\ row.mine = {}
  BY DEF Q!IdleJob
<1> HIDE DEF row, new
<1>9. /\ pack' \in [Packs -> PackRow] /\ pack'[p] = new
      /\ \A q \in Packs \ {p} : pack'[q] = pack[q]
  BY <1>1, <1>2, <1>3, <1>5
<1>10. /\ maker' \in [Processes -> MakerRow] /\ maker'[j] = row
       /\ \A g \in Processes \ {j} : maker'[g] = maker[g]
  BY <1>1, <1>2, <1>7
<1>11. RowsTrue' BY <1>1, <1>3, <1>6, <1>9 DEF FilingInv, RowsTrue
<1>12. \A q \in Packs : /\ pack[q].status # "none" => pack'[q].status # "none"
                        /\ pack[q].status = "filed" => pack'[q].status = "filed"
  BY <1>6, <1>9
<1>13. FilersKnow' BY <1>1, <1>12 DEF FilingInv, FilersKnow
<1>14. MakersKnow'
  <2>1. \A g \in Processes : \A q \in maker[g].list \cup maker[g].mine : q \in Packs
    BY <1>2 DEF MakerRow
  <2> QED BY <1>1, <1>3, <1>8, <1>10, <1>12, <2>1 DEF FilingInv, MakersKnow
<1>15. ClaimsApart' BY <1>8, <1>10 DEF FilingInv, ClaimsApart
<1>16. RemindersTrue' BY <1>1, <1>12 DEF FilingInv, RemindersTrue
<1>17. SingleHanded'
  <2>1. row.left \subseteq maker[j].left BY <1>8
  <2> QED BY <1>1, <1>10, <2>1, LessInHand
<1>18. pack[p].status # "none" => p \in crossed BY <1>3 DEF FilingInv, StillTrue
<1>19. /\ MishapsCrossed'
       /\ mishaps' \subseteq (Packs \cup {Nobody}) \X {"doubled", "older", "remade", "refiled"}
  BY <1>1, <1>3, <1>18 DEF Q!Mishap, FilingInv, MishapsCrossed, FilingTypes
<1>20. FilingTypes' BY <1>1, <1>9, <1>10, <1>19 DEF FilingInv, FilingTypes
<1>21. StillTrue'
  <2>1. ASSUME NEW x \in (Packs \cup {Nobody}) \ crossed, NEW k \in Hands, FilerOn(k, x)
        PROVE  /\ filer[k].pc = "configure" => filer[k].row = Len(regulator)
               /\ filer[k].pc = "make" => pack'[x].asOf <= filer[k].asOf
               /\ filer[k].pc = "file" => /\ filer[k].filed <=> pack'[x].status = "filed"
                                          /\ filer[k].filedAt = pack'[x].filedAt
    <3>1. x # p BY <1>3, <2>1 DEF FilingInv, SingleHanded
    <3>2. filer[k].pc \in {"make", "file"} => x \in Packs
      BY <2>1 DEF FilingInv, FilersKnow, FilerOn
    <3>3. filer[k].pc \in {"make", "file"} => pack'[x] = pack[x] BY <1>9, <3>1, <3>2
    <3> QED BY <2>1, <3>3 DEF FilingInv, StillTrue
  <2>2. ASSUME NEW x \in (Packs \cup {Nobody}) \ crossed, NEW g \in Processes, x \in maker'[g].left
        PROVE  pack'[x].status = "none"
    <3>1. x # p /\ x \in maker[g].left
      <4>1. CASE g = j BY <1>8, <1>10, <2>2, <4>1
      <4>2. CASE g # j BY <1>3, <1>10, <2>2, <4>2 DEF FilingInv, SingleHanded
      <4> QED BY <4>1, <4>2
    <3>2. x \in Packs BY <1>2, <3>1 DEF MakerRow
    <3> QED BY <1>9, <2>2, <3>1, <3>2 DEF FilingInv, StillTrue
  <2> QED BY <1>1, <2>1, <2>2 DEF StillTrue, FilerOn
<1> QED BY <1>11, <1>13, <1>14, <1>15, <1>16, <1>17, <1>19, <1>20, <1>21 DEF FilingInv

\* A day passes: what was read is older, and of no day to come.
LEMMA FilingDayPasses ==
    ASSUME FilingInv, Q!DayPasses
    PROVE  FilingInv'
<1>1. /\ today < MaxDay /\ today' = today + 1
      /\ UNCHANGED <<regulator, pack, filer, maker, claimed, reminded, crossed, mishaps>>
  BY DEF Q!DayPasses
<1>2. MaxDay \in Nat /\ today \in Q!Days
  BY DecisionsAssumption DEF DecisionsAssumption, FilingInv, FilingTypes
<1>3. today' \in Q!Days BY <1>1, <1>2 DEF Q!Days
<1>4. \A n \in 0..MaxDay : n <= today => n <= today' BY <1>1, <1>2 DEF Q!Days
<1>5. FilingTypes' BY <1>1, <1>3 DEF FilingInv, FilingTypes
<1>6. RowsTrue'
  <2>1. \A p \in Packs : pack[p].asOf \in 0..MaxDay BY DEF FilingInv, FilingTypes, PackRow
  <2> QED BY <1>1, <1>4, <2>1 DEF FilingInv, RowsTrue
<1>7. FilersKnow'
  <2>1. \A k \in Hands : filer[k].asOf \in 0..MaxDay BY DEF FilingInv, FilingTypes, FilerRow
  <2> QED BY <1>1, <1>4, <2>1 DEF FilingInv, FilersKnow
<1>8. MakersKnow'
  <2>1. \A j \in Processes : maker[j].asOf \in 0..MaxDay BY DEF FilingInv, FilingTypes, MakerRow
  <2> QED BY <1>1, <1>4, <2>1 DEF FilingInv, MakersKnow
<1>9. ClaimsApart' /\ RemindersTrue' /\ MishapsCrossed'
  BY <1>1 DEF FilingInv, ClaimsApart, RemindersTrue, MishapsCrossed
<1>10. SingleHanded' /\ StillTrue' BY <1>1 DEF FilingInv, SingleHanded, StillTrue, FilerOn
<1> QED BY <1>5, <1>6, <1>7, <1>8, <1>9, <1>10 DEF FilingInv

\* Every step of the filings keeps FilingInv.
LEMMA FilingStep ==
    ASSUME FilingInv, Q!Next
    PROVE  FilingInv'
<1>1. ASSUME NEW k \in Hands,
             \/ Q!ClerkFails(k) \/ Q!ReadProfile(k) \/ Q!GenerateReport(k) \/ Q!MarkFiled(k)
             \/ \E d \in Dues : Q!SetProfile(k, d)
             \/ \E p \in Packs : Q!GatherReport(k, p) \/ Q!ReadToFile(k, p)
      PROVE  FilingInv'
  BY <1>1, FilerFails, FilerReads, PackMade, PackFiled, ProfileSet
<1>2. ASSUME NEW j \in Processes,
             \/ Q!ReadExisting(j) \/ Q!GenerateScheduled(j) \/ Q!ReadDueFilings(j)
             \/ Q!Remind(j) \/ Q!JobFails(j)
             \/ \E p \in Packs : Q!GatherScheduled(j, p) \/ Q!ClaimReminder(j, p)
      PROVE  FilingInv'
  BY <1>2, MakerStarts, MakerMakes, MakerLists, MakerReminds, MakerFails, MakerGathers,
     MakerClaims
<1>3. CASE Q!DayPasses BY <1>3, FilingDayPasses
<1>4. \/ Q!DayPasses
      \/ \E k \in Hands :
          \/ Q!ClerkFails(k) \/ Q!ReadProfile(k) \/ Q!GenerateReport(k) \/ Q!MarkFiled(k)
          \/ \E d \in Dues : Q!SetProfile(k, d)
          \/ \E p \in Packs : Q!GatherReport(k, p) \/ Q!ReadToFile(k, p)
      \/ \E j \in Processes :
          \/ Q!ReadExisting(j) \/ Q!GenerateScheduled(j) \/ Q!ReadDueFilings(j)
          \/ Q!Remind(j) \/ Q!JobFails(j)
          \/ \E p \in Packs : Q!GatherScheduled(j, p) \/ Q!ClaimReminder(j, p)
  BY Zenon DEF Q!Next
<1> QED BY ONLY <1>1, <1>2, <1>3, <1>4

\* A step of another part keeps it too.
LEMMA FilingIdle ==
    ASSUME FilingInv, UNCHANGED filingsVars
    PROVE  FilingInv'
BY DEF filingsVars, FilingInv, FilingTypes, RowsTrue, FilersKnow, MakersKnow, ClaimsApart,
       RemindersTrue, SingleHanded, StillTrue, FilerOn, MishapsCrossed

\* What the run checks of the filings follows.
LEMMA FilingMeans ==
    ASSUME FilingInv
    PROVE  Q!TypeOK /\ FilingsStand
BY DEF FilingInv, FilingTypes, PackRow, FilerRow, MakerRow, RowsTrue, RemindersTrue,
       MishapsCrossed, Q!TypeOK, Q!Items, FilingsStand, Q!FilingsStand

(* FilingsStand: regulator-reporting.ts writes what it has read, without looking again, so
   a pack can be filed twice, go back to older data or be made twice. It is only so for
   what two handlers or runs of the job were busy with at the same time; what is filed
   has its day, and the admins hear of a pack once a day. *)
THEOREM FilingsAlwaysStand == OfficeSpec => []FilingsStand
<1>1. OfficeInit => FilingInv BY FilingInit DEF OfficeInit
<1>2. FilingInv /\ [OfficeNext]_officeVars => FilingInv'
  BY FilingStep, FilingIdle DEF OfficeNext, officeVars
<1>3. FilingInv => FilingsStand BY FilingMeans
<1> QED BY <1>1, <1>2, <1>3, PTL DEF OfficeSpec

-----------------------------------------------------------------------------
(* The types of all parts *)

EveryInv ==
    /\ Inv /\ RefundInv /\ CreditInv /\ ClaimInv /\ DividendInv /\ FilingInv
    /\ part \in Parts

(* TypesOK: every part keeps its types, and the statutory funds are taken at most once
   by each super admin. *)
THEOREM DecisionsTypes == OfficeSpec => []TypesOK
<1>1. OfficeInit => EveryInv
  BY InvInit, RefundInit, CreditInit, ClaimInit, DividendInit, FilingInit
  DEF OfficeInit, EveryInv
<1>2. EveryInv /\ [OfficeNext]_officeVars => EveryInv'
  <2> SUFFICES ASSUME EveryInv, [OfficeNext]_officeVars PROVE EveryInv' OBVIOUS
  <2>0. /\ Inv /\ RefundInv /\ CreditInv /\ ClaimInv /\ DividendInv /\ FilingInv
        /\ part \in Parts
    BY DEF EveryInv
  <2>1. [Next]_vars BY DEF OfficeNext, officeVars
  <2>2. Inv' BY <2>0, <2>1, InvStep
  <2>3. RefundInv' BY <2>0, RefundStep, RefundStutter DEF OfficeNext, officeVars
  <2>4. CreditInv' BY <2>0, CreditStep, CreditStutter DEF OfficeNext, officeVars
  <2>5. ClaimInv' BY <2>0, ClaimStep, ClaimStutter DEF OfficeNext, officeVars
  <2>6. DividendInv' BY <2>0, DividendKept
  <2>8. FilingInv' BY <2>0, FilingStep, FilingIdle DEF OfficeNext, officeVars
  <2>7. part' \in Parts BY <2>0 DEF OfficeNext, officeVars
  <2> QED BY <2>2, <2>3, <2>4, <2>5, <2>6, <2>7, <2>8 DEF EveryInv
<1>3. EveryInv => TypesOK
  <2> SUFFICES ASSUME EveryInv PROVE TypesOK OBVIOUS
  <2>1. TypeOK BY Types DEF Inv, EveryInv
  <2>2. R!TypeOK /\ C!TypeOK /\ D!TypeOK BY DEF RefundInv, CreditInv, ClaimInv, EveryInv
  <2>3. V!TypeOK
    <3>1. taken \in 0..V!Cardinality(Officers)
      <4>1. Cardinality(Takers) \in Nat /\ Cardinality(Officers) \in Nat
        BY DecisionsAssumption, FS_Subset, FS_CardinalityType DEF Takers
      <4> QED BY <4>1, CountedToo DEF DividendInv, RunTypes, TakenByEach, EveryInv
    <3> QED BY <3>1 DEF DividendInv, RunTypes, V!TypeOK, AskedRates, VoteRow, RunRow, EntryRow,
                        BankRow, DividendHandRow, EveryInv
  <2>4. part \in {"payments", "refunds", "credits", "claims", "dividends", "filings"}
    BY DecisionsAssumption DEF DecisionsAssumption, EveryInv
  <2>5. Q!TypeOK BY FilingMeans DEF EveryInv
  <2> QED BY <2>1, <2>2, <2>3, <2>4, <2>5 DEF TypesOK
<1> QED BY <1>1, <1>2, <1>3, PTL DEF OfficeSpec
=============================================================================
