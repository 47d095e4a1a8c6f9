---------------------------- MODULE LoansProofs -----------------------------
(***************************************************************************)
(* Theorems about Loans for every value of its constants.                  *)
(*                                                                         *)
(* The lemmas of the first part say what an update does to a loan or a     *)
(* handler, field by field.  The invariant follows a handler from what it  *)
(* read to what it writes: a person has one handler at a time, so nobody   *)
(* else can sign or vote in his name meanwhile, and a loan that a          *)
(* finalizer has locked stays as it was.                                   *)
(***************************************************************************)
EXTENDS Loans, TLAPS, FiniteSetTheorems

LoanType == [Loans -> LoanRow]
HandType == [Hands -> HandRow]
GuaType == [Loans -> [Persons -> {"none", "pending", "confirmed", "released"}]]
VoteType == [Loans -> [Persons -> {"none", "approve", "reject"}]]

\* n is w but for the row of l.
RowIs(n, w, l, st, by, of, ad, s1, s2, pay, bk) ==
    /\ n \in LoanType /\ \A j \in Loans \ {l} : n[j] = w[j]
    /\ n[l].status = st /\ n[l].by = by /\ n[l].officer = of /\ n[l].admin = ad
    /\ n[l].super1 = s1 /\ n[l].super2 = s2 /\ n[l].pay = pay /\ n[l].booked = bk

\* The row of l keeps all but its status and what the arguments replace.
Signed(n, w, l, st, of, ad, s1) ==
    /\ RowIs(n, w, l, st, w[l].by, of, ad, s1, w[l].super2, w[l].pay, w[l].booked)
    /\ n[l].joint = w[l].joint
Restated(n, w, l, st) == Signed(n, w, l, st, w[l].officer, w[l].admin, w[l].super1)

\* Only the status is written.
IsStatus(n, w, l, st) == n = [w EXCEPT ![l].status = st]
LEMMA SetStatus ==
    ASSUME NEW w \in LoanType, NEW l \in Loans, NEW st \in Statuses, NEW n, IsStatus(n, w, l, st)
    PROVE  Restated(n, w, l, st)
<1> DEFINE row == [w[l] EXCEPT !.status = st]
<1>1. w[l] \in LoanRow
    BY DEF LoanType
<1>2. /\ row \in LoanRow /\ row.status = st /\ row.by = w[l].by /\ row.officer = w[l].officer
      /\ row.admin = w[l].admin /\ row.super1 = w[l].super1 /\ row.super2 = w[l].super2
      /\ row.pay = w[l].pay /\ row.booked = w[l].booked /\ row.joint = w[l].joint
    BY <1>1 DEF LoanRow
<1>3. n = [w EXCEPT ![l] = row]
    BY DEF IsStatus, LoanType
<1> HIDE DEF row
<1>4. n \in LoanType /\ n[l] = row /\ \A j \in Loans \ {l} : n[j] = w[j]
    BY <1>2, <1>3 DEF LoanType
<1>5. QED BY <1>2, <1>4 DEF RowIs, Signed, Restated

\* An approval writes the status and one signature.
IsOfficer(n, w, l, st, m) == n = [w EXCEPT ![l].status = st, ![l].officer = m]
LEMMA SetOfficer ==
    ASSUME NEW w \in LoanType, NEW l \in Loans, NEW st \in Statuses, NEW m \in Signer, NEW n,
           IsOfficer(n, w, l, st, m)
    PROVE  Signed(n, w, l, st, m, w[l].admin, w[l].super1)
<1> DEFINE row == [w[l] EXCEPT !.status = st, !.officer = m]
<1>1. w[l] \in LoanRow
    BY DEF LoanType
<1>2. /\ row \in LoanRow /\ row.status = st /\ row.by = w[l].by /\ row.officer = m
      /\ row.admin = w[l].admin /\ row.super1 = w[l].super1 /\ row.super2 = w[l].super2
      /\ row.pay = w[l].pay /\ row.booked = w[l].booked /\ row.joint = w[l].joint
    BY <1>1 DEF LoanRow
<1>3. n = [w EXCEPT ![l] = row]
    BY DEF IsOfficer, LoanType
<1> HIDE DEF row
<1>4. n \in LoanType /\ n[l] = row /\ \A j \in Loans \ {l} : n[j] = w[j]
    BY <1>2, <1>3 DEF LoanType
<1>5. QED BY <1>2, <1>4 DEF RowIs, Signed

IsAdmin(n, w, l, st, m) == n = [w EXCEPT ![l].status = st, ![l].admin = m]
LEMMA SetAdmin ==
    ASSUME NEW w \in LoanType, NEW l \in Loans, NEW st \in Statuses, NEW m \in Signer, NEW n,
           IsAdmin(n, w, l, st, m)
    PROVE  Signed(n, w, l, st, w[l].officer, m, w[l].super1)
<1> DEFINE row == [w[l] EXCEPT !.status = st, !.admin = m]
<1>1. w[l] \in LoanRow
    BY DEF LoanType
<1>2. /\ row \in LoanRow /\ row.status = st /\ row.by = w[l].by /\ row.officer = w[l].officer
      /\ row.admin = m /\ row.super1 = w[l].super1 /\ row.super2 = w[l].super2
      /\ row.pay = w[l].pay /\ row.booked = w[l].booked /\ row.joint = w[l].joint
    BY <1>1 DEF LoanRow
<1>3. n = [w EXCEPT ![l] = row]
    BY DEF IsAdmin, LoanType
<1> HIDE DEF row
<1>4. n \in LoanType /\ n[l] = row /\ \A j \in Loans \ {l} : n[j] = w[j]
    BY <1>2, <1>3 DEF LoanType
<1>5. QED BY <1>2, <1>4 DEF RowIs, Signed

IsSuper1(n, w, l, st, m) == n = [w EXCEPT ![l].status = st, ![l].super1 = m]
LEMMA SetSuper1 ==
    ASSUME NEW w \in LoanType, NEW l \in Loans, NEW st \in Statuses, NEW m \in Signer, NEW n,
           IsSuper1(n, w, l, st, m)
    PROVE  Signed(n, w, l, st, w[l].officer, w[l].admin, m)
<1> DEFINE row == [w[l] EXCEPT !.status = st, !.super1 = m]
<1>1. w[l] \in LoanRow
    BY DEF LoanType
<1>2. /\ row \in LoanRow /\ row.status = st /\ row.by = w[l].by /\ row.officer = w[l].officer
      /\ row.admin = w[l].admin /\ row.super1 = m /\ row.super2 = w[l].super2
      /\ row.pay = w[l].pay /\ row.booked = w[l].booked /\ row.joint = w[l].joint
    BY <1>1 DEF LoanRow
<1>3. n = [w EXCEPT ![l] = row]
    BY DEF IsSuper1, LoanType
<1> HIDE DEF row
<1>4. n \in LoanType /\ n[l] = row /\ \A j \in Loans \ {l} : n[j] = w[j]
    BY <1>2, <1>3 DEF LoanType
<1>5. QED BY <1>2, <1>4 DEF RowIs, Signed

\* A finalizer's commit.
Committed(n, w, l, st, m, paid, bk) ==
    /\ RowIs(n, w, l, st, w[l].by, w[l].officer, w[l].admin, w[l].super1, m, paid, bk)
    /\ n[l].joint = w[l].joint
IsCommit(n, w, l, st, m, paid, i) ==
    n = [w EXCEPT ![l].status = st, ![l].super2 = m, ![l].pay = paid, ![l].booked = @ + i]
LEMMA SetCommit ==
    ASSUME NEW w \in LoanType, NEW l \in Loans, NEW st \in Statuses, NEW m \in Signer,
           NEW paid \in {"none", "failed", "successful"}, NEW i \in Nat, NEW n,
           IsCommit(n, w, l, st, m, paid, i)
    PROVE  Committed(n, w, l, st, m, paid, w[l].booked + i)
<1> DEFINE b == w[l].booked + i
           row == [w[l] EXCEPT !.status = st, !.super2 = m, !.pay = paid, !.booked = b]
<1>1. w[l] \in LoanRow /\ b \in Nat
    BY DEF LoanType, LoanRow
<1>3. n = [w EXCEPT ![l] = row]
    BY DEF IsCommit, LoanType
<1> HIDE DEF b
<1>2. /\ row \in LoanRow /\ row.status = st /\ row.by = w[l].by /\ row.officer = w[l].officer
      /\ row.admin = w[l].admin /\ row.super1 = w[l].super1 /\ row.super2 = m
      /\ row.pay = paid /\ row.booked = b /\ row.joint = w[l].joint
    BY <1>1 DEF LoanRow
<1> HIDE DEF row
<1>4. n \in LoanType /\ n[l] = row /\ \A j \in Loans \ {l} : n[j] = w[j]
    BY <1>2, <1>3 DEF LoanType
<1>5. Committed(n, w, l, st, m, paid, b)
    BY <1>2, <1>4 DEF RowIs, Committed
<1>6. QED BY <1>5 DEF b

\* An application, with or without a group.
Applied(n, w, l, st, b) ==
    RowIs(n, w, l, st, b, w[l].officer, w[l].admin, w[l].super1, w[l].super2, w[l].pay, w[l].booked)
IsAsked(n, w, l, b) == n = [w EXCEPT ![l].status = "pending", ![l].by = b]
LEMMA SetAsked ==
    ASSUME NEW w \in LoanType, NEW l \in Loans, NEW b \in Persons, NEW n, IsAsked(n, w, l, b)
    PROVE  Applied(n, w, l, "pending", b)
<1> DEFINE row == [w[l] EXCEPT !.status = "pending", !.by = b]
<1>1. w[l] \in LoanRow
    BY DEF LoanType
<1>2. /\ row \in LoanRow /\ row.status = "pending" /\ row.by = b /\ row.officer = w[l].officer
      /\ row.admin = w[l].admin /\ row.super1 = w[l].super1 /\ row.super2 = w[l].super2
      /\ row.pay = w[l].pay /\ row.booked = w[l].booked
    BY <1>1 DEF LoanRow, Statuses, Signer
<1>3. n = [w EXCEPT ![l] = row]
    BY DEF IsAsked, LoanType
<1> HIDE DEF row
<1>4. n \in LoanType /\ n[l] = row /\ \A j \in Loans \ {l} : n[j] = w[j]
    BY <1>2, <1>3 DEF LoanType
<1>5. QED BY <1>2, <1>4 DEF RowIs, Applied

IsJoint(n, w, l, b) == n = [w EXCEPT ![l].status = "guaranteed", ![l].by = b, ![l].joint = TRUE]
LEMMA SetJoint ==
    ASSUME NEW w \in LoanType, NEW l \in Loans, NEW b \in Persons, NEW n, IsJoint(n, w, l, b)
    PROVE  Applied(n, w, l, "guaranteed", b) /\ n[l].joint
<1> DEFINE row == [w[l] EXCEPT !.status = "guaranteed", !.by = b, !.joint = TRUE]
<1>1. w[l] \in LoanRow
    BY DEF LoanType
<1>2. /\ row \in LoanRow /\ row.status = "guaranteed" /\ row.by = b /\ row.officer = w[l].officer
      /\ row.admin = w[l].admin /\ row.super1 = w[l].super1 /\ row.super2 = w[l].super2
      /\ row.pay = w[l].pay /\ row.booked = w[l].booked /\ row.joint
    BY <1>1 DEF LoanRow, Statuses, Signer
<1>3. n = [w EXCEPT ![l] = row]
    BY DEF IsJoint, LoanType
<1> HIDE DEF row
<1>4. n \in LoanType /\ n[l] = row /\ \A j \in Loans \ {l} : n[j] = w[j]
    BY <1>2, <1>3 DEF LoanType
<1>5. QED BY <1>2, <1>4 DEF RowIs, Applied

\* The handler k, and no other.
HandIs(k, pc, who, l, x, from, vote, fresh, res) ==
    /\ hand' \in HandType /\ \A j \in Hands \ {k} : hand'[j] = hand[j]
    /\ hand'[k].pc = pc /\ hand'[k].who = who /\ hand'[k].l = l /\ hand'[k].x = x
    /\ hand'[k].from = from /\ hand'[k].vote = vote /\ hand'[k].fresh = fresh
    /\ hand'[k].res = res

\* A handler replaced is the new row, field by field.
LEMMA PutHand ==
    ASSUME hand \in HandType, NEW k \in Hands, NEW h \in HandRow, hand' = [hand EXCEPT ![k] = h]
    PROVE  HandIs(k, h.pc, h.who, h.l, h.x, h.from, h.vote, h.fresh, h.res)
BY DEF HandIs, HandType

\* A handler that ends is idle.
LEMMA IdleRow ==
    /\ Idle \in HandRow /\ Idle.pc = "idle" /\ Idle.who = Nobody /\ Idle.l = NoLoan
    /\ Idle.x = NoSwap /\ Idle.from = "none" /\ Idle.vote = "none" /\ Idle.fresh = FALSE
    /\ Idle.res = "none"
BY DEF Idle, HandRow, Statuses, Signer

IdleNow(k) == HandIs(k, "idle", Nobody, NoLoan, NoSwap, "none", "none", FALSE, "none")
LEMMA Returns ==
    ASSUME hand \in HandType, NEW k \in Hands, Return(k)
    PROVE  IdleNow(k)
BY IdleRow, PutHand DEF Return, IdleNow

\* A handler that starts, on a code, on a request of an exchange, or on a loan.
Started(k, pc, m, l, x, from, v, f) == HandIs(k, pc, m, l, x, from, v, f, "none")

LEMMA CodeStarts ==
    ASSUME hand \in HandType, NEW k \in Hands, NEW m \in Persons, NEW l \in Loans, ReadCode(k, m, l)
    PROVE  Started(k, "confirm", m, l, NoSwap, "none", "none", FALSE)
<1> DEFINE h == [Idle EXCEPT !.pc = "confirm", !.who = m, !.l = l]
<1>1. /\ h \in HandRow /\ h.pc = "confirm" /\ h.who = m /\ h.l = l /\ h.x = NoSwap
      /\ h.from = "none" /\ h.vote = "none" /\ h.fresh = FALSE /\ h.res = "none"
    BY IdleRow DEF HandRow, Signer
<1>2. hand' = [hand EXCEPT ![k] = h]
    BY DEF ReadCode
<1> HIDE DEF h
<1>3. QED BY <1>1, <1>2, PutHand DEF Started

\* A handler that starts on a request of an exchange.
LEMMA ConsiderStarts ==
    ASSUME hand \in HandType, NEW k \in Hands, NEW m \in Persons, NEW x \in Swaps,
           swap[x].l \in Loans, NEW pc \in {"accept", "decline", "swap"}, Consider(k, m, x, pc)
    PROVE  Started(k, pc, m, swap[x].l, x, "none", "none", FALSE)
<1> DEFINE l == swap[x].l
           h == [Idle EXCEPT !.pc = pc, !.who = m, !.l = l, !.x = x]
<1>2. hand' = [hand EXCEPT ![k] = h] /\ l \in Loans
    BY DEF Consider
<1> HIDE DEF l
<1>1. /\ h \in HandRow /\ h.pc = pc /\ h.who = m /\ h.l = l /\ h.x = x
      /\ h.from = "none" /\ h.vote = "none" /\ h.fresh = FALSE /\ h.res = "none"
    BY <1>2, IdleRow DEF HandRow, Signer
<1> HIDE DEF h
<1>3. Started(k, pc, m, l, x, "none", "none", FALSE)
    BY <1>1, <1>2, PutHand DEF Started
<1>4. QED BY <1>3 DEF l

\* A handler that starts on a loan.
LEMMA BeginStarts ==
    ASSUME hand \in HandType, loan \in LoanType, NEW k \in Hands, NEW m \in Persons, NEW l \in Loans,
           NEW pc \in {"sign", "finalize", "vote", "reject"}, NEW v \in {"none", "approve", "reject"},
           Begin(k, m, l, pc, v)
    PROVE  Started(k, pc, m, l, NoSwap, loan[l].status, v, v # "none" /\ dec[l] = "none")
<1> DEFINE from == loan[l].status
           f == v # "none" /\ dec[l] = "none"
           h == [Idle EXCEPT !.pc = pc, !.who = m, !.l = l, !.from = from, !.vote = v, !.fresh = f]
<1>2. hand' = [hand EXCEPT ![k] = h]
    BY DEF Begin
<1>3. from \in Statuses /\ f \in BOOLEAN
    BY DEF LoanType, LoanRow
<1> HIDE DEF from, f
<1>1. /\ h.pc = pc /\ h.who = m /\ h.l = l /\ h.x = NoSwap
      /\ h.from = from /\ h.vote = v /\ h.fresh = f /\ h.res = "none"
    BY IdleRow DEF HandRow
<1>5. h \in HandRow
    BY ZenonT(60), <1>3, IdleRow DEF HandRow, Signer
<1> HIDE DEF h
<1>4. Started(k, pc, m, l, NoSwap, from, v, f)
    BY <1>1, <1>2, <1>5, PutHand DEF Started
<1>6. QED BY <1>4 DEF from, f

\* A handler that goes on, with what it learned.
Moved(k, pc, from, res) ==
    HandIs(k, pc, hand[k].who, hand[k].l, hand[k].x, from, hand[k].vote, hand[k].fresh, res)

IsCounted(k, pc, res) == hand' = [hand EXCEPT ![k].pc = pc, ![k].res = res]
LEMMA MovesCounted ==
    ASSUME hand \in HandType, NEW k \in Hands, NEW pc \in {"counted", "tally"},
           NEW res \in {"none", "enough", "approved", "rejected"}, IsCounted(k, pc, res)
    PROVE  Moved(k, pc, hand[k].from, res)
<1> DEFINE h == [hand[k] EXCEPT !.pc = pc, !.res = res]
<1>1. hand[k] \in HandRow
    BY DEF HandType
<1>2. /\ h.pc = pc /\ h.who = hand[k].who /\ h.l = hand[k].l /\ h.x = hand[k].x
      /\ h.from = hand[k].from /\ h.vote = hand[k].vote /\ h.fresh = hand[k].fresh /\ h.res = res
    BY <1>1 DEF HandRow
<1>3. h \in HandRow
    BY <1>1 DEF HandRow
<1>4. hand' = [hand EXCEPT ![k] = h]
    BY DEF IsCounted, HandType
<1> HIDE DEF h
<1>5. QED BY <1>2, <1>3, <1>4, PutHand DEF Moved

IsOn(k, pc) == hand' = [hand EXCEPT ![k].pc = pc]
LEMMA MovesOn ==
    ASSUME hand \in HandType, NEW k \in Hands, NEW pc \in {"finalize", "pay"}, IsOn(k, pc)
    PROVE  Moved(k, pc, hand[k].from, hand[k].res)
<1> DEFINE h == [hand[k] EXCEPT !.pc = pc]
<1>1. hand[k] \in HandRow
    BY DEF HandType
<1>2. /\ h.pc = pc /\ h.who = hand[k].who /\ h.l = hand[k].l /\ h.x = hand[k].x
      /\ h.from = hand[k].from /\ h.vote = hand[k].vote /\ h.fresh = hand[k].fresh
      /\ h.res = hand[k].res
    BY <1>1 DEF HandRow
<1>3. h \in HandRow
    BY <1>1 DEF HandRow
<1>4. hand' = [hand EXCEPT ![k] = h]
    BY DEF IsOn, HandType
<1> HIDE DEF h
<1>5. QED BY <1>2, <1>3, <1>4, PutHand DEF Moved

IsAnswered(k, from) == hand' = [hand EXCEPT ![k].pc = "book", ![k].from = from]
LEMMA MovesAnswered ==
    ASSUME hand \in HandType, NEW k \in Hands, NEW from \in {"ok", "unsure", "refused"},
           IsAnswered(k, from)
    PROVE  Moved(k, "book", from, hand[k].res)
<1> DEFINE h == [hand[k] EXCEPT !.pc = "book", !.from = from]
<1>1. hand[k] \in HandRow
    BY DEF HandType
<1>2. /\ h.pc = "book" /\ h.who = hand[k].who /\ h.l = hand[k].l /\ h.x = hand[k].x
      /\ h.from = from /\ h.vote = hand[k].vote /\ h.fresh = hand[k].fresh
      /\ h.res = hand[k].res
    BY <1>1 DEF HandRow
<1>3. h \in HandRow
    BY <1>1 DEF HandRow
<1>4. hand' = [hand EXCEPT ![k] = h]
    BY DEF IsAnswered, HandType
<1> HIDE DEF h
<1>5. QED BY <1>2, <1>3, <1>4, PutHand DEF Moved

-----------------------------------------------------------------------------
(* What rows and handlers refer to.                                        *)

\* A loan nobody applied for is blank.
RowsFresh ==
    \A l \in Loans :
        IF loan[l].status = "none"
        THEN /\ loan[l].officer = Nobody /\ loan[l].admin = Nobody
             /\ loan[l].super1 = Nobody /\ loan[l].super2 = Nobody
             /\ loan[l].pay = "none" /\ loan[l].booked = 0
        ELSE loan[l].by \in Persons

GuaFresh == \A l \in Loans : loan[l].status = "none" => \A m \in Persons : gua[l][m] = "none"

HandsRefer ==
    \A k \in Hands :
        hand[k].pc # "idle" =>
            /\ hand[k].who \in Persons /\ hand[k].l \in Loans
            /\ loan[hand[k].l].status # "none"
            /\ hand[k].pc \in {"accept", "decline", "swap"} =>
                 hand[k].x \in Swaps /\ swap[hand[k].x].status # "none"

SwapsRefer ==
    \A x \in Swaps :
        swap[x].status # "none" =>
            /\ swap[x].l \in Loans /\ swap[x].old \in Persons /\ swap[x].new \in Persons
            /\ swap[x].new # swap[x].old
            /\ loan[swap[x].l].status # "none"

TypeInv == TypeOK /\ RowsFresh /\ GuaFresh /\ HandsRefer /\ SwapsRefer

\* The writes of a handler's last step, or of one before.
Signs(k) == OfficerApproves(k) \/ AdminApproves(k) \/ FirstSuperApproves(k)
Commits(k) == AlreadyPaid(k) \/ Held(k) \/ Disbursed(k) \/ NotDisbursed(k)
Asks(b, l) == Apply(b, l) \/ ApplyJointly(b, l)
GoesOn(k) ==
    CountConfirmed(k) \/ CastVote(k) \/ DecideApproved(k) \/ Claim(k) \/ CallProvider(k)

\* What a handler of an approval, a vote or a rejection writes with one step.
LEMMA HandlerWrites ==
    ASSUME NEW k \in Hands, Handler(k)
    PROVE  /\ UNCHANGED <<gua, swap, seats>>
           /\ UNCHANGED loan \/ Signs(k) \/ Commits(k) \/ DecideRejected(k) \/ RejectPending(k)
           /\ UNCHANGED prov \/ CallProvider(k)
           /\ \/ UNCHANGED <<dec, votes>>
              \/ /\ RecordVote(k) /\ Return(k)
                 /\ hand[k].pc \in {"tally", "finalize", "pay", "book"}
           /\ GoesOn(k) \/ (Return(k) /\ hand[k].pc # "idle")
<1>1. CASE Signs(k)
    BY <1>1 DEF Signs, OfficerApproves, AdminApproves, FirstSuperApproves, committeeVars
<1>2. CASE Commits(k)
    BY <1>2 DEF Commits, AlreadyPaid, Held, Disbursed, NotDisbursed, Commit, RecordVote
<1>3. CASE SignRefused(k) \/ VoteCollides(k) \/ RejectPending(k) \/ Lose(k)
    BY <1>3 DEF SignRefused, VoteCollides, RejectPending, Lose, committeeVars
<1>4. CASE VoteOnly(k) \/ DecideRejected(k) \/ FinalizeRefused(k)
    BY <1>4 DEF VoteOnly, DecideRejected, FinalizeRefused, RecordVote
<1>5. CASE CastVote(k) \/ DecideApproved(k) \/ Claim(k)
    BY <1>5 DEF CastVote, DecideApproved, Claim, GoesOn, committeeVars
<1>6. CASE CallProvider(k)
    BY <1>6 DEF CallProvider, GoesOn, committeeVars
<1>7. QED BY <1>1, <1>2, <1>3, <1>4, <1>5, <1>6 DEF Handler, Signs, Commits

\* The steps that write a loan.
LEMMA LoanWrites ==
    ASSUME Next
    PROVE  \/ UNCHANGED loan
           \/ \E b \in Persons, l \in Loans : Asks(b, l)
           \/ \E k \in Hands : Signs(k) \/ Commits(k)
           \/ \E k \in Hands : ConfirmGuarantee(k) \/ DecideRejected(k) \/ RejectPending(k)
           \/ \E m \in Managers, l \in Loans : RejectByOfficer(m, l)
           \/ \E l \in Loans : Repaid(l)
<1>1. CASE GuaranteeStep /\ UNCHANGED <<committeeVars, prov>>
    BY <1>1 DEF GuaranteeStep, Asks, AddGuarantor, ReadCode, RequestSwap, ReadSwapCode,
        ReadForDecline, ReadForSwap, Consider, CountConfirmed, AcceptSwap, DeclineSwap,
        SwapGuarantor, SwapCollides
<1>2. CASE \E k \in Hands, m \in Persons, l \in Loans :
               ReadForApproval(k, m, l) \/ ReadForRejectVote(k, m, l)
    BY <1>2 DEF ReadForApproval, ReadForRejectVote, Begin
<1>3. CASE \E k \in Hands, m \in Managers, l \in Loans : ReadForReject(k, m, l)
    BY <1>3 DEF ReadForReject, Begin
<1>4. CASE \E k \in Hands : Handler(k)
    BY <1>4, HandlerWrites
<1>5. CASE \E l \in Loans : ProviderSettles(l)
    BY <1>5 DEF ProviderSettles, guaranteeVars
<1>6. CASE \E m \in Appointable : Appoint(m) \/ Unseat(m)
    BY <1>6 DEF Appoint, Unseat, guaranteeVars
<1>7. QED BY <1>1, <1>2, <1>3, <1>4, <1>5, <1>6 DEF Next

\* What each of them does to the row.
LEMMA SignsDo ==
    ASSUME TypeInv, NEW k \in Hands, Signs(k)
    PROVE  LET l == hand[k].l
               m == hand[k].who
           IN /\ hand[k].pc = "sign" /\ l \in Loans /\ m \in Persons
              /\ loan[l].status = hand[k].from /\ ~Locked(l)
              /\ IdleNow(k) /\ UNCHANGED <<gua, swap, committeeVars, prov>>
              /\ \/ /\ hand[k].from = "guaranteed"
                    /\ Signed(loan', loan, l, "account_officer_approved", m, loan[l].admin, loan[l].super1)
                 \/ /\ hand[k].from = "account_officer_approved"
                    /\ Signed(loan', loan, l, "admin_approved", loan[l].officer, m, loan[l].super1)
                 \/ /\ hand[k].from = "admin_approved"
                    /\ Signed(loan', loan, l, "super_approved_1", loan[l].officer, loan[l].admin, m)
<1> DEFINE l == hand[k].l
           m == hand[k].who
<1>1. /\ hand[k].pc = "sign" /\ Return(k) /\ UNCHANGED <<gua, swap, committeeVars, prov>>
      /\ loan[l].status = hand[k].from /\ ~Locked(l)
    BY DEF Signs, OfficerApproves, AdminApproves, FirstSuperApproves, Still
<1>2. l \in Loans /\ m \in Persons /\ loan \in LoanType /\ hand \in HandType /\ m \in Signer
    BY <1>1 DEF TypeInv, TypeOK, HandsRefer, LoanType, HandType, Signer
<1>3. IdleNow(k)
    BY <1>1, <1>2, Returns
<1>4. CASE OfficerApproves(k)
    <2>1. IsOfficer(loan', loan, l, "account_officer_approved", m) /\ hand[k].from = "guaranteed"
        BY <1>4 DEF OfficerApproves, IsOfficer
    <2>2. Signed(loan', loan, l, "account_officer_approved", m, loan[l].admin, loan[l].super1)
        BY <2>1, <1>2, SetOfficer DEF Statuses
    <2>3. QED BY <1>1, <1>2, <1>3, <2>1, <2>2
<1>5. CASE AdminApproves(k)
    <2>1. IsAdmin(loan', loan, l, "admin_approved", m) /\ hand[k].from = "account_officer_approved"
        BY <1>5 DEF AdminApproves, IsAdmin
    <2>2. Signed(loan', loan, l, "admin_approved", loan[l].officer, m, loan[l].super1)
        BY <2>1, <1>2, SetAdmin DEF Statuses
    <2>3. QED BY <1>1, <1>2, <1>3, <2>1, <2>2
<1>6. CASE FirstSuperApproves(k)
    <2>1. IsSuper1(loan', loan, l, "super_approved_1", m) /\ hand[k].from = "admin_approved"
        BY <1>6 DEF FirstSuperApproves, IsSuper1
    <2>2. Signed(loan', loan, l, "super_approved_1", loan[l].officer, loan[l].admin, m)
        BY <2>1, <1>2, SetSuper1 DEF Statuses
    <2>3. QED BY <1>1, <1>2, <1>3, <2>1, <2>2
<1>7. QED BY <1>4, <1>5, <1>6 DEF Signs

\* A commit enters at most one disbursement.
CommitsWith(k, st, paid, n) ==
    /\ Committed(loan', loan, hand[k].l, st, hand[k].who, paid, loan[hand[k].l].booked + n)
    /\ IdleNow(k) /\ RecordVote(k) /\ UNCHANGED <<gua, swap, prov>>
LEMMA CommitDoes ==
    ASSUME TypeInv, NEW k \in Hands, NEW st \in Statuses, NEW paid \in {"none", "failed", "successful"},
           NEW n \in Nat, hand[k].pc \in {"pay", "book"}, Commit(k, st, paid, n)
    PROVE  CommitsWith(k, st, paid, n)
<1> DEFINE l == hand[k].l
           m == hand[k].who
<1>1. l \in Loans /\ loan \in LoanType /\ hand \in HandType /\ m \in Signer
    BY DEF TypeInv, TypeOK, HandsRefer, LoanType, HandType, Signer
<1>2. Return(k) /\ RecordVote(k) /\ UNCHANGED <<gua, swap, prov>> /\ IsCommit(loan', loan, l, st, m, paid, n)
    BY DEF Commit, IsCommit
<1>3. Committed(loan', loan, l, st, m, paid, loan[l].booked + n)
    BY <1>1, <1>2, SetCommit
<1>4. QED BY <1>1, <1>2, <1>3, Returns DEF CommitsWith

\* The four ways a finalizer commits.
LEMMA CommitsDo ==
    ASSUME TypeInv, NEW k \in Hands, Commits(k)
    PROVE  LET l == hand[k].l IN
           /\ hand[k].pc \in {"pay", "book"} /\ l \in Loans /\ hand[k].who \in Persons
           /\ \/ CommitsWith(k, "approved", loan[l].pay, 0) /\ loan[l].pay = "successful"
              \/ CommitsWith(k, "approved", "failed", 0)
                 /\ (hand[k].pc = "book" \/ loan[l].pay # "successful")
              \/ CommitsWith(k, "disbursed", "successful", 1) /\ hand[k].pc = "book"
                 /\ hand[k].from = "ok"
<1> DEFINE l == hand[k].l
<1>1. hand[k].pc \in {"pay", "book"}
    BY DEF Commits, AlreadyPaid, Held, Disbursed, NotDisbursed
<1>2. l \in Loans /\ hand[k].who \in Persons /\ loan[l].pay \in {"none", "failed", "successful"}
    BY <1>1 DEF TypeInv, TypeOK, HandsRefer, LoanRow
<1>3. CASE AlreadyPaid(k)
    <2>1. Commit(k, "approved", loan[l].pay, 0) /\ loan[l].pay = "successful"
        BY <1>3 DEF AlreadyPaid, Payable
    <2>2. CommitsWith(k, "approved", loan[l].pay, 0)
        BY <1>1, <1>2, <2>1, CommitDoes DEF Statuses
    <2>3. QED BY <1>1, <1>2, <2>1, <2>2
<1>4. CASE Held(k) \/ NotDisbursed(k)
    <2>1. Commit(k, "approved", "failed", 0) /\ (hand[k].pc = "book" \/ loan[l].pay # "successful")
        BY <1>4 DEF Held, NotDisbursed, Payable
    <2>2. CommitsWith(k, "approved", "failed", 0)
        BY <1>1, <2>1, CommitDoes DEF Statuses
    <2>3. QED BY <1>1, <1>2, <2>1, <2>2
<1>5. CASE Disbursed(k)
    <2>1. Commit(k, "disbursed", "successful", 1) /\ hand[k].pc = "book" /\ hand[k].from = "ok"
        BY <1>5 DEF Disbursed
    <2>2. CommitsWith(k, "disbursed", "successful", 1)
        BY <1>1, <2>1, CommitDoes DEF Statuses
    <2>3. QED BY <1>1, <1>2, <2>1, <2>2
<1>6. QED BY <1>3, <1>4, <1>5 DEF Commits

\* The others write the status alone.
LEMMA RestatesDo ==
    ASSUME TypeInv, NEW k \in Hands, ConfirmGuarantee(k) \/ DecideRejected(k) \/ RejectPending(k)
    PROVE  LET l == hand[k].l IN
           /\ l \in Loans /\ hand[k].who \in Persons /\ IdleNow(k) /\ UNCHANGED swap
           /\ \/ UNCHANGED loan
              \/ /\ ~Locked(l)
                 /\ \/ Restated(loan', loan, l, "guaranteed") /\ ConfirmGuarantee(k)
                    \/ Restated(loan', loan, l, "rejected")
<1> DEFINE l == hand[k].l
<1>1. hand[k].pc # "idle" /\ Return(k) /\ UNCHANGED swap
    BY DEF ConfirmGuarantee, DecideRejected, RejectPending
<1>2. l \in Loans /\ hand[k].who \in Persons /\ loan \in LoanType /\ hand \in HandType
    BY <1>1 DEF TypeInv, TypeOK, HandsRefer, LoanType, HandType
<1>3. IdleNow(k)
    BY <1>1, <1>2, Returns
<1>4. \/ UNCHANGED loan
      \/ ~Locked(l) /\ IsStatus(loan', loan, l, "guaranteed") /\ ConfirmGuarantee(k)
      \/ ~Locked(l) /\ IsStatus(loan', loan, l, "rejected")
    BY DEF ConfirmGuarantee, DecideRejected, RejectPending, IsStatus
<1>5. QED BY <1>1, <1>2, <1>3, <1>4, SetStatus DEF Statuses

\* A rejection by an officer and a last repayment write the status alone.
LEMMA EndsDo ==
    ASSUME TypeInv, NEW l \in Loans, (\E m \in Managers : RejectByOfficer(m, l)) \/ Repaid(l)
    PROVE  /\ ~Locked(l) /\ loan[l].status # "none"
           /\ UNCHANGED <<gua, swap, hand, committeeVars, prov>>
           /\ Restated(loan', loan, l, "rejected_by_officer") \/ Restated(loan', loan, l, "paid")
<1>1. /\ ~Locked(l) /\ loan[l].status # "none" /\ UNCHANGED <<gua, swap, hand, committeeVars, prov>>
      /\ IsStatus(loan', loan, l, "rejected_by_officer") \/ IsStatus(loan', loan, l, "paid")
    BY DEF RejectByOfficer, Repaid, IsStatus
<1>2. loan \in LoanType
    BY DEF TypeInv, TypeOK, LoanType
<1>3. QED BY <1>1, <1>2, SetStatus DEF Statuses

\* An application writes the borrower on a blank row.
LEMMA AsksDo ==
    ASSUME TypeInv, NEW b \in Persons, NEW l \in Loans, Asks(b, l)
    PROVE  /\ loan[l].status = "none" /\ UNCHANGED <<gua, swap, hand>>
           /\ \/ Applied(loan', loan, l, "pending", b)
              \/ Applied(loan', loan, l, "guaranteed", b) /\ loan'[l].joint
<1>1. loan \in LoanType
    BY DEF TypeInv, TypeOK, LoanType
<1>2. CASE Apply(b, l)
    <2>1. IsAsked(loan', loan, l, b) /\ loan[l].status = "none" /\ UNCHANGED <<gua, swap, hand>>
        BY <1>2 DEF Apply, IsAsked
    <2>2. QED BY <1>1, <2>1, SetAsked
<1>3. CASE ApplyJointly(b, l)
    <2>1. IsJoint(loan', loan, l, b) /\ loan[l].status = "none" /\ UNCHANGED <<gua, swap, hand>>
        BY <1>3 DEF ApplyJointly, IsJoint
    <2>2. QED BY <1>1, <2>1, SetJoint
<1>4. QED BY <1>2, <1>3 DEF Asks

\* A loan once applied for keeps its borrower and is never blank again.
Continues ==
    \A l \in Loans :
        loan[l].status # "none" =>
            loan'[l].status # "none" /\ loan'[l].by = loan[l].by /\ loan'[l].joint = loan[l].joint

LEMMA LoansContinue ==
    ASSUME TypeInv, Next
    PROVE  loan' \in LoanType /\ Continues /\ RowsFresh'
<1>1. loan \in LoanType /\ RowsFresh
    BY DEF TypeInv, TypeOK, LoanType
<1>2. CASE UNCHANGED loan
    BY <1>1, <1>2 DEF Continues, RowsFresh
<1>3. CASE \E k \in Hands : Signs(k)
    <2>1. PICK k \in Hands : Signs(k)
        BY <1>3
    <2> DEFINE l == hand[k].l
    <2>2. /\ l \in Loans /\ loan'[l].by = loan[l].by /\ loan'[l].status # "none"
          /\ loan'[l].joint = loan[l].joint /\ loan' \in LoanType
          /\ \A j \in Loans \ {l} : loan'[j] = loan[j]
        BY <2>1, SignsDo DEF Signed, RowIs
    <2>3. loan[l].status # "none"
        BY <2>1, SignsDo
    <2>4. QED BY <1>1, <2>2, <2>3 DEF Continues, RowsFresh
<1>4. CASE \E k \in Hands : Commits(k)
    <2>1. PICK k \in Hands : Commits(k)
        BY <1>4
    <2> DEFINE l == hand[k].l
    <2>2. /\ l \in Loans /\ loan'[l].by = loan[l].by /\ loan'[l].status # "none"
          /\ loan'[l].joint = loan[l].joint /\ loan' \in LoanType
          /\ \A j \in Loans \ {l} : loan'[j] = loan[j]
        BY <2>1, CommitsDo DEF CommitsWith, Committed, RowIs
    <2>3. loan[l].status # "none"
        BY <2>1, CommitsDo DEF TypeInv, HandsRefer
    <2>4. QED BY <1>1, <2>2, <2>3 DEF Continues, RowsFresh
<1>5. CASE \E k \in Hands : ConfirmGuarantee(k) \/ DecideRejected(k) \/ RejectPending(k)
    <2>1. PICK k \in Hands : ConfirmGuarantee(k) \/ DecideRejected(k) \/ RejectPending(k)
        BY <1>5
    <2> DEFINE l == hand[k].l
    <2>2. CASE ~UNCHANGED loan
        <3>1. /\ l \in Loans /\ loan'[l].by = loan[l].by /\ loan'[l].status # "none"
              /\ loan'[l].joint = loan[l].joint /\ loan' \in LoanType
              /\ \A j \in Loans \ {l} : loan'[j] = loan[j]
            BY <2>1, <2>2, RestatesDo DEF Restated, Signed, RowIs
        <3>2. loan[l].status # "none"
            BY <2>1 DEF TypeInv, HandsRefer, ConfirmGuarantee, DecideRejected, RejectPending
        <3>3. QED BY <1>1, <3>1, <3>2 DEF Continues, RowsFresh
    <2>3. QED BY <1>2, <2>2
<1>6. CASE \E l \in Loans : (\E m \in Managers : RejectByOfficer(m, l)) \/ Repaid(l)
    <2>1. PICK l \in Loans : (\E m \in Managers : RejectByOfficer(m, l)) \/ Repaid(l)
        BY <1>6
    <2>2. /\ loan'[l].by = loan[l].by /\ loan'[l].status # "none" /\ loan[l].status # "none"
          /\ loan'[l].joint = loan[l].joint /\ loan' \in LoanType
          /\ \A j \in Loans \ {l} : loan'[j] = loan[j]
        BY <2>1, EndsDo DEF Restated, Signed, RowIs
    <2>3. QED BY <1>1, <2>2 DEF Continues, RowsFresh
<1>7. CASE \E b \in Persons, l \in Loans : Asks(b, l)
    <2>1. PICK b \in Persons, l \in Loans : Asks(b, l)
        BY <1>7
    <2>2. /\ loan'[l].by = b /\ loan'[l].status # "none" /\ loan[l].status = "none"
          /\ loan' \in LoanType /\ \A j \in Loans \ {l} : loan'[j] = loan[j]
        BY <2>1, AsksDo DEF Applied, RowIs
    <2>3. QED BY <1>1, <2>2 DEF Continues, RowsFresh
<1>8. QED BY <1>2, <1>3, <1>4, <1>5, <1>6, <1>7, LoanWrites

\* The steps that write the guarantors.
LEMMA GuaWrites ==
    ASSUME Next
    PROVE  \/ UNCHANGED gua
           \/ \E l \in Loans, m \in Persons : AddGuarantor(l, m)
           \/ \E k \in Hands : ConfirmGuarantee(k) \/ SwapGuarantor(k)
<1>1. CASE GuaranteeStep /\ UNCHANGED <<committeeVars, prov>>
    BY <1>1 DEF GuaranteeStep, Apply, ApplyJointly, ReadCode, RequestSwap, ReadSwapCode,
        ReadForDecline, ReadForSwap, Consider, CountConfirmed, AcceptSwap, DeclineSwap, SwapCollides
<1>2. CASE \E k \in Hands, m \in Persons, l \in Loans :
               ReadForApproval(k, m, l) \/ ReadForRejectVote(k, m, l)
    BY <1>2 DEF ReadForApproval, ReadForRejectVote, Begin
<1>3. CASE \E k \in Hands, m \in Managers, l \in Loans : ReadForReject(k, m, l)
    BY <1>3 DEF ReadForReject, Begin
<1>4. CASE \E k \in Hands : Handler(k)
    BY <1>4, HandlerWrites
<1>5. CASE \E l \in Loans : Repaid(l) \/ ProviderSettles(l)
    BY <1>5 DEF Repaid, ProviderSettles, guaranteeVars
<1>6. CASE \E m \in Appointable : Appoint(m) \/ Unseat(m)
    BY <1>6 DEF Appoint, Unseat, guaranteeVars
<1>7. CASE \E m \in Managers, l \in Loans : RejectByOfficer(m, l)
    BY <1>7 DEF RejectByOfficer
<1>8. QED BY <1>1, <1>2, <1>3, <1>4, <1>5, <1>6, <1>7 DEF Next

\* n is g but for what it says of m on loan l.
GuaIs(n, g, l, m, st) ==
    /\ n \in GuaType /\ n[l][m] = st
    /\ \A j \in Loans, p \in Persons : j # l \/ p # m => n[j][p] = g[j][p]
LEMMA PutGua ==
    ASSUME NEW g \in GuaType, NEW l \in Loans, NEW m \in Persons,
           NEW st \in {"none", "pending", "confirmed", "released"}, NEW n, n = [g EXCEPT ![l][m] = st]
    PROVE  GuaIs(n, g, l, m, st)
BY DEF GuaIs, GuaType

\* A new guarantor is asked, never the borrower.
LEMMA AddDoes ==
    ASSUME TypeInv, NEW l \in Loans, NEW m \in Persons, AddGuarantor(l, m)
    PROVE  /\ GuaIs(gua', gua, l, m, "pending") /\ UNCHANGED <<loan, swap, hand>>
           /\ loan[l].status = "pending" /\ m # loan[l].by /\ gua[l][m] = "none"
BY PutGua DEF AddGuarantor, MayAsk, TypeInv, TypeOK, GuaType

\* A confirmation is of the handler's own person.
LEMMA ConfirmDoes ==
    ASSUME TypeInv, NEW k \in Hands, ConfirmGuarantee(k)
    PROVE  /\ hand[k].l \in Loans /\ hand[k].who \in Persons /\ hand[k].pc = "counted"
           /\ GuaIs(gua', gua, hand[k].l, hand[k].who, "confirmed")
           /\ UNCHANGED loan \/ hand[k].res = "enough"
BY PutGua DEF ConfirmGuarantee, TypeInv, TypeOK, GuaType, HandsRefer

\* An exchange confirms one guarantor who was none and releases one.
LEMMA SwapDoes ==
    ASSUME TypeInv, NEW k \in Hands, SwapGuarantor(k)
    PROVE  LET r == swap[hand[k].x] IN
           /\ hand[k].pc = "swap" /\ hand[k].x \in Swaps /\ r.status # "none"
           /\ r.l \in Loans /\ r.new \in Persons /\ r.old \in Persons /\ r.new # r.old
           /\ gua[r.l][r.new] = "none" /\ ~Confirming(r.l, r.old)
           /\ \E g \in GuaType : /\ GuaIs(g, gua, r.l, r.new, "confirmed")
                                 /\ GuaIs(gua', g, r.l, r.old, "released")
           /\ UNCHANGED loan /\ IdleNow(k)
<1> DEFINE r == swap[hand[k].x]
           g == [gua EXCEPT ![r.l][r.new] = "confirmed"]
<1>1. /\ hand[k].pc = "swap" /\ MaySwap(r.l, r.new) /\ ~Confirming(r.l, r.old)
      /\ gua' = [gua EXCEPT ![r.l][r.new] = "confirmed", ![r.l][r.old] = "released"]
      /\ UNCHANGED loan /\ Return(k)
    BY DEF SwapGuarantor
<1>2. /\ hand[k].x \in Swaps /\ r.status # "none" /\ r.l \in Loans /\ r.new \in Persons
      /\ r.old \in Persons /\ r.new # r.old /\ gua \in GuaType /\ hand \in HandType
    BY <1>1 DEF TypeInv, TypeOK, HandsRefer, SwapsRefer, GuaType, HandType
<1>3. gua[r.l][r.new] = "none"
    BY <1>1 DEF MaySwap
<1>4. GuaIs(g, gua, r.l, r.new, "confirmed")
    BY <1>2, PutGua
<1>5. gua' = [g EXCEPT ![r.l][r.old] = "released"]
    BY <1>1
<1>6. g \in GuaType
    BY <1>4 DEF GuaIs
<1>7. GuaIs(gua', g, r.l, r.old, "released")
    BY <1>2, <1>5, <1>6, PutGua
<1>8. IdleNow(k)
    BY <1>1, <1>2, Returns
<1>9. QED BY <1>1, <1>2, <1>3, <1>4, <1>6, <1>7, <1>8

\* Guarantors keep their type, and a blank loan has none.
LEMMA GuaKeepsType ==
    ASSUME TypeInv, Next
    PROVE  gua' \in GuaType /\ GuaFresh'
<1>1. gua \in GuaType /\ GuaFresh
    BY DEF TypeInv, TypeOK, GuaType
<1>2. \A l \in Loans : loan'[l].status = "none" => loan[l].status = "none"
    BY LoansContinue DEF Continues
<1>3. CASE UNCHANGED gua
    BY <1>1, <1>2, <1>3 DEF GuaFresh
<1>4. CASE \E l \in Loans, m \in Persons : AddGuarantor(l, m)
    BY <1>1, <1>2, <1>4, AddDoes DEF GuaFresh, GuaIs
<1>5. CASE \E k \in Hands : ConfirmGuarantee(k)
    <2>1. PICK k \in Hands : ConfirmGuarantee(k)
        BY <1>5
    <2>2. loan[hand[k].l].status # "none" /\ GuaIs(gua', gua, hand[k].l, hand[k].who, "confirmed")
        BY <2>1, ConfirmDoes DEF TypeInv, HandsRefer
    <2>3. QED BY <1>1, <1>2, <2>2 DEF GuaFresh, GuaIs
<1>6. CASE \E k \in Hands : SwapGuarantor(k)
    <2>1. PICK k \in Hands : SwapGuarantor(k)
        BY <1>6
    <2> DEFINE r == swap[hand[k].x]
    <2>2. PICK g \in GuaType : /\ GuaIs(g, gua, r.l, r.new, "confirmed")
                               /\ GuaIs(gua', g, r.l, r.old, "released")
        BY <2>1, SwapDoes
    <2>3. loan[r.l].status # "none"
        BY <2>1, SwapDoes DEF TypeInv, SwapsRefer
    <2>4. QED BY <1>1, <1>2, <2>2, <2>3 DEF GuaFresh, GuaIs
<1>7. QED BY <1>3, <1>4, <1>5, <1>6, GuaWrites

\* Requests of an exchange keep what they ask for.
LEMMA SwapWrites ==
    ASSUME Next
    PROVE  \/ UNCHANGED swap
           \/ \E x \in Swaps, l \in Loans, old, new \in Persons : RequestSwap(x, l, old, new)
           \/ \E k \in Hands : AcceptSwap(k) \/ DeclineSwap(k) \/ SwapGuarantor(k)
<1>1. CASE GuaranteeStep /\ UNCHANGED <<committeeVars, prov>>
    BY <1>1 DEF GuaranteeStep, Apply, ApplyJointly, AddGuarantor, ReadCode, ReadSwapCode,
        ReadForDecline, ReadForSwap, Consider, CountConfirmed, ConfirmGuarantee, SwapCollides
<1>2. CASE \E k \in Hands, m \in Persons, l \in Loans :
               ReadForApproval(k, m, l) \/ ReadForRejectVote(k, m, l)
    BY <1>2 DEF ReadForApproval, ReadForRejectVote, Begin
<1>3. CASE \E k \in Hands, m \in Managers, l \in Loans : ReadForReject(k, m, l)
    BY <1>3 DEF ReadForReject, Begin
<1>4. CASE \E k \in Hands : Handler(k)
    BY <1>4, HandlerWrites
<1>5. CASE \E l \in Loans : Repaid(l) \/ ProviderSettles(l)
    BY <1>5 DEF Repaid, ProviderSettles, guaranteeVars
<1>6. CASE \E m \in Appointable : Appoint(m) \/ Unseat(m)
    BY <1>6 DEF Appoint, Unseat, guaranteeVars
<1>7. CASE \E m \in Managers, l \in Loans : RejectByOfficer(m, l)
    BY <1>7 DEF RejectByOfficer
<1>8. QED BY <1>1, <1>2, <1>3, <1>4, <1>5, <1>6, <1>7 DEF Next

SwapType == [Swaps -> SwapRow]
SwapsContinue ==
    \A x \in Swaps :
        swap[x].status # "none" =>
            /\ swap'[x].status # "none" /\ swap'[x].l = swap[x].l
            /\ swap'[x].old = swap[x].old /\ swap'[x].new = swap[x].new

\* A request that moves on keeps the persons it names.
LEMMA MarkSwap ==
    ASSUME swap \in SwapType, NEW x \in Swaps, NEW st \in {"pending_admin", "approved", "rejected"},
           swap' = [swap EXCEPT ![x].status = st]
    PROVE  /\ swap' \in SwapType /\ SwapsContinue /\ \A y \in Swaps \ {x} : swap'[y] = swap[y]
           /\ swap'[x].status = st
<1> DEFINE row == [swap[x] EXCEPT !.status = st]
<1>1. swap[x] \in SwapRow
    BY DEF SwapType
<1>2. /\ row \in SwapRow /\ row.status = st /\ row.l = swap[x].l /\ row.old = swap[x].old
      /\ row.new = swap[x].new
    BY <1>1 DEF SwapRow
<1>3. swap' = [swap EXCEPT ![x] = row]
    BY DEF SwapType
<1> HIDE DEF row
<1>4. swap' \in SwapType /\ swap'[x] = row /\ \A y \in Swaps \ {x} : swap'[y] = swap[y]
    BY <1>2, <1>3 DEF SwapType
<1>5. QED BY <1>2, <1>4 DEF SwapsContinue

\* A request names two persons, the new one not the borrower.
LEMMA RequestDoes ==
    ASSUME TypeInv, NEW x \in Swaps, NEW l \in Loans, NEW old \in Persons, NEW new \in Persons,
           RequestSwap(x, l, old, new)
    PROVE  /\ swap[x].status = "none" /\ loan[l].status \in Live /\ new # loan[l].by
           /\ swap' \in SwapType /\ \A y \in Swaps \ {x} : swap'[y] = swap[y]
           /\ swap'[x].l = l /\ swap'[x].old = old /\ swap'[x].new = new /\ new # old
           /\ swap'[x].status # "none" /\ UNCHANGED <<loan, gua, hand>>
<1> DEFINE row == [status |-> "pending_guarantor", l |-> l, old |-> old, new |-> new]
<1>1. /\ swap[x].status = "none" /\ loan[l].status \in Live /\ new # old
      /\ new # loan[l].by /\ swap' = [swap EXCEPT ![x] = row] /\ UNCHANGED <<loan, gua, hand>>
    BY DEF RequestSwap, Eligible
<1>2. /\ row \in SwapRow /\ row.status # "none" /\ row.l = l /\ row.old = old /\ row.new = new
    BY DEF SwapRow, Signer
<1> HIDE DEF row
<1>3. swap \in SwapType
    BY DEF TypeInv, TypeOK, SwapType
<1>4. swap' \in SwapType /\ swap'[x] = row /\ \A y \in Swaps \ {x} : swap'[y] = swap[y]
    BY <1>1, <1>2, <1>3 DEF SwapType
<1>5. QED BY <1>1, <1>2, <1>4

\* Requests keep their type and refer to loans that exist.
LEMMA SwapsKeep ==
    ASSUME TypeInv, Next
    PROVE  swap' \in SwapType /\ SwapsContinue /\ SwapsRefer'
<1>1. swap \in SwapType /\ SwapsRefer
    BY DEF TypeInv, TypeOK, SwapType
<1>2. \A l \in Loans : loan[l].status # "none" => loan'[l].status # "none"
    BY LoansContinue DEF Continues
<1>3. CASE UNCHANGED swap
    BY <1>1, <1>2, <1>3 DEF SwapsContinue, SwapsRefer
<1>4. CASE \E x \in Swaps, l \in Loans, old, new \in Persons : RequestSwap(x, l, old, new)
    <2>1. PICK x \in Swaps, l \in Loans, old, new \in Persons : RequestSwap(x, l, old, new)
        BY <1>4
    <2>2. loan[l].status # "none"
        BY <2>1, RequestDoes DEF Live, Counted
    <2>3. /\ swap[x].status = "none" /\ swap' \in SwapType
          /\ \A y \in Swaps \ {x} : swap'[y] = swap[y]
          /\ swap'[x].l = l /\ swap'[x].old = old /\ swap'[x].new = new /\ new # old
        BY <2>1, RequestDoes
    <2>4. QED BY <1>1, <1>2, <2>2, <2>3 DEF SwapsContinue, SwapsRefer
<1>5. CASE \E k \in Hands : AcceptSwap(k) \/ DeclineSwap(k) \/ SwapGuarantor(k)
    <2>1. PICK k \in Hands : AcceptSwap(k) \/ DeclineSwap(k) \/ SwapGuarantor(k)
        BY <1>5
    <2> DEFINE x == hand[k].x
    <2>2. x \in Swaps /\ swap[x].status # "none"
        BY <2>1 DEF AcceptSwap, DeclineSwap, SwapGuarantor, TypeInv, HandsRefer
    <2>3. PICK st \in {"pending_admin", "approved", "rejected"} : swap' = [swap EXCEPT ![x].status = st]
        BY <2>1 DEF AcceptSwap, DeclineSwap, SwapGuarantor
    <2>4. swap' \in SwapType /\ SwapsContinue /\ \A y \in Swaps \ {x} : swap'[y] = swap[y]
        BY <1>1, <2>2, <2>3, MarkSwap
    <2>5. QED BY <1>1, <1>2, <2>2, <2>4 DEF SwapsContinue, SwapsRefer
<1>6. QED BY <1>3, <1>4, <1>5, SwapWrites

\* What the steps do to the handlers.
Starts ==
    \E k \in Hands, m \in Persons, l \in Loans :
        /\ hand[k].pc = "idle" /\ ~Busy(m)
        /\ \/ ReadCode(k, m, l) \/ ReadForApproval(k, m, l) \/ ReadForRejectVote(k, m, l)
           \/ ReadForReject(k, m, l)
           \/ \E x \in Swaps :
                /\ swap[x].l = l /\ swap[x].status # "none"
                /\ \E pc \in {"accept", "decline", "swap"} :
                     /\ Consider(k, m, x, pc)
                     /\ pc = "swap" => Eligible(l, swap[x].new)

\* Every step starts a handler, moves one on, ends one, or leaves them all.
LEMMA HandWrites ==
    ASSUME TypeInv, Next
    PROVE  UNCHANGED hand \/ Starts \/ (\E k \in Hands : GoesOn(k)) \/ (\E k \in Hands : Return(k) /\ hand[k].pc # "idle")
<1>1. CASE GuaranteeStep /\ UNCHANGED <<committeeVars, prov>>
    <2>1. CASE \E k \in Hands, m \in Persons, l \in Loans : ReadCode(k, m, l)
        BY <2>1 DEF Starts, ReadCode
    <2>2. CASE \E k \in Hands, x \in Swaps : ReadSwapCode(k, x)
        <3>1. PICK k \in Hands, x \in Swaps : ReadSwapCode(k, x)
            BY <2>2
        <3>2. /\ Consider(k, swap[x].new, x, "accept") /\ swap[x].status # "none"
              /\ swap[x].l \in Loans /\ swap[x].new \in Persons
              /\ hand[k].pc = "idle" /\ ~Busy(swap[x].new)
            BY <3>1 DEF ReadSwapCode, TypeInv, SwapsRefer, Consider
        <3>3. QED BY <3>2 DEF Starts
    <2>3. CASE \E k \in Hands, a \in Managers, x \in Swaps : ReadForDecline(k, a, x) \/ ReadForSwap(k, a, x)
        <3>1. PICK k \in Hands, a \in Managers, x \in Swaps : ReadForDecline(k, a, x) \/ ReadForSwap(k, a, x)
            BY <2>3
        <3>2. /\ swap[x].status # "none" /\ swap[x].l \in Loans /\ a \in Persons
              /\ hand[k].pc = "idle" /\ ~Busy(a)
              /\ \/ Consider(k, a, x, "decline")
                 \/ Consider(k, a, x, "swap") /\ Eligible(swap[x].l, swap[x].new)
            BY <3>1 DEF ReadForDecline, ReadForSwap, TypeInv, SwapsRefer, Consider, Persons
        <3>3. QED BY <3>2 DEF Starts
    <2>4. CASE \E k \in Hands :
                   \/ CountConfirmed(k) \/ ConfirmGuarantee(k) \/ AcceptSwap(k) \/ DeclineSwap(k)
                   \/ SwapGuarantor(k) \/ SwapCollides(k)
        BY <2>4 DEF GoesOn, ConfirmGuarantee, AcceptSwap, DeclineSwap, SwapGuarantor, SwapCollides
    <2>5. CASE \/ \E b \in Persons, l \in Loans : Apply(b, l) \/ ApplyJointly(b, l)
               \/ \E l \in Loans, m \in Persons : AddGuarantor(l, m)
               \/ \E x \in Swaps, l \in Loans, old, new \in Persons : RequestSwap(x, l, old, new)
        BY <2>5 DEF Apply, ApplyJointly, AddGuarantor, RequestSwap
    <2>6. QED BY <1>1, <2>1, <2>2, <2>3, <2>4, <2>5 DEF GuaranteeStep
<1>2. CASE \E k \in Hands, m \in Persons, l \in Loans :
               ReadForApproval(k, m, l) \/ ReadForRejectVote(k, m, l)
    <2>1. PICK k \in Hands, m \in Persons, l \in Loans :
              ReadForApproval(k, m, l) \/ ReadForRejectVote(k, m, l)
        BY <1>2
    <2>2. hand[k].pc = "idle" /\ ~Busy(m)
        BY <2>1 DEF ReadForApproval, ReadForRejectVote, Begin
    <2>3. QED BY <2>1, <2>2 DEF Starts
<1>3. CASE \E k \in Hands, m \in Managers, l \in Loans : ReadForReject(k, m, l)
    <2>1. PICK k \in Hands, m \in Managers, l \in Loans : ReadForReject(k, m, l)
        BY <1>3
    <2>2. m \in Persons /\ hand[k].pc = "idle" /\ ~Busy(m)
        BY <2>1 DEF ReadForReject, Begin, Persons
    <2>3. QED BY <2>1, <2>2 DEF Starts
<1>4. CASE \E k \in Hands : Handler(k)
    BY <1>4, HandlerWrites
<1>5. CASE \E l \in Loans : Repaid(l) \/ ProviderSettles(l)
    BY <1>5 DEF Repaid, ProviderSettles, guaranteeVars
<1>6. CASE \E m \in Appointable : Appoint(m) \/ Unseat(m)
    BY <1>6 DEF Appoint, Unseat, guaranteeVars
<1>7. CASE \E m \in Managers, l \in Loans : RejectByOfficer(m, l)
    BY <1>7 DEF RejectByOfficer
<1>8. QED BY <1>1, <1>2, <1>3, <1>4, <1>5, <1>6, <1>7 DEF Next

\* Who starts had no handler, and asks about a loan that exists.
Started1(k, m, l) ==
    /\ hand[k].pc = "idle" /\ ~Busy(m) /\ loan[l].status # "none"
    /\ \E pc \in {"confirm", "accept", "decline", "swap", "sign", "finalize", "vote", "reject"},
          x \in Swaps \cup {NoSwap}, from \in Statuses, v \in {"none", "approve", "reject"}, f \in BOOLEAN :
        /\ Started(k, pc, m, l, x, from, v, f)
        /\ pc \in {"accept", "decline", "swap"} => x \in Swaps /\ swap[x].status # "none"

LEMMA StartsDo ==
    ASSUME TypeInv, Starts
    PROVE  /\ UNCHANGED <<loan, swap>>
           /\ \E k \in Hands, m \in Persons, l \in Loans : Started1(k, m, l)
<1>1. PICK k \in Hands, m \in Persons, l \in Loans :
        /\ hand[k].pc = "idle" /\ ~Busy(m)
        /\ \/ ReadCode(k, m, l) \/ ReadForApproval(k, m, l) \/ ReadForRejectVote(k, m, l)
           \/ ReadForReject(k, m, l)
           \/ \E x \in Swaps :
                /\ swap[x].l = l /\ swap[x].status # "none"
                /\ \E pc \in {"accept", "decline", "swap"} : Consider(k, m, x, pc)
    BY DEF Starts
<1>2. hand \in HandType /\ loan \in LoanType /\ "none" \in Statuses
    BY DEF TypeInv, TypeOK, HandType, LoanType, Statuses
<1>3. CASE ReadCode(k, m, l)
    <2>1. UNCHANGED <<loan, swap>> /\ Started(k, "confirm", m, l, NoSwap, "none", "none", FALSE)
        BY <1>2, <1>3, CodeStarts DEF ReadCode
    <2>2. loan[l].status # "none"
        BY <1>3 DEF ReadCode, TypeInv, GuaFresh
    <2>3. Started1(k, m, l)
        BY <1>1, <1>2, <2>1, <2>2 DEF Started1
    <2>4. QED BY <2>1, <2>3
<1>4. CASE \E pc \in {"sign", "finalize", "vote", "reject"}, v \in {"none", "approve", "reject"} :
               Begin(k, m, l, pc, v) /\ loan[l].status # "none"
    <2>1. PICK pc \in {"sign", "finalize", "vote", "reject"}, v \in {"none", "approve", "reject"} :
               Begin(k, m, l, pc, v) /\ loan[l].status # "none"
        BY <1>4
    <2>2. Started(k, pc, m, l, NoSwap, loan[l].status, v, v # "none" /\ dec[l] = "none")
        BY <1>2, <2>1, BeginStarts
    <2>3. loan[l].status \in Statuses /\ (v # "none" /\ dec[l] = "none") \in BOOLEAN
        BY <1>2 DEF LoanType, LoanRow
    <2>4. \E from \in Statuses, f \in BOOLEAN : Started(k, pc, m, l, NoSwap, from, v, f)
        BY <2>2, <2>3
    <2>5. Started1(k, m, l)
        BY <1>1, <2>1, <2>4 DEF Started1
    <2>6. QED BY <2>1, <2>5 DEF Begin
<1>5. CASE ReadForApproval(k, m, l) \/ ReadForRejectVote(k, m, l) \/ ReadForReject(k, m, l)
    <2>1. CASE ReadForApproval(k, m, l)
        <3>1. loan[l].status # "none"
            BY <2>1 DEF ReadForApproval, Stage
        <3>2. QED BY <1>4, <2>1, <3>1 DEF ReadForApproval
    <2>2. CASE ReadForRejectVote(k, m, l)
        BY <1>4, <2>2 DEF ReadForRejectVote
    <2>3. CASE ReadForReject(k, m, l)
        BY <1>4, <2>3 DEF ReadForReject
    <2>4. QED BY <1>5, <2>1, <2>2, <2>3
<1>6. CASE \E x \in Swaps :
                /\ swap[x].l = l /\ swap[x].status # "none"
                /\ \E pc \in {"accept", "decline", "swap"} : Consider(k, m, x, pc)
    <2>1. PICK x \in Swaps, pc \in {"accept", "decline", "swap"} :
               swap[x].l = l /\ swap[x].status # "none" /\ Consider(k, m, x, pc)
        BY <1>6
    <2>2. Started(k, pc, m, l, x, "none", "none", FALSE)
        BY <1>2, <2>1, ConsiderStarts
    <2>3. loan[l].status # "none"
        BY <2>1 DEF TypeInv, SwapsRefer
    <2>4. Started1(k, m, l)
        BY <1>1, <1>2, <2>1, <2>2, <2>3 DEF Started1
    <2>5. QED BY <2>1, <2>4 DEF Consider
<1>7. QED BY <1>1, <1>3, <1>5, <1>6

\* A handler that goes on has one of these moves.
LEMMA GoesDo ==
    ASSUME TypeInv, NEW k \in Hands, GoesOn(k)
    PROVE  /\ UNCHANGED <<loan, gua, swap>>
           /\ hand[k].pc \in {"confirm", "vote", "tally", "finalize", "pay"}
           /\ \/ /\ hand[k].pc = "confirm"
                 /\ \/ Enough(hand[k].l, hand[k].who) /\ Moved(k, "counted", hand[k].from, "enough")
                    \/ Moved(k, "counted", hand[k].from, "none")
              \/ /\ hand[k].pc = "vote" /\ UNCHANGED <<committeeVars, prov>>
                 /\ LET all(v) == Cardinality(Voters(hand[k].l, v)) + (IF hand[k].vote = v THEN 1 ELSE 0)
                    IN Moved(k, "tally", hand[k].from, Tally(all("approve"), all("reject")))
              \/ /\ hand[k].pc = "tally" /\ hand[k].res = "approved" /\ hand[k].vote = "approve"
                 /\ UNCHANGED <<committeeVars, prov>>
                 /\ Moved(k, "finalize", hand[k].from, hand[k].res)
              \/ /\ hand[k].pc = "finalize" /\ Still(k) /\ UNCHANGED <<committeeVars, prov>>
                 /\ Moved(k, "pay", hand[k].from, hand[k].res)
              \/ /\ hand[k].pc = "pay" /\ Payable(hand[k].l) /\ UNCHANGED committeeVars
                 /\ \E ans \in Answers(hand[k].l) :
                      prov' = [prov EXCEPT ![hand[k].l] = ans.p] /\ Moved(k, "book", ans.res, hand[k].res)
<1>1. hand \in HandType /\ "none" \in {"none", "enough", "approved", "rejected"}
    BY DEF TypeInv, TypeOK, HandType
<1>2. CASE CastVote(k)
    <2> DEFINE all(v) == Cardinality(Voters(hand[k].l, v)) + (IF hand[k].vote = v THEN 1 ELSE 0)
               t == Tally(all("approve"), all("reject"))
    <2>1. t \in {"none", "enough", "approved", "rejected"}
        BY DEF Tally
    <2>2. /\ hand[k].pc = "vote" /\ UNCHANGED <<loan, gua, swap, committeeVars, prov>>
          /\ IsCounted(k, "tally", t)
        BY <1>2 DEF CastVote, IsCounted
    <2> HIDE DEF t
    <2>3. Moved(k, "tally", hand[k].from, t)
        BY <1>1, <2>1, <2>2, MovesCounted
    <2>4. QED BY <2>2, <2>3 DEF t
<1>3. CASE DecideApproved(k)
    <2>1. /\ hand[k].pc = "tally" /\ hand[k].res = "approved" /\ hand[k].vote = "approve"
          /\ UNCHANGED <<loan, gua, swap, committeeVars, prov>> /\ IsOn(k, "finalize")
        BY <1>3 DEF DecideApproved, IsOn
    <2>2. QED BY <1>1, <2>1, MovesOn
<1>4. CASE Claim(k)
    <2>1. /\ hand[k].pc = "finalize" /\ Still(k)
          /\ UNCHANGED <<loan, gua, swap, committeeVars, prov>> /\ IsOn(k, "pay")
        BY <1>4 DEF Claim, IsOn
    <2>2. QED BY <1>1, <2>1, MovesOn
<1>5. CASE CallProvider(k)
    <2>1. /\ hand[k].pc = "pay" /\ Payable(hand[k].l)
          /\ UNCHANGED <<loan, gua, swap, committeeVars>>
        BY <1>5 DEF CallProvider
    <2>2. PICK ans \in Answers(hand[k].l) :
              prov' = [prov EXCEPT ![hand[k].l] = ans.p] /\ IsAnswered(k, ans.res)
        BY <1>5 DEF CallProvider, IsAnswered
    <2>3. ans.res \in {"ok", "unsure", "refused"}
        BY DEF Answers
    <2>4. QED BY <1>1, <2>1, <2>2, <2>3, MovesAnswered
<1>6. CASE CountConfirmed(k)
    <2>1. hand[k].pc = "confirm" /\ UNCHANGED <<loan, gua, swap>>
        BY <1>6 DEF CountConfirmed
    <2>2. \/ Enough(hand[k].l, hand[k].who) /\ IsCounted(k, "counted", "enough")
          \/ IsCounted(k, "counted", "none")
        BY <1>6 DEF CountConfirmed, IsCounted
    <2>3. QED BY <1>1, <2>1, <2>2, MovesCounted
<1>7. QED BY <1>2, <1>3, <1>4, <1>5, <1>6 DEF GoesOn

\* A person has one handler at a time.
OneAtATime ==
    \A j, k \in Hands :
        j # k /\ hand[j].pc # "idle" /\ hand[k].pc # "idle" => hand[j].who # hand[k].who

\* One handler ends, goes on or starts.
Ended(k) == hand'[k].pc = "idle"
WentOn(k) ==
    /\ hand[k].pc # "idle" /\ hand'[k].who = hand[k].who /\ hand'[k].l = hand[k].l
    /\ hand'[k].vote = hand[k].vote /\ hand'[k].pc \in {"counted", "tally", "finalize", "pay", "book"}
Began(k) ==
    /\ hand[k].pc = "idle" /\ ~Busy(hand'[k].who) /\ hand'[k].who \in Persons
    /\ hand'[k].l \in Loans /\ loan[hand'[k].l].status # "none"
    /\ hand'[k].pc \in {"accept", "decline", "swap"} =>
         hand'[k].x \in Swaps /\ swap[hand'[k].x].status # "none"

\* Every step lets one handler end, go on or begin, or leaves them all.
LEMMA HandsDo ==
    ASSUME TypeInv, Next
    PROVE  /\ hand' \in HandType
           /\ \/ UNCHANGED hand
              \/ \E k \in Hands : /\ \A j \in Hands \ {k} : hand'[j] = hand[j]
                                  /\ Ended(k) \/ WentOn(k) \/ Began(k)
<1>1. hand \in HandType
    BY DEF TypeInv, TypeOK, HandType
<1>2. CASE UNCHANGED hand
    BY <1>1, <1>2
<1>3. CASE Starts
    <2>1. PICK k \in Hands, m \in Persons, l \in Loans : Started1(k, m, l)
        BY <1>3, StartsDo
    <2>2. /\ hand' \in HandType /\ \A j \in Hands \ {k} : hand'[j] = hand[j]
          /\ hand'[k].who = m /\ hand'[k].l = l
          /\ hand[k].pc = "idle" /\ ~Busy(m) /\ loan[l].status # "none"
          /\ hand'[k].pc \in {"accept", "decline", "swap"} =>
               hand'[k].x \in Swaps /\ swap[hand'[k].x].status # "none"
        BY <2>1 DEF Started1, Started, HandIs
    <2>3. QED BY <2>2 DEF Began
<1>4. CASE \E k \in Hands : GoesOn(k)
    <2>1. PICK k \in Hands : GoesOn(k)
        BY <1>4
    <2>2. /\ hand[k].pc # "idle"
          /\ \E pc \in {"counted", "tally", "finalize", "pay", "book"} : \E from, res : Moved(k, pc, from, res)
        BY <2>1, GoesDo
    <2>3. hand' \in HandType /\ WentOn(k) /\ \A j \in Hands \ {k} : hand'[j] = hand[j]
        BY <2>2 DEF Moved, HandIs, WentOn
    <2>4. QED BY <2>3
<1>5. CASE \E k \in Hands : Return(k) /\ hand[k].pc # "idle"
    BY <1>1, <1>5, Returns DEF IdleNow, HandIs, Ended
<1>6. QED BY <1>2, <1>3, <1>4, <1>5, HandWrites

\* Handlers keep their type and refer to rows that exist, one per person.
LEMMA HandsKeep ==
    ASSUME TypeInv, OneAtATime, Next
    PROVE  hand' \in HandType /\ HandsRefer' /\ OneAtATime'
<1>1. /\ HandsRefer /\ \A l \in Loans : loan[l].status # "none" => loan'[l].status # "none"
      /\ \A x \in Swaps : swap[x].status # "none" => swap'[x].status # "none"
    BY LoansContinue, SwapsKeep DEF TypeInv, Continues, SwapsContinue
<1>2. CASE UNCHANGED hand
    BY <1>1, <1>2, HandsDo DEF HandsRefer, OneAtATime
<1>3. CASE ~UNCHANGED hand
    <2>1. PICK k \in Hands : /\ \A j \in Hands \ {k} : hand'[j] = hand[j]
                             /\ Ended(k) \/ WentOn(k) \/ Began(k)
        BY <1>3, HandsDo
    <2>2. CASE Ended(k)
        BY <1>1, <2>1, <2>2, HandsDo DEF Ended, HandsRefer, OneAtATime
    <2>3. CASE WentOn(k)
        <3>1. HandsRefer'
            BY <1>1, <2>1, <2>3 DEF WentOn, HandsRefer
        <3>2. OneAtATime'
            BY <2>1, <2>3 DEF WentOn, OneAtATime
        <3>3. QED BY <3>1, <3>2, HandsDo
    <2>4. CASE Began(k)
        <3>1. HandsRefer'
            BY <1>1, <2>1, <2>4 DEF Began, HandsRefer
        <3>2. OneAtATime'
            BY <2>1, <2>4 DEF Began, OneAtATime, Busy
        <3>3. QED BY <3>1, <3>2, HandsDo
    <2>5. QED BY <2>1, <2>2, <2>3, <2>4
<1>4. QED BY <1>2, <1>3

\* What a handler that starts wants.
StartsAs(k, m, l, pc, from, v) ==
    \E x \in Swaps \cup {NoSwap}, f \in BOOLEAN : Started(k, pc, m, l, x, from, v, f)
LEMMA StartKinds ==
    ASSUME TypeInv, Starts
    PROVE  \E k \in Hands, m \in Persons, l \in Loans :
              /\ hand[k].pc = "idle" /\ ~Busy(m) /\ loan[l].status # "none"
              /\ UNCHANGED <<loan, gua, swap>>
              /\ \/ StartsAs(k, m, l, "confirm", "none", "none") /\ gua[l][m] # "none"
                 \/ StartsAs(k, m, l, "accept", "none", "none")
                 \/ StartsAs(k, m, l, "decline", "none", "none")
                 \/ StartsAs(k, m, l, "swap", "none", "none")
                 \/ StartsAs(k, m, l, "reject", "pending", "none")
                 \/ StartsAs(k, m, l, "vote", loan[l].status, "reject") /\ votes[l][m] = "none"
                 \/ /\ MaySign(m, l)
                    /\ \/ StartsAs(k, m, l, "sign", loan[l].status, "none") /\ Stage(m, l)
                       \/ /\ StartsAs(k, m, l, "finalize", "super_approved_1", "none") /\ m \in Supers
                          /\ loan[l].status = "super_approved_1"
                       \/ /\ StartsAs(k, m, l, "vote", "admin_approved", "approve") /\ votes[l][m] = "none"
                          /\ loan[l].status = "admin_approved"
<1>1. PICK k \in Hands, m \in Persons, l \in Loans :
        /\ hand[k].pc = "idle" /\ ~Busy(m)
        /\ \/ ReadCode(k, m, l) \/ ReadForApproval(k, m, l) \/ ReadForRejectVote(k, m, l)
           \/ ReadForReject(k, m, l)
           \/ \E x \in Swaps :
                /\ swap[x].l = l /\ swap[x].status # "none"
                /\ \E pc \in {"accept", "decline", "swap"} : Consider(k, m, x, pc)
    BY DEF Starts
<1>2. hand \in HandType /\ loan \in LoanType
    BY DEF TypeInv, TypeOK, HandType, LoanType
<1>3. CASE ReadCode(k, m, l)
    <2>1. /\ UNCHANGED <<loan, gua, swap>> /\ gua[l][m] # "none" /\ loan[l].status # "none"
          /\ Started(k, "confirm", m, l, NoSwap, "none", "none", FALSE)
        BY <1>2, <1>3, CodeStarts DEF ReadCode, TypeInv, GuaFresh
    <2>2. StartsAs(k, m, l, "confirm", "none", "none")
        BY <2>1 DEF StartsAs
    <2>3. QED BY <1>1, <2>1, <2>2
<1>4. ASSUME NEW pc \in {"sign", "finalize", "vote", "reject"}, NEW v \in {"none", "approve", "reject"},
             Begin(k, m, l, pc, v)
      PROVE  UNCHANGED <<loan, gua, swap>> /\ StartsAs(k, m, l, pc, loan[l].status, v)
    <2>1. Started(k, pc, m, l, NoSwap, loan[l].status, v, v # "none" /\ dec[l] = "none")
        BY <1>2, <1>4, BeginStarts
    <2>2. (v # "none" /\ dec[l] = "none") \in BOOLEAN
        OBVIOUS
    <2>3. StartsAs(k, m, l, pc, loan[l].status, v)
        BY <2>1, <2>2 DEF StartsAs
    <2>4. QED BY <1>4, <2>3 DEF Begin
<1>5. CASE ReadForApproval(k, m, l)
    <2>1. /\ MaySign(m, l)
          /\ \/ Stage(m, l) /\ Begin(k, m, l, "sign", "none")
             \/ /\ loan[l].status = "super_approved_1" /\ m \in Supers
                /\ Begin(k, m, l, "finalize", "none")
             \/ /\ loan[l].status = "admin_approved" /\ votes[l][m] = "none"
                /\ Begin(k, m, l, "vote", "approve")
        BY <1>5 DEF ReadForApproval, MayVote
    <2>2. loan[l].status # "none"
        BY <2>1 DEF Stage
    <2>3. CASE Stage(m, l) /\ Begin(k, m, l, "sign", "none")
        <3>1. UNCHANGED <<loan, gua, swap>> /\ StartsAs(k, m, l, "sign", loan[l].status, "none")
            BY <2>3, <1>4
        <3>2. QED BY <1>1, <2>1, <2>2, <2>3, <3>1
    <2>4. CASE /\ loan[l].status = "super_approved_1" /\ m \in Supers
               /\ Begin(k, m, l, "finalize", "none")
        <3>1. UNCHANGED <<loan, gua, swap>> /\ StartsAs(k, m, l, "finalize", "super_approved_1", "none")
            BY <2>4, <1>4
        <3>2. QED BY <1>1, <2>1, <2>2, <2>4, <3>1
    <2>5. CASE /\ loan[l].status = "admin_approved" /\ votes[l][m] = "none"
               /\ Begin(k, m, l, "vote", "approve")
        <3>1. UNCHANGED <<loan, gua, swap>> /\ StartsAs(k, m, l, "vote", "admin_approved", "approve")
            BY <2>5, <1>4
        <3>2. QED BY <1>1, <2>1, <2>2, <2>5, <3>1
    <2>6. QED BY <2>1, <2>3, <2>4, <2>5
<1>6. CASE ReadForRejectVote(k, m, l)
    <2>1. loan[l].status # "none" /\ votes[l][m] = "none" /\ Begin(k, m, l, "vote", "reject")
        BY <1>6 DEF ReadForRejectVote, MayVote
    <2>2. UNCHANGED <<loan, gua, swap>> /\ StartsAs(k, m, l, "vote", loan[l].status, "reject")
        BY <2>1, <1>4
    <2>3. QED BY <1>1, <2>1, <2>2
<1>7. CASE ReadForReject(k, m, l)
    <2>1. loan[l].status = "pending" /\ Begin(k, m, l, "reject", "none")
        BY <1>7 DEF ReadForReject
    <2>2. UNCHANGED <<loan, gua, swap>> /\ StartsAs(k, m, l, "reject", "pending", "none")
        BY <2>1, <1>4
    <2>3. QED BY <1>1, <2>1, <2>2
<1>8. CASE \E x \in Swaps :
                /\ swap[x].l = l /\ swap[x].status # "none"
                /\ \E pc \in {"accept", "decline", "swap"} : Consider(k, m, x, pc)
    <2>1. PICK x \in Swaps, pc \in {"accept", "decline", "swap"} :
               swap[x].l = l /\ swap[x].status # "none" /\ Consider(k, m, x, pc)
        BY <1>8
    <2>2. Started(k, pc, m, l, x, "none", "none", FALSE)
        BY <1>2, <2>1, ConsiderStarts
    <2>3. loan[l].status # "none" /\ UNCHANGED <<loan, gua, swap>>
        BY <2>1 DEF TypeInv, SwapsRefer, Consider
    <2>4. StartsAs(k, m, l, pc, "none", "none")
        BY <2>2 DEF StartsAs
    <2>5. QED BY <1>1, <2>3, <2>4
<1>9. QED BY <1>1, <1>3, <1>5, <1>6, <1>7, <1>8

\* The committee's rows are written by handlers that end.
LEMMA VoteWrites ==
    ASSUME Next
    PROVE  \/ UNCHANGED <<dec, votes>>
           \/ \E k \in Hands : /\ RecordVote(k) /\ Return(k)
                               /\ hand[k].pc \in {"tally", "finalize", "pay", "book"}
<1>1. CASE GuaranteeStep /\ UNCHANGED <<committeeVars, prov>>
    BY <1>1 DEF committeeVars
<1>2. CASE \E k \in Hands, m \in Persons, l \in Loans :
               ReadForApproval(k, m, l) \/ ReadForRejectVote(k, m, l)
    BY <1>2 DEF ReadForApproval, ReadForRejectVote, Begin, committeeVars
<1>3. CASE \E k \in Hands, m \in Managers, l \in Loans : ReadForReject(k, m, l)
    BY <1>3 DEF ReadForReject, Begin, committeeVars
<1>4. CASE \E k \in Hands : Handler(k)
    BY <1>4, HandlerWrites
<1>5. CASE \E l \in Loans : Repaid(l) \/ ProviderSettles(l)
    BY <1>5 DEF Repaid, ProviderSettles, committeeVars
<1>6. CASE \E m \in Appointable : Appoint(m) \/ Unseat(m)
    BY <1>6 DEF Appoint, Unseat
<1>7. CASE \E m \in Managers, l \in Loans : RejectByOfficer(m, l)
    BY <1>7 DEF RejectByOfficer, committeeVars
<1>8. QED BY <1>1, <1>2, <1>3, <1>4, <1>5, <1>6, <1>7 DEF Next

\* Seats change by appointment only.
LEMMA SeatWrites ==
    ASSUME Next
    PROVE  UNCHANGED seats \/ \E m \in Appointable : Appoint(m) \/ Unseat(m)
<1>1. CASE GuaranteeStep /\ UNCHANGED <<committeeVars, prov>>
    BY <1>1 DEF committeeVars
<1>2. CASE \E k \in Hands, m \in Persons, l \in Loans :
               ReadForApproval(k, m, l) \/ ReadForRejectVote(k, m, l)
    BY <1>2 DEF ReadForApproval, ReadForRejectVote, Begin, committeeVars
<1>3. CASE \E k \in Hands, m \in Managers, l \in Loans : ReadForReject(k, m, l)
    BY <1>3 DEF ReadForReject, Begin, committeeVars
<1>4. CASE \E k \in Hands : Handler(k)
    BY <1>4, HandlerWrites
<1>5. CASE \E l \in Loans : Repaid(l) \/ ProviderSettles(l)
    BY <1>5 DEF Repaid, ProviderSettles, committeeVars
<1>6. CASE \E m \in Managers, l \in Loans : RejectByOfficer(m, l)
    BY <1>6 DEF RejectByOfficer, committeeVars
<1>7. QED BY <1>1, <1>2, <1>3, <1>4, <1>5, <1>6 DEF Next

\* The provider's record changes by a call or by its own settling.
LEMMA ProvWrites ==
    ASSUME Next
    PROVE  \/ UNCHANGED prov
           \/ \E k \in Hands : CallProvider(k)
           \/ \E l \in Loans : ProviderSettles(l)
<1>1. CASE \E k \in Hands, m \in Persons, l \in Loans :
               ReadForApproval(k, m, l) \/ ReadForRejectVote(k, m, l)
    BY <1>1 DEF ReadForApproval, ReadForRejectVote, Begin
<1>2. CASE \E k \in Hands, m \in Managers, l \in Loans : ReadForReject(k, m, l)
    BY <1>2 DEF ReadForReject, Begin
<1>3. CASE \E k \in Hands : Handler(k)
    BY <1>3, HandlerWrites
<1>4. CASE \E l \in Loans : Repaid(l) \/ ProviderSettles(l)
    BY <1>4 DEF Repaid
<1>5. CASE \E m \in Appointable : Appoint(m) \/ Unseat(m)
    BY <1>5 DEF Appoint, Unseat
<1>6. CASE \E m \in Managers, l \in Loans : RejectByOfficer(m, l)
    BY <1>6 DEF RejectByOfficer
<1>7. QED BY <1>1, <1>2, <1>3, <1>4, <1>5, <1>6 DEF Next

ProvType == [Loans -> {"none", "accepted", "sent", "failed"}]
\* The provider never forgets a reference.
LEMMA ProvKeepsType ==
    ASSUME TypeInv, Next
    PROVE  prov' \in ProvType /\ \A l \in Loans : prov[l] # "none" => prov'[l] # "none"
<1>1. prov \in ProvType
    BY DEF TypeInv, TypeOK, ProvType
<1>2. CASE UNCHANGED prov
    BY <1>1, <1>2
<1>3. CASE \E k \in Hands : CallProvider(k)
    <2>1. PICK k \in Hands : CallProvider(k)
        BY <1>3
    <2>2. PICK ans \in Answers(hand[k].l) : prov' = [prov EXCEPT ![hand[k].l] = ans.p]
        BY <2>1 DEF CallProvider
    <2>3. hand[k].l \in Loans
        BY <2>1 DEF CallProvider, TypeInv, HandsRefer
    <2>4. ans.p \in {"accepted", "sent", "failed"}
        BY <1>1, <2>3 DEF Answers, ProvType
    <2>5. QED BY <1>1, <2>2, <2>3, <2>4 DEF ProvType
<1>4. CASE \E l \in Loans : ProviderSettles(l)
    BY <1>1, <1>4 DEF ProviderSettles, ProvType
<1>5. QED BY <1>2, <1>3, <1>4, ProvWrites

\* A result is the committee's, unless guarantors were counted.
ResOf == \A k \in Hands : hand[k].res = "enough" => hand[k].pc = "counted"
LEMMA ResKeeps ==
    ASSUME TypeInv, ResOf, Next
    PROVE  ResOf'
<1>1. CASE UNCHANGED hand
    BY <1>1 DEF ResOf
<1>2. CASE Starts
    BY <1>2, StartsDo DEF Started1, Started, HandIs, ResOf
<1>3. CASE \E k \in Hands : GoesOn(k)
    <2>1. PICK k \in Hands : GoesOn(k)
        BY <1>3
    <2>2. /\ \A j \in Hands \ {k} : hand'[j] = hand[j]
          /\ hand'[k].res = "enough" => hand'[k].pc = "counted"
        BY <2>1, GoesDo DEF Moved, HandIs, Tally, ResOf
    <2>3. QED BY <2>2 DEF ResOf
<1>4. CASE \E k \in Hands : Return(k) /\ hand[k].pc # "idle"
    <2>1. hand \in HandType
        BY DEF TypeInv, TypeOK, HandType
    <2>2. QED BY <1>4, <2>1, Returns DEF IdleNow, HandIs, ResOf
<1>5. QED BY <1>1, <1>2, <1>3, <1>4, HandWrites

DecType == [Loans -> {"none", "pending", "approved", "rejected"}]
\* The committee's rows keep their type.
LEMMA VotesKeepType ==
    ASSUME TypeInv, ResOf, Next
    PROVE  dec' \in DecType /\ votes' \in VoteType /\ seats' \subseteq Appointable
<1>1. dec \in DecType /\ votes \in VoteType /\ seats \subseteq Appointable /\ hand \in HandType
    BY DEF TypeInv, TypeOK, DecType, VoteType, HandType
<1>2. dec' \in DecType /\ votes' \in VoteType
    <2>1. CASE UNCHANGED <<dec, votes>>
        BY <1>1, <2>1
    <2>2. CASE \E k \in Hands : /\ RecordVote(k) /\ Return(k)
                                /\ hand[k].pc \in {"tally", "finalize", "pay", "book"}
        <3>1. PICK k \in Hands : RecordVote(k) /\ hand[k].pc \in {"tally", "finalize", "pay", "book"}
            BY <2>2
        <3>2. /\ hand[k].l \in Loans /\ hand[k].who \in Persons
              /\ hand[k].res \in {"none", "approved", "rejected"}
              /\ hand[k].vote \in {"none", "approve", "reject"}
            BY <1>1, <3>1 DEF TypeInv, HandsRefer, ResOf, HandType, HandRow
        <3>3. votes' \in VoteType
            BY <1>1, <3>1, <3>2 DEF RecordVote, VoteType
        <3>4. dec' \in DecType
            BY <1>1, <3>1, <3>2 DEF RecordVote, DecType
        <3>5. QED BY <3>3, <3>4
    <2>3. QED BY <2>1, <2>2, VoteWrites
<1>3. seats' \subseteq Appointable
    <2>1. CASE \E m \in Appointable : Appoint(m) \/ Unseat(m)
        BY <1>1, <2>1 DEF Appoint, Unseat
    <2>2. CASE UNCHANGED seats
        BY <1>1, <2>2
    <2>3. (\E m \in Appointable : Appoint(m) \/ Unseat(m)) \/ UNCHANGED seats
        BY SeatWrites
    <2>4. QED BY <2>1, <2>2, <2>3
<1>4. QED BY <1>2, <1>3

-----------------------------------------------------------------------------
(* Type correctness                                                        *)

Base == TypeInv /\ OneAtATime /\ ResOf

\* The invariant the theorems share holds at the start.
LEMMA BaseStarts ==
    ASSUME Init
    PROVE  Base
<1>1. loan \in LoanType /\ gua \in GuaType /\ swap \in SwapType /\ hand \in HandType
    <2>1. NoRow \in LoanRow /\ NoRequest \in SwapRow
        BY DEF NoRow, NoRequest, LoanRow, SwapRow, Statuses, Signer
    <2>2. QED BY <2>1, IdleRow DEF Init, GuaranteesInit, LoanType, GuaType, SwapType, HandType
<1>2. dec \in DecType /\ votes \in VoteType /\ prov \in ProvType /\ seats \subseteq Appointable
    BY DEF Init, DecType, VoteType, ProvType
<1>3. TypeOK
    BY <1>1, <1>2 DEF TypeOK, LoanType, GuaType, SwapType, HandType, DecType, VoteType, ProvType
<1>4. RowsFresh /\ GuaFresh
    BY DEF Init, GuaranteesInit, NoRow, RowsFresh, GuaFresh
<1>5. HandsRefer /\ SwapsRefer /\ OneAtATime /\ ResOf
    BY IdleRow DEF Init, GuaranteesInit, NoRequest, HandsRefer, SwapsRefer, OneAtATime, ResOf
<1>6. QED BY <1>3, <1>4, <1>5 DEF Base, TypeInv

\* Every step keeps it.
LEMMA BaseKeeps ==
    ASSUME Base, [Next]_vars
    PROVE  Base'
<1>1. CASE Next
    <2>1. loan' \in LoanType /\ RowsFresh'
        BY <1>1, LoansContinue DEF Base
    <2>2. gua' \in GuaType /\ GuaFresh' /\ swap' \in SwapType /\ SwapsRefer'
        BY <1>1, GuaKeepsType, SwapsKeep DEF Base
    <2>3. hand' \in HandType /\ HandsRefer' /\ OneAtATime' /\ ResOf'
        BY <1>1, HandsKeep, ResKeeps DEF Base
    <2>4. dec' \in DecType /\ votes' \in VoteType /\ seats' \subseteq Appointable /\ prov' \in ProvType
        BY <1>1, VotesKeepType, ProvKeepsType DEF Base
    <2>5. TypeOK'
        BY <2>1, <2>2, <2>3, <2>4
        DEF TypeOK, LoanType, GuaType, SwapType, HandType, DecType, VoteType, ProvType
    <2>6. QED BY <2>1, <2>2, <2>3, <2>5 DEF Base, TypeInv
<1>2. CASE UNCHANGED vars
    BY <1>2 DEF vars, guaranteeVars, committeeVars, Base, TypeInv, TypeOK, RowsFresh, GuaFresh,
        HandsRefer, SwapsRefer, OneAtATime, ResOf
<1>3. QED BY <1>1, <1>2

\* Every row, handler and vote is what the code's types allow, a handler works
\* on a loan that exists, and an exchange names two persons.
THEOREM TypeCorrect == Spec => []TypeOK
<1>1. Spec => []Base
    BY BaseStarts, BaseKeeps, PTL DEF Spec
<1>2. Base => TypeOK
    BY DEF Base, TypeInv
<1>3. QED BY <1>1, <1>2, PTL

-----------------------------------------------------------------------------
(* Signatures                                                              *)

\* A handler that signs, or may come to.
WillSign(k) ==
    \/ hand[k].pc \in {"sign", "finalize", "pay", "book"}
    \/ hand[k].pc \in {"vote", "tally"} /\ hand[k].vote = "approve"

SignersMay == \A k \in Hands : WillSign(k) => MaySign(hand[k].who, hand[k].l)

SameSigners(l) ==
    /\ loan'[l].officer = loan[l].officer /\ loan'[l].admin = loan[l].admin
    /\ loan'[l].super1 = loan[l].super1 /\ loan'[l].super2 = loan[l].super2

\* m gives one signature, in the place of whoever gave it before.
SignedBy(l, m) ==
    \/ /\ loan'[l].officer = m /\ loan'[l].admin = loan[l].admin
       /\ loan'[l].super1 = loan[l].super1 /\ loan'[l].super2 = loan[l].super2
    \/ /\ loan'[l].officer = loan[l].officer /\ loan'[l].admin = m
       /\ loan'[l].super1 = loan[l].super1 /\ loan'[l].super2 = loan[l].super2
    \/ /\ loan'[l].officer = loan[l].officer /\ loan'[l].admin = loan[l].admin
       /\ loan'[l].super1 = m /\ loan'[l].super2 = loan[l].super2
    \/ /\ loan'[l].officer = loan[l].officer /\ loan'[l].admin = loan[l].admin
       /\ loan'[l].super1 = loan[l].super1 /\ loan'[l].super2 = m

\* A signature on a loan is its handler's, which then ends.
LEMMA SignaturesMove ==
    ASSUME TypeInv, Next, NEW l \in Loans
    PROVE  \/ SameSigners(l)
           \/ \E k \in Hands : /\ hand[k].l = l /\ hand[k].pc \in {"sign", "pay", "book"}
                               /\ hand'[k].pc = "idle" /\ SignedBy(l, hand[k].who)
<1>1. CASE UNCHANGED loan
    BY <1>1 DEF SameSigners
<1>2. CASE \E k \in Hands : Signs(k)
    <2>1. PICK k \in Hands : Signs(k)
        BY <1>2
    <2>2. CASE hand[k].l = l
        <3>1. hand[k].pc = "sign" /\ hand'[k].pc = "idle" /\ SignedBy(l, hand[k].who)
            BY <2>1, <2>2, SignsDo DEF Signed, RowIs, IdleNow, HandIs, SignedBy
        <3>2. QED BY <2>2, <3>1
    <2>3. CASE hand[k].l # l
        <3>1. loan'[l] = loan[l]
            BY <2>1, <2>3, SignsDo DEF Signed, RowIs
        <3>2. QED BY <3>1 DEF SameSigners
    <2>4. QED BY <2>2, <2>3
<1>3. CASE \E k \in Hands : Commits(k)
    <2>1. PICK k \in Hands : Commits(k)
        BY <1>3
    <2>2. /\ hand[k].pc \in {"pay", "book"} /\ hand'[k].pc = "idle"
          /\ \E st, paid, n : Committed(loan', loan, hand[k].l, st, hand[k].who, paid, n)
        BY <2>1, CommitsDo DEF CommitsWith, IdleNow, HandIs
    <2>3. CASE hand[k].l = l
        <3>1. SignedBy(l, hand[k].who)
            BY <2>2, <2>3 DEF Committed, RowIs, SignedBy
        <3>2. QED BY <2>2, <2>3, <3>1
    <2>4. CASE hand[k].l # l
        <3>1. loan'[l] = loan[l]
            BY <2>2, <2>4 DEF Committed, RowIs
        <3>2. QED BY <3>1 DEF SameSigners
    <2>5. QED BY <2>3, <2>4
<1>4. CASE \E k \in Hands : ConfirmGuarantee(k) \/ DecideRejected(k) \/ RejectPending(k)
    <2>1. PICK k \in Hands : ConfirmGuarantee(k) \/ DecideRejected(k) \/ RejectPending(k)
        BY <1>4
    <2>2. UNCHANGED loan \/ \E st : Restated(loan', loan, hand[k].l, st)
        BY <2>1, RestatesDo
    <2>3. CASE \E st : Restated(loan', loan, hand[k].l, st)
        BY <2>3 DEF Restated, Signed, RowIs, SameSigners
    <2>4. QED BY <1>1, <2>2, <2>3
<1>5. CASE \E i \in Loans : (\E m \in Managers : RejectByOfficer(m, i)) \/ Repaid(i)
    <2>1. PICK i \in Loans : \E st : Restated(loan', loan, i, st)
        BY <1>5, EndsDo
    <2>2. QED BY <2>1 DEF Restated, Signed, RowIs, SameSigners
<1>6. CASE \E b \in Persons, i \in Loans : Asks(b, i)
    <2>1. PICK b \in Persons, i \in Loans : \E st : Applied(loan', loan, i, st, b)
        BY <1>6, AsksDo
    <2>2. QED BY <2>1 DEF Applied, RowIs, SameSigners
<1>7. QED BY <1>1, <1>2, <1>3, <1>4, <1>5, <1>6, LoanWrites

\* How a handler may have come to sign.
LEMMA HandMoves ==
    ASSUME TypeInv, Next, NEW k \in Hands, WillSign(k)'
    PROVE  \/ /\ WillSign(k) /\ hand'[k].pc # "idle" /\ hand[k].pc # "idle"
              /\ hand'[k].who = hand[k].who /\ hand'[k].l = hand[k].l
           \/ UNCHANGED loan /\ MaySign(hand'[k].who, hand'[k].l)
<1>0. hand \in HandType
    BY DEF TypeInv, TypeOK, HandType
<1>1. CASE hand'[k] = hand[k]
    <2>1. WillSign(k)
        BY <1>1 DEF WillSign
    <2>2. QED BY <1>1, <2>1 DEF WillSign
<1>2. CASE Starts /\ hand'[k] # hand[k]
    <2>1. PICK j \in Hands, m \in Persons, l \in Loans :
              /\ UNCHANGED <<loan, gua, swap>>
              /\ \/ StartsAs(j, m, l, "confirm", "none", "none")
                 \/ StartsAs(j, m, l, "accept", "none", "none")
                 \/ StartsAs(j, m, l, "decline", "none", "none")
                 \/ StartsAs(j, m, l, "swap", "none", "none")
                 \/ StartsAs(j, m, l, "reject", "pending", "none")
                 \/ StartsAs(j, m, l, "vote", loan[l].status, "reject")
                 \/ /\ MaySign(m, l)
                    /\ \E pc, from, v : StartsAs(j, m, l, pc, from, v)
        BY <1>2, StartKinds
    <2>2. j = k
        BY <1>2, <2>1 DEF StartsAs, Started, HandIs
    <2>3. MaySign(m, l) /\ hand'[k].who = m /\ hand'[k].l = l
        BY <2>1, <2>2 DEF StartsAs, Started, HandIs, WillSign
    <2>4. QED BY <2>1, <2>3
<1>3. CASE (\E j \in Hands : GoesOn(j)) /\ hand'[k] # hand[k]
    <2>1. PICK j \in Hands : GoesOn(j)
        BY <1>3
    <2>2. j = k
        BY <1>3, <2>1, GoesDo DEF Moved, HandIs
    <2>3. /\ hand'[k].who = hand[k].who /\ hand'[k].l = hand[k].l /\ hand'[k].vote = hand[k].vote
          /\ hand[k].pc # "idle" /\ hand'[k].pc # "idle"
          /\ hand'[k].pc \in {"finalize", "pay", "book"} => WillSign(k)
          /\ hand'[k].pc \notin {"sign", "vote"} /\ (hand'[k].pc = "tally" => hand[k].pc = "vote")
        BY <2>1, <2>2, GoesDo DEF Moved, HandIs, WillSign
    <2>4. QED BY <2>3 DEF WillSign
<1>4. CASE (\E j \in Hands : Return(j)) /\ hand'[k] # hand[k]
    <2>1. PICK j \in Hands : IdleNow(j)
        BY <1>0, <1>4, Returns
    <2>2. j = k
        BY <1>4, <2>1 DEF IdleNow, HandIs
    <2>3. QED BY <2>1, <2>2 DEF IdleNow, HandIs, WillSign
<1>5. QED BY <1>1, <1>2, <1>3, <1>4, HandWrites

\* A person still may sign when his handler writes: nobody else can sign for him.
LEMMA SignersKeep ==
    ASSUME Base, SignersMay, OneRoleEach, Next
    PROVE  SignersMay' /\ OneRoleEach'
<1>1. /\ TypeInv /\ OneAtATime /\ Nobody \notin Persons
      /\ \A l \in Loans : loan[l].status # "none" =>
            loan'[l].by = loan[l].by /\ loan[l].by \in Persons
    BY LoansContinue, GuaranteesAssumption DEF Base, Continues, TypeInv, RowsFresh
<1>2. SignersMay'
    <2> SUFFICES ASSUME NEW k \in Hands, WillSign(k)'
                 PROVE  MaySign(hand[k].who, hand[k].l)'
        BY DEF SignersMay
    <2>1. CASE /\ WillSign(k) /\ hand'[k].pc # "idle" /\ hand[k].pc # "idle"
               /\ hand'[k].who = hand[k].who /\ hand'[k].l = hand[k].l
        <3> DEFINE l == hand[k].l
                   m == hand[k].who
        <3>1. l \in Loans /\ m \in Persons /\ loan'[l].by = loan[l].by /\ m # loan[l].by
              /\ m \notin Signers(l)
            BY <1>1, <2>1 DEF TypeInv, HandsRefer, SignersMay, MaySign
        <3>2. CASE SameSigners(l)
            BY <2>1, <3>1, <3>2 DEF SameSigners, MaySign, Signers
        <3>3. ASSUME NEW j \in Hands, hand[j].pc # "idle", hand'[j].pc = "idle", SignedBy(l, hand[j].who)
              PROVE  MaySign(hand[k].who, hand[k].l)'
            <4>1. hand[j].who # m
                BY <1>1, <2>1, <3>3 DEF OneAtATime
            <4>2. QED BY <2>1, <3>1, <3>3, <4>1 DEF SignedBy, MaySign, Signers
        <3>4. QED BY <1>1, <3>1, <3>2, <3>3, SignaturesMove
    <2>2. CASE UNCHANGED loan /\ MaySign(hand'[k].who, hand'[k].l)
        BY <2>2 DEF MaySign, Signers
    <2>3. QED BY <1>1, <2>1, <2>2, HandMoves
<1>3. OneRoleEach'
    <2> SUFFICES ASSUME NEW l \in Loans
                 PROVE  LET r == loan'[l] IN
                        /\ r.by \notin Signers(l)' \/ r.status = "none"
                        /\ r.officer # Nobody => r.officer \notin {r.admin, r.super1, r.super2}
                        /\ r.admin # Nobody => r.admin \notin {r.super1, r.super2}
                        /\ r.super1 # Nobody => r.super1 # r.super2
        BY DEF OneRoleEach, Signers
    <2>1. CASE SameSigners(l)
        <3>1. CASE loan[l].status = "none"
            BY <1>1, <2>1, <3>1, LoansContinue DEF SameSigners, Signers, TypeInv, RowsFresh
        <3>2. CASE loan[l].status # "none"
            BY <1>1, <2>1, <3>2 DEF SameSigners, Signers, OneRoleEach
        <3>3. QED BY <3>1, <3>2
    <2>2. CASE \E k \in Hands : /\ hand[k].l = l /\ hand[k].pc \in {"sign", "pay", "book"}
                                /\ hand'[k].pc = "idle" /\ SignedBy(l, hand[k].who)
        <3>1. PICK k \in Hands : /\ hand[k].l = l /\ hand[k].pc \in {"sign", "pay", "book"}
                                 /\ SignedBy(l, hand[k].who)
            BY <2>2
        <3> DEFINE m == hand[k].who
        <3>2. m \notin Signers(l) /\ m # loan[l].by /\ loan[l].status # "none"
            BY <1>1, <3>1 DEF SignersMay, WillSign, MaySign, TypeInv, HandsRefer
        <3>3. QED BY <1>1, <3>1, <3>2 DEF SignedBy, Signers, OneRoleEach
    <2>3. QED BY <1>1, <2>1, <2>2, SignaturesMove
<1>4. QED BY <1>2, <1>3

\* The officer, the admin and the super admins that sign a loan are different
\* persons, none of them the borrower, whatever approvals race.
THEOREM RolesDiffer == Spec => []OneRoleEach
<1> DEFINE Inv == Base /\ SignersMay /\ OneRoleEach
<1>1. Init => Inv
    <2> SUFFICES ASSUME Init
                 PROVE  SignersMay /\ OneRoleEach
        BY BaseStarts
    <2>1. QED BY IdleRow DEF Init, GuaranteesInit, NoRow, SignersMay, WillSign, OneRoleEach
<1>2. Inv /\ [Next]_vars => Inv'
    <2>1. CASE Inv /\ Next
        BY <2>1, BaseKeeps, SignersKeep
    <2>2. CASE Inv /\ UNCHANGED vars
        <3>1. Base'
            BY <2>2, BaseKeeps
        <3>2. UNCHANGED <<loan, hand>>
            BY <2>2 DEF vars, guaranteeVars
        <3>3. QED BY <2>2, <3>1, <3>2 DEF SignersMay, WillSign, MaySign, Signers, OneRoleEach
    <2>3. QED BY <2>1, <2>2
<1>3. QED BY <1>1, <1>2, PTL DEF Spec

-----------------------------------------------------------------------------
(* The lock of a finalizer                                                 *)

\* What a step does to one handler.
LEMMA HandGoes ==
    ASSUME TypeInv, Next, NEW k \in Hands
    PROVE  \/ hand'[k] = hand[k]
           \/ hand'[k].pc = "idle"
           \/ GoesOn(k)
           \/ /\ Starts
              /\ hand'[k].pc \in {"confirm", "accept", "decline", "swap", "sign", "finalize", "vote", "reject"}
<1>0. hand \in HandType
    BY DEF TypeInv, TypeOK, HandType
<1>1. CASE UNCHANGED hand
    BY <1>1
<1>2. CASE Starts
    BY <1>2, StartsDo DEF Started1, Started, HandIs
<1>3. CASE \E j \in Hands : GoesOn(j)
    <2>1. PICK j \in Hands : GoesOn(j)
        BY <1>3
    <2>2. j = k \/ hand'[k] = hand[k]
        BY <2>1, GoesDo DEF Moved, HandIs
    <2>3. QED BY <2>1, <2>2
<1>4. CASE \E j \in Hands : Return(j)
    BY <1>0, <1>4, Returns DEF IdleNow, HandIs
<1>5. QED BY <1>1, <1>2, <1>3, <1>4, HandWrites

Locks(k) == hand[k].pc \in {"pay", "book"}
OneLocker == \A j, k \in Hands : Locks(j) /\ Locks(k) /\ hand[j].l = hand[k].l => j = k

\* A handler that holds the lock held it before, took it, or has its answer.
LEMMA LockMoves ==
    ASSUME TypeInv, Next, NEW k \in Hands, Locks(k)'
    PROVE  \/ Locks(k) /\ hand'[k] = hand[k]
           \/ /\ hand[k].pc = "finalize" /\ Still(k)
              /\ UNCHANGED <<loan, gua, swap, committeeVars, prov>>
              /\ Moved(k, "pay", hand[k].from, hand[k].res)
           \/ /\ hand[k].pc = "pay" /\ Payable(hand[k].l)
              /\ UNCHANGED <<loan, gua, swap, committeeVars>>
              /\ \E ans \in Answers(hand[k].l) :
                   prov' = [prov EXCEPT ![hand[k].l] = ans.p] /\ Moved(k, "book", ans.res, hand[k].res)
<1>1. hand'[k] = hand[k] \/ GoesOn(k)
    BY HandGoes DEF Locks
<1>2. CASE hand'[k] = hand[k]
    BY <1>2 DEF Locks
<1>3. CASE GoesOn(k)
    BY <1>3, GoesDo DEF Moved, HandIs, Locks
<1>4. QED BY <1>1, <1>2, <1>3

\* The row that a finalizer has locked stays as it is until it ends.
LEMMA RowStays ==
    ASSUME TypeInv, OneLocker, Next, NEW k \in Hands, Locks(k), Locks(k)'
    PROVE  loan'[hand[k].l] = loan[hand[k].l]
<1> DEFINE l == hand[k].l
<1>1. Locked(l) /\ l \in Loans /\ loan[l].status # "none"
    BY DEF Locks, Locked, TypeInv, HandsRefer
<1>2. CASE \E j \in Hands : Signs(j)
    BY <1>1, <1>2, SignsDo DEF Signed, RowIs
<1>3. CASE \E j \in Hands : Commits(j)
    <2>1. PICK j \in Hands : Commits(j)
        BY <1>3
    <2>2. /\ Locks(j) /\ hand'[j].pc = "idle"
          /\ \E st, paid, n : Committed(loan', loan, hand[j].l, st, hand[j].who, paid, n)
        BY <2>1, CommitsDo DEF CommitsWith, IdleNow, HandIs, Locks
    <2>3. hand[j].l # l
        BY <2>2 DEF Locks, OneLocker
    <2>4. QED BY <1>1, <2>2, <2>3 DEF Committed, RowIs
<1>4. CASE \E j \in Hands : ConfirmGuarantee(j) \/ DecideRejected(j) \/ RejectPending(j)
    <2>1. PICK j \in Hands : ConfirmGuarantee(j) \/ DecideRejected(j) \/ RejectPending(j)
        BY <1>4
    <2>2. UNCHANGED loan \/ (~Locked(hand[j].l) /\ \E st : Restated(loan', loan, hand[j].l, st))
        BY <2>1, RestatesDo
    <2>3. QED BY <1>1, <2>2 DEF Restated, Signed, RowIs
<1>5. CASE \E i \in Loans : (\E m \in Managers : RejectByOfficer(m, i)) \/ Repaid(i)
    <2>1. PICK i \in Loans : \E st : Restated(loan', loan, i, st) /\ ~Locked(i)
        BY <1>5, EndsDo
    <2>2. QED BY <1>1, <2>1 DEF Restated, Signed, RowIs
<1>6. CASE \E b \in Persons, i \in Loans : Asks(b, i)
    <2>1. PICK b \in Persons, i \in Loans : \E st : Applied(loan', loan, i, st, b) /\ loan[i].status = "none"
        BY <1>6, AsksDo
    <2>2. QED BY <1>1, <2>1 DEF Applied, RowIs
<1>7. CASE UNCHANGED loan
    BY <1>7
<1>8. QED BY <1>2, <1>3, <1>4, <1>5, <1>6, <1>7, LoanWrites

\* A finalizer locks a row only when no other has it.
LEMMA OneLockerKeeps ==
    ASSUME TypeInv, OneLocker, Next
    PROVE  OneLocker'
<1> SUFFICES ASSUME NEW j \in Hands, NEW k \in Hands, Locks(j)', Locks(k)', hand'[j].l = hand'[k].l, j # k
             PROVE  FALSE
    BY DEF OneLocker
<1>1. ASSUME NEW i \in Hands, Locks(i)'
      PROVE  /\ hand'[i].l = hand[i].l
             /\ Locks(i) \/ (~Locked(hand[i].l) /\ \A h \in Hands \ {i} : hand'[h] = hand[h])
    BY <1>1, LockMoves DEF Locks, Still, Moved, HandIs
<1>2. CASE Locks(j) /\ Locks(k)
    BY <1>1, <1>2 DEF OneLocker
<1>3. CASE ~Locks(j)
    <2>1. Locks(k) /\ hand[k].l = hand[j].l /\ ~Locked(hand[j].l)
        BY <1>1, <1>3 DEF Locks
    <2>2. QED BY <2>1 DEF Locks, Locked
<1>4. CASE ~Locks(k)
    <2>1. Locks(j) /\ hand[j].l = hand[k].l /\ ~Locked(hand[k].l)
        BY <1>1, <1>4 DEF Locks
    <2>2. QED BY <2>1 DEF Locks, Locked
<1>5. QED BY <1>2, <1>3, <1>4

-----------------------------------------------------------------------------
(* The ledger                                                              *)

\* What a finalizer that has the provider's answer knows.
Answered ==
    \A k \in Hands :
        hand[k].pc = "book" =>
            /\ loan[hand[k].l].pay # "successful"
            /\ hand[k].from = "ok" => prov[hand[k].l] # "none"

SamePay(l) ==
    /\ loan'[l].pay = loan[l].pay /\ loan'[l].booked = loan[l].booked
    /\ loan'[l].status = "disbursed" => loan[l].status = "disbursed"
Unbooked(l) ==
    /\ loan'[l].pay = "failed" /\ loan'[l].booked = loan[l].booked + 0
    /\ loan'[l].status # "disbursed"
NowBooked(l) == loan'[l].pay = "successful" /\ loan'[l].booked = loan[l].booked + 1

\* What a step does to the payment of a loan.
LEMMA PayMoves ==
    ASSUME TypeInv, Next, NEW l \in Loans
    PROVE  \/ SamePay(l)
           \/ Unbooked(l) /\ \E k \in Hands : hand[k].l = l /\ (hand[k].pc = "book" \/ loan[l].pay # "successful")
           \/ NowBooked(l) /\ \E k \in Hands : hand[k].l = l /\ hand[k].pc = "book" /\ hand[k].from = "ok"
<1>1. CASE UNCHANGED loan
    BY <1>1 DEF SamePay
<1>2. CASE \E k \in Hands : Signs(k)
    <2>1. PICK k \in Hands : Signs(k)
        BY <1>2
    <2>2. QED BY <2>1, SignsDo DEF Signed, RowIs, SamePay
<1>3. CASE \E k \in Hands : Commits(k)
    <2>1. PICK k \in Hands : Commits(k)
        BY <1>3
    <2>2. CASE hand[k].l # l
        <3>1. \E st, paid, n : Committed(loan', loan, hand[k].l, st, hand[k].who, paid, n)
            BY <2>1, CommitsDo DEF CommitsWith
        <3>2. QED BY <2>2, <3>1 DEF Committed, RowIs, SamePay
    <2>3. CASE hand[k].l = l
        <3>1. CASE CommitsWith(k, "approved", loan[l].pay, 0)
            <4>1. loan[l].booked + 0 = loan[l].booked
                BY DEF TypeInv, TypeOK, LoanRow
            <4>2. QED BY <2>3, <3>1, <4>1 DEF CommitsWith, Committed, RowIs, SamePay
        <3>2. CASE CommitsWith(k, "approved", "failed", 0) /\ (hand[k].pc = "book" \/ loan[l].pay # "successful")
            BY <2>3, <3>2 DEF CommitsWith, Committed, RowIs, Unbooked
        <3>3. CASE CommitsWith(k, "disbursed", "successful", 1) /\ hand[k].pc = "book" /\ hand[k].from = "ok"
            BY <2>3, <3>3 DEF CommitsWith, Committed, RowIs, NowBooked
        <3>4. QED BY <2>1, <2>3, <3>1, <3>2, <3>3, CommitsDo
    <2>4. QED BY <2>2, <2>3
<1>4. CASE \E k \in Hands : ConfirmGuarantee(k) \/ DecideRejected(k) \/ RejectPending(k)
    <2>1. PICK k \in Hands : ConfirmGuarantee(k) \/ DecideRejected(k) \/ RejectPending(k)
        BY <1>4
    <2>2. UNCHANGED loan \/ \E st \in {"guaranteed", "rejected"} : Restated(loan', loan, hand[k].l, st)
        BY <2>1, RestatesDo
    <2>3. QED BY <1>1, <2>2 DEF Restated, Signed, RowIs, SamePay
<1>5. CASE \E i \in Loans : (\E m \in Managers : RejectByOfficer(m, i)) \/ Repaid(i)
    <2>1. PICK i \in Loans, st \in {"rejected_by_officer", "paid"} : Restated(loan', loan, i, st)
        BY <1>5, EndsDo
    <2>2. QED BY <2>1 DEF Restated, Signed, RowIs, SamePay
<1>6. CASE \E b \in Persons, i \in Loans : Asks(b, i)
    <2>1. PICK b \in Persons, i \in Loans, st \in {"pending", "guaranteed"} : Applied(loan', loan, i, st, b)
        BY <1>6, AsksDo
    <2>2. QED BY <2>1 DEF Applied, RowIs, SamePay
<1>7. QED BY <1>1, <1>2, <1>3, <1>4, <1>5, <1>6, LoanWrites

\* While a finalizer waits for its answer nobody else pays the loan.
LEMMA AnsweredKeeps ==
    ASSUME TypeInv, OneLocker, Answered, Next
    PROVE  Answered'
<1> SUFFICES ASSUME NEW k \in Hands, hand'[k].pc = "book"
             PROVE  /\ loan'[hand'[k].l].pay # "successful"
                    /\ hand'[k].from = "ok" => prov'[hand'[k].l] # "none"
    BY DEF Answered
<1>1. CASE hand'[k] = hand[k]
    <2>1. /\ loan[hand[k].l].pay # "successful" /\ hand[k].l \in Loans
          /\ hand[k].from = "ok" => prov[hand[k].l] # "none"
        BY <1>1 DEF Answered, TypeInv, HandsRefer
    <2>2. loan'[hand[k].l] = loan[hand[k].l]
        BY <1>1, RowStays DEF Locks
    <2>3. QED BY <1>1, <2>1, <2>2, ProvKeepsType
<1>2. CASE hand'[k] # hand[k]
    <2>1. /\ hand[k].pc = "pay" /\ Payable(hand[k].l) /\ UNCHANGED loan
          /\ \E ans \in Answers(hand[k].l) :
               prov' = [prov EXCEPT ![hand[k].l] = ans.p] /\ Moved(k, "book", ans.res, hand[k].res)
        BY <1>2, LockMoves DEF Locks, Moved, HandIs
    <2>2. PICK ans \in Answers(hand[k].l) :
               prov' = [prov EXCEPT ![hand[k].l] = ans.p] /\ Moved(k, "book", ans.res, hand[k].res)
        BY <2>1
    <2>3. hand'[k].l = hand[k].l /\ hand'[k].from = ans.res /\ hand[k].l \in Loans
        BY <2>1, <2>2 DEF Moved, HandIs, TypeInv, HandsRefer
    <2>4. ans.res = "ok" => ans.p = "accepted"
        BY DEF Answers
    <2>5. prov \in ProvType
        BY DEF TypeInv, TypeOK, ProvType
    <2>6. QED BY <2>1, <2>2, <2>3, <2>4, <2>5 DEF Payable, ProvType
<1>3. QED BY <1>1, <1>2

\* So the ledger has one entry for the one payment.
LEMMA BookedKeeps ==
    ASSUME TypeInv, Answered, BookedOnce, Next
    PROVE  BookedOnce'
<1> SUFFICES ASSUME NEW l \in Loans
             PROVE  /\ loan'[l].booked = IF loan'[l].pay = "successful" THEN 1 ELSE 0
                    /\ loan'[l].booked = 1 => prov'[l] # "none"
                    /\ loan'[l].status = "disbursed" => loan'[l].booked = 1
    BY DEF BookedOnce
<1>1. /\ loan[l].booked = IF loan[l].pay = "successful" THEN 1 ELSE 0
      /\ loan[l].booked = 1 => prov[l] # "none"
      /\ loan[l].status = "disbursed" => loan[l].booked = 1
      /\ prov[l] # "none" => prov'[l] # "none"
    BY ProvKeepsType DEF BookedOnce
<1>2. CASE SamePay(l)
    BY <1>1, <1>2 DEF SamePay
<1>3. CASE Unbooked(l) /\ \E k \in Hands : hand[k].l = l /\ (hand[k].pc = "book" \/ loan[l].pay # "successful")
    <2>1. loan[l].booked = 0
        BY <1>1, <1>3 DEF Answered
    <2>2. QED BY <1>3, <2>1 DEF Unbooked
<1>4. CASE NowBooked(l) /\ \E k \in Hands : hand[k].l = l /\ hand[k].pc = "book" /\ hand[k].from = "ok"
    <2>1. loan[l].booked = 0 /\ prov'[l] # "none"
        BY <1>1, <1>4 DEF Answered
    <2>2. QED BY <1>4, <2>1 DEF NowBooked
<1>5. QED BY <1>2, <1>3, <1>4, PayMoves

\* A loan enters the ledger once, and only when the bank took the transfer,
\* however often a late confirmation sends it through the approvals again.
THEOREM LedgerOnce == Spec => []BookedOnce
<1> DEFINE Inv == Base /\ OneLocker /\ Answered /\ BookedOnce
<1>1. Init => Inv
    <2> SUFFICES ASSUME Init
                 PROVE  OneLocker /\ Answered /\ BookedOnce
        BY BaseStarts
    <2>1. QED BY IdleRow DEF Init, GuaranteesInit, NoRow, OneLocker, Locks, Answered, BookedOnce
<1>2. Inv /\ [Next]_vars => Inv'
    <2>1. CASE Inv /\ Next
        BY <2>1, BaseKeeps, OneLockerKeeps, AnsweredKeeps, BookedKeeps DEF Base
    <2>2. CASE Inv /\ UNCHANGED vars
        <3>1. Base'
            BY <2>2, BaseKeeps
        <3>2. UNCHANGED <<loan, hand, prov>>
            BY <2>2 DEF vars, guaranteeVars
        <3>3. QED BY <2>2, <3>1, <3>2 DEF OneLocker, Locks, Answered, BookedOnce
    <2>3. QED BY <2>1, <2>2
<1>3. QED BY <1>1, <1>2, PTL DEF Spec

-----------------------------------------------------------------------------
(* The mandate to disburse                                                 *)

\* Why a handler is where it is.
ByApproval(k) == hand[k].vote = "approve" /\ hand[k].res = "approved"
BySuper(k) == hand[k].vote = "none" /\ hand[k].who \in Supers
Kind(k) ==
    /\ hand[k].pc = "sign" /\ hand[k].from = "admin_approved" => hand[k].who \in Supers
    /\ hand[k].pc \in {"vote", "tally"} /\ hand[k].vote = "approve" => hand[k].from = "admin_approved"
    /\ hand[k].pc = "finalize" =>
         \/ ByApproval(k) /\ hand[k].from = "admin_approved"
         \/ BySuper(k) /\ hand[k].from = "super_approved_1"
    /\ hand[k].pc \in {"pay", "book"} => ByApproval(k) \/ BySuper(k)
    /\ hand[k].pc \in {"vote", "tally", "finalize", "pay", "book"} \/ hand[k].vote = "none"
Kinds == \A k \in Hands : Kind(k)

\* A handler got where it is by a super admin or by the committee.
LEMMA KindsKeep ==
    ASSUME TypeInv, Kinds, Next
    PROVE  Kinds'
<1>0. hand \in HandType
    BY DEF TypeInv, TypeOK, HandType
<1> SUFFICES ASSUME NEW k \in Hands
             PROVE  Kind(k)'
    BY DEF Kinds
<1>1. Kind(k)
    BY DEF Kinds
<1>2. CASE hand'[k] = hand[k]
    BY <1>1, <1>2 DEF Kind, ByApproval, BySuper
<1>3. CASE Starts /\ hand'[k] # hand[k]
    <2>1. PICK j \in Hands, m \in Persons, l \in Loans :
              \/ StartsAs(j, m, l, "confirm", "none", "none")
              \/ StartsAs(j, m, l, "accept", "none", "none")
              \/ StartsAs(j, m, l, "decline", "none", "none")
              \/ StartsAs(j, m, l, "swap", "none", "none")
              \/ StartsAs(j, m, l, "reject", "pending", "none")
              \/ StartsAs(j, m, l, "vote", loan[l].status, "reject")
              \/ StartsAs(j, m, l, "sign", loan[l].status, "none") /\ Stage(m, l)
              \/ StartsAs(j, m, l, "finalize", "super_approved_1", "none") /\ m \in Supers
              \/ StartsAs(j, m, l, "vote", "admin_approved", "approve")
        BY <1>3, StartKinds
    <2>2. j = k
        BY <1>3, <2>1 DEF StartsAs, Started, HandIs
    <2>3. CASE StartsAs(k, m, l, "sign", loan[l].status, "none") /\ Stage(m, l)
        BY <2>3 DEF StartsAs, Started, HandIs, Kind, Stage
    <2>4. CASE StartsAs(k, m, l, "finalize", "super_approved_1", "none") /\ m \in Supers
        BY <2>4 DEF StartsAs, Started, HandIs, Kind, BySuper
    <2>5. CASE StartsAs(k, m, l, "vote", "admin_approved", "approve")
               \/ StartsAs(k, m, l, "vote", loan[l].status, "reject")
        BY <2>5 DEF StartsAs, Started, HandIs, Kind
    <2>6. CASE \E pc \in {"confirm", "accept", "decline", "swap", "reject"}, from \in {"none", "pending"} :
                  StartsAs(k, m, l, pc, from, "none")
        BY <2>6 DEF StartsAs, Started, HandIs, Kind
    <2>7. QED BY <2>1, <2>2, <2>3, <2>4, <2>5, <2>6
<1>4. CASE GoesOn(k)
    <2>1. hand[k].vote \in {"none", "approve", "reject"}
        BY <1>0 DEF HandType, HandRow
    <2>2. QED BY <1>1, <1>4, <2>1, GoesDo DEF Moved, HandIs, Kind, ByApproval, BySuper
<1>5. CASE hand'[k].pc = "idle" /\ hand'[k] # hand[k]
    <2>1. hand'[k].vote = "none"
        <3>1. CASE Starts
            BY <1>5, <3>1, StartsDo DEF Started1, Started, HandIs
        <3>2. CASE \E j \in Hands : GoesOn(j)
            <4>1. PICK j \in Hands : GoesOn(j)
                BY <3>2
            <4>2. QED BY <1>5, <4>1, GoesDo DEF Moved, HandIs
        <3>3. CASE \E j \in Hands : Return(j)
            BY <1>0, <1>5, <3>3, Returns DEF IdleNow, HandIs
        <3>4. QED BY <1>5, <3>1, <3>2, <3>3, HandWrites
    <2>2. QED BY <1>5, <2>1 DEF Kind
<1>6. QED BY <1>2, <1>3, <1>4, <1>5, HandGoes

\* The first of two signatures is a super admin's.
FirstSuper == \A l \in Loans : loan[l].status = "super_approved_1" => loan[l].super1 \in Supers
LEMMA FirstSuperKeeps ==
    ASSUME TypeInv, Kinds, FirstSuper, Next
    PROVE  FirstSuper'
<1> SUFFICES ASSUME NEW l \in Loans, loan'[l].status = "super_approved_1"
             PROVE  loan'[l].super1 \in Supers
    BY DEF FirstSuper
<1>1. CASE loan'[l] = loan[l]
    BY <1>1 DEF FirstSuper
<1>2. CASE \E k \in Hands : Signs(k)
    <2>1. PICK k \in Hands : Signs(k)
        BY <1>2
    <2>2. Kind(k)
        BY DEF Kinds
    <2>3. CASE hand[k].l = l
        BY <2>1, <2>2, <2>3, SignsDo DEF Signed, RowIs, Kind
    <2>4. CASE hand[k].l # l
        <3>1. loan'[l] = loan[l]
            BY <2>1, <2>4, SignsDo DEF Signed, RowIs
        <3>2. QED BY <1>1, <3>1
    <2>5. QED BY <2>3, <2>4
<1>3. CASE \E k \in Hands : Commits(k)
    <2>1. PICK k \in Hands : Commits(k)
        BY <1>3
    <2>2. \E st \in {"approved", "disbursed"} : \E paid, n :
              Committed(loan', loan, hand[k].l, st, hand[k].who, paid, n)
        BY <2>1, CommitsDo DEF CommitsWith
    <2>3. QED BY <1>1, <2>2 DEF Committed, RowIs
<1>4. CASE \E k \in Hands : ConfirmGuarantee(k) \/ DecideRejected(k) \/ RejectPending(k)
    <2>1. PICK k \in Hands : ConfirmGuarantee(k) \/ DecideRejected(k) \/ RejectPending(k)
        BY <1>4
    <2>2. UNCHANGED loan \/ \E st \in {"guaranteed", "rejected"} : Restated(loan', loan, hand[k].l, st)
        BY <2>1, RestatesDo
    <2>3. QED BY <1>1, <2>2 DEF Restated, Signed, RowIs
<1>5. CASE \E i \in Loans : (\E m \in Managers : RejectByOfficer(m, i)) \/ Repaid(i)
    <2>1. PICK i \in Loans, st \in {"rejected_by_officer", "paid"} : Restated(loan', loan, i, st)
        BY <1>5, EndsDo
    <2>2. QED BY <1>1, <2>1 DEF Restated, Signed, RowIs
<1>6. CASE \E b \in Persons, i \in Loans : Asks(b, i)
    <2>1. PICK b \in Persons, i \in Loans, st \in {"pending", "guaranteed"} : Applied(loan', loan, i, st, b)
        BY <1>6, AsksDo
    <2>2. QED BY <1>1, <2>1 DEF Applied, RowIs
<1>7. QED BY <1>1, <1>2, <1>3, <1>4, <1>5, <1>6, LoanWrites

\* A voter has no vote on the loan yet.
Unvoted ==
    \A k \in Hands :
        hand[k].pc # "idle" /\ hand[k].vote # "none" => votes[hand[k].l][hand[k].who] = "none"

\* A vote stays as it was cast.
LEMMA VotesStay ==
    ASSUME TypeInv, Unvoted, Next, NEW l \in Loans, NEW m \in Persons,
           \A k \in Hands : hand[k].pc # "idle" /\ hand'[k].pc = "idle" => hand[k].who # m \/ votes[l][m] # "none"
    PROVE  votes'[l][m] = votes[l][m]
<1>1. CASE UNCHANGED <<dec, votes>>
    BY <1>1
<1>2. CASE \E k \in Hands : /\ RecordVote(k) /\ Return(k)
                            /\ hand[k].pc \in {"tally", "finalize", "pay", "book"}
    <2>1. PICK k \in Hands : /\ RecordVote(k) /\ Return(k)
                             /\ hand[k].pc \in {"tally", "finalize", "pay", "book"}
        BY <1>2
    <2>2. hand \in HandType /\ votes \in VoteType /\ hand[k].l \in Loans /\ hand[k].who \in Persons
        BY <2>1 DEF TypeInv, TypeOK, HandType, VoteType, HandsRefer
    <2>3. hand'[k].pc = "idle"
        BY <2>1, <2>2, Returns DEF IdleNow, HandIs
    <2>4. hand[k].vote = "none" \/ hand[k].l # l \/ hand[k].who # m
        BY <2>1, <2>3 DEF Unvoted
    <2>5. QED BY <2>1, <2>2, <2>4 DEF RecordVote, VoteType
<1>3. QED BY <1>1, <1>2, VoteWrites

\* Nobody else votes in the name of a voter who is at work.
LEMMA UnvotedKeeps ==
    ASSUME TypeInv, OneAtATime, Unvoted, Next
    PROVE  Unvoted'
<1> SUFFICES ASSUME NEW k \in Hands, hand'[k].pc # "idle", hand'[k].vote # "none"
             PROVE  votes'[hand'[k].l][hand'[k].who] = "none"
    BY DEF Unvoted
<1>1. CASE /\ hand[k].pc # "idle" /\ hand'[k].vote = hand[k].vote
           /\ hand'[k].l = hand[k].l /\ hand'[k].who = hand[k].who
    <2>1. hand[k].l \in Loans /\ hand[k].who \in Persons /\ votes[hand[k].l][hand[k].who] = "none"
        BY <1>1 DEF TypeInv, HandsRefer, Unvoted
    <2>2. \A j \in Hands : hand[j].pc # "idle" /\ hand'[j].pc = "idle" => hand[j].who # hand[k].who
        BY <1>1 DEF OneAtATime
    <2>3. QED BY <1>1, <2>1, <2>2, VotesStay
<1>2. CASE Starts /\ hand'[k] # hand[k]
    <2>1. PICK j \in Hands, m \in Persons, l \in Loans :
              /\ ~Busy(m)
              /\ \/ \E pc, from : StartsAs(j, m, l, pc, from, "none")
                 \/ votes[l][m] = "none" /\ \E pc, from, v : StartsAs(j, m, l, pc, from, v)
        BY <1>2, StartKinds
    <2>2. j = k /\ hand'[k].l = l /\ hand'[k].who = m
        BY <1>2, <2>1 DEF StartsAs, Started, HandIs
    <2>3. votes[l][m] = "none"
        BY <2>1, <2>2 DEF StartsAs, Started, HandIs
    <2>4. \A h \in Hands : hand[h].who # m
        BY <2>1 DEF Busy
    <2>5. QED BY <2>2, <2>3, <2>4, VotesStay
<1>3. CASE GoesOn(k)
    BY <1>1, <1>3, GoesDo DEF Moved, HandIs
<1>4. QED BY <1>1, <1>2, <1>3, HandGoes

\* The votes to approve only grow.
LEMMA VotersGrow ==
    ASSUME TypeInv, Unvoted, Next, NEW l \in Loans
    PROVE  Voters(l, "approve") \subseteq Voters(l, "approve")'
BY VotesStay DEF Voters

\* m's vote and those that are committed make a majority.
Mandated(l, m) == Cardinality(Voters(l, "approve") \cup {m}) >= Majority
Tallied ==
    \A k \in Hands, l \in Loans, m \in Persons :
        /\ hand[k].pc \in {"tally", "finalize", "pay", "book"} /\ ByApproval(k)
        /\ hand[k].l = l /\ hand[k].who = m
        => Mandated(l, m)

\* Seats and majorities are natural numbers.
LEMMA MajorityNat == Majority \in Nat /\ Size \in Nat
<1>1. Size \in Nat
    BY LoansAssumption
<1>2. QED BY <1>1 DEF Majority

\* A majority stays one.
LEMMA MandateKeeps ==
    ASSUME TypeInv, Unvoted, Next, NEW l \in Loans, NEW m \in Persons, Mandated(l, m)
    PROVE  Mandated(l, m)'
<1> DEFINE A == Voters(l, "approve") \cup {m}
           B == Voters(l, "approve")' \cup {m}
<1>1. A \subseteq B /\ B \subseteq Persons /\ IsFiniteSet(Persons)
    BY VotersGrow, GuaranteesAssumption DEF Voters
<1>2. IsFiniteSet(B)
    BY <1>1, FS_Subset
<1>3. Cardinality(A) <= Cardinality(B) /\ Cardinality(A) \in Nat /\ Cardinality(B) \in Nat
    BY <1>1, <1>2, FS_Subset, FS_CardinalityType
<1>4. Cardinality(A) >= Majority
    BY DEF Mandated
<1> HIDE DEF A, B
<1>5. Cardinality(B) >= Majority
    BY <1>3, <1>4, MajorityNat
<1>6. QED BY <1>5 DEF Mandated, B, Majority

\* A tally that approves on a vote to approve counted a majority.
LEMMA TallyMandates ==
    ASSUME TypeInv, NEW l \in Loans, NEW m \in Persons, votes[l][m] = "none", NEW r \in Nat,
           Tally(Cardinality(Voters(l, "approve")) + 1, r) = "approved"
    PROVE  Mandated(l, m)
<1> DEFINE A == Voters(l, "approve")
<1>1. A \subseteq Persons /\ IsFiniteSet(Persons) /\ m \notin A
    BY GuaranteesAssumption DEF Voters
<1>2. IsFiniteSet(A)
    BY <1>1, FS_Subset
<1>3. Cardinality(A \cup {m}) = Cardinality(A) + 1
    BY <1>1, <1>2, FS_AddElement
<1>4. Cardinality(A) + 1 >= Majority
    BY DEF Tally
<1>5. QED BY <1>3, <1>4 DEF Mandated

\* A finalizer that came by the committee counted a majority, and still has it.
LEMMA TalliedKeeps ==
    ASSUME TypeInv, Unvoted, Tallied, Next
    PROVE  Tallied'
<1> SUFFICES ASSUME NEW k \in Hands, NEW l \in Loans, NEW m \in Persons,
                    hand'[k].pc \in {"tally", "finalize", "pay", "book"}, ByApproval(k)',
                    hand'[k].l = l, hand'[k].who = m
             PROVE  Mandated(l, m)'
    BY DEF Tallied
<1>1. CASE /\ hand[k].pc \in {"tally", "finalize", "pay", "book"} /\ ByApproval(k)
           /\ hand[k].l = l /\ hand[k].who = m
    BY <1>1, MandateKeeps DEF Tallied
<1>2. CASE hand'[k] = hand[k]
    BY <1>1, <1>2 DEF ByApproval
<1>3. CASE GoesOn(k)
    <2>1. hand[k].l = l /\ hand[k].who = m /\ hand[k].vote = "approve" /\ hand[k].pc # "idle"
        BY <1>3, GoesDo DEF Moved, HandIs, ByApproval
    <2>2. CASE hand[k].pc = "vote"
        <3> DEFINE r == Cardinality(Voters(l, "reject")) + 0
                   a == Cardinality(Voters(l, "approve")) + 1
        <3>1. Tally(a, r) = "approved"
            BY <1>3, <2>1, <2>2, GoesDo DEF Moved, HandIs, ByApproval
        <3>2. r \in Nat
            <4>1. Voters(l, "reject") \subseteq Persons /\ IsFiniteSet(Persons)
                BY GuaranteesAssumption DEF Voters
            <4>2. Cardinality(Voters(l, "reject")) \in Nat
                BY <4>1, FS_Subset, FS_CardinalityType
            <4>3. QED BY <4>2
        <3>3. votes[l][m] = "none"
            BY <2>1 DEF Unvoted
        <3>4. Mandated(l, m)
            BY <3>1, <3>2, <3>3, TallyMandates
        <3>5. QED BY <3>4, MandateKeeps
    <2>3. CASE hand[k].pc # "vote"
        <3>1. hand[k].pc \in {"tally", "finalize", "pay", "book"} /\ ByApproval(k)
            BY <1>3, <2>1, <2>3, GoesDo DEF Moved, HandIs, ByApproval
        <3>2. QED BY <1>1, <2>1, <3>1
    <2>4. QED BY <2>2, <2>3
<1>4. CASE Starts /\ hand'[k] # hand[k]
    BY <1>4, StartsDo DEF Started1, Started, HandIs, ByApproval
<1>5. QED BY <1>2, <1>3, <1>4, HandGoes

\* What the finalizer of l found in the row it locked.
PaidRow ==
    \A k \in Hands :
        Locks(k) =>
            /\ loan[hand[k].l].status \in {"admin_approved", "super_approved_1"}
            /\ BySuper(k) => loan[hand[k].l].super1 \in Supers \ {hand[k].who}

\* The row under a finalizer's lock was at its last approval.
LEMMA PaidRowKeeps ==
    ASSUME TypeInv, OneLocker, Kinds, FirstSuper, SignersMay, PaidRow, Next
    PROVE  PaidRow'
<1> SUFFICES ASSUME NEW k \in Hands, Locks(k)'
             PROVE  /\ loan'[hand'[k].l].status \in {"admin_approved", "super_approved_1"}
                    /\ BySuper(k)' => loan'[hand'[k].l].super1 \in Supers \ {hand'[k].who}
    BY DEF PaidRow
<1>1. CASE Locks(k)
    <2>1. hand'[k].l = hand[k].l /\ hand'[k].who = hand[k].who /\ hand'[k].vote = hand[k].vote
        BY <1>1, LockMoves DEF Moved, HandIs, Locks
    <2>2. loan'[hand[k].l] = loan[hand[k].l]
        BY <1>1, RowStays
    <2>3. QED BY <1>1, <2>1, <2>2 DEF PaidRow, BySuper
<1>2. CASE ~Locks(k)
    <2>1. /\ hand[k].pc = "finalize" /\ loan[hand[k].l].status = hand[k].from /\ UNCHANGED loan
          /\ hand'[k].l = hand[k].l /\ hand'[k].who = hand[k].who /\ hand'[k].vote = hand[k].vote
        BY <1>2, LockMoves DEF Locks, Still, Moved, HandIs
    <2>2. /\ hand[k].l \in Loans /\ Kind(k) /\ hand[k].who \notin Signers(hand[k].l)
        BY <2>1 DEF TypeInv, HandsRefer, Kinds, SignersMay, WillSign, MaySign
    <2>3. hand[k].from \in {"admin_approved", "super_approved_1"}
        BY <2>1, <2>2 DEF Kind
    <2>4. BySuper(k)' => hand[k].from = "super_approved_1"
        BY <2>1, <2>2 DEF Kind, BySuper, ByApproval
    <2>5. QED BY <2>1, <2>2, <2>3, <2>4 DEF FirstSuper, Signers
<1>3. QED BY <1>1, <1>2

\* All that a disbursement's mandate rests on.
Mandate == SignersMay /\ OneRoleEach /\ OneLocker /\ Kinds /\ FirstSuper /\ Unvoted /\ Tallied /\ PaidRow

\* All of it holds at the start.
LEMMA MandateStarts == Init => Mandate
<1> SUFFICES ASSUME Init
             PROVE  Mandate
    OBVIOUS
<1>1. \A k \in Hands : hand[k] = Idle
    BY DEF Init, GuaranteesInit
<1>2. SignersMay /\ OneLocker /\ Kinds /\ Unvoted /\ Tallied /\ PaidRow
    BY <1>1, IdleRow DEF SignersMay, WillSign, OneLocker, Locks, Kinds, Kind, Unvoted, Tallied, PaidRow
<1>3. OneRoleEach /\ FirstSuper
    BY DEF Init, GuaranteesInit, NoRow, OneRoleEach, FirstSuper
<1>4. QED BY <1>2, <1>3 DEF Mandate

\* Every step keeps all of it.
LEMMA MandateHolds ==
    ASSUME Base, Mandate, [Next]_vars
    PROVE  Mandate'
<1>1. CASE Next
    BY <1>1, SignersKeep, OneLockerKeeps, KindsKeep, FirstSuperKeeps, UnvotedKeeps, TalliedKeeps,
       PaidRowKeeps DEF Base, Mandate
<1>2. CASE UNCHANGED vars
    <2>1. UNCHANGED <<loan, hand, votes>>
        BY <1>2 DEF vars, guaranteeVars, committeeVars
    <2>2. (SignersMay /\ OneRoleEach /\ OneLocker /\ FirstSuper /\ PaidRow)'
        BY <2>1 DEF Mandate, SignersMay, WillSign, MaySign, Signers, OneRoleEach, OneLocker, Locks,
            FirstSuper, PaidRow, BySuper
    <2>3. (Kinds /\ Unvoted /\ Tallied)'
        BY <2>1 DEF Mandate, Kinds, Kind, ByApproval, BySuper, Unvoted, Tallied, Mandated, Voters, Majority
    <2>4. QED BY <2>2, <2>3 DEF Mandate
<1>3. QED BY <1>1, <1>2

\* It gives the mandate the property asks for.
LEMMA MandatePays ==
    ASSUME Base, Mandate
    PROVE  PaidByMandate
<1> SUFFICES ASSUME NEW k \in Hands, Locks(k)
             PROVE  \/ hand[k].who \in Supers /\ loan[hand[k].l].super1 \in Supers \ {hand[k].who}
                    \/ Cardinality(Voters(hand[k].l, "approve") \cup {hand[k].who}) >= Majority
    BY DEF PaidByMandate, Locks
<1>1. Kind(k) /\ hand[k].l \in Loans /\ hand[k].who \in Persons
    BY DEF Base, TypeInv, HandsRefer, Mandate, Kinds, Locks
<1>2. CASE ByApproval(k)
    BY <1>1, <1>2 DEF Mandate, Tallied, Mandated, Locks
<1>3. CASE BySuper(k)
    BY <1>1, <1>3 DEF Mandate, PaidRow, BySuper
<1>4. QED BY <1>1, <1>2, <1>3 DEF Kind, Locks

\* A handler that disburses holds two super admins' signatures, or the votes of
\* a majority of the committee's configured seats, whoever voted or left meanwhile.
THEOREM DisbursedByMandate == Spec => []PaidByMandate
<1>1. Spec => [](Base /\ Mandate)
    <2>1. Init => Base /\ Mandate
        BY BaseStarts, MandateStarts
    <2>2. Base /\ Mandate /\ [Next]_vars => (Base /\ Mandate)'
        BY BaseKeeps, MandateHolds
    <2>3. QED BY <2>1, <2>2, PTL DEF Spec
<1>2. Base /\ Mandate => PaidByMandate
    BY MandatePays
<1>3. QED BY <1>1, <1>2, PTL

-----------------------------------------------------------------------------
(* Guarantors                                                              *)

\* m is being exchanged for no one: he is confirming.
Firm(l, B) == \A m \in B : m \in Persons /\ gua[l][m] # "none" /\ Confirming(l, m)
Backers(l, B) == Confirmed(l) \cup B

\* No step leaves a loan with fewer guarantors; B are those that are confirming.
LEMMA BackersKeep ==
    ASSUME TypeInv, Next, NEW l \in Loans, NEW B, Firm(l, B), NEW n \in Nat,
           Cardinality(Backers(l, B)) >= n
    PROVE  Cardinality(Backers(l, B)') >= n
<1> DEFINE C == Confirmed(l) \cup B
           D == Confirmed(l)' \cup B
<1>1. C \subseteq Persons /\ D \subseteq Persons /\ IsFiniteSet(Persons)
    BY GuaranteesAssumption DEF Confirmed, Firm
<1>2. IsFiniteSet(C) /\ IsFiniteSet(D)
    BY <1>1, FS_Subset
<1>3. Cardinality(C) \in Nat /\ Cardinality(D) \in Nat /\ Cardinality(C) >= n
    BY <1>2, FS_CardinalityType DEF Backers
<1>4. SUFFICES Cardinality(D) >= Cardinality(C)
    <2>1. Cardinality(D) >= n
        BY <1>3, <1>4
    <2>2. QED BY <2>1 DEF Backers
<1>5. CASE C \subseteq D
    BY <1>2, <1>3, <1>5, FS_Subset
<1>6. CASE UNCHANGED gua
    BY <1>5, <1>6 DEF Confirmed
<1>7. CASE \E i \in Loans, m \in Persons : AddGuarantor(i, m)
    <2>1. PICK i \in Loans, m \in Persons : AddGuarantor(i, m)
        BY <1>7
    <2>2. GuaIs(gua', gua, i, m, "pending") /\ gua[i][m] = "none"
        BY <2>1, AddDoes
    <2>3. C \subseteq D
        BY <2>2 DEF GuaIs, Confirmed
    <2>4. QED BY <1>5, <2>3
<1>8. CASE \E k \in Hands : ConfirmGuarantee(k)
    <2>1. PICK k \in Hands : ConfirmGuarantee(k)
        BY <1>8
    <2>2. GuaIs(gua', gua, hand[k].l, hand[k].who, "confirmed")
        BY <2>1, ConfirmDoes
    <2>3. C \subseteq D
        BY <2>2 DEF GuaIs, Confirmed
    <2>4. QED BY <1>5, <2>3
<1>9. CASE \E k \in Hands : SwapGuarantor(k)
    <2>1. PICK k \in Hands : SwapGuarantor(k)
        BY <1>9
    <2> DEFINE r == swap[hand[k].x]
    <2>2. /\ r.l \in Loans /\ r.new \in Persons /\ r.old \in Persons /\ r.new # r.old
          /\ gua[r.l][r.new] = "none" /\ ~Confirming(r.l, r.old)
          /\ \E g \in GuaType : /\ GuaIs(g, gua, r.l, r.new, "confirmed")
                                /\ GuaIs(gua', g, r.l, r.old, "released")
        BY <2>1, SwapDoes
    <2>3. PICK new \in Persons, old \in Persons, i \in Loans :
            /\ new # old /\ gua[i][new] = "none" /\ ~Confirming(i, old)
            /\ \E g \in GuaType : GuaIs(g, gua, i, new, "confirmed") /\ GuaIs(gua', g, i, old, "released")
        BY <2>2
    <2>4. CASE i # l
        <3>1. C \subseteq D
            BY <2>3, <2>4 DEF GuaIs, Confirmed
        <3>2. QED BY <1>5, <3>1
    <2>5. CASE i = l
        <3> DEFINE E == C \cup {new}
        <3>1. new \notin C /\ old \notin B
            BY <2>3, <2>5 DEF Confirmed, Firm
        <3>2. E \ {old} \subseteq D
            BY <2>3, <2>5, <3>1 DEF GuaIs, Confirmed
        <3> HIDE DEF C, D
        <3>3. IsFiniteSet(E) /\ Cardinality(E) = Cardinality(C) + 1
            BY <1>2, <3>1, FS_AddElement
        <3> HIDE DEF E
        <3>4. IsFiniteSet(E \ {old}) /\ Cardinality(E \ {old}) >= Cardinality(C)
            <4>1. CASE old \in E
                <5>1. IsFiniteSet(E \ {old}) /\ Cardinality(E \ {old}) = Cardinality(E) - 1
                    BY <3>3, <4>1, FS_RemoveElement
                <5> DEFINE e == Cardinality(E)
                           c == Cardinality(C)
                <5>2. e = c + 1 /\ c \in Nat
                    BY <1>3, <3>3
                <5>3. Cardinality(E \ {old}) = e - 1
                    BY <5>1
                <5> HIDE DEF e, c
                <5>4. e - 1 >= c
                    BY <5>2
                <5>5. Cardinality(E \ {old}) >= c
                    BY <5>3, <5>4
                <5>6. QED BY <5>1, <5>5 DEF c
            <4>2. CASE old \notin E
                <5>1. E \ {old} = E
                    BY <4>2
                <5>2. Cardinality(E) >= Cardinality(C)
                    BY <3>3, <1>3
                <5>3. QED BY <5>1, <5>2, <3>3
            <4>3. QED BY <4>1, <4>2
        <3>5. Cardinality(E \ {old}) <= Cardinality(D)
            BY <1>2, <3>2, FS_Subset
        <3>6. Cardinality(E \ {old}) \in Nat
            BY <3>4, FS_CardinalityType
        <3>7. QED BY <1>3, <3>4, <3>5, <3>6
    <2>6. QED BY <2>4, <2>5
<1>10. QED BY <1>6, <1>7, <1>8, <1>9, GuaWrites

\* Whoever was asked stays a guarantor, released or not.
LEMMA GuaStays ==
    ASSUME TypeInv, Next, NEW l \in Loans, NEW m \in Persons, gua[l][m] # "none"
    PROVE  gua'[l][m] # "none"
<1>1. CASE \E i \in Loans, p \in Persons : AddGuarantor(i, p)
    BY <1>1, AddDoes DEF GuaIs
<1>2. CASE \E k \in Hands : ConfirmGuarantee(k)
    BY <1>2, ConfirmDoes DEF GuaIs
<1>3. CASE \E k \in Hands : SwapGuarantor(k)
    <2>1. PICK k \in Hands : SwapGuarantor(k)
        BY <1>3
    <2>2. PICK g \in GuaType : /\ GuaIs(g, gua, swap[hand[k].x].l, swap[hand[k].x].new, "confirmed")
                               /\ GuaIs(gua', g, swap[hand[k].x].l, swap[hand[k].x].old, "released")
        BY <2>1, SwapDoes
    <2>3. g[l][m] # "none"
        BY <2>2 DEF GuaIs
    <2>4. QED BY <2>2, <2>3 DEF GuaIs
<1>4. QED BY <1>1, <1>2, <1>3, GuaWrites

\* Who confirms was asked.
Answering ==
    \A k \in Hands, l \in Loans, m \in Persons :
        hand[k].pc \in {"confirm", "counted"} /\ hand[k].l = l /\ hand[k].who = m => gua[l][m] # "none"

\* Who was asked when his handler read the code still is.
LEMMA AnsweringKeeps ==
    ASSUME TypeInv, Answering, Next
    PROVE  Answering'
<1> SUFFICES ASSUME NEW k \in Hands, NEW l \in Loans, NEW m \in Persons,
                    hand'[k].pc \in {"confirm", "counted"}, hand'[k].l = l, hand'[k].who = m
             PROVE  gua'[l][m] # "none"
    BY DEF Answering
<1>1. CASE hand'[k] = hand[k]
    BY <1>1, GuaStays DEF Answering
<1>2. CASE GoesOn(k)
    <2>1. hand[k].pc = "confirm" /\ hand[k].l = l /\ hand[k].who = m
        BY <1>2, GoesDo DEF Moved, HandIs
    <2>2. QED BY <2>1, GuaStays DEF Answering
<1>3. CASE Starts /\ hand'[k] # hand[k]
    <2>1. PICK j \in Hands, p \in Persons, i \in Loans :
              /\ UNCHANGED <<loan, gua, swap>>
              /\ \/ StartsAs(j, p, i, "confirm", "none", "none") /\ gua[i][p] # "none"
                 \/ \E pc \in {"accept", "decline", "swap", "reject", "vote", "sign", "finalize"} : \E from, v :
                        StartsAs(j, p, i, pc, from, v)
        BY <1>3, StartKinds
    <2>2. j = k
        BY <1>3, <2>1 DEF StartsAs, Started, HandIs
    <2>3. QED BY <2>1, <2>2 DEF StartsAs, Started, HandIs
<1>4. QED BY <1>1, <1>2, <1>3, HandGoes

NotOwn == \A l \in Loans : loan[l].by \notin Asked(l)
SwapsFor ==
    \A x \in Swaps :
        swap[x].status # "none" =>
            LET r == loan[swap[x].l] IN swap[x].new # r.by /\ swap[x].old # r.by

\* No exchange names the borrower.
LEMMA SwapsForKeep ==
    ASSUME TypeInv, NotOwn, SwapsFor, Next
    PROVE  SwapsFor'
<1>1. /\ \A l \in Loans : loan[l].status # "none" => loan'[l].by = loan[l].by
      /\ SwapsContinue /\ SwapsRefer
    BY LoansContinue, SwapsKeep DEF Continues, TypeInv
<1>2. ASSUME NEW x \in Swaps, swap[x].status # "none"
      PROVE  swap'[x].new # loan'[swap'[x].l].by /\ swap'[x].old # loan'[swap'[x].l].by
    BY <1>1, <1>2 DEF SwapsContinue, SwapsRefer, SwapsFor
<1>3. ASSUME NEW x \in Swaps, swap[x].status = "none", swap'[x].status # "none"
      PROVE  swap'[x].new # loan'[swap'[x].l].by /\ swap'[x].old # loan'[swap'[x].l].by
    <2>1. CASE \E y \in Swaps, l \in Loans, old, new \in Persons : RequestSwap(y, l, old, new)
        <3>1. PICK y \in Swaps, l \in Loans, old \in Persons, new \in Persons : RequestSwap(y, l, old, new)
            BY <2>1
        <3>2. /\ UNCHANGED loan /\ \A z \in Swaps \ {y} : swap'[z] = swap[z]
              /\ swap'[y].l = l /\ swap'[y].old = old /\ swap'[y].new = new /\ new # loan[l].by
            BY <3>1, RequestDoes
        <3>3. gua[l][old] = "confirmed"
            BY <3>1 DEF RequestSwap
        <3>4. x = y /\ old # loan[l].by
            BY <1>3, <3>2, <3>3 DEF NotOwn, Asked
        <3>5. QED BY <3>2, <3>4
    <2>2. CASE UNCHANGED swap
        BY <1>3, <2>2
    <2>3. CASE \E k \in Hands : AcceptSwap(k) \/ DeclineSwap(k) \/ SwapGuarantor(k)
        <3>1. PICK k \in Hands : AcceptSwap(k) \/ DeclineSwap(k) \/ SwapGuarantor(k)
            BY <2>3
        <3>2. hand[k].x \in Swaps /\ swap[hand[k].x].status # "none" /\ swap \in SwapType
            BY <3>1 DEF AcceptSwap, DeclineSwap, SwapGuarantor, TypeInv, TypeOK, SwapType, HandsRefer
        <3>3. PICK st \in {"pending_admin", "approved", "rejected"} :
                  swap' = [swap EXCEPT ![hand[k].x].status = st]
            BY <3>1 DEF AcceptSwap, DeclineSwap, SwapGuarantor
        <3>4. \A y \in Swaps \ {hand[k].x} : swap'[y] = swap[y]
            BY <3>2, <3>3, MarkSwap
        <3>5. QED BY <1>3, <3>2, <3>4
    <2>4. QED BY <2>1, <2>2, <2>3, SwapWrites
<1>4. QED BY <1>2, <1>3 DEF SwapsFor

\* A loan comes to be when it is applied for.
LEMMA OnlyAsked ==
    ASSUME TypeInv, Next, NEW l \in Loans, loan[l].status = "none", loan'[l].status # "none"
    PROVE  UNCHANGED gua /\ (loan'[l].joint \/ loan'[l].status = "pending")
<1>1. \A k \in Hands : hand[k].pc # "idle" => hand[k].l # l
    BY DEF TypeInv, HandsRefer
<1>2. loan'[l] # loan[l]
    OBVIOUS
<1>3. ~\E k \in Hands : Signs(k)
    <2> SUFFICES ASSUME NEW k \in Hands, Signs(k)
                 PROVE  FALSE
        OBVIOUS
    <2>1. hand[k].l # l
        BY <1>1, SignsDo
    <2>2. QED BY <1>2, <2>1, SignsDo DEF Signed, RowIs
<1>4. ~\E k \in Hands : Commits(k)
    <2> SUFFICES ASSUME NEW k \in Hands, Commits(k)
                 PROVE  FALSE
        OBVIOUS
    <2>1. /\ hand[k].l # l
          /\ \E st, paid, n : Committed(loan', loan, hand[k].l, st, hand[k].who, paid, n)
        BY <1>1, CommitsDo DEF CommitsWith
    <2>2. QED BY <1>2, <2>1 DEF Committed, RowIs
<1>5. ~\E k \in Hands : ConfirmGuarantee(k) \/ DecideRejected(k) \/ RejectPending(k)
    <2> SUFFICES ASSUME NEW k \in Hands, ConfirmGuarantee(k) \/ DecideRejected(k) \/ RejectPending(k)
                 PROVE  FALSE
        OBVIOUS
    <2>1. hand[k].l # l
        BY <1>1 DEF ConfirmGuarantee, DecideRejected, RejectPending
    <2>2. UNCHANGED loan \/ \E st : Restated(loan', loan, hand[k].l, st)
        BY RestatesDo
    <2>3. QED BY <1>2, <2>1, <2>2 DEF Restated, Signed, RowIs
<1>6. ~\E i \in Loans : (\E m \in Managers : RejectByOfficer(m, i)) \/ Repaid(i)
    <2> SUFFICES ASSUME NEW i \in Loans, (\E m \in Managers : RejectByOfficer(m, i)) \/ Repaid(i)
                 PROVE  FALSE
        OBVIOUS
    <2>1. i # l /\ \E st : Restated(loan', loan, i, st)
        BY EndsDo
    <2>2. QED BY <1>2, <2>1 DEF Restated, Signed, RowIs
<1>7. PICK b \in Persons, i \in Loans : Asks(b, i)
    BY <1>2, <1>3, <1>4, <1>5, <1>6, LoanWrites
<1>8. UNCHANGED gua /\ (\/ Applied(loan', loan, i, "pending", b)
                        \/ Applied(loan', loan, i, "guaranteed", b) /\ loan'[i].joint)
    BY <1>7, AsksDo
<1>9. i = l
    BY <1>2, <1>8 DEF Applied, RowIs
<1>10. QED BY <1>8, <1>9 DEF Applied, RowIs

\* So the borrower never becomes a guarantor.
LEMMA NotOwnKeeps ==
    ASSUME TypeInv, Answering, SwapsFor, NotOwn, Next
    PROVE  NotOwn'
<1> SUFFICES ASSUME NEW l \in Loans, NEW m \in Persons, loan'[l].by = m
             PROVE  gua'[l][m] = "none"
    BY DEF NotOwn, Asked
<1>1. CASE loan[l].status = "none" /\ loan'[l].status = "none"
    BY <1>1, GuaKeepsType DEF GuaFresh
<1>2. CASE loan[l].status = "none" /\ loan'[l].status # "none"
    <2>1. UNCHANGED gua
        BY <1>2, OnlyAsked
    <2>2. QED BY <1>2, <2>1 DEF TypeInv, GuaFresh
<1>3. CASE loan[l].status # "none"
    <2>1. loan[l].by = m /\ gua[l][m] = "none"
        BY <1>3, LoansContinue DEF Continues, NotOwn, Asked
    <2>2. CASE UNCHANGED gua
        BY <2>1, <2>2
    <2>3. CASE \E i \in Loans, p \in Persons : AddGuarantor(i, p)
        BY <2>1, <2>3, AddDoes DEF GuaIs
    <2>4. CASE \E k \in Hands : ConfirmGuarantee(k)
        <3>1. PICK k \in Hands : ConfirmGuarantee(k)
            BY <2>4
        <3>2. /\ hand[k].l \in Loans /\ hand[k].who \in Persons /\ hand[k].pc = "counted"
              /\ GuaIs(gua', gua, hand[k].l, hand[k].who, "confirmed")
            BY <3>1, ConfirmDoes
        <3>3. gua[hand[k].l][hand[k].who] # "none"
            BY <3>2 DEF Answering
        <3>4. QED BY <2>1, <3>2, <3>3 DEF GuaIs
    <2>5. CASE \E k \in Hands : SwapGuarantor(k)
        <3>1. PICK k \in Hands : SwapGuarantor(k)
            BY <2>5
        <3> DEFINE r == swap[hand[k].x]
        <3>2. /\ hand[k].x \in Swaps /\ r.status # "none"
              /\ \E g \in GuaType : /\ GuaIs(g, gua, r.l, r.new, "confirmed")
                                    /\ GuaIs(gua', g, r.l, r.old, "released")
            BY <3>1, SwapDoes
        <3>3. r.new # loan[r.l].by /\ r.old # loan[r.l].by
            BY <3>2 DEF SwapsFor
        <3>4. QED BY <2>1, <3>2, <3>3 DEF GuaIs
    <2>6. QED BY <2>2, <2>3, <2>4, <2>5, GuaWrites
<1>4. QED BY <1>1, <1>2, <1>3

\* Loans that have the guarantors they need.
Backed == Live \cup {"account_officer_approved"}
Suffices(l, B) == Cardinality(Backers(l, B)) >= Needed(loan[l].by)
CountedEnough ==
    \A k \in Hands, l \in Loans, m \in Persons :
        /\ hand[k].pc = "counted" /\ hand[k].res = "enough"
        /\ hand[k].l = l /\ hand[k].who = m
        => Suffices(l, {m})
LoansBacked ==
    \A l \in Loans : loan[l].status \in Backed /\ ~loan[l].joint => Suffices(l, {})

\* Enough guarantors stay enough.
LEMMA SufficesKeeps ==
    ASSUME TypeInv, Next, NEW l \in Loans, NEW B, Firm(l, B), Suffices(l, B), loan[l].status # "none"
    PROVE  Suffices(l, B)'
<1> DEFINE n == Needed(loan[l].by)
<1>1. n \in Nat
    BY DEF Needed
<1>2. Cardinality(Backers(l, B)) >= n
    BY DEF Suffices
<1>3. loan'[l].by = loan[l].by
    BY LoansContinue DEF Continues
<1>4. Needed(loan[l].by)' = n
    BY <1>3 DEF Needed
<1> HIDE DEF n
<1>5. Cardinality(Backers(l, B)') >= n
    BY <1>1, <1>2, BackersKeep
<1>6. QED BY <1>4, <1>5 DEF Suffices, Backers, Confirmed, Needed

\* The count a confirmation made is still right when it is written.
LEMMA CountedKeeps ==
    ASSUME TypeInv, Answering, CountedEnough, Next
    PROVE  CountedEnough'
<1> SUFFICES ASSUME NEW k \in Hands, NEW l \in Loans, NEW m \in Persons,
                    hand'[k].pc = "counted", hand'[k].res = "enough", hand'[k].l = l, hand'[k].who = m
             PROVE  Suffices(l, {m})'
    BY DEF CountedEnough
<1>1. CASE hand'[k] = hand[k]
    <2>1. Suffices(l, {m}) /\ loan[l].status # "none"
        BY <1>1 DEF CountedEnough, TypeInv, HandsRefer
    <2>2. Firm(l, {m})
        BY <1>1 DEF Firm, Confirming, Answering
    <2>3. QED BY <2>1, <2>2, SufficesKeeps
<1>2. CASE GoesOn(k) /\ hand'[k] # hand[k]
    <2>1. /\ hand[k].pc = "confirm" /\ hand[k].l = l /\ hand[k].who = m /\ Enough(l, m)
          /\ UNCHANGED <<loan, gua>>
        BY <1>2, GoesDo DEF Moved, HandIs
    <2>2. QED BY <2>1 DEF Enough, Suffices, Backers, Confirmed, Needed
<1>3. QED BY <1>1, <1>2, HandGoes

\* How a loan comes to be where it needs its guarantors.
LEMMA BackedMoves ==
    ASSUME TypeInv, PaidRow, Next, NEW l \in Loans, loan'[l].status \in Backed, ~loan'[l].joint
    PROVE  \/ loan[l].status \in Backed /\ ~loan[l].joint
           \/ \E k \in Hands : ConfirmGuarantee(k) /\ hand[k].l = l /\ hand[k].res = "enough"
<1>1. loan[l].status # "none" /\ loan'[l].joint = loan[l].joint
    <2>1. loan[l].status # "none"
        BY OnlyAsked DEF Backed, Live, Counted
    <2>2. QED BY <2>1, LoansContinue DEF Continues
<1>2. CASE loan'[l] = loan[l]
    BY <1>1, <1>2
<1>3. CASE \E k \in Hands : Signs(k)
    <2>1. PICK k \in Hands : Signs(k)
        BY <1>3
    <2>2. CASE hand[k].l = l
        <3>1. loan[l].status \in {"guaranteed", "account_officer_approved", "admin_approved"}
            BY <2>1, <2>2, SignsDo
        <3>2. QED BY <1>1, <3>1 DEF Backed, Live, Counted
    <2>3. CASE hand[k].l # l
        <3>1. loan'[l] = loan[l]
            BY <2>1, <2>3, SignsDo DEF Signed, RowIs
        <3>2. QED BY <1>2, <3>1
    <2>4. QED BY <2>2, <2>3
<1>4. CASE \E k \in Hands : Commits(k)
    <2>1. PICK k \in Hands : Commits(k)
        BY <1>4
    <2>2. /\ Locks(k)
          /\ \E st, paid, n : Committed(loan', loan, hand[k].l, st, hand[k].who, paid, n)
        BY <2>1, CommitsDo DEF CommitsWith, Locks
    <2>3. CASE hand[k].l = l
        BY <1>1, <2>2, <2>3 DEF PaidRow, Backed, Live, Counted
    <2>4. CASE hand[k].l # l
        <3>1. loan'[l] = loan[l]
            BY <2>2, <2>4 DEF Committed, RowIs
        <3>2. QED BY <1>2, <3>1
    <2>5. QED BY <2>3, <2>4
<1>5. CASE \E k \in Hands : ConfirmGuarantee(k) \/ DecideRejected(k) \/ RejectPending(k)
    <2>1. PICK k \in Hands : ConfirmGuarantee(k) \/ DecideRejected(k) \/ RejectPending(k)
        BY <1>5
    <2>2. \/ UNCHANGED loan
          \/ Restated(loan', loan, hand[k].l, "guaranteed") /\ ConfirmGuarantee(k)
          \/ Restated(loan', loan, hand[k].l, "rejected")
        BY <2>1, RestatesDo
    <2>3. CASE Restated(loan', loan, hand[k].l, "guaranteed") /\ ConfirmGuarantee(k)
        <3>1. CASE hand[k].l = l /\ hand[k].res = "enough"
            BY <2>3, <3>1
        <3>2. CASE hand[k].l # l
            BY <1>2, <2>3, <3>2 DEF Restated, Signed, RowIs
        <3>3. CASE hand[k].res # "enough"
            BY <1>2, <2>3, <3>3 DEF ConfirmGuarantee
        <3>4. QED BY <3>1, <3>2, <3>3
    <2>4. CASE Restated(loan', loan, hand[k].l, "rejected")
        <3>1. hand[k].l # l => loan'[l] = loan[l]
            BY <2>4 DEF Restated, Signed, RowIs
        <3>2. hand[k].l # l
            BY <2>4 DEF Restated, Signed, RowIs, Backed, Live, Counted
        <3>3. QED BY <1>2, <3>1, <3>2
    <2>5. QED BY <1>2, <2>2, <2>3, <2>4
<1>6. CASE \E i \in Loans : (\E m \in Managers : RejectByOfficer(m, i)) \/ Repaid(i)
    <2>1. PICK i \in Loans, st \in {"rejected_by_officer", "paid"} : Restated(loan', loan, i, st)
        BY <1>6, EndsDo
    <2>2. i # l
        BY <2>1 DEF Restated, Signed, RowIs, Backed, Live, Counted
    <2>3. QED BY <1>2, <2>1, <2>2 DEF Restated, Signed, RowIs
<1>7. CASE \E b \in Persons, i \in Loans : Asks(b, i)
    <2>1. PICK b \in Persons, i \in Loans : \E st : Applied(loan', loan, i, st, b) /\ loan[i].status = "none"
        BY <1>7, AsksDo
    <2>2. QED BY <1>1, <1>2, <2>1 DEF Applied, RowIs
<1>8. QED BY <1>2, <1>3, <1>4, <1>5, <1>6, <1>7, LoanWrites

\* A loan that gets where it needs guarantors has them.
LEMMA BackedKeeps ==
    ASSUME TypeInv, PaidRow, CountedEnough, LoansBacked, Next
    PROVE  LoansBacked'
<1> SUFFICES ASSUME NEW l \in Loans, loan'[l].status \in Backed, ~loan'[l].joint
             PROVE  Suffices(l, {})'
    BY DEF LoansBacked, Backed, Live, Counted
<1>1. CASE loan[l].status \in Backed /\ ~loan[l].joint
    <2>1. Firm(l, {}) /\ loan[l].status # "none"
        BY <1>1 DEF Firm, Backed, Live, Counted
    <2>2. Suffices(l, {})
        BY <1>1 DEF LoansBacked
    <2>3. QED BY <2>1, <2>2, SufficesKeeps
<1>2. CASE \E k \in Hands : ConfirmGuarantee(k) /\ hand[k].l = l /\ hand[k].res = "enough"
    <2>1. PICK k \in Hands : ConfirmGuarantee(k) /\ hand[k].l = l /\ hand[k].res = "enough"
        BY <1>2
    <2> DEFINE m == hand[k].who
    <2>2. /\ m \in Persons /\ hand[k].pc = "counted" /\ GuaIs(gua', gua, l, m, "confirmed")
          /\ loan[l].status # "none"
        BY <2>1, ConfirmDoes DEF TypeInv, HandsRefer
    <2>3. Suffices(l, {m})
        BY <2>1, <2>2 DEF CountedEnough
    <2>4. Confirmed(l)' = Confirmed(l) \cup {m}
        BY <2>2 DEF GuaIs, Confirmed
    <2>5. loan'[l].by = loan[l].by
        BY <2>2, LoansContinue DEF Continues
    <2>6. Backers(l, {})' = Backers(l, {m})
        BY <2>4 DEF Backers
    <2>7. QED BY <2>3, <2>5, <2>6 DEF Suffices, Needed
<1>3. QED BY <1>1, <1>2, BackedMoves

Backing == Answering /\ NotOwn /\ SwapsFor /\ CountedEnough /\ LoansBacked

\* From its guarantee to its end a loan has the guarantors it needs and none of
\* them is its borrower, whatever exchanges of guarantors are asked for or race.
THEOREM StaysGuaranteed == Spec => []KeepsGuarantors
<1> DEFINE Inv == Base /\ Mandate /\ Backing
<1>1. Init => Inv
    <2> SUFFICES ASSUME Init
                 PROVE  Backing
        BY BaseStarts, MandateStarts
    <2>1. Answering /\ CountedEnough
        BY IdleRow DEF Init, GuaranteesInit, Answering, CountedEnough
    <2>2. NotOwn /\ SwapsFor /\ LoansBacked
        BY DEF Init, GuaranteesInit, NoRow, NoRequest, NotOwn, Asked, SwapsFor, LoansBacked, Backed,
            Live, Counted
    <2>3. QED BY <2>1, <2>2 DEF Backing
<1>2. Inv /\ [Next]_vars => Inv'
    <2>1. CASE Inv /\ Next
        BY <2>1, BaseKeeps, MandateHolds, AnsweringKeeps, NotOwnKeeps, SwapsForKeep, CountedKeeps,
           BackedKeeps DEF Base, Mandate, Backing
    <2>2. CASE Inv /\ UNCHANGED vars
        <3>1. (Base /\ Mandate)'
            BY <2>2, BaseKeeps, MandateHolds
        <3>2. UNCHANGED <<loan, hand, gua, swap>>
            BY <2>2 DEF vars, guaranteeVars
        <3>3. Backing'
            BY <2>2, <3>2 DEF Backing, Answering, NotOwn, Asked, SwapsFor, CountedEnough, LoansBacked,
                Suffices, Backers, Confirmed, Needed
        <3>4. QED BY <3>1, <3>3
    <2>3. QED BY <2>1, <2>2
<1>3. Inv => KeepsGuarantors
    BY DEF Backing, KeepsGuarantors, NotOwn, LoansBacked, Backed, Suffices, Backers
<1>4. QED BY <1>1, <1>2, <1>3, PTL DEF Spec
=============================================================================
