------------------------------ MODULE Refunds ------------------------------
(* Refunds of a cooperative to its members (services/refunds.ts) and the
   ombudsman who decides a member's case and may order one as a remedy
   (services/ombudsman.ts).

   A chat handler of an admin or super admin is one transaction: it reads, and
   what it writes, provider call included, becomes visible at once. An
   ombudsman belongs to no cooperative, so his handler runs outside a
   transaction and each of its statements is seen by the others. *)
EXTENDS BankTransfer, Naturals

CONSTANTS
    Admins, Supers,  \* who may recommend; only Supers approve or reject
    RefundIds,       \* RefundRequest rows that may come to exist
    Clerks,          \* concurrent chat handlers of super admins
    Desks,           \* concurrent handlers of ombudsmen
    Nobody, NoRefund

VARIABLES
    refund,    \* RefundRequest: status, maker (recommendedById), checker (approvedById);
               \* unsure: its payoutRef begins with "unsure:"
    bank,      \* the transfer TFR-REFUND-<id>
    clerk,     \* approveRefund / rejectRefund of a super between its read and its commit
    case,      \* OmbudsmanCase: status, and the marker in remedy
    desk       \* an ombudsman's handler: pc, the refund it made, the status it read
               \* or the outcome of its transfer

refundVars == <<refund, bank, clerk>>
vars == <<refund, bank, clerk, case, desk>>

Ombudsman == "ombudsman"

NewRefund == [status |-> "none", unsure |-> FALSE, maker |-> Nobody, checker |-> Nobody]
IdleClerk == [pc |-> "idle", who |-> Nobody, r |-> NoRefund, saw |-> "none"]
IdleDesk == [pc |-> "idle", r |-> NoRefund, saw |-> "none"]

RefundStatus == {"none", "pending", "approved", "paid", "failed", "rejected"}

Init ==
    /\ refund = [r \in RefundIds |-> NewRefund]
    /\ bank = [r \in RefundIds |-> NoTransfer]
    /\ clerk = [k \in Clerks |-> IdleClerk]
    /\ case = [status |-> "none", remedy |-> "null"]
    /\ desk = [d \in Desks |-> IdleDesk]

Create(r, who) ==
    /\ refund[r].status = "none"
    /\ refund' = [refund EXCEPT ![r] = [NewRefund EXCEPT !.status = "pending", !.maker = who]]

\* A failed refund may be approved again; one whose outcome is unsure may not.
Unsure(r) == refund[r].status = "failed" /\ refund[r].unsure
Approvable(r) == refund[r].status \in {"pending", "failed"} /\ ~Unsure(r)

\* Mutant: the provider's word is stored as it is.
OutcomeRaw(answer) == answer

OutcomeStatus(answer) ==
    CASE answer = "successful" -> "paid"
      [] answer = "unsure" -> "unsure"
      [] OTHER -> "failed"

\* The row of a refund after the outcome o: an unsure one is stored as failed.
Marked(row, o) ==
    [row EXCEPT !.status = IF o = "unsure" THEN "failed" ELSE o, !.unsure = o = "unsure"]

-----------------------------------------------------------------------------
(* The chat *)

RecommendRefund(a, r) ==
    /\ a \in Admins \cup Supers
    /\ Create(r, a)
    /\ UNCHANGED <<bank, clerk, case, desk>>

Open(k, pc, s, r) ==
    /\ clerk[k].pc = "idle"
    /\ clerk' = [clerk EXCEPT ![k] = [pc |-> pc, who |-> s, r |-> r, saw |-> refund[r].status]]
    /\ UNCHANGED <<refund, bank, case, desk>>

ReadApprove(k, s, r) == s \in Supers /\ Approvable(r) /\ Open(k, "approve", s, r)

Close(k) == clerk' = [clerk EXCEPT ![k] = IdleClerk]

\* Mutant: the claim does not compare the status.
ClaimedAny(r, saw) == refund[r].status \in {"pending", "failed", "paid", "rejected"}

(* The claim succeeds only if the row still has the status that was read; what
   payoutRef says is not compared. The row is locked until the handler commits,
   so the transfer and the final status are one step for everybody else. *)
Claimed(r, saw) == refund[r].status = saw

ApproveRefund(k) ==
    /\ clerk[k].pc = "approve"
    /\ LET r == clerk[k].r IN
        IF Claimed(r, clerk[k].saw)
        THEN \E o \in SendToBank(bank[r]) :
                /\ bank' = [bank EXCEPT ![r] = o.bank]
                /\ refund' = [refund EXCEPT ![r] =
                                 [Marked(@, OutcomeStatus(o.answer)) EXCEPT !.checker = clerk[k].who]]
        ELSE UNCHANGED <<refund, bank>>
    /\ Close(k)
    /\ UNCHANGED <<case, desk>>

\* The process dies, or the transaction times out, after the provider was called.
ApproveRolledBack(k) ==
    /\ clerk[k].pc = "approve"
    /\ Claimed(clerk[k].r, clerk[k].saw)
    /\ \E b \in RolledBack(bank[clerk[k].r]) : bank' = [bank EXCEPT ![clerk[k].r] = b]
    /\ Close(k)
    /\ UNCHANGED <<refund, case, desk>>

ReadReject(k, s, r) ==
    s \in Supers /\ refund[r].status = "pending" /\ Open(k, "reject", s, r)

RejectRefund(k) ==
    /\ clerk[k].pc = "reject"
    /\ refund' = IF refund[clerk[k].r].status = "pending"
                 THEN [refund EXCEPT ![clerk[k].r].status = "rejected"]
                 ELSE refund
    /\ Close(k)
    /\ UNCHANGED <<bank, case, desk>>

-----------------------------------------------------------------------------
(* The ombudsman *)

At(d, pc) == desk[d].pc = pc
Goto(d, pc) == desk' = [desk EXCEPT ![d].pc = pc]
Leave(d) == desk' = [desk EXCEPT ![d] = IdleDesk]

\* A grievance is escalated once; a unique index stops the second of two at a time.
EscalateCase ==
    /\ case.status = "none"
    /\ case' = [case EXCEPT !.status = "open"]
    /\ UNCHANGED <<refundVars, desk>>

\* investigateCase and decideCase read the status, then write without a guard.
ReadCase(d, plan) ==
    /\ At(d, "idle")
    /\ case.status \notin {"none", "decided"}
    /\ Goto(d, plan)
    /\ UNCHANGED <<refundVars, case>>

InvestigateCase(d) ==
    /\ At(d, "investigate")
    /\ case' = [case EXCEPT !.status = "investigating"]
    /\ Leave(d)
    /\ UNCHANGED refundVars

DecideCase(d) ==
    /\ At(d, "decide")
    /\ case' = [case EXCEPT !.status = "decided"]
    /\ Leave(d)
    /\ UNCHANGED refundVars

(* applyRemedy "refund": the marker goes from null to applying in one guarded
   update, so one remedy at a time is under way. *)
ClaimRemedy(d, r) ==
    /\ At(d, "idle")
    /\ case.status # "none"
    /\ refund[r].status = "none"
    /\ \A e \in Desks : desk[e].r # r
    /\ case.remedy = "null"
    /\ case' = [case EXCEPT !.remedy = "applying"]
    /\ desk' = [desk EXCEPT ![d] = [IdleDesk EXCEPT !.pc = "recommend", !.r = r]]
    /\ UNCHANGED refundVars

\* applyRemedy "unfreeze" claims the marker and records it in one go: no money.
Unfreeze(d) ==
    /\ At(d, "idle")
    /\ case.status # "none"
    /\ case.remedy = "null"
    /\ case' = [case EXCEPT !.remedy = "applied"]
    /\ UNCHANGED <<refundVars, desk>>

RecommendRemedy(d) ==
    /\ At(d, "recommend")
    /\ Create(desk[d].r, Ombudsman)
    /\ Goto(d, "read")
    /\ UNCHANGED <<bank, clerk, case>>

\* approveRefundCore for the ombudsman: read, ...
ReadRemedy(d) ==
    /\ At(d, "read")
    /\ desk' = [desk EXCEPT ![d].saw = refund[desk[d].r].status,
                            ![d].pc = IF Approvable(desk[d].r) THEN "claim" ELSE "refused"]
    /\ UNCHANGED <<refundVars, case>>

\* ... claim (this one is seen as approved), ...
ClaimRefund(d) ==
    /\ At(d, "claim")
    /\ LET r == desk[d].r IN
        IF Claimed(r, desk[d].saw)
        THEN /\ refund' = [refund EXCEPT ![r].status = "approved", ![r].checker = Ombudsman]
             /\ Goto(d, "pay")
        ELSE /\ UNCHANGED refund
             /\ Goto(d, "refused")
    /\ UNCHANGED <<bank, clerk, case>>

\* ... pay, ...
PayRemedy(d) ==
    /\ At(d, "pay")
    /\ \E o \in SendToBank(bank[desk[d].r]) :
        /\ bank' = [bank EXCEPT ![desk[d].r] = o.bank]
        /\ desk' = [desk EXCEPT ![d].saw = OutcomeStatus(o.answer), ![d].pc = "mark"]
    /\ UNCHANGED <<refund, clerk, case>>

\* ... and mark the row, if it still is approved.
MarkRemedy(d) ==
    /\ At(d, "mark")
    /\ LET r == desk[d].r IN
        refund' = IF refund[r].status = "approved"
                  THEN [refund EXCEPT ![r] = Marked(@, desk[d].saw)]
                  ELSE refund
    /\ Goto(d, IF desk[d].saw = "paid" THEN "record" ELSE "refused")
    /\ UNCHANGED <<bank, clerk, case>>

RecordRemedy(d) ==
    /\ At(d, "record")
    /\ case' = [case EXCEPT !.remedy = "applied"]
    /\ Leave(d)
    /\ UNCHANGED refundVars

(* The payout was refused. The desk reads the refund; if its outcome is unsure
   the marker stays, otherwise ... *)
ReadRefusal(d) ==
    /\ At(d, "refused")
    /\ Goto(d, IF Unsure(desk[d].r) THEN "unsure" ELSE "cancel")
    /\ UNCHANGED <<refundVars, case>>

\* ... the request is cancelled, if it is open by now, ...
CancelRefund(d) ==
    /\ At(d, "cancel")
    /\ refund' = IF refund[desk[d].r].status \in {"pending", "failed"}
                 THEN [refund EXCEPT ![desk[d].r].status = "rejected"]
                 ELSE refund
    /\ Goto(d, "cancelled")
    /\ UNCHANGED <<bank, clerk, case>>

\* ... and the marker is free for another remedy, if it still is this desk's claim.
ResetRemedy(d) ==
    /\ desk[d].pc \in {"cancelled", "reset"}
    /\ case' = [case EXCEPT !.remedy = IF @ = "applying" THEN "null" ELSE @]
    /\ Leave(d)
    /\ UNCHANGED refundVars

\* markRemedyUnconfirmed, by the case's id.
KeepClaim(d) ==
    /\ desk[d].pc \in {"unsure", "keep"}
    /\ case' = [case EXCEPT !.remedy = "unconfirmed"]
    /\ Leave(d)
    /\ UNCHANGED refundVars

MayHavePaid(r) == refund[r].status \in {"paid", "approved"} \/ refund[r].unsure

(* A statement throws (or the recommendation is refused): unless there is a
   refund that may have been paid the marker is freed. In the catch this is a
   read; its own writes are ResetRemedy and KeepClaim. *)
RemedyThrows(d) ==
    /\ desk[d].pc \in {"recommend", "read", "claim", "pay", "mark", "record",
                       "refused", "unsure", "cancel", "cancelled"}
    /\ Goto(d, IF desk[d].pc # "recommend" /\ MayHavePaid(desk[d].r) THEN "keep" ELSE "reset")
    /\ UNCHANGED <<refundVars, case>>

(* The process dies, or the catch throws in its turn: what was written so far
   stays, and the provider keeps what it took. *)
DeskDies(d) ==
    /\ ~At(d, "idle")
    /\ IF At(d, "pay")
       THEN \E b \in RolledBack(bank[desk[d].r]) : bank' = [bank EXCEPT ![desk[d].r] = b]
       ELSE UNCHANGED bank
    /\ Leave(d)
    /\ UNCHANGED <<refund, clerk, case>>

Next ==
    \/ EscalateCase
    \/ \E a \in Admins \cup Supers, r \in RefundIds : RecommendRefund(a, r)
    \/ \E k \in Clerks, s \in Supers, r \in RefundIds : ReadApprove(k, s, r)
    \/ \E k \in Clerks, s \in Supers, r \in RefundIds : ReadReject(k, s, r)
    \/ \E k \in Clerks : ApproveRefund(k)
    \/ \E k \in Clerks : ApproveRolledBack(k)
    \/ \E k \in Clerks : RejectRefund(k)
    \/ \E d \in Desks, plan \in {"investigate", "decide"} : ReadCase(d, plan)
    \/ \E d \in Desks : InvestigateCase(d)
    \/ \E d \in Desks : DecideCase(d)
    \/ \E d \in Desks, r \in RefundIds : ClaimRemedy(d, r)
    \/ \E d \in Desks : Unfreeze(d)
    \/ \E d \in Desks : RecommendRemedy(d)
    \/ \E d \in Desks : ReadRemedy(d)
    \/ \E d \in Desks : ClaimRefund(d)
    \/ \E d \in Desks : PayRemedy(d)
    \/ \E d \in Desks : MarkRemedy(d)
    \/ \E d \in Desks : RecordRemedy(d)
    \/ \E d \in Desks : ReadRefusal(d)
    \/ \E d \in Desks : CancelRefund(d)
    \/ \E d \in Desks : ResetRemedy(d)
    \/ \E d \in Desks : KeepClaim(d)
    \/ \E d \in Desks : RemedyThrows(d)
    \/ \E d \in Desks : DeskDies(d)

Spec == Init /\ [][Next]_vars

-----------------------------------------------------------------------------
(* Properties *)

TypeOK ==
    /\ refund \in [RefundIds -> [status : RefundStatus, unsure : BOOLEAN,
                                 maker : Admins \cup Supers \cup {Ombudsman, Nobody},
                                 checker : Supers \cup {Ombudsman, Nobody}]]
    /\ bank \in [RefundIds -> Transfers]
    /\ clerk \in [Clerks -> [pc : {"idle", "approve", "reject"}, who : Supers \cup {Nobody},
                             r : RefundIds \cup {NoRefund}, saw : RefundStatus]]
    /\ case \in [status : {"none", "open", "investigating", "decided"},
                 remedy : {"null", "applying", "applied", "unconfirmed"}]
    /\ desk \in [Desks -> [pc : {"idle", "investigate", "decide", "recommend", "read", "claim",
                                 "pay", "mark", "record", "refused", "unsure", "cancel",
                                 "cancelled", "reset", "keep"},
                           r : RefundIds \cup {NoRefund}, saw : RefundStatus \cup {"unsure"}]]

(* A refund whose transfer is on the books is paid, or approved by an ombudsman
   whose next statement marks it (or whose process died before it); a paid refund
   is on the books. No order of approvals, rejections, remedies and deaths
   leaves a booked transfer under a request that says it did not happen. *)
PaidMatchesBooks ==
    \A r \in RefundIds :
        /\ refund[r].status = "paid" => bank[r].row /\ bank[r].sent
        /\ bank[r].row => refund[r].status \in {"paid", "approved"}

(* README.md, Refunds: "no single person can move money back out to a member":
   whoever recommended a paid refund is not the one who approved it. *)
TwoPeople ==
    \A r \in RefundIds :
        bank[r].row /\ refund[r].maker # Ombudsman => refund[r].maker # refund[r].checker

(* refunds.ts: an unsure refund "stays blocked until a human reconciles": no
   handler touches it again. *)
UnsureStaysBlocked ==
    [][\A r \in RefundIds : Unsure(r) => UNCHANGED refund[r]]_vars

(* ombudsman.ts: "exactly one pays": the refunds of one case that were put on the
   books are one at most. *)
RemedyPaysOnce ==
    Cardinality({r \in RefundIds : refund[r].maker = Ombudsman /\ bank[r].row}) <= 1

(* A decision is binding: no step takes a decided case back. *)
DecidedStays == [][case.status = "decided" => case'.status = "decided"]_vars
=============================================================================
