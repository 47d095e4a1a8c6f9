----------------------------- MODULE PayAnyone -----------------------------
(***************************************************************************)
(* Payments to outside bank accounts (services/payanyone.ts): an admin     *)
(* asks, three super admins approve, and the third approval pays.          *)
(*                                                                         *)
(* Each approval is one chat handler and one READ COMMITTED transaction.   *)
(* It reads the row, checks it, and writes it with a guarded update.  The  *)
(* third approval, and a retry of it, goes on to the limits, the claim and *)
(* the provider before it commits: from its first write to its end the row *)
(* is locked, and what it wrote is lost if it crashes.                     *)
(***************************************************************************)
EXTENDS Integers, FiniteSetsExt

CONSTANTS
    Admins,     \* admins that are no super admins
    Supers,     \* super admins
    Payments,   \* ids of external payments
    Amounts,    \* amounts asked for
    Nobody,     \* no approver
    NoPayment,  \* no payment
    Ceiling,    \* the cooperative's dailyPayoutLimit; the model is one day
    Crashes     \* processes die and transactions time out

ASSUME PayAnyoneAssumption ==
    /\ Amounts \subseteq Nat \ {0} /\ Ceiling \in Nat /\ Crashes \in BOOLEAN
    /\ Nobody \notin Admins \cup Supers /\ NoPayment \notin Payments

VARIABLES
    pay,   \* the ExternalPayment rows, as committed
    prov,  \* the provider's record of reference PAYANY-<payment>
    fin    \* the approval handler of each super admin

vars == <<pay, prov, fin>>

\* hot: less than PAYMENT_COOLDOWN_MINUTES since lastApprovedAt.  booked: the
\* Payout row and the ledger entry, written together.
NoRow == [status |-> "none", init |-> Nobody, amount |-> 0, a1 |-> Nobody, a2 |-> Nobody,
          a3 |-> Nobody, hot |-> FALSE, booked |-> 0]

\* third: the third slot was taken in this transaction; locked: the row was
\* written in it.
Idle == [pc |-> "idle", p |-> NoPayment, seen |-> "none", third |-> FALSE, locked |-> FALSE,
         res |-> "none"]

Init ==
    /\ pay = [p \in Payments |-> NoRow]
    /\ prov = [p \in Payments |-> "none"]
    /\ fin = [s \in Supers |-> Idle]

Locked(p) == \E s \in Supers : fin[s].p = p /\ fin[s].locked

Return(s) == fin' = [fin EXCEPT ![s] = Idle]

\* The approver's transaction commits the row with this status and third slot.
Commit(s, st, a3, n) ==
    /\ pay' = [pay EXCEPT ![fin[s].p].status = st, ![fin[s].p].a3 = a3,
                          ![fin[s].p].hot = @ \/ fin[s].third, ![fin[s].p].booked = @ + n]
    /\ Return(s) /\ UNCHANGED prov

-----------------------------------------------------------------------------
(* checkDailyPayoutLimit: a paid payment has a Payout row and is itself    *)
(* paid, and both sums are added.                                          *)

PaidSum == MapThenSumSet(LAMBDA p : pay[p].amount, {p \in Payments : pay[p].status = "paid"})
WithinCeiling(amount) == 2 * PaidSum + amount <= Ceiling

Request(a, p, amount) ==
    /\ pay[p].status = "none" /\ WithinCeiling(amount)
    /\ pay' = [pay EXCEPT ![p] = [NoRow EXCEPT !.status = "pending", !.init = a,
                                               !.amount = amount]]
    /\ UNCHANGED <<prov, fin>>

\* Mutant: the initiator is not turned away.
MayApproveOwn(s, p) == s \notin {pay[p].a1, pay[p].a2, pay[p].a3}

MayApprove(s, p) == s \notin {pay[p].init, pay[p].a1, pay[p].a2, pay[p].a3}

\* The row is read and checked; the approver of the third slot goes straight
\* to the payment when it did not complete.
ReadRow(s, p) ==
    LET row == pay[p] IN
    /\ fin[s].pc = "idle" /\ row.status \in {"pending", "approved1", "approved2"}
    /\ \/ /\ row.a3 = s /\ row.status = "approved2"
          /\ fin' = [fin EXCEPT ![s] = [Idle EXCEPT !.pc = "check", !.p = p]]
       \/ /\ MayApprove(s, p) /\ (row.hot => row.status = "pending")
          /\ fin' = [fin EXCEPT ![s] = [Idle EXCEPT !.pc = "step", !.p = p, !.seen = row.status]]
    /\ UNCHANGED <<pay, prov>>

\* Approvals 1 and 2: the update only fires from the status that was read.
RecordFirst(s) ==
    LET p == fin[s].p IN
    /\ fin[s].pc = "step" /\ fin[s].seen = "pending" /\ ~Locked(p)
    /\ pay' = IF pay[p].status = "pending" /\ pay[p].a1 = Nobody
              THEN [pay EXCEPT ![p].status = "approved1", ![p].a1 = s, ![p].hot = TRUE]
              ELSE pay
    /\ Return(s) /\ UNCHANGED prov

RecordSecond(s) ==
    LET p == fin[s].p IN
    /\ fin[s].pc = "step" /\ fin[s].seen = "approved1" /\ ~Locked(p)
    /\ pay' = IF pay[p].status = "approved1" /\ pay[p].a2 = Nobody
              THEN [pay EXCEPT ![p].status = "approved2", ![p].a2 = s, ![p].hot = TRUE]
              ELSE pay
    /\ Return(s) /\ UNCHANGED prov

\* Approval 3: the slot, and the row's lock, until the payment is through.
SlotFree(p) == pay[p].status = "approved2" /\ pay[p].a3 = Nobody

TakeThird(s) ==
    /\ fin[s].pc = "step" /\ fin[s].seen = "approved2" /\ ~Locked(fin[s].p)
    /\ SlotFree(fin[s].p)
    /\ fin' = [fin EXCEPT ![s].pc = "check", ![s].third = TRUE, ![s].locked = TRUE]
    /\ UNCHANGED <<pay, prov>>

\* "The final approval was just taken by another super admin."
ThirdRefused(s) ==
    /\ fin[s].pc = "step" /\ fin[s].seen = "approved2" /\ ~Locked(fin[s].p)
    /\ ~SlotFree(fin[s].p)
    /\ Return(s) /\ UNCHANGED <<pay, prov>>

-----------------------------------------------------------------------------
(* payExternal                                                             *)

\* The third slot is given back, the other approvals are kept.
GiveBack(s) ==
    LET p == fin[s].p IN
    /\ fin[s].locked \/ ~Locked(p)
    /\ IF pay[p].status = "approved2" THEN Commit(s, "approved2", Nobody, 0)
                                      ELSE Return(s) /\ UNCHANGED <<pay, prov>>

\* Too many transactions of this actor in ten minutes.
TooFast(s) == fin[s].pc = "check" /\ GiveBack(s)

\* Mutant: the request goes back to pending, the approvals stay.
OverCeilingPending(s) ==
    LET p == fin[s].p IN
    /\ fin[s].pc = "check" /\ ~WithinCeiling(pay[p].amount)
    /\ fin[s].locked \/ ~Locked(p)
    /\ IF pay[p].status = "approved2" THEN Commit(s, "pending", Nobody, 0)
                                      ELSE Return(s) /\ UNCHANGED <<pay, prov>>

OverCeiling(s) ==
    fin[s].pc = "check" /\ ~WithinCeiling(pay[fin[s].p].amount) /\ GiveBack(s)

CheckLimits(s) ==
    /\ fin[s].pc = "check" /\ WithinCeiling(pay[fin[s].p].amount)
    /\ fin' = [fin EXCEPT ![s].pc = "claim"]
    /\ UNCHANGED <<pay, prov>>

\* Mutant: the claim trusts the status read before.
ClaimUnguarded(s) ==
    /\ fin[s].pc = "claim"
    /\ fin[s].locked \/ ~Locked(fin[s].p)
    /\ fin' = [fin EXCEPT ![s].pc = "send", ![s].locked = TRUE]
    /\ UNCHANGED <<pay, prov>>

\* approved2 -> processing.
Claim(s) ==
    LET p == fin[s].p IN
    /\ fin[s].pc = "claim"
    /\ fin[s].locked \/ ~Locked(p)
    /\ fin' = [fin EXCEPT ![s] = IF pay[p].status = "approved2"
                                 THEN [fin[s] EXCEPT !.pc = "send", !.locked = TRUE]
                                 ELSE Idle]
    /\ UNCHANGED <<pay, prov>>

\* Mutant: a status the row does not have.
NoProviderUnknown(s) == fin[s].pc = "send" /\ Commit(s, "cancelled", s, 0)

NoProvider(s) == fin[s].pc = "send" /\ Commit(s, "failed", s, 0)

\* The account does not resolve, or to another name: the slot is given back.
HoldName(s) == fin[s].pc = "send" /\ Commit(s, "approved2", Nobody, 0)

\* A screening hit: the slot is kept.
HoldScreening(s) == fin[s].pc = "send" /\ Commit(s, "approved2", s, 0)

\* The provider takes the transfer and says so, says that it awaits an
\* authorization (Monnify's one-time password), or its answer is lost; it
\* refuses it, as a duplicate when it holds the reference.
Answers(p) ==
    IF prov[p] \in {"none", "failed"}
    THEN {[p |-> "accepted", res |-> "ok"], [p |-> "accepted", res |-> "pending"],
          [p |-> "accepted", res |-> "lost"], [p |-> "failed", res |-> "refused"]}
    ELSE {[p |-> prov[p], res |-> "refused"]}

CallProvider(s) ==
    /\ fin[s].pc = "send"
    /\ \E ans \in Answers(fin[s].p) :
        /\ prov' = [prov EXCEPT ![fin[s].p] = ans.p]
        /\ fin' = [fin EXCEPT ![s].pc = "settle", ![s].res = ans.res]
    /\ UNCHANGED pay

\* result.ok is all that is looked at.
SettlePaid(s) == fin[s].pc = "settle" /\ fin[s].res = "ok" /\ Commit(s, "paid", s, 1)

SettleRefused(s) == fin[s].pc = "settle" /\ fin[s].res # "ok" /\ Commit(s, "approved2", s, 0)

\* The process dies or the transaction fails; it may also time out under a
\* handler that goes on to the provider.
Crash(s) ==
    /\ Crashes /\ fin[s].pc # "idle"
    /\ Return(s) /\ UNCHANGED <<pay, prov>>

Expire(s) ==
    /\ Crashes /\ fin[s].pc = "send"
    /\ fin' = [fin EXCEPT ![s] = [Idle EXCEPT !.pc = "orphan", !.p = fin[s].p]]
    /\ UNCHANGED <<pay, prov>>

OrphanCall(s) ==
    /\ fin[s].pc = "orphan"
    /\ \E ans \in Answers(fin[s].p) : prov' = [prov EXCEPT ![fin[s].p] = ans.p]
    /\ Return(s) /\ UNCHANGED pay

-----------------------------------------------------------------------------
\* Mutant: a reject by id, whatever has become of the row.
RejectUnguarded(p) ==
    /\ pay[p].status # "none" /\ ~Locked(p)
    /\ pay' = [pay EXCEPT ![p].status = "rejected"]
    /\ UNCHANGED <<prov, fin>>

Reject(p) ==
    /\ pay[p].status \in {"pending", "approved1", "approved2"} /\ ~Locked(p)
    /\ pay' = [pay EXCEPT ![p].status = "rejected"]
    /\ UNCHANGED <<prov, fin>>

CoolOffEnds(p) ==
    /\ pay[p].hot /\ ~Locked(p)
    /\ pay' = [pay EXCEPT ![p].hot = FALSE]
    /\ UNCHANGED <<prov, fin>>

ProviderSettles(p) ==
    /\ prov[p] = "accepted"
    /\ \E st \in {"sent", "failed"} : prov' = [prov EXCEPT ![p] = st]
    /\ UNCHANGED <<pay, fin>>

Handler(s) ==
    \/ RecordFirst(s) \/ RecordSecond(s) \/ TakeThird(s) \/ ThirdRefused(s)
    \/ TooFast(s) \/ OverCeiling(s) \/ CheckLimits(s) \/ Claim(s)
    \/ NoProvider(s) \/ HoldName(s) \/ HoldScreening(s) \/ CallProvider(s)
    \/ SettlePaid(s) \/ SettleRefused(s) \/ Crash(s) \/ Expire(s) \/ OrphanCall(s)

Next ==
    \/ \E a \in Admins \cup Supers, p \in Payments, n \in Amounts : Request(a, p, n)
    \/ \E s \in Supers, p \in Payments : ReadRow(s, p)
    \/ \E s \in Supers : Handler(s)
    \/ \E p \in Payments : Reject(p) \/ CoolOffEnds(p) \/ ProviderSettles(p)

Spec == Init /\ [][Next]_vars

-----------------------------------------------------------------------------
(* Properties                                                              *)

Statuses == {"none", "pending", "approved1", "approved2", "paid", "rejected", "failed"}
Slots == Supers \cup {Nobody}
PayRow == [status : Statuses, init : Admins \cup Supers \cup {Nobody}, amount : Nat,
           a1 : Slots, a2 : Slots, a3 : Slots, hot : BOOLEAN, booked : Nat]
FinRow == [pc : {"idle", "step", "check", "claim", "send", "settle", "orphan"},
           p : Payments \cup {NoPayment}, seen : {"none", "pending", "approved1", "approved2"},
           third : BOOLEAN, locked : BOOLEAN, res : {"none", "ok", "pending", "lost", "refused"}]

TypeOK ==
    /\ pay \in [Payments -> PayRow]
    /\ prov \in [Payments -> {"none", "accepted", "sent", "failed"}]
    /\ fin \in [Supers -> FinRow]

\* The recorded approvals and the status never disagree, so no request is
\* stuck in a status whose slot is taken (the dead-lock payExternal's comment
\* warns of), and nobody is in two slots or approves a request of their own.
SlotsMatchStatus ==
    \A p \in Payments :
        LET row == pay[p] IN
        /\ row.status \in {"none", "pending"} => row.a1 = Nobody
        /\ row.status \in {"none", "pending", "approved1"} => row.a2 = Nobody /\ row.a3 = Nobody
        /\ row.status \in {"approved1", "approved2", "paid", "failed"} => row.a1 # Nobody
        /\ row.status \in {"approved2", "paid", "failed"} => row.a2 # Nobody
        /\ row.status \in {"paid", "failed"} => row.a3 # Nobody
        /\ \A s \in {row.a1, row.a2, row.a3} \ {Nobody} : s # row.init
        /\ row.a1 # Nobody => row.a1 \notin {row.a2, row.a3}
        /\ row.a2 # Nobody => row.a2 # row.a3

\* The money only moves after three distinct super admins approved, the third
\* being the one whose handler asks the bank; whatever raced, crashed or timed out.
ThreeApprovers ==
    \A s \in Supers :
        fin[s].pc \in {"send", "settle", "orphan"} =>
            LET row == pay[fin[s].p] IN
            /\ {row.a1, row.a2} \subseteq Supers \ {s}
            /\ row.a1 # row.a2 /\ row.init \notin {s, row.a1, row.a2}

\* One Payout row and one ledger entry for each paid payment, none for others.
BookedOnce == \A p \in Payments : pay[p].booked = IF pay[p].status = "paid" THEN 1 ELSE 0

\* Paid, failed and rejected payments stay so; a reject that races the third
\* approval waits for it and then fails.
DecidedIsFinal ==
    [][\A p \in Payments :
          pay[p].status \in {"paid", "failed", "rejected"} => pay'[p].status = pay[p].status]_vars

-----------------------------------------------------------------------------
(* What the repository says of this code, and the code does not do.        *)

\* payExternal: after a refusal another super can retry the final approval; a
\* super is turned away only while somebody else is paying.
AnotherSuperCanRetry ==
    [][\A s \in Supers :
          ThirdRefused(s) /\ pay[fin[s].p].status = "approved2"
          => \E t \in Supers \ {s} : fin[t].p = fin[s].p /\ fin[t].pc # "idle"]_vars
=============================================================================
