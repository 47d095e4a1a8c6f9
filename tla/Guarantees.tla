----------------------------- MODULE Guarantees -----------------------------
(***************************************************************************)
(* Loan applications, their guarantors (services/guarantors.ts) and the    *)
(* exchange of a guarantor (services/guarantor-substitution.ts).           *)
(*                                                                         *)
(* A handler is one READ COMMITTED transaction.  Where another handler can *)
(* change what it read before it writes, it is several steps; what it has  *)
(* written shows to others with its last step, and is lost with Lose.      *)
(***************************************************************************)
EXTENDS Integers, FiniteSets

CONSTANTS
    Admins,     \* admins that are no super admins
    Supers,     \* super admins
    Members,    \* other members
    Nobody,     \* nobody
    Loans,      \* ids of loans
    NoLoan,     \* no loan
    Swaps,      \* ids of substitution requests
    NoSwap,     \* no request
    Hands,      \* handlers that may be at work at once
    MaxActive   \* GUARANTOR_MAX_ACTIVE

Managers == Admins \cup Supers
Persons == Managers \cup Members

ASSUME GuaranteesAssumption ==
    /\ Nobody \notin Persons /\ NoLoan \notin Loans /\ NoSwap \notin Swaps /\ MaxActive \in Nat
    /\ IsFiniteSet(Persons)

VARIABLES
    loan,   \* the Loan rows, as committed
    gua,    \* the status of each member's Guarantor row on each loan
    swap,   \* the GuarantorSubstitution rows
    hand    \* the handlers at work

guaranteeVars == <<loan, gua, swap, hand>>

\* officer, admin, super1, super2: who gave each approval.  joint: a loan to a
\* group, which is its guarantor.  pay: disbursementStatus; booked: how often
\* the disbursement was entered in the ledger.
NoRow == [status |-> "none", by |-> Nobody, joint |-> FALSE, officer |-> Nobody,
          admin |-> Nobody, super1 |-> Nobody, super2 |-> Nobody, pay |-> "none", booked |-> 0]
NoRequest == [status |-> "none", l |-> NoLoan, old |-> Nobody, new |-> Nobody]

\* from: the status a handler read; vote and res: a committee member's vote
\* and what the tally, or the bank, said; fresh: there was no decision row.
Idle == [pc |-> "idle", who |-> Nobody, l |-> NoLoan, x |-> NoSwap, from |-> "none",
         vote |-> "none", fresh |-> FALSE, res |-> "none"]

GuaranteesInit ==
    /\ loan = [l \in Loans |-> NoRow]
    /\ gua = [l \in Loans |-> [m \in Persons |-> "none"]]
    /\ swap = [x \in Swaps |-> NoRequest]
    /\ hand = [k \in Hands |-> Idle]

\* The finalizer of l has written the row and not committed.
Locked(l) == \E k \in Hands : hand[k].l = l /\ hand[k].pc \in {"pay", "book"}

Return(k) == hand' = [hand EXCEPT ![k] = Idle]

\* A person's messages are handled one at a time.
Busy(m) == \E k \in Hands : hand[k].who = m

Confirmed(l) == {m \in Persons : gua[l][m] = "confirmed"}
Asked(l) == {m \in Persons : gua[l][m] # "none"}
Needed(b) == IF b \in Managers THEN 1 ELSE 2

\* Loans a new guarantee counts against, and loans whose guarantor may be exchanged.
Counted == {"guaranteed", "admin_approved", "approved", "disbursed"}
Live == Counted \cup {"super_approved_1"}
Guaranteed(m, statuses) ==
    Cardinality({l \in Loans : m \in Confirmed(l) /\ loan[l].status \in statuses})

-----------------------------------------------------------------------------
Apply(b, l) ==
    /\ loan[l].status = "none"
    /\ loan' = [loan EXCEPT ![l].status = "pending", ![l].by = b]
    /\ UNCHANGED <<gua, swap, hand>>

\* The group is the joint guarantor: the loan is born guaranteed.
ApplyJointly(b, l) ==
    /\ loan[l].status = "none"
    /\ loan' = [loan EXCEPT ![l].status = "guaranteed", ![l].by = b, ![l].joint = TRUE]
    /\ UNCHANGED <<gua, swap, hand>>

MayAsk(l, m) ==
    /\ loan[l].status = "pending" /\ m # loan[l].by /\ gua[l][m] = "none"
    /\ Cardinality(Asked(l)) < Needed(loan[l].by)
    /\ Guaranteed(m, Counted) < MaxActive

AddGuarantor(l, m) ==
    /\ MayAsk(l, m)
    /\ gua' = [gua EXCEPT ![l][m] = "pending"]
    /\ UNCHANGED <<loan, swap, hand>>

\* A released guarantor's code is not turned away.
ReadCode(k, m, l) ==
    /\ hand[k].pc = "idle" /\ ~Busy(m) /\ gua[l][m] \in {"pending", "released"}
    /\ hand' = [hand EXCEPT ![k] = [Idle EXCEPT !.pc = "confirm", !.who = m, !.l = l]]
    /\ UNCHANGED <<loan, gua, swap>>

\* Mutant: one confirmation is enough.
EnoughWithOne(l, m) == Cardinality(Confirmed(l) \cup {m}) >= 1

\* The guarantor's own confirmation is counted, those not yet committed are not.
Enough(l, m) == Cardinality(Confirmed(l) \cup {m}) >= Needed(loan[l].by)

CountConfirmed(k) ==
    /\ hand[k].pc = "confirm"
    /\ hand' = [hand EXCEPT ![k].pc = "counted",
                            ![k].res = IF Enough(hand[k].l, hand[k].who) THEN "enough" ELSE "none"]
    /\ UNCHANGED <<loan, gua, swap>>

\* The loan is guaranteed whatever has become of it since.
ConfirmGuarantee(k) ==
    LET l == hand[k].l IN
    /\ hand[k].pc = "counted"
    /\ hand[k].res = "enough" => ~Locked(l)
    /\ gua' = [gua EXCEPT ![l][hand[k].who] = "confirmed"]
    /\ loan' = IF hand[k].res = "enough" THEN [loan EXCEPT ![l].status = "guaranteed"] ELSE loan
    /\ Return(k) /\ UNCHANGED swap

-----------------------------------------------------------------------------
(* Substitution of a guarantor                                             *)

\* checkNewGuarantor
Eligible(l, m) ==
    /\ m # loan[l].by /\ gua[l][m] \notin {"pending", "confirmed"}
    /\ Guaranteed(m, Live) < MaxActive

RequestSwap(x, l, old, new) ==
    /\ swap[x].status = "none" /\ loan[l].status \in Live
    /\ gua[l][old] = "confirmed" /\ new # old /\ Eligible(l, new)
    /\ ~\E y \in Swaps : /\ swap[y].l = l /\ swap[y].old = old
                         /\ swap[y].status \in {"pending_guarantor", "pending_admin"}
    /\ swap' = [swap EXCEPT ![x] = [status |-> "pending_guarantor", l |-> l, old |-> old,
                                    new |-> new]]
    /\ UNCHANGED <<loan, gua, hand>>

\* A handler of m has read request x.
Consider(k, m, x, pc) ==
    /\ hand[k].pc = "idle" /\ ~Busy(m)
    /\ hand' = [hand EXCEPT ![k] = [Idle EXCEPT !.pc = pc, !.who = m, !.l = swap[x].l, !.x = x]]
    /\ UNCHANGED <<loan, gua, swap>>

ReadSwapCode(k, x) ==
    /\ swap[x].status = "pending_guarantor"
    /\ Consider(k, swap[x].new, x, "accept")

AcceptSwap(k) ==
    /\ hand[k].pc = "accept"
    /\ swap' = [swap EXCEPT ![hand[k].x].status = "pending_admin"]
    /\ Return(k) /\ UNCHANGED <<loan, gua>>

ReadForDecline(k, a, x) ==
    /\ swap[x].status \in {"pending_guarantor", "pending_admin"}
    /\ Consider(k, a, x, "decline")

DeclineSwap(k) ==
    /\ hand[k].pc = "decline"
    /\ swap' = [swap EXCEPT ![hand[k].x].status = "rejected"]
    /\ Return(k) /\ UNCHANGED <<loan, gua>>

ReadForSwap(k, a, x) ==
    /\ swap[x].status = "pending_admin"
    /\ loan[swap[x].l].status # "paid" /\ Eligible(swap[x].l, swap[x].new)
    /\ Consider(k, a, x, "swap")

\* m's confirmation has locked the Guarantor row.
Confirming(l, m) == \E k \in Hands : hand[k].pc = "counted" /\ hand[k].l = l /\ hand[k].who = m

\* A member has one Guarantor row on a loan (a unique key), a released one too.
MaySwap(l, m) == gua[l][m] = "none"

SwapGuarantor(k) ==
    LET r == swap[hand[k].x] IN
    /\ hand[k].pc = "swap" /\ MaySwap(r.l, r.new) /\ ~Confirming(r.l, r.old)
    /\ gua' = [gua EXCEPT ![r.l][r.new] = "confirmed", ![r.l][r.old] = "released"]
    /\ swap' = [swap EXCEPT ![hand[k].x].status = "approved"]
    /\ Return(k) /\ UNCHANGED loan

\* The insert fails and takes the transaction with it.
SwapCollides(k) ==
    /\ hand[k].pc = "swap" /\ ~MaySwap(swap[hand[k].x].l, swap[hand[k].x].new)
    /\ Return(k) /\ UNCHANGED <<loan, gua, swap>>

GuaranteeStep ==
    \/ \E b \in Persons, l \in Loans : Apply(b, l) \/ ApplyJointly(b, l)
    \/ \E l \in Loans, m \in Persons : AddGuarantor(l, m)
    \/ \E k \in Hands, m \in Persons, l \in Loans : ReadCode(k, m, l)
    \/ \E x \in Swaps, l \in Loans, old, new \in Persons : RequestSwap(x, l, old, new)
    \/ \E k \in Hands, x \in Swaps : ReadSwapCode(k, x)
    \/ \E k \in Hands, a \in Managers, x \in Swaps : ReadForDecline(k, a, x) \/ ReadForSwap(k, a, x)
    \/ \E k \in Hands :
        \/ CountConfirmed(k) \/ ConfirmGuarantee(k) \/ AcceptSwap(k) \/ DeclineSwap(k)
        \/ SwapGuarantor(k) \/ SwapCollides(k)
=============================================================================
