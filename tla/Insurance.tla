----------------------------- MODULE Insurance -----------------------------
(* Insurance through an outside insurer (services/insurance): the purchase of a
   policy, whose premium is held for the insurer in liabilities:insurance_payable,
   and its claims, which notifications of the insurer and admins approve, pay and
   reject in any order. One product and one plan.

   purchasePlan runs inside the transaction of the chat handler, around its calls
   of the insurer; session.ts answers an error, so that what was written before it
   is committed. A member's messages are handled one at a time. *)
EXTENDS Integers, FiniteSetsExt

CONSTANTS
    Members,
    Policies, Claims,   \* rows that may come to exist
    Hands,              \* notifications and admins that pay a claim
    Premium, Coverage,
    Wallet0,            \* balance of a wallet at the start
    NoMember, NoClaim

VARIABLES
    wallet,
    payable,    \* liabilities:insurance_payable
    booked,     \* references in the journal
    policy,     \* InsurancePolicy; whether its premium was taken
    claim,      \* InsuranceClaim; how often it was credited
    buyer,      \* the attempt of a member whose insurer is being asked, or -1
    hand        \* the claim that is being paid

vars == <<wallet, payable, booked, policy, claim, buyer, hand>>

NoPolicy == [status |-> "none", by |-> NoMember, paid |-> FALSE]
Unclaimed == [status |-> "none", by |-> NoMember, amount |-> 0, credited |-> 0]

Init ==
    /\ wallet = [m \in Members |-> Wallet0]
    /\ payable = 0
    /\ booked = {}
    /\ policy = [p \in Policies |-> NoPolicy]
    /\ claim = [c \in Claims |-> Unclaimed]
    /\ buyer = [m \in Members |-> -1]
    /\ hand = [h \in Hands |-> NoClaim]

Charge(m, n) == <<"insurance_premium", m, n>>
Refund(m, n) == <<"insurance_premium_refund", m, n>>
Payout(c) == <<"insurance_claim_payout", c>>

\* txRef is unique: a second entry fails, and its transaction with it.
UnpostedAny(ref) == TRUE
Unposted(ref) == ref \notin booked

-----------------------------------------------------------------------------
(* Buying a policy *)

\* The number of the attempt is that of the policies the member has had.
PurchaseRead(m) ==
    /\ buyer[m] = -1
    /\ ~\E p \in Policies : policy[p].by = m /\ policy[p].status = "active"
    /\ buyer' = [buyer EXCEPT ![m] = Cardinality({p \in Policies : policy[p].by = m})]
    /\ UNCHANGED <<wallet, payable, booked, policy, claim, hand>>

\* chargePremium takes nothing when the attempt has been charged before.
Due(m) == IF Charge(m, buyer[m]) \in booked THEN 0 ELSE Premium

Bought(m) == buyer' = [buyer EXCEPT ![m] = -1]

PurchasePlan(m, p) ==
    /\ buyer[m] >= 0 /\ policy[p].status = "none" /\ wallet[m] >= Premium
    /\ wallet' = [wallet EXCEPT ![m] = @ - Due(m)]
    /\ payable' = payable + Due(m)
    /\ booked' = booked \cup {Charge(m, buyer[m])}
    /\ policy' = [policy EXCEPT ![p] = [status |-> "active", by |-> m, paid |-> Due(m) > 0]]
    /\ Bought(m)
    /\ UNCHANGED <<claim, hand>>

\* The insurer refuses: the premium goes back under the reference of the attempt.
PurchaseFails(m) ==
    /\ buyer[m] >= 0 /\ wallet[m] >= Premium
    /\ Unposted(Refund(m, buyer[m]))
    /\ wallet' = [wallet EXCEPT ![m] = @ - Due(m) + Premium]
    /\ payable' = payable + Due(m) - Premium
    /\ booked' = booked \cup {Charge(m, buyer[m]), Refund(m, buyer[m])}
    /\ Bought(m)
    /\ UNCHANGED <<policy, claim, hand>>

\* Too little money, a second refund of one attempt, a crash or a timeout.
PurchaseRollsBack(m) ==
    /\ buyer[m] >= 0
    /\ Bought(m)
    /\ UNCHANGED <<wallet, payable, booked, policy, claim, hand>>

\* renewPolicy: every attempt has a reference of its own.
RenewPolicy(p) ==
    /\ policy[p].status # "none" /\ wallet[policy[p].by] >= Premium
    /\ wallet' = [wallet EXCEPT ![policy[p].by] = @ - Premium]
    /\ payable' = payable + Premium
    /\ policy' = [policy EXCEPT ![p].status = "active"]
    /\ UNCHANGED <<booked, claim, buyer, hand>>

\* cancelPolicy, and the insurer's policy.created, .renewed and .cancelled.
PolicyMoves(p) ==
    /\ policy[p].status # "none"
    /\ \E s \in {"active", "cancelled"} : policy' = [policy EXCEPT ![p].status = s]
    /\ UNCHANGED <<wallet, payable, booked, claim, buyer, hand>>

-----------------------------------------------------------------------------
(* Claims *)

SubmitClaim(c, p) ==
    /\ claim[c].status = "none" /\ policy[p].status = "active"
    /\ \E a \in 1..Coverage :
          claim' = [claim EXCEPT ![c] = [status |-> "pending", by |-> policy[p].by,
                                         amount |-> a, credited |-> 0]]
    /\ UNCHANGED <<wallet, payable, booked, policy, buyer, hand>>

\* claim.approved, claim.rejected and insurancereject write over any status.
ClaimMoves(c) ==
    /\ claim[c].status # "none"
    /\ \E s \in {"approved", "rejected"} : claim' = [claim EXCEPT ![c].status = s]
    /\ UNCHANGED <<wallet, payable, booked, policy, buyer, hand>>

\* claim.paid, or insuranceapprove of an admin.
PayRead(h, c) ==
    /\ hand[h] = NoClaim
    /\ claim[c].status \in {"pending", "approved"}
    /\ hand' = [hand EXCEPT ![h] = c]
    /\ UNCHANGED <<wallet, payable, booked, policy, claim, buyer>>

PayoutInsuranceClaim(h) ==
    /\ hand[h] # NoClaim
    /\ LET c == hand[h]
       IN  /\ Unposted(Payout(c))
           /\ wallet' = [wallet EXCEPT ![claim[c].by] = @ + claim[c].amount]
           /\ payable' = payable - claim[c].amount
           /\ booked' = booked \cup {Payout(c)}
           /\ claim' = [claim EXCEPT ![c].status = "paid", ![c].credited = @ + 1]
    /\ hand' = [hand EXCEPT ![h] = NoClaim]
    /\ UNCHANGED <<policy, buyer>>

\* The entry was there, or the process dies; the notification's own row stays.
PayoutRollsBack(h) ==
    /\ hand[h] # NoClaim
    /\ hand' = [hand EXCEPT ![h] = NoClaim]
    /\ UNCHANGED <<wallet, payable, booked, policy, claim, buyer>>

Next ==
    \/ \E m \in Members : PurchaseRead(m) \/ PurchaseFails(m) \/ PurchaseRollsBack(m)
    \/ \E m \in Members, p \in Policies : PurchasePlan(m, p)
    \/ \E p \in Policies : RenewPolicy(p) \/ PolicyMoves(p)
    \/ \E c \in Claims, p \in Policies : SubmitClaim(c, p)
    \/ \E c \in Claims : ClaimMoves(c)
    \/ \E h \in Hands, c \in Claims : PayRead(h, c)
    \/ \E h \in Hands : PayoutInsuranceClaim(h) \/ PayoutRollsBack(h)

-----------------------------------------------------------------------------
(* Properties *)

TypeOK ==
    /\ wallet \in [Members -> Nat] /\ payable \in Int
    /\ \A p \in Policies : policy[p].status \in {"none", "active", "cancelled"}
    /\ \A c \in Claims : claim[c].status \in {"none", "pending", "approved", "rejected", "paid"}
    /\ \A m \in Members : buyer[m] \in -1..Cardinality(Policies)
    /\ hand \in [Hands -> Claims \cup {NoClaim}]

\* Whatever notifications and admins cross, a claim is credited once, an attempt is
\* refunded only when it was charged, and no money is made or lost.
ClaimsAddUp ==
    /\ \A c \in Claims :
          /\ claim[c].credited = (IF Payout(c) \in booked THEN 1 ELSE 0)
          /\ claim[c].status = "paid" => claim[c].credited = 1
    /\ payable + SumFunction(wallet) = Wallet0 * Cardinality(Members)
    /\ \A m \in Members, n \in 0..Cardinality(Policies) :
          Refund(m, n) \in booked => Charge(m, n) \in booked

\* insurance/index.ts:127: "Debit FIRST so a policy can never be created without
\* payment". A purchase that failed was charged and refunded; the member's next
\* one is the same attempt, finds the charge in the journal and debits nothing.
PolicyIsPaid == \A p \in Policies : policy[p].status # "none" => policy[p].paid
=============================================================================
