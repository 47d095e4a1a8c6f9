----------------------------- MODULE Referrals -----------------------------
(* Referrals (services/referrals.ts): a joiner who names a member's code, the
   reward when the joiner's first money comes in, and the withdrawal of a bonus
   to the wallet, the saved bank account or airtime (payments/vtu.ts).

   A reward is given from webhooks and from the booking of a payroll file, a
   withdrawal runs in a job after the chat handler has committed: none of them
   holds a transaction over its provider call. *)
EXTENDS BankTransfer, Naturals, FiniteSetsExt

CONSTANTS
    Joiners,     \* members who may be referred
    Referrers,   \* members who may refer
    Payments,    \* concurrent deposits that qualify a joiner
    BonusIds,    \* ReferralWithdrawal rows that may come to exist
    Rewards,     \* rewards an admin may set
    Caps,        \* caps an admin may set, 0 being none
    MaxConfigs,  \* bound: changes of the programme
    NoMember

VARIABLES
    config,      \* referralEnabled, referralRewardAmount, referralMaxRewards; changes so far
    referral,    \* Referral of a joiner: status, the referrer, the reward given
    payment,     \* qualifyReferral of a deposit after its reads: joiner, reward, over the cap
    bonus,       \* referralBonusBalance of a referrer
    bonusOut,    \* ReferralWithdrawal: status, whose, amount, destination, and its job's pc
    airwaves,    \* the transfer or recharge REFBONUS-<id>
    savings      \* what withdrawals put on the wallet, with journal entry REFBONUS-<id>

vars == <<config, referral, payment, bonus, bonusOut, airwaves, savings>>

NoReferral == [status |-> "none", by |-> NoMember, reward |-> 0]
NoPayment == [joiner |-> NoMember, reward |-> 0, over |-> FALSE]
NoWithdrawal == [status |-> "none", by |-> NoMember, amount |-> 0, to |-> "wallet", pc |-> "none"]
Destinations == {"wallet", "bank", "airtime"}

Init ==
    /\ config = [on |-> TRUE, reward |-> CHOOSE r \in Rewards : TRUE, cap |-> 0, changes |-> 0]
    /\ referral = [j \in Joiners |-> NoReferral]
    /\ payment = [p \in Payments |-> NoPayment]
    /\ bonus = [m \in Referrers |-> 0]
    /\ bonusOut = [w \in BonusIds |-> NoWithdrawal]
    /\ airwaves = [w \in BonusIds |-> NoTransfer]
    /\ savings = [w \in BonusIds |-> 0]

-----------------------------------------------------------------------------
(* The programme *)

SetReferralConfig ==
    /\ config.changes < MaxConfigs
    /\ \E on \in BOOLEAN, r \in Rewards, c \in Caps :
          config' = [on |-> on, reward |-> r, cap |-> c, changes |-> config.changes + 1]
    /\ UNCHANGED <<referral, payment, bonus, bonusOut, airwaves, savings>>

\* referralpause and referralresume of the Board leave the amounts alone.
SetReferralEnabled ==
    /\ config.changes < MaxConfigs
    /\ config' = [config EXCEPT !.on = ~@, !.changes = @ + 1]
    /\ UNCHANGED <<referral, payment, bonus, bonusOut, airwaves, savings>>

\* One row per joiner; nobody refers himself.
RecordReferral(j, m) ==
    /\ config.on /\ j # m /\ referral[j].status = "none"
    /\ referral' = [referral EXCEPT ![j] = [status |-> "pending", by |-> m, reward |-> 0]]
    /\ UNCHANGED <<config, payment, bonus, bonusOut, airwaves, savings>>

-----------------------------------------------------------------------------
(* The reward *)

Earned(m) == Cardinality({j \in Joiners : referral[j].status = "rewarded" /\ referral[j].by = m})

\* The reads of the transaction: the row, the configuration, what was earned so far.
QualifyRead(p, j) ==
    /\ payment[p] = NoPayment
    /\ referral[j].status = "pending" /\ config.on
    /\ payment' = [payment EXCEPT ![p] =
                     [joiner |-> j, reward |-> config.reward,
                      over |-> config.cap > 0 /\ Earned(referral[j].by) >= config.cap]]
    /\ UNCHANGED <<config, referral, bonus, bonusOut, airwaves, savings>>

\* Mutant: the claim does not compare the status.
UnclaimedAny(j) == referral[j].status \in {"pending", "rewarded"}

Unclaimed(j) == referral[j].status = "pending"

\* The claim of the row decides, and the bonus goes with it.
Qualify(p) ==
    /\ payment[p] # NoPayment
    /\ LET j == payment[p].joiner
           m == referral[j].by
       IN  CASE ~Unclaimed(j) -> UNCHANGED <<referral, bonus>>
             [] Unclaimed(j) /\ payment[p].over ->
                  /\ referral' = [referral EXCEPT ![j].status = "rejected"]
                  /\ UNCHANGED bonus
             [] OTHER ->
                  /\ referral' = [referral EXCEPT ![j].status = "rewarded",
                                                  ![j].reward = payment[p].reward]
                  /\ bonus' = [bonus EXCEPT ![m] = @ + payment[p].reward]
    /\ payment' = [payment EXCEPT ![p] = NoPayment]
    /\ UNCHANGED <<config, bonusOut, airwaves, savings>>

\* The process dies, or the call fails and is only logged: the row stays pending.
QualifyDropped(p) ==
    /\ payment[p] # NoPayment
    /\ payment' = [payment EXCEPT ![p] = NoPayment]
    /\ UNCHANGED <<config, referral, bonus, bonusOut, airwaves, savings>>

-----------------------------------------------------------------------------
(* The withdrawal *)

\* withdrawReferralBonus, the first transaction: the guarded debit and the row.
Prepare(w, m, n, to) ==
    /\ bonusOut[w].status = "none"
    /\ n \in 1..bonus[m]
    /\ bonus' = [bonus EXCEPT ![m] = @ - n]
    /\ bonusOut' = [bonusOut EXCEPT ![w] = [status |-> "pending", by |-> m, amount |-> n,
                                            to |-> to, pc |-> "disburse"]]
    /\ UNCHANGED <<config, referral, payment, airwaves, savings>>

At(w, pc) == bonusOut[w].pc = pc
Goto(w, pc) == bonusOut' = [bonusOut EXCEPT ![w].pc = pc]

\* creditReferralBonusToWallet: the entry and the balance in one transaction.
CreditWallet(w) ==
    /\ At(w, "disburse") /\ bonusOut[w].to = "wallet"
    /\ \/ savings' = [savings EXCEPT ![w] = @ + bonusOut[w].amount] /\ Goto(w, "paid")
       \/ UNCHANGED savings /\ Goto(w, "fail")      \* no wallet, or the transaction failed
    /\ UNCHANGED <<config, referral, payment, bonus, airwaves>>

\* A time-out or an answer without a reference is told from a refusal.
Recharge(t) ==
    Refused(t)
      \cup {[answer |-> "successful", bank |-> [t EXCEPT !.sent = TRUE]]}
      \cup {[answer |-> "unsure", bank |-> [t EXCEPT !.sent = sent]] : sent \in BOOLEAN}

Outcomes(w) == IF bonusOut[w].to = "bank" THEN SendToBank(airwaves[w]) ELSE Recharge(airwaves[w])

\* Mutant: whatever is not a success is refunded.
AfterAnswerStrict(answer) == IF answer = "successful" THEN "paid" ELSE "fail"

\* markWithdrawalUnconfirmed only writes an audit entry: the row stays pending.
AfterAnswer(answer) ==
    CASE answer = "successful" -> "paid"
      [] answer = "unsure" -> "unsure"
      [] OTHER -> "fail"

Disburse(w) ==
    /\ At(w, "disburse") /\ bonusOut[w].to # "wallet"
    /\ \/ \E o \in Outcomes(w) :
             airwaves' = [airwaves EXCEPT ![w] = o.bank] /\ Goto(w, AfterAnswer(o.answer))
       \/ UNCHANGED airwaves /\ Goto(w, "fail")     \* no account on file, no VTU provider
    /\ UNCHANGED <<config, referral, payment, bonus, savings>>

MarkWithdrawalPaid(w) ==
    /\ At(w, "paid")
    /\ bonusOut' = [bonusOut EXCEPT ![w].status = "paid", ![w].pc = "done"]
    /\ UNCHANGED <<config, referral, payment, bonus, airwaves, savings>>

FailWithdrawalAndRefund(w) ==
    /\ At(w, "fail") /\ bonusOut[w].status = "pending"
    /\ bonusOut' = [bonusOut EXCEPT ![w].status = "failed", ![w].pc = "done"]
    /\ bonus' = [bonus EXCEPT ![bonusOut[w].by] = @ + bonusOut[w].amount]
    /\ UNCHANGED <<config, referral, payment, airwaves, savings>>

\* The process dies in the job: the row stays pending, and nothing settles it.
Crash(w) ==
    /\ bonusOut[w].pc \in {"disburse", "paid", "fail"}
    /\ \/ /\ At(w, "disburse") /\ bonusOut[w].to # "wallet"
          /\ \E o \in Outcomes(w) : airwaves' = [airwaves EXCEPT ![w] = o.bank]
       \/ UNCHANGED airwaves
    /\ Goto(w, "lost")
    /\ UNCHANGED <<config, referral, payment, bonus, savings>>

Next ==
    \/ SetReferralConfig \/ SetReferralEnabled
    \/ \E j \in Joiners :
          (\E m \in Referrers : RecordReferral(j, m)) \/ (\E p \in Payments : QualifyRead(p, j))
    \/ \E p \in Payments : Qualify(p) \/ QualifyDropped(p)
    \/ \E w \in BonusIds :
          \/ \E m \in Referrers, n \in 1..(Cardinality(Joiners) * Max(Rewards)), to \in Destinations :
                Prepare(w, m, n, to)
          \/ CreditWallet(w) \/ Disburse(w) \/ MarkWithdrawalPaid(w)
          \/ FailWithdrawalAndRefund(w) \/ Crash(w)

Spec == Init /\ [][Next]_vars

-----------------------------------------------------------------------------
(* Properties *)

\* The records keep to the columns of the schema.
TypeOK ==
    /\ config \in [on : BOOLEAN, reward : Rewards, cap : Caps \cup {0}, changes : 0..MaxConfigs]
    /\ referral \in [Joiners -> [status : {"none", "pending", "rewarded", "rejected"},
                                 by : Referrers \cup {NoMember}, reward : Rewards \cup {0}]]
    /\ airwaves \in [BonusIds -> Transfers]
    /\ \A w \in BonusIds : bonusOut[w].status \in {"none", "pending", "paid", "failed"}

RewardsOf(m) ==
    SumFunction([j \in Joiners |-> IF referral[j].by = m THEN referral[j].reward ELSE 0])
TakenBy(m) ==
    SumFunction([w \in BonusIds |-> IF bonusOut[w].by = m /\ bonusOut[w].status \in {"pending", "paid"}
                                    THEN bonusOut[w].amount ELSE 0])

(* referrals.ts:766, "guarded on pending so a crash/retry can never refund
   twice": whatever deposits, withdrawals and failures cross, a bonus is what
   the rewarded referrals gave less what is withdrawn or on its way, every joiner
   gave it once, and money that was acknowledged, or may be on its way, is not
   given back. *)
BonusAddsUp ==
    \A m \in Referrers :
        /\ bonus[m] + TakenBy(m) = RewardsOf(m)
        /\ \A w \in BonusIds :
              /\ savings[w] > 0 => bonusOut[w].status # "failed" /\ savings[w] = bonusOut[w].amount
              /\ At(w, "unsure") => bonusOut[w].status = "pending"
              /\ bonusOut[w].status = "failed" /\ bonusOut[w].to = "airtime" => ~airwaves[w].sent

\* README "Referrals": a per-referrer cap stops reward farming.
CapHolds ==
    config.cap > 0 /\ config.changes = 1 => \A m \in Referrers : Earned(m) <= config.cap
=============================================================================
