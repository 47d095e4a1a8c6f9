------------------------------- MODULE BooksProofs -------------------------------
(* The books of five parts of the front desk match, whatever the order in which handlers
   and jobs read, write and are rolled back, and for any number of members, groups, goals,
   loans, schemes, processes and amounts: referral bonuses (referrals.ts), group pots
   (groups.ts), savings products (savings-products.ts), shop loans (shop.ts, loans.ts) and
   commodity schemes (commodity-schemes.ts).

   Each part has an inductive invariant over its own variables; a step of another part
   leaves those unchanged.  Every invariant ends in "<Part>Holds", which says that it
   implies what BooksMatch asks of the part, and "<Part>Always". *)
EXTENDS MCFrontdesk, TLAPS, FiniteSetTheorems, Sums

-----------------------------------------------------------------------------
(* Referrals: what a joiner gave, what is withdrawn of it, and where it went. *)

ProgrammeRow == [on : BOOLEAN, reward : {1, 2}, cap : {0, 1}, changes : 0..1]
ReferralRow == {r \in [status : {"none", "pending", "rewarded", "rejected"},
                       by : Others \cup {NoOne}, reward : {0, 1, 2}] :
                   /\ r.status # "rewarded" => r.reward = 0
                   /\ r.status # "none" => r.by \in Others}
PaymentRow == [joiner : Members \cup {NoOne}, reward : {0, 1, 2}, over : BOOLEAN]
BonusRow == {r \in [status : {"none", "pending", "paid", "failed"}, by : Others \cup {NoOne}, amount : Nat,
                    to : {"wallet", "bank", "airtime"},
                    pc : {"none", "disburse", "paid", "unsure", "fail", "done", "lost"}] :
                /\ r.status # "none" => r.by \in Others
                /\ r.pc \in {"disburse", "paid", "unsure", "fail"} => r.status = "pending"}

ReferralTypes ==
    /\ config \in ProgrammeRow
    /\ referral \in [Members -> ReferralRow]
    /\ payment \in [Hands -> PaymentRow]
    /\ \A h \in Hands : payment[h] # R!NoPayment => payment[h].joiner \in Members /\ payment[h].reward \in {1, 2}
    /\ bonus \in [Others -> Nat] /\ bonusOut \in [Rows -> BonusRow]
    /\ airwaves \in [Rows -> R!Transfers] /\ savings \in [Rows -> Nat]

\* Where nothing was sent or acknowledged yet, and what came of it.
SentLawful(w) ==
    /\ bonusOut[w].status = "none" \/ bonusOut[w].pc = "disburse" => savings[w] = 0 /\ ~airwaves[w].sent
    /\ bonusOut[w].status = "failed" \/ bonusOut[w].pc = "fail" =>
          savings[w] = 0 /\ (bonusOut[w].to = "airtime" => ~airwaves[w].sent)
    /\ savings[w] > 0 => savings[w] = bonusOut[w].amount

Gave(r, m) == IF r.by = m THEN r.reward ELSE 0
Took(r, m) == IF r.by = m /\ r.status \in {"pending", "paid"} THEN r.amount ELSE 0
Given(m) == [j \in Members |-> Gave(referral[j], m)]
Taken(m) == [w \in Rows |-> Took(bonusOut[w], m)]
BonusesAdd ==
    \A m \in Others : bonus[m] + SumFunctionOnSet(Taken(m), Rows) = SumFunctionOnSet(Given(m), Members)

ReferralInv ==
    /\ ReferralTypes
    /\ \A w \in Rows : SentLawful(w)
    /\ BonusesAdd

LEMMA ReferralSets ==
    /\ IsFiniteSet(Members) /\ IsFiniteSet(Rows) /\ NoOne \notin Members /\ NoOne \notin Others
BY FrontdeskAssumption

LEMMA BonusSums ==
    ASSUME ReferralInv, NEW m \in Others
    PROVE  /\ SumFunctionOnSet(Taken(m), Rows) \in Int /\ SumFunctionOnSet(Given(m), Members) \in Int
           /\ bonus[m] \in Int
<1> DEFINE t == Taken(m)
           g == Given(m)
<1>1. \A w \in Rows : t[w] \in Int BY DEF ReferralInv, ReferralTypes, BonusRow, Taken, Took
<1>2. \A j \in Members : g[j] \in Int BY DEF ReferralInv, ReferralTypes, ReferralRow, Given, Gave
<1>3. bonus[m] \in Int BY DEF ReferralInv, ReferralTypes
<1> HIDE DEF t, g
<1>4. SumFunctionOnSet(t, Rows) \in Int BY <1>1, ReferralSets, SumInt
<1>5. SumFunctionOnSet(g, Members) \in Int BY <1>2, ReferralSets, SumInt
<1> QED BY <1>3, <1>4, <1>5 DEF t, g

LEMMA ReferralStart == R!Init => ReferralInv
<1> SUFFICES ASSUME R!Init PROVE ReferralInv OBVIOUS
<1> USE DEF R!Init
<1>1. config \in ProgrammeRow BY DEF ProgrammeRow
<1>2. R!NoReferral \in ReferralRow /\ R!NoReferral.reward = 0 BY DEF R!NoReferral, ReferralRow
<1>3. R!NoPayment \in PaymentRow BY DEF R!NoPayment, PaymentRow
<1>4. R!NoWithdrawal \in BonusRow /\ R!NoWithdrawal.status = "none" /\ R!NoWithdrawal.pc = "none"
      /\ R!NoWithdrawal.amount = 0
  BY DEF R!NoWithdrawal, BonusRow
<1>5. R!NoTransfer \in R!Transfers /\ ~R!NoTransfer.sent BY DEF R!NoTransfer, R!Transfers
<1>6. ReferralTypes BY <1>1, <1>2, <1>3, <1>4, <1>5 DEF ReferralTypes
<1>7. \A w \in Rows : SentLawful(w) BY <1>4, <1>5 DEF SentLawful
<1>8. ASSUME NEW m \in Others
      PROVE  bonus[m] + SumFunctionOnSet(Taken(m), Rows) = SumFunctionOnSet(Given(m), Members)
  <2> DEFINE t == Taken(m)
             g == Given(m)
  <2>1. \A w \in Rows : t[w] \in Int /\ t[w] = 0 BY <1>4 DEF Taken, Took
  <2>2. \A j \in Members : g[j] \in Int /\ g[j] = 0 BY <1>2 DEF Given, Gave
  <2> HIDE DEF t, g
  <2>3. {} \in SUBSET Rows /\ {} \in SUBSET Members OBVIOUS
  <2>4. SumFunctionOnSet(t, Rows) = 0 BY <2>1, <2>3, ReferralSets, SumSupport, SumEmpty
  <2>5. SumFunctionOnSet(g, Members) = 0 BY <2>2, <2>3, ReferralSets, SumSupport, SumEmpty
  <2>6. bonus[m] = 0 OBVIOUS
  <2> QED BY <2>4, <2>5, <2>6 DEF t, g
<1> QED BY <1>6, <1>7, <1>8 DEF ReferralInv, BonusesAdd

LEMMA TakenMoves ==
    ASSUME ReferralInv, NEW w \in Rows, NEW row \in BonusRow, bonusOut' = [bonusOut EXCEPT ![w] = row],
           NEW m \in Others
    PROVE  SumFunctionOnSet(Taken(m)', Rows)
             = (SumFunctionOnSet(Taken(m), Rows) - Took(bonusOut[w], m)) + Took(row, m)
<1>0. bonusOut \in [Rows -> BonusRow] BY DEF ReferralInv, ReferralTypes
<1>1. \A r \in BonusRow : Took(r, m) \in Int BY DEF BonusRow, Took
<1>2. /\ \A y \in Rows : bonusOut[y] \in BonusRow /\ bonusOut'[y] \in BonusRow
                        /\ (y # w => bonusOut'[y] = bonusOut[y])
      /\ bonusOut'[w] = row
  BY <1>0
<1>3. Shifts(Taken(m), Taken(m)', Rows, w, Took(bonusOut[w], m), Took(row, m))
  <2> DEFINE f == [y \in Rows |-> Took(bonusOut[y], m)]
             g == [y \in Rows |-> Took(bonusOut'[y], m)]
  <2>1. /\ \A y \in Rows : f[y] \in Int /\ g[y] \in Int /\ (y # w => g[y] = f[y])
        /\ f[w] = Took(bonusOut[w], m) /\ g[w] = Took(row, m)
    BY <1>1, <1>2
  <2>2. Taken(m) = f /\ Taken(m)' = g BY DEF Taken, Took
  <2> HIDE DEF f, g
  <2> QED BY <2>1, <2>2 DEF Shifts
<1> QED BY ONLY <1>3, SumShift, ReferralSets

LEMMA GivenMoves ==
    ASSUME ReferralInv, NEW j \in Members, NEW row \in ReferralRow, referral' = [referral EXCEPT ![j] = row],
           NEW m \in Others
    PROVE  SumFunctionOnSet(Given(m)', Members)
             = (SumFunctionOnSet(Given(m), Members) - Gave(referral[j], m)) + Gave(row, m)
<1>0. referral \in [Members -> ReferralRow] BY DEF ReferralInv, ReferralTypes
<1>1. \A r \in ReferralRow : Gave(r, m) \in Int BY DEF ReferralRow, Gave
<1>2. /\ \A y \in Members : referral[y] \in ReferralRow /\ referral'[y] \in ReferralRow
                           /\ (y # j => referral'[y] = referral[y])
      /\ referral'[j] = row
  BY <1>0
<1>3. Shifts(Given(m), Given(m)', Members, j, Gave(referral[j], m), Gave(row, m))
  <2> DEFINE f == [y \in Members |-> Gave(referral[y], m)]
             g == [y \in Members |-> Gave(referral'[y], m)]
  <2>1. /\ \A y \in Members : f[y] \in Int /\ g[y] \in Int /\ (y # j => g[y] = f[y])
        /\ f[j] = Gave(referral[j], m) /\ g[j] = Gave(row, m)
    BY <1>1, <1>2
  <2>2. Given(m) = f /\ Given(m)' = g BY DEF Given, Gave
  <2> HIDE DEF f, g
  <2> QED BY <2>1, <2>2 DEF Shifts
<1> QED BY ONLY <1>3, SumShift, ReferralSets

-----------------------------------------------------------------------------
(* Referrals and rewards *)

\* The bonuses and their withdrawals do not move.
LEMMA BonusesKept ==
    ASSUME ReferralInv, UNCHANGED <<bonus, bonusOut, airwaves, savings>>,
           \A m \in Others : SumFunctionOnSet(Given(m)', Members) = SumFunctionOnSet(Given(m), Members)
    PROVE  /\ bonus' \in [Others -> Nat] /\ bonusOut' \in [Rows -> BonusRow]
           /\ airwaves' \in [Rows -> R!Transfers] /\ savings' \in [Rows -> Nat]
           /\ \A w \in Rows : SentLawful(w)'
           /\ BonusesAdd'
<1>1. \A m \in Others : Taken(m)' = Taken(m) BY DEF Taken, Took
<1>2. \A w \in Rows : SentLawful(w)' BY DEF ReferralInv, SentLawful
<1>3. BonusesAdd' BY <1>1 DEF ReferralInv, BonusesAdd
<1> QED BY <1>2, <1>3 DEF ReferralInv, ReferralTypes

LEMMA GivenKept ==
    ASSUME UNCHANGED referral
    PROVE  \A m \in Others : SumFunctionOnSet(Given(m)', Members) = SumFunctionOnSet(Given(m), Members)
BY DEF Given, Gave

LEMMA ConfigIsSet == ASSUME ReferralInv, R!SetReferralConfig \/ R!SetReferralEnabled PROVE ReferralInv'
<1> USE DEF R!SetReferralConfig, R!SetReferralEnabled
<1>1. config' \in ProgrammeRow
  <2>0. config \in ProgrammeRow /\ config.changes \in 0..1 /\ config.changes < 1
    BY DEF ReferralInv, ReferralTypes, ProgrammeRow
  <2>1. PICK n \in 0..1 : n = config.changes + 1 BY <2>0
  <2>2. CASE R!SetReferralConfig
    <3>1. PICK on \in BOOLEAN, r \in {1, 2}, c \in {0, 1} :
             config' = [on |-> on, reward |-> r, cap |-> c, changes |-> n]
      BY <2>2, <2>1
    <3> QED BY <3>1 DEF ProgrammeRow
  <2>3. CASE R!SetReferralEnabled
    <3>1. config' = [config EXCEPT !.on = ~config.on, !.changes = n] BY <2>3, <2>1
    <3>2. (~config.on) \in BOOLEAN OBVIOUS
    <3> QED BY <2>0, <3>1, <3>2 DEF ProgrammeRow
  <2> QED BY <2>2, <2>3
<1>2. UNCHANGED <<referral, payment, bonus, bonusOut, airwaves, savings>> OBVIOUS
<1>3. ReferralTypes' BY <1>1, <1>2 DEF ReferralInv, ReferralTypes
<1> QED BY <1>2, <1>3, GivenKept, BonusesKept DEF ReferralInv

\* A joiner's row moves, to one that gave as much.
LEMMA ReferralMoves ==
    ASSUME ReferralInv, NEW j \in Members, NEW row \in ReferralRow, referral' = [referral EXCEPT ![j] = row],
           \A m \in Others : Gave(row, m) = Gave(referral[j], m),
           UNCHANGED <<bonus, bonusOut, airwaves, savings, config>>,
           payment' \in [Hands -> PaymentRow],
           \A h \in Hands : payment'[h] # R!NoPayment =>
                               payment'[h].joiner \in Members /\ payment'[h].reward \in {1, 2}
    PROVE  ReferralInv'
<1>0. referral \in [Members -> ReferralRow] BY DEF ReferralInv, ReferralTypes
<1>1. ASSUME NEW m \in Others
      PROVE  SumFunctionOnSet(Given(m)', Members) = SumFunctionOnSet(Given(m), Members)
  <2>1. SumFunctionOnSet(Given(m)', Members)
          = (SumFunctionOnSet(Given(m), Members) - Gave(referral[j], m)) + Gave(row, m)
    BY GivenMoves
  <2>2. Gave(row, m) \in Int BY DEF ReferralRow, Gave
  <2>3. SumFunctionOnSet(Given(m), Members) \in Int BY BonusSums
  <2>4. Gave(row, m) = Gave(referral[j], m) OBVIOUS
  <2> QED BY ONLY <2>1, <2>2, <2>3, <2>4
<1>2. referral' \in [Members -> ReferralRow] BY <1>0
<1>3. ReferralTypes' BY <1>2 DEF ReferralInv, ReferralTypes
<1> QED BY <1>1, <1>3, BonusesKept DEF ReferralInv

LEMMA Refers == ASSUME ReferralInv, NEW j \in Members, NEW m \in Others, R!RecordReferral(j, m) PROVE ReferralInv'
<1> USE DEF R!RecordReferral
<1>0. referral[j] \in ReferralRow /\ referral[j].status = "none" BY DEF ReferralInv, ReferralTypes
<1> DEFINE row == [status |-> "pending", by |-> m, reward |-> 0]
<1>1. row \in ReferralRow /\ row.reward = 0 /\ referral[j].reward = 0 BY <1>0 DEF ReferralRow
<1>2. referral' = [referral EXCEPT ![j] = row] OBVIOUS
<1> HIDE DEF row
<1>3. \A x \in Others : Gave(row, x) = Gave(referral[j], x) BY <1>1 DEF Gave
<1>4. /\ payment' \in [Hands -> PaymentRow]
      /\ \A h \in Hands : payment'[h] # R!NoPayment =>
                               payment'[h].joiner \in Members /\ payment'[h].reward \in {1, 2}
  BY DEF ReferralInv, ReferralTypes
<1> QED BY <1>1, <1>2, <1>3, <1>4, ReferralMoves

\* A payment is read, or dropped.
LEMMA PaymentMoves ==
    ASSUME ReferralInv, UNCHANGED <<config, referral, bonus, bonusOut, airwaves, savings>>,
           payment' \in [Hands -> PaymentRow],
           \A h \in Hands : payment'[h] # R!NoPayment =>
                               payment'[h].joiner \in Members /\ payment'[h].reward \in {1, 2}
    PROVE  ReferralInv'
<1>1. ReferralTypes' BY DEF ReferralInv, ReferralTypes
<1> QED BY <1>1, GivenKept, BonusesKept DEF ReferralInv

LEMMA PaymentIsRead == ASSUME ReferralInv, NEW h \in Hands, NEW j \in Members, R!QualifyRead(h, j) PROVE ReferralInv'
<1> USE DEF R!QualifyRead
<1>1. PICK o \in BOOLEAN : o = (config.cap > 0 /\ R!Earned(referral[j].by) >= config.cap) OBVIOUS
<1>2. config.reward \in {1, 2} BY DEF ReferralInv, ReferralTypes, ProgrammeRow
<1> DEFINE row == [joiner |-> j, reward |-> config.reward, over |-> o]
<1>3. payment' = [payment EXCEPT ![h] = row] BY <1>1
<1>4. row \in PaymentRow /\ row.joiner = j /\ row.reward \in {1, 2} BY <1>2 DEF PaymentRow
<1> HIDE DEF row
<1>5. /\ payment' \in [Hands -> PaymentRow]
      /\ \A k \in Hands : payment'[k] # R!NoPayment =>
                               payment'[k].joiner \in Members /\ payment'[k].reward \in {1, 2}
  BY <1>3, <1>4 DEF ReferralInv, ReferralTypes
<1> QED BY <1>5, PaymentMoves

LEMMA PaymentEnds ==
    ASSUME ReferralInv, NEW h \in Hands, payment' = [payment EXCEPT ![h] = R!NoPayment]
    PROVE  /\ payment' \in [Hands -> PaymentRow]
           /\ \A k \in Hands : payment'[k] # R!NoPayment =>
                               payment'[k].joiner \in Members /\ payment'[k].reward \in {1, 2}
<1>1. R!NoPayment \in PaymentRow BY DEF R!NoPayment, PaymentRow
<1> QED BY <1>1 DEF ReferralInv, ReferralTypes

LEMMA PaymentIsDropped == ASSUME ReferralInv, NEW h \in Hands, R!QualifyDropped(h) PROVE ReferralInv'
BY PaymentEnds, PaymentMoves DEF R!QualifyDropped

LEMMA JoinerQualifies == ASSUME ReferralInv, NEW h \in Hands, R!Qualify(h) PROVE ReferralInv'
<1> USE DEF R!Qualify
<1>0. PICK j \in Members : payment[h].joiner = j /\ payment[h].reward \in {1, 2}
  BY DEF ReferralInv, ReferralTypes
<1>p. /\ payment' \in [Hands -> PaymentRow]
      /\ \A k \in Hands : payment'[k] # R!NoPayment =>
                               payment'[k].joiner \in Members /\ payment'[k].reward \in {1, 2}
  BY PaymentEnds
<1>r. referral \in [Members -> ReferralRow] /\ referral[j] \in ReferralRow BY DEF ReferralInv, ReferralTypes
<1>1. CASE ~R!Unclaimed(j)
  <2>1. UNCHANGED <<config, referral, bonus, bonusOut, airwaves, savings>> BY <1>0, <1>1
  <2> QED BY <2>1, <1>p, PaymentMoves
<1>2. CASE R!Unclaimed(j) /\ payment[h].over
  <2> DEFINE row == [referral[j] EXCEPT !.status = "rejected"]
  <2>1. referral[j].status = "pending" BY <1>2 DEF R!Unclaimed
  <2>2. row \in ReferralRow /\ row.reward = referral[j].reward /\ row.by = referral[j].by
    BY <1>r, <2>1 DEF ReferralRow
  <2>3. referral' = [referral EXCEPT ![j] = row] /\ UNCHANGED bonus BY <1>0, <1>2, <1>r
  <2> HIDE DEF row
  <2>4. \A x \in Others : Gave(row, x) = Gave(referral[j], x) BY <2>2 DEF Gave
  <2> QED BY <2>2, <2>3, <2>4, <1>p, ReferralMoves
<1>3. CASE R!Unclaimed(j) /\ ~payment[h].over
  <2>1. referral[j].status = "pending" BY <1>3 DEF R!Unclaimed
  <2>2. PICK m \in Others : referral[j].by = m BY <1>r, <2>1 DEF ReferralRow
  <2>3. PICK n \in {1, 2} : payment[h].reward = n BY <1>0
  <2> DEFINE row == [referral[j] EXCEPT !.status = "rewarded", !.reward = n]
  <2>4. row \in ReferralRow /\ row.reward = n /\ row.by = m /\ referral[j].reward = 0
    BY <1>r, <2>1, <2>2 DEF ReferralRow
  <2>5. referral' = [referral EXCEPT ![j] = row] BY <1>0, <1>3, <1>r, <2>3
  <2>6. bonus' = [bonus EXCEPT ![m] = bonus[m] + n] /\ bonus \in [Others -> Nat]
    BY <1>0, <1>3, <2>2, <2>3 DEF ReferralInv, ReferralTypes
  <2> HIDE DEF row
  <2>7. referral' \in [Members -> ReferralRow] /\ bonus' \in [Others -> Nat] BY <1>r, <2>4, <2>5, <2>6
  <2>8. ReferralTypes' BY <1>p, <2>7 DEF ReferralInv, ReferralTypes
  <2>9. \A w \in Rows : SentLawful(w)' BY DEF ReferralInv, SentLawful
  <2>10. ASSUME NEW x \in Others
         PROVE  (bonus[x] + SumFunctionOnSet(Taken(x), Rows) = SumFunctionOnSet(Given(x), Members))'
    <3>1. Taken(x)' = Taken(x) BY DEF Taken, Took
    <3>2. SumFunctionOnSet(Given(x)', Members)
            = (SumFunctionOnSet(Given(x), Members) - Gave(referral[j], x)) + Gave(row, x)
      BY <2>4, <2>5, GivenMoves
    <3>3. bonus[x] + SumFunctionOnSet(Taken(x), Rows) = SumFunctionOnSet(Given(x), Members)
      BY DEF ReferralInv, BonusesAdd
    <3>4. Gave(referral[j], x) = 0 /\ Gave(row, x) = (IF x = m THEN n ELSE 0)
      BY <2>2, <2>4 DEF Gave
    <3>5. bonus'[x] = bonus[x] + (IF x = m THEN n ELSE 0) BY <2>6
    <3>6. /\ SumFunctionOnSet(Taken(x), Rows) \in Int /\ SumFunctionOnSet(Given(x), Members) \in Int
          /\ bonus[x] \in Int
      BY BonusSums
    <3>7. bonus'[x] + SumFunctionOnSet(Taken(x)', Rows) = SumFunctionOnSet(Given(x)', Members)
      <4>1. CASE x = m BY ONLY <4>1, <3>1, <3>2, <3>3, <3>4, <3>5, <3>6, n \in {1, 2}
      <4>2. CASE x # m BY ONLY <4>2, <3>1, <3>2, <3>3, <3>4, <3>5, <3>6
      <4> QED BY <4>1, <4>2
    <3> QED BY <3>7
  <2> QED BY <2>8, <2>9, <2>10 DEF ReferralInv, BonusesAdd
<1> QED BY <1>1, <1>2, <1>3

-----------------------------------------------------------------------------
(* Withdrawals of a bonus *)

\* A withdrawal's row moves, with what of the bonus it is worth, and what was sent for it.
LEMMA WithdrawalMoves ==
    ASSUME ReferralInv, NEW w \in Rows, NEW row \in BonusRow, bonusOut' = [bonusOut EXCEPT ![w] = row],
           UNCHANGED <<config, referral, payment>>, bonus' \in [Others -> Nat],
           \A m \in Others : bonus'[m] + Took(row, m) = bonus[m] + Took(bonusOut[w], m),
           NEW t \in R!Transfers, airwaves' = [airwaves EXCEPT ![w] = t],
           NEW n \in Nat, savings' = [savings EXCEPT ![w] = n],
           row.status = "none" \/ row.pc = "disburse" => n = 0 /\ ~t.sent,
           row.status = "failed" \/ row.pc = "fail" => n = 0 /\ (row.to = "airtime" => ~t.sent),
           n > 0 => n = row.amount
    PROVE  ReferralInv'
<1>0. bonusOut \in [Rows -> BonusRow] /\ airwaves \in [Rows -> R!Transfers] /\ savings \in [Rows -> Nat]
  BY DEF ReferralInv, ReferralTypes
<1>1. /\ bonusOut' \in [Rows -> BonusRow] /\ airwaves' \in [Rows -> R!Transfers] /\ savings' \in [Rows -> Nat]
      /\ bonusOut'[w] = row /\ airwaves'[w] = t /\ savings'[w] = n
      /\ \A y \in Rows : y # w => /\ bonusOut'[y] = bonusOut[y] /\ airwaves'[y] = airwaves[y]
                                  /\ savings'[y] = savings[y]
  BY <1>0
<1>2. ReferralTypes' BY <1>1 DEF ReferralInv, ReferralTypes
<1>3. \A y \in Rows : SentLawful(y)'
  <2>1. SentLawful(w)' BY <1>1 DEF SentLawful
  <2>2. ASSUME NEW y \in Rows, y # w PROVE SentLawful(y)' BY <2>2, <1>1 DEF ReferralInv, SentLawful
  <2> QED BY <2>1, <2>2
<1>4. ASSUME NEW m \in Others
      PROVE  (bonus[m] + SumFunctionOnSet(Taken(m), Rows) = SumFunctionOnSet(Given(m), Members))'
  <2>1. Given(m)' = Given(m) BY DEF Given, Gave
  <2>2. SumFunctionOnSet(Taken(m)', Rows)
          = (SumFunctionOnSet(Taken(m), Rows) - Took(bonusOut[w], m)) + Took(row, m)
    BY TakenMoves
  <2>3. bonus[m] + SumFunctionOnSet(Taken(m), Rows) = SumFunctionOnSet(Given(m), Members)
    BY DEF ReferralInv, BonusesAdd
  <2>4. /\ SumFunctionOnSet(Taken(m), Rows) \in Int /\ bonus[m] \in Int
    BY BonusSums
  <2>5. \A r \in BonusRow : Took(r, m) \in Int BY DEF BonusRow, Took
  <2>6. Took(bonusOut[w], m) \in Int /\ Took(row, m) \in Int /\ bonus'[m] \in Int BY <1>0, <2>5
  <2>7. bonus'[m] + Took(row, m) = bonus[m] + Took(bonusOut[w], m) OBVIOUS
  <2>8. bonus'[m] + SumFunctionOnSet(Taken(m)', Rows) = SumFunctionOnSet(Given(m)', Members)
    BY ONLY <2>1, <2>2, <2>3, <2>4, <2>6, <2>7
  <2> QED BY <2>8
<1> QED BY <1>2, <1>3, <1>4 DEF ReferralInv, BonusesAdd

\* The row goes to another step of its job, and nothing else moves but what is sent.
LEMMA JobMoves ==
    ASSUME ReferralInv, NEW w \in Rows, NEW pc \in {"paid", "unsure", "fail", "lost"}, R!Goto(w, pc),
           bonusOut[w].status = "pending", UNCHANGED <<config, referral, payment, bonus>>,
           NEW t \in R!Transfers, airwaves' = [airwaves EXCEPT ![w] = t],
           NEW n \in Nat, savings' = [savings EXCEPT ![w] = n],
           pc = "fail" => n = 0 /\ (bonusOut[w].to = "airtime" => ~t.sent),
           n > 0 => n = bonusOut[w].amount
    PROVE  ReferralInv'
<1>0. bonusOut \in [Rows -> BonusRow] /\ bonusOut[w] \in BonusRow BY DEF ReferralInv, ReferralTypes
<1> DEFINE row == [bonusOut[w] EXCEPT !.pc = pc]
<1>1. /\ row \in BonusRow /\ row.status = "pending" /\ row.amount = bonusOut[w].amount
      /\ row.by = bonusOut[w].by /\ row.to = bonusOut[w].to /\ row.pc = pc
  BY <1>0 DEF BonusRow
<1>2. bonusOut' = [bonusOut EXCEPT ![w] = row] BY <1>0 DEF R!Goto
<1> HIDE DEF row
<1>3. \A m \in Others : Took(row, m) = Took(bonusOut[w], m) BY <1>1 DEF Took
<1>4. bonus' \in [Others -> Nat] BY DEF ReferralInv, ReferralTypes
<1>5. \A m \in Others : bonus'[m] + Took(row, m) = bonus[m] + Took(bonusOut[w], m) BY <1>3
<1> QED BY <1>1, <1>2, <1>4, <1>5, WithdrawalMoves

LEMMA Unsent ==
    ASSUME ReferralInv, NEW w \in Rows
    PROVE  /\ UNCHANGED airwaves => airwaves' = [airwaves EXCEPT ![w] = airwaves[w]]
           /\ UNCHANGED savings => savings' = [savings EXCEPT ![w] = savings[w]]
           /\ airwaves[w] \in R!Transfers /\ savings[w] \in Nat
BY DEF ReferralInv, ReferralTypes

LEMMA Prepared ==
    ASSUME ReferralInv, NEW w \in Rows, NEW m \in Others, NEW n \in 1..bonus[m],
           NEW to \in {"wallet", "bank", "airtime"}, R!Prepare(w, m, n, to)
    PROVE  ReferralInv'
<1> USE DEF R!Prepare
<1>0. /\ bonusOut[w] \in BonusRow /\ bonusOut[w].status = "none" /\ bonus \in [Others -> Nat]
      /\ n \in Nat /\ bonus[m] - n \in Nat
  BY DEF ReferralInv, ReferralTypes
<1> DEFINE row == [status |-> "pending", by |-> m, amount |-> n, to |-> to, pc |-> "disburse"]
<1>1. /\ row \in BonusRow /\ row.status = "pending" /\ row.by = m /\ row.amount = n /\ row.pc = "disburse"
  BY <1>0 DEF BonusRow
<1>2. bonusOut' = [bonusOut EXCEPT ![w] = row] /\ bonus' = [bonus EXCEPT ![m] = bonus[m] - n]
  BY <1>0
<1> HIDE DEF row
<1>3. bonus' \in [Others -> Nat] BY <1>0, <1>2
<1>4. \A x \in Others : Took(bonusOut[w], x) = 0 /\ Took(row, x) = (IF x = m THEN n ELSE 0)
  BY <1>0, <1>1 DEF Took
<1>5. \A x \in Others : bonus'[x] + Took(row, x) = bonus[x] + Took(bonusOut[w], x)
  BY <1>0, <1>2, <1>4
<1>6. savings[w] = 0 /\ ~airwaves[w].sent BY <1>0 DEF ReferralInv, SentLawful
<1>7. /\ airwaves' = [airwaves EXCEPT ![w] = airwaves[w]] /\ savings' = [savings EXCEPT ![w] = savings[w]]
      /\ airwaves[w] \in R!Transfers /\ savings[w] \in Nat /\ ~(savings[w] > 0)
  BY <1>6, Unsent
<1>8. UNCHANGED <<config, referral, payment>> OBVIOUS
<1> QED BY ONLY ReferralInv, w \in Rows, <1>1, <1>2, <1>3, <1>5, <1>6, <1>7, <1>8, WithdrawalMoves

LEMMA WalletCredited == ASSUME ReferralInv, NEW w \in Rows, R!CreditWallet(w) PROVE ReferralInv'
<1> USE DEF R!CreditWallet
<1>0. bonusOut[w].pc = "disburse" /\ bonusOut[w].status = "pending" /\ bonusOut[w].to = "wallet"
      /\ savings[w] = 0 /\ bonusOut[w].amount \in Nat /\ savings \in [Rows -> Nat]
  BY DEF R!At, ReferralInv, ReferralTypes, BonusRow, SentLawful
<1>1. /\ airwaves' = [airwaves EXCEPT ![w] = airwaves[w]] /\ airwaves[w] \in R!Transfers BY Unsent
<1>u. UNCHANGED <<config, referral, payment, bonus>> OBVIOUS
<1>2. CASE savings' = [savings EXCEPT ![w] = @ + bonusOut[w].amount] /\ R!Goto(w, "paid")
  <2>1. PICK n \in Nat : n = bonusOut[w].amount BY <1>0
  <2>2. savings[w] + bonusOut[w].amount = n BY <1>0, <2>1
  <2>3. savings' = [savings EXCEPT ![w] = n] BY <1>0, <1>2, <2>2
  <2>4. PICK pc \in {"paid", "unsure", "fail", "lost"} : pc = "paid" /\ R!Goto(w, pc) BY <1>2
  <2>5. ~(pc = "fail") /\ (n > 0 => n = bonusOut[w].amount) BY <2>1, <2>4
  <2> QED BY ONLY ReferralInv, w \in Rows, <1>0, <1>1, <1>u, <2>3, <2>4, <2>5, JobMoves
<1>3. CASE UNCHANGED savings /\ R!Goto(w, "fail")
  <2>1. savings' = [savings EXCEPT ![w] = savings[w]] /\ savings[w] \in Nat /\ ~(savings[w] > 0)
    BY <1>0, <1>3, Unsent
  <2>2. PICK pc \in {"paid", "unsure", "fail", "lost"} : pc = "fail" /\ R!Goto(w, pc) BY <1>3
  <2>3. ~(bonusOut[w].to = "airtime") BY <1>0
  <2> QED BY ONLY ReferralInv, w \in Rows, <1>0, <1>1, <1>u, <2>1, <2>2, <2>3, JobMoves
<1> QED BY <1>2, <1>3

\* What a call can answer: a refusal of airtime has sent nothing.
LEMMA Answers ==
    ASSUME ReferralInv, NEW w \in Rows, NEW o \in R!Outcomes(w), bonusOut[w].pc = "disburse"
    PROVE  /\ o.bank \in R!Transfers /\ R!AfterAnswer(o.answer) \in {"paid", "unsure", "fail"}
           /\ R!AfterAnswer(o.answer) = "fail" /\ bonusOut[w].to = "airtime" => ~o.bank.sent
<1>0. airwaves[w] \in R!Transfers /\ ~airwaves[w].sent BY DEF ReferralInv, ReferralTypes, SentLawful
<1>1. R!AfterAnswer(o.answer) \in {"paid", "unsure", "fail"} BY DEF R!AfterAnswer
<1>2. CASE bonusOut[w].to = "bank"
  <2>1. o \in R!SendToBank(airwaves[w]) BY <1>2 DEF R!Outcomes
  <2>2. o.bank \in R!Transfers
    <3>1. o \in R!Refused(airwaves[w]) \/ o \in R!Paid \/ o \in R!Unconfirmed \/ o \in R!AnswerLost
      BY <2>1 DEF R!SendToBank
    <3>2. \A a, b \in BOOLEAN : [sent |-> a, row |-> b] \in R!Transfers BY DEF R!Transfers
    <3>3. o \in R!Paid => o.bank = [sent |-> TRUE, row |-> TRUE] BY DEF R!Paid
    <3>4. o \in R!Unconfirmed => o.bank = [sent |-> TRUE, row |-> FALSE] BY DEF R!Unconfirmed
    <3>5. o \in R!AnswerLost => o.bank = [sent |-> TRUE, row |-> FALSE] BY DEF R!AnswerLost
    <3>6. o \in R!Refused(airwaves[w]) => o.bank = airwaves[w] BY DEF R!Refused
    <3> QED BY <1>0, <3>1, <3>2, <3>3, <3>4, <3>5, <3>6
  <2> QED BY <1>1, <1>2, <2>2
<1>3. CASE bonusOut[w].to # "bank"
  <2>1. o \in R!Recharge(airwaves[w]) BY <1>3 DEF R!Outcomes
  <2>2. CASE o \in R!Refused(airwaves[w]) BY <1>0, <1>1, <2>2 DEF R!Refused
  <2>3. CASE o \in {[answer |-> "successful", bank |-> [airwaves[w] EXCEPT !.sent = TRUE]]}
    <3>1. o.answer = "successful" /\ o.bank = [airwaves[w] EXCEPT !.sent = TRUE] BY <2>3
    <3>2. o.bank \in R!Transfers BY <1>0, <3>1 DEF R!Transfers
    <3>3. R!AfterAnswer(o.answer) = "paid" BY <3>1 DEF R!AfterAnswer
    <3> QED BY <3>2, <3>3
  <2>4. CASE o \in {[answer |-> "unsure", bank |-> [airwaves[w] EXCEPT !.sent = b]] : b \in BOOLEAN}
    <3>1. PICK b \in BOOLEAN : o = [answer |-> "unsure", bank |-> [airwaves[w] EXCEPT !.sent = b]] BY <2>4
    <3>2. o.bank \in R!Transfers BY <1>0, <3>1 DEF R!Transfers
    <3>3. R!AfterAnswer(o.answer) = "unsure" BY <3>1 DEF R!AfterAnswer
    <3> QED BY <3>2, <3>3
  <2> QED BY <2>1, <2>2, <2>3, <2>4 DEF R!Recharge
<1> QED BY <1>2, <1>3

LEMMA Disbursed == ASSUME ReferralInv, NEW w \in Rows, R!Disburse(w) PROVE ReferralInv'
<1> USE DEF R!Disburse
<1>0. bonusOut[w].pc = "disburse" /\ bonusOut[w].status = "pending" /\ savings[w] = 0 /\ ~airwaves[w].sent
  BY DEF R!At, ReferralInv, ReferralTypes, BonusRow, SentLawful
<1>1. savings' = [savings EXCEPT ![w] = savings[w]] /\ savings[w] \in Nat /\ ~(savings[w] > 0)
  BY <1>0, Unsent
<1>2. CASE \E o \in R!Outcomes(w) :
              airwaves' = [airwaves EXCEPT ![w] = o.bank] /\ R!Goto(w, R!AfterAnswer(o.answer))
  <2>1. PICK o \in R!Outcomes(w) :
              airwaves' = [airwaves EXCEPT ![w] = o.bank] /\ R!Goto(w, R!AfterAnswer(o.answer))
    BY <1>2
  <2>2. PICK pc \in {"paid", "unsure", "fail"} : pc = R!AfterAnswer(o.answer) BY <1>0, Answers
  <2>3. PICK t \in R!Transfers : t = o.bank BY <1>0, Answers
  <2>4. pc = "fail" /\ bonusOut[w].to = "airtime" => ~t.sent BY <1>0, <2>2, <2>3, Answers
  <2> QED BY <1>0, <1>1, <2>1, <2>2, <2>3, <2>4, JobMoves
<1>3. CASE UNCHANGED airwaves /\ R!Goto(w, "fail")
  <2>1. airwaves' = [airwaves EXCEPT ![w] = airwaves[w]] /\ airwaves[w] \in R!Transfers BY <1>3, Unsent
  <2> QED BY <1>0, <1>1, <1>3, <2>1, JobMoves
<1> QED BY <1>2, <1>3

LEMMA JobDies == ASSUME ReferralInv, NEW w \in Rows, R!Crash(w) PROVE ReferralInv'
<1> USE DEF R!Crash
<1>0. /\ bonusOut[w].status = "pending" /\ savings[w] \in Nat
      /\ savings[w] > 0 => savings[w] = bonusOut[w].amount
  BY DEF ReferralInv, ReferralTypes, BonusRow, SentLawful
<1>1. savings' = [savings EXCEPT ![w] = savings[w]] BY Unsent
<1>2. PICK t \in R!Transfers : airwaves' = [airwaves EXCEPT ![w] = t]
  <2>1. CASE /\ R!At(w, "disburse") /\ bonusOut[w].to # "wallet"
             /\ \E o \in R!Outcomes(w) : airwaves' = [airwaves EXCEPT ![w] = o.bank]
    BY <2>1, Answers DEF R!At
  <2>2. CASE UNCHANGED airwaves BY <2>2, Unsent
  <2> QED BY <2>1, <2>2
<1> QED BY <1>0, <1>1, <1>2, JobMoves

LEMMA MarkedPaid == ASSUME ReferralInv, NEW w \in Rows, R!MarkWithdrawalPaid(w) PROVE ReferralInv'
<1> USE DEF R!MarkWithdrawalPaid
<1>0. bonusOut \in [Rows -> BonusRow] /\ bonusOut[w] \in BonusRow /\ bonusOut[w].status = "pending"
  BY DEF R!At, ReferralInv, ReferralTypes, BonusRow
<1> DEFINE row == [bonusOut[w] EXCEPT !.status = "paid", !.pc = "done"]
<1>1. /\ row \in BonusRow /\ row.status = "paid" /\ row.amount = bonusOut[w].amount
      /\ row.by = bonusOut[w].by /\ row.pc = "done"
  BY <1>0 DEF BonusRow
<1>2. bonusOut' = [bonusOut EXCEPT ![w] = row] BY <1>0
<1> HIDE DEF row
<1>3. \A m \in Others : Took(row, m) = Took(bonusOut[w], m) BY <1>0, <1>1 DEF Took
<1>4. bonus' \in [Others -> Nat] BY DEF ReferralInv, ReferralTypes
<1>5. \A m \in Others : bonus'[m] + Took(row, m) = bonus[m] + Took(bonusOut[w], m) BY <1>3
<1>6. /\ airwaves' = [airwaves EXCEPT ![w] = airwaves[w]] /\ savings' = [savings EXCEPT ![w] = savings[w]]
      /\ airwaves[w] \in R!Transfers /\ savings[w] \in Nat
      /\ savings[w] > 0 => savings[w] = bonusOut[w].amount
  BY Unsent DEF ReferralInv, SentLawful
<1>7. UNCHANGED <<config, referral, payment>> OBVIOUS
<1> QED BY ONLY ReferralInv, w \in Rows, <1>1, <1>2, <1>4, <1>5, <1>6, <1>7, WithdrawalMoves

LEMMA FailedAndRefunded == ASSUME ReferralInv, NEW w \in Rows, R!FailWithdrawalAndRefund(w) PROVE ReferralInv'
<1> USE DEF R!FailWithdrawalAndRefund
<1>0. bonusOut \in [Rows -> BonusRow] /\ bonusOut[w] \in BonusRow /\ bonusOut[w].status = "pending"
      /\ bonusOut[w].pc = "fail" /\ bonus \in [Others -> Nat]
  BY DEF R!At, ReferralInv, ReferralTypes, BonusRow
<1>m. PICK m \in Others : bonusOut[w].by = m BY <1>0 DEF BonusRow
<1>n. PICK n \in Nat : bonusOut[w].amount = n BY <1>0 DEF BonusRow
<1> DEFINE row == [bonusOut[w] EXCEPT !.status = "failed", !.pc = "done"]
<1>1. row \in BonusRow /\ row.status = "failed" /\ row.pc = "done" /\ row.to = bonusOut[w].to
  BY <1>0 DEF BonusRow
<1>2. bonusOut' = [bonusOut EXCEPT ![w] = row] /\ bonus' = [bonus EXCEPT ![m] = bonus[m] + n]
  BY <1>0, <1>m, <1>n
<1> HIDE DEF row
<1>3. \A x \in Others : Took(row, x) = 0 /\ Took(bonusOut[w], x) = (IF x = m THEN n ELSE 0)
  BY <1>0, <1>1, <1>m, <1>n DEF Took
<1>b. bonus[m] + n \in Nat BY <1>0
<1>4. bonus' \in [Others -> Nat] BY <1>0, <1>2, <1>b
<1>5. \A x \in Others : bonus'[x] + Took(row, x) = bonus[x] + Took(bonusOut[w], x)
  BY <1>0, <1>2, <1>3
<1>6. /\ airwaves' = [airwaves EXCEPT ![w] = airwaves[w]] /\ savings' = [savings EXCEPT ![w] = savings[w]]
      /\ airwaves[w] \in R!Transfers /\ savings[w] \in Nat
      /\ savings[w] = 0 /\ ~(savings[w] > 0) /\ (row.to = "airtime" => ~airwaves[w].sent)
  BY <1>0, <1>1, Unsent DEF ReferralInv, SentLawful
<1>7. UNCHANGED <<config, referral, payment>> OBVIOUS
<1> QED BY ONLY ReferralInv, w \in Rows, <1>1, <1>2, <1>4, <1>5, <1>6, <1>7, WithdrawalMoves

LEMMA ReferralStep == ASSUME ReferralInv, R!Next PROVE ReferralInv'
<1>1. ASSUME NEW w \in Rows, NEW m \in Others, NEW n, NEW to \in {"wallet", "bank", "airtime"},
             R!Prepare(w, m, n, to)
      PROVE  ReferralInv'
  <2>1. n \in 1..bonus[m] BY <1>1 DEF R!Prepare
  <2> QED BY <1>1, <2>1, Prepared
<1> QED BY <1>1, ConfigIsSet, Refers, PaymentIsRead, PaymentIsDropped, JoinerQualifies, WalletCredited,
           Disbursed, MarkedPaid, FailedAndRefunded, JobDies DEF R!Next, R!Destinations

LEMMA ReferralHolds == ReferralInv => R!TypeOK /\ R!BonusAddsUp
<1> SUFFICES ASSUME ReferralInv PROVE R!TypeOK /\ R!BonusAddsUp OBVIOUS
<1>0. ReferralTypes BY DEF ReferralInv
<1>1. R!TypeOK BY <1>0 DEF ReferralTypes, ProgrammeRow, ReferralRow, BonusRow, R!TypeOK
<1>2. ASSUME NEW m \in Others PROVE bonus[m] + R!TakenBy(m) = R!RewardsOf(m)
  <2> DEFINE t == [w \in Rows |-> IF bonusOut[w].by = m /\ bonusOut[w].status \in {"pending", "paid"}
                                  THEN bonusOut[w].amount ELSE 0]
             g == [j \in Members |-> IF referral[j].by = m THEN referral[j].reward ELSE 0]
  <2>1. t = Taken(m) /\ g = Given(m) /\ DOMAIN t = Rows /\ DOMAIN g = Members
    BY DEF Taken, Given, Took, Gave
  <2>2. R!TakenBy(m) = R!SumFunction(t) /\ R!RewardsOf(m) = R!SumFunction(g)
    BY DEF R!TakenBy, R!RewardsOf
  <2> HIDE DEF t, g
  <2>3. R!SumFunction(t) = SumFunctionOnSet(t, Rows) /\ R!SumFunction(g) = SumFunctionOnSet(g, Members)
    BY <2>1 DEF R!SumFunction, R!SumFunctionOnSet, R!FoldFunctionOnSet, R!MapThenFoldSet,
         SumFunctionOnSet, FoldFunctionOnSet, MapThenFoldSet
  <2> QED BY <2>1, <2>2, <2>3 DEF ReferralInv, BonusesAdd
<1>3. ASSUME NEW w \in Rows
      PROVE  /\ savings[w] > 0 => bonusOut[w].status # "failed" /\ savings[w] = bonusOut[w].amount
             /\ R!At(w, "unsure") => bonusOut[w].status = "pending"
             /\ bonusOut[w].status = "failed" /\ bonusOut[w].to = "airtime" => ~airwaves[w].sent
  BY <1>0 DEF ReferralInv, SentLawful, ReferralTypes, BonusRow, R!At
<1> QED BY <1>1, <1>2, <1>3 DEF R!BonusAddsUp

LEMMA ReferralAlways == Spec => []ReferralInv
<1>1. Init => ReferralInv BY ReferralStart DEF Init
<1>2. ReferralInv /\ [Next]_vars => ReferralInv'
  <2> SUFFICES ASSUME ReferralInv, [Next]_vars PROVE ReferralInv' OBVIOUS
  <2>1. R!Next \/ UNCHANGED referralsVars BY Zenon DEF Next, vars
  <2>2. CASE UNCHANGED referralsVars
    <3>1. UNCHANGED <<config, referral, payment, bonus, bonusOut, airwaves, savings>>
      BY <2>2 DEF referralsVars
    <3>2. ReferralTypes' BY <3>1 DEF ReferralInv, ReferralTypes
    <3> QED BY <3>1, <3>2, GivenKept, BonusesKept DEF ReferralInv
  <2> QED BY <2>1, <2>2, ReferralStep
<1> QED BY <1>1, <1>2, PTL DEF Spec

-----------------------------------------------------------------------------
(* A savings group: what was paid into a round and out of it, the pot and the
   wallets. *)

Joiners == Members \cup Others
Turns == Hands \cup One
Rounds == 1..Length
GroupSeatRow == [in : BOOLEAN, position : Nat, shares : Nat]
TurnRow == [pc : {"idle", "join", "contribute", "close"}, who : Joiners \cup {NoOne}, round : Nat, amount : Nat]

GroupTypes ==
    /\ kind \in {"rosca", "vsla"} /\ open \in 0..Length
    /\ seat \in [Joiners -> GroupSeatRow] /\ paidIn \in [Rounds -> [Joiners -> Nat]]
    /\ paidOut \in [Rounds -> [Joiners -> Nat]] /\ late \in BOOLEAN
    /\ pot \in Int /\ wallet \in [Joiners -> Nat]
    /\ hand \in [Turns -> TurnRow]

TakenIn(r) == SumFunctionOnSet(paidIn[r], Joiners)
GivenOut(r) == SumFunctionOnSet(paidOut[r], Joiners)

\* A contribution is for a round there is, and in a ROSCA one share; a close never
\* pays more than is in its round, and its round was open.
TurnKnows(h) ==
    /\ hand[h].pc \in {"join", "contribute"} => hand[h].who \in Joiners
    /\ hand[h].pc \in {"contribute", "close"} => hand[h].round \in Rounds
    /\ hand[h].pc = "contribute" /\ kind = "rosca" => hand[h].amount = 1
    /\ hand[h].pc = "close" => /\ hand[h].amount <= TakenIn(hand[h].round)
                               /\ open = 0 \/ hand[h].round <= open

InTheRounds == [r \in Rounds |-> TakenIn(r) - GivenOut(r)]
Again(r) == kind = "vsla" /\ r = Length /\ late

MoneyStays ==
    /\ pot = SumFunctionOnSet(InTheRounds, Rounds)
    /\ pot + SumFunctionOnSet(wallet, Joiners) = Cardinality(Joiners \ Others)
    /\ \A r \in Rounds : GivenOut(r) > TakenIn(r) => Again(r)
\* Nothing is paid out of a round that is still open or has not been. Once the last one
\* of a VSLA is closed, it was shared out only if that took all the shares.
Rotation ==
    /\ \A r \in Rounds : open # 0 /\ open <= r => GivenOut(r) = 0
    /\ kind = "vsla" /\ open = 0 /\ ~late =>
          GivenOut(Length) = 0 \/ \A m \in Joiners : seat[m].shares = 0
OncePerRound == kind = "rosca" => \A r \in Rounds : \A m \in Joiners : paidIn[r][m] <= 1

GroupInv == GroupTypes /\ (\A h \in Turns : TurnKnows(h)) /\ MoneyStays /\ Rotation /\ OncePerRound

LEMMA GroupSets ==
    /\ IsFiniteSet(Joiners) /\ IsFiniteSet(Rounds) /\ Length \in Nat /\ Length > 0 /\ Kobo \in Nat
    /\ NoOne \notin Joiners
<1>1. IsFiniteSet(Members) /\ IsFiniteSet(Others) /\ Length \in Nat /\ Length > 0 /\ Kobo \in Nat
      /\ NoOne \notin Joiners
  BY FrontdeskAssumption DEF Joiners
<1>2. IsFiniteSet(Joiners) BY <1>1, FS_Union DEF Joiners
<1>3. IsFiniteSet(Rounds) BY <1>1, FS_Interval DEF Rounds
<1> QED BY <1>1, <1>2, <1>3

LEMMA GroupOfSums == \A f : G!SumFunction(f) = SumFunctionOnSet(f, DOMAIN f)
BY DEF G!SumFunction, G!SumFunctionOnSet, G!FoldFunctionOnSet, G!MapThenFoldSet, SumFunctionOnSet,
       FoldFunctionOnSet, MapThenFoldSet

LEMMA TakenInt == ASSUME GroupTypes, NEW r \in Rounds PROVE TakenIn(r) \in Nat /\ G!PaidInto(r) = TakenIn(r)
<1> PICK f : f = paidIn[r] OBVIOUS
<1>1. f \in [Joiners -> Nat] BY DEF GroupTypes
<1>2. \A x \in Joiners : f[x] \in Nat BY <1>1
<1>3. SumFunctionOnSet(f, Joiners) \in Nat BY <1>2, GroupSets, SumNat
<1>4. G!SumFunction(f) = SumFunctionOnSet(f, Joiners) BY <1>1, GroupOfSums
<1> QED BY <1>3, <1>4 DEF TakenIn, G!PaidInto

LEMMA GivenInt ==
    ASSUME GroupTypes, NEW r \in Rounds PROVE GivenOut(r) \in Nat /\ G!PaidOutOf(r) = GivenOut(r)
<1> PICK f : f = paidOut[r] OBVIOUS
<1>1. f \in [Joiners -> Nat] BY DEF GroupTypes
<1>2. \A x \in Joiners : f[x] \in Nat BY <1>1
<1>3. SumFunctionOnSet(f, Joiners) \in Nat BY <1>2, GroupSets, SumNat
<1>4. G!SumFunction(f) = SumFunctionOnSet(f, Joiners) BY <1>1, GroupOfSums
<1> QED BY <1>3, <1>4 DEF GivenOut, G!PaidOutOf

LEMMA RoundsInt ==
    ASSUME GroupTypes PROVE SumFunctionOnSet(InTheRounds, Rounds) \in Int
<1> DEFINE f == InTheRounds
<1>1. \A r \in Rounds : f[r] \in Int BY TakenInt, GivenInt DEF InTheRounds
<1> HIDE DEF f
<1>2. SumFunctionOnSet(f, Rounds) \in Int BY <1>1, GroupSets, SumInt
<1> QED BY <1>2 DEF f

LEMMA WalletsInt == ASSUME GroupTypes PROVE SumFunctionOnSet(wallet, Joiners) \in Int
<1>1. \A m \in Joiners : wallet[m] \in Int BY DEF GroupTypes
<1> QED BY <1>1, GroupSets, SumInt

LEMMA NoneAdd ==
    \A f, Z : IsFiniteSet(Z) /\ (\A x \in Z : f[x] = 0) => SumFunctionOnSet(f, Z) = 0
<1> SUFFICES ASSUME NEW f, NEW Z, IsFiniteSet(Z), \A x \in Z : f[x] = 0
             PROVE  SumFunctionOnSet(f, Z) = 0
  OBVIOUS
<1>1. {} \in SUBSET Z /\ (\A x \in Z : f[x] \in Int) /\ (\A x \in Z \ {} : f[x] = 0) OBVIOUS
<1> QED BY <1>1, SumSupport, SumEmpty

LEMMA GroupStart == G!Init => GroupInv
<1> SUFFICES ASSUME G!Init PROVE GroupInv OBVIOUS
<1> USE DEF G!Init, Joiners, Turns
<1>1. G!Idle \in TurnRow /\ G!Idle.pc = "idle" BY DEF G!Idle, TurnRow
<1>2. G!Out \in GroupSeatRow BY DEF G!Out, GroupSeatRow
<1>3. GroupTypes
  <2>1. kind \in {"rosca", "vsla"} /\ open \in 0..Length /\ pot \in Int BY GroupSets
  <2>2. seat \in [Joiners -> GroupSeatRow] /\ hand \in [Turns -> TurnRow] BY <1>1, <1>2
  <2>3. paidIn \in [Rounds -> [Joiners -> Nat]] /\ paidOut \in [Rounds -> [Joiners -> Nat]] /\ late \in BOOLEAN
    BY DEF Rounds, G!Rounds
  <2>4. wallet \in [Joiners -> Nat] BY GroupSets
  <2> QED BY <2>1, <2>2, <2>3, <2>4 DEF GroupTypes
<1>4. \A h \in Turns : TurnKnows(h) BY <1>1 DEF TurnKnows
<1>5. \A r \in Rounds : TakenIn(r) = 0 /\ GivenOut(r) = 0
  <2>1. \A f : (\A x \in Joiners : f[x] = 0) => SumFunctionOnSet(f, Joiners) = 0
    BY GroupSets, NoneAdd
  <2> SUFFICES ASSUME NEW r \in Rounds PROVE TakenIn(r) = 0 /\ GivenOut(r) = 0 OBVIOUS
  <2> PICK f, g : f = paidIn[r] /\ g = paidOut[r] OBVIOUS
  <2>2. \A x \in Joiners : f[x] = 0 /\ g[x] = 0 BY DEF Rounds, G!Rounds
  <2> QED BY <2>1, <2>2 DEF TakenIn, GivenOut
<1>6. SumFunctionOnSet(InTheRounds, Rounds) = 0
  <2> DEFINE f == InTheRounds
  <2>1. \A r \in Rounds : f[r] = 0 /\ f[r] \in Int BY <1>5 DEF InTheRounds
  <2>2. {} \in SUBSET Rounds OBVIOUS
  <2> HIDE DEF f
  <2>3. SumFunctionOnSet(f, Rounds) = 0 BY <2>1, <2>2, GroupSets, SumSupport, SumEmpty
  <2> QED BY <2>3 DEF f
<1>7. SumFunctionOnSet(wallet, Joiners) = Cardinality(Joiners \ Others)
  <2> PICK U : U = Joiners \ Others OBVIOUS
  <2>1. U \in SUBSET Joiners /\ IsFiniteSet(U) BY GroupSets, FS_Subset
  <2>2. (\A m \in Joiners : wallet[m] \in Int) /\ (\A m \in Joiners \ U : wallet[m] = 0)
        /\ (\A m \in U : wallet[m] = 1)
    BY <1>3 DEF GroupTypes
  <2>3. SumFunctionOnSet(wallet, Joiners) = SumFunctionOnSet(wallet, U) BY <2>1, <2>2, GroupSets, SumSupport
  <2>4. SumFunctionOnSet(wallet, U) = Cardinality(U) BY <2>1, <2>2, SumOnes
  <2> QED BY <2>3, <2>4
<1>8. OncePerRound BY DEF OncePerRound, Rounds, G!Rounds
<1>9. MoneyStays
  <2>1. Cardinality(Joiners \ Others) \in Int BY <1>7, <1>3, WalletsInt
  <2>2. pot = 0 OBVIOUS
  <2>3. pot + SumFunctionOnSet(wallet, Joiners) = Cardinality(Joiners \ Others)
    BY ONLY <1>7, <2>1, <2>2
  <2>4. \A r \in Rounds : ~(GivenOut(r) > TakenIn(r)) BY <1>5
  <2> QED BY <1>6, <2>2, <2>3, <2>4 DEF MoneyStays
<1>10. Rotation BY <1>5, GroupSets DEF Rotation
<1> QED BY <1>3, <1>4, <1>8, <1>9, <1>10 DEF GroupInv

-----------------------------------------------------------------------------
(* Handlers *)

LEMMA HandEnds ==
    ASSUME GroupInv, NEW h \in Turns, G!Done(h), UNCHANGED kind,
           open' = 0 \/ (open # 0 /\ open <= open' /\ open' \in Nat),
           \A r \in Rounds : TakenIn(r)' >= TakenIn(r) /\ TakenIn(r)' \in Int
    PROVE  hand' \in [Turns -> TurnRow] /\ \A x \in Turns : TurnKnows(x)'
<1>1. G!Idle \in TurnRow /\ G!Idle.pc = "idle" BY DEF G!Idle, TurnRow
<1>2. /\ hand' \in [Turns -> TurnRow] /\ hand'[h].pc = "idle"
      /\ \A k \in Turns : k # h => hand'[k] = hand[k]
  BY <1>1 DEF GroupInv, GroupTypes, G!Done
<1>3. TurnKnows(h)' BY <1>2 DEF TurnKnows
<1>4. ASSUME NEW k \in Turns, k # h PROVE TurnKnows(k)'
  <2>1. hand'[k] = hand[k] /\ hand[k] \in TurnRow BY <1>2, <1>4 DEF GroupInv, GroupTypes
  <2>3. hand[k].pc = "close" => open' = 0 \/ hand'[k].round <= open'
    <3> SUFFICES ASSUME hand[k].pc = "close", open' # 0 PROVE hand'[k].round <= open' OBVIOUS
    <3>1. PICK r \in Rounds : hand[k].round = r BY DEF GroupInv, TurnKnows
    <3>2. r <= open /\ open \in Nat /\ r \in Nat BY <3>1 DEF GroupInv, GroupTypes, TurnKnows, Rounds
    <3> QED BY <2>1, <3>1, <3>2
  <2>2. hand[k].pc = "close" => (hand[k].amount <= TakenIn(hand[k].round))'
    <3> SUFFICES ASSUME hand[k].pc = "close" PROVE (hand[k].amount <= TakenIn(hand[k].round))' OBVIOUS
    <3>1. PICK r \in Rounds : hand[k].round = r BY DEF GroupInv, TurnKnows
    <3>2. PICK n \in Nat : hand[k].amount = n BY <2>1 DEF TurnRow
    <3>3. n <= TakenIn(r) BY <3>1, <3>2 DEF GroupInv, TurnKnows
    <3>4. TakenIn(r) \in Nat BY TakenInt DEF GroupInv
    <3>5. TakenIn(r)' >= TakenIn(r) /\ TakenIn(r)' \in Int OBVIOUS
    <3>6. n <= TakenIn(r)' BY ONLY <3>3, <3>4, <3>5, n \in Nat
    <3>7. hand'[k].round = r /\ hand'[k].amount = n BY <2>1, <3>1, <3>2
    <3> QED BY <3>6, <3>7 DEF TakenIn
  <2> QED BY <2>1, <2>2, <2>3 DEF GroupInv, TurnKnows
<1> QED BY <1>2, <1>3, <1>4

LEMMA TakenKept == ASSUME UNCHANGED paidIn, NEW r PROVE TakenIn(r)' = TakenIn(r)
BY DEF TakenIn

LEMMA PaidKept == ASSUME UNCHANGED paidOut, NEW r PROVE GivenOut(r)' = GivenOut(r)
BY DEF GivenOut

LEMMA RoundsKept == ASSUME UNCHANGED <<paidIn, paidOut>> PROVE InTheRounds' = InTheRounds
<1>1. \A r \in Rounds : TakenIn(r)' = TakenIn(r) /\ GivenOut(r)' = GivenOut(r) BY TakenKept, PaidKept
<1> QED BY <1>1 DEF InTheRounds

LEMMA RotationKept ==
    ASSUME Rotation, UNCHANGED <<kind, open, late, paidOut>>, \A m \in Joiners : seat'[m].shares = seat[m].shares
    PROVE  Rotation'
<1>1. \A r : GivenOut(r)' = GivenOut(r) BY PaidKept
<1> QED BY <1>1 DEF Rotation

\* A handler that ends with no money moved.
LEMMA OnlyHands ==
    ASSUME GroupInv, UNCHANGED <<kind, paidIn, paidOut, late, pot, wallet>>, open' \in 0..Length, Rotation',
           seat' \in [Joiners -> GroupSeatRow], hand' \in [Turns -> TurnRow], \A x \in Turns : TurnKnows(x)'
    PROVE  GroupInv'
<1>1. GroupTypes' BY DEF GroupInv, GroupTypes
<1>2. MoneyStays'
  <2>1. \A r \in Rounds : TakenIn(r)' = TakenIn(r) /\ GivenOut(r)' = GivenOut(r) /\ (Again(r) => Again(r)')
    BY TakenKept, PaidKept DEF Again
  <2>2. InTheRounds' = InTheRounds BY RoundsKept
  <2> QED BY <2>1, <2>2 DEF GroupInv, MoneyStays
<1>3. OncePerRound' BY DEF GroupInv, OncePerRound
<1> QED BY <1>1, <1>2, <1>3 DEF GroupInv

LEMMA HandEndsIdle ==
    ASSUME GroupInv, NEW h \in Turns, G!Done(h), UNCHANGED <<kind, paidIn>>,
           open' = 0 \/ (open # 0 /\ open <= open' /\ open' \in Nat)
    PROVE  hand' \in [Turns -> TurnRow] /\ \A x \in Turns : TurnKnows(x)'
<1>1. \A r \in Rounds : TakenIn(r)' = TakenIn(r) BY TakenKept
<1>2. \A r \in Rounds : TakenIn(r)' >= TakenIn(r) /\ TakenIn(r)' \in Int BY <1>1, TakenInt DEF GroupInv
<1> QED BY <1>2, HandEnds

LEMMA HandTakes ==
    ASSUME GroupInv, NEW h \in Turns, NEW pc \in {"join", "contribute", "close"},
           NEW m \in Joiners \cup {NoOne}, NEW r \in Nat, NEW n \in Nat, G!Start(h, pc, m, r, n),
           pc \in {"join", "contribute"} => m \in Joiners,
           pc \in {"contribute", "close"} => r \in Rounds,
           pc = "contribute" /\ kind = "rosca" => n = 1,
           pc = "close" => n <= TakenIn(r) /\ r = open
    PROVE  GroupInv'
<1> USE DEF G!Start
<1> DEFINE row == [pc |-> pc, who |-> m, round |-> r, amount |-> n]
<1>1. /\ row \in TurnRow /\ row.pc = pc /\ row.who = m /\ row.round = r /\ row.amount = n
  BY DEF TurnRow
<1>2. hand' = [hand EXCEPT ![h] = row] OBVIOUS
<1> HIDE DEF row
<1>3. /\ hand' \in [Turns -> TurnRow] /\ hand'[h] = row
      /\ \A x \in Turns : x # h => hand'[x] = hand[x]
  BY <1>1, <1>2 DEF GroupInv, GroupTypes
<1>4. \A x \in Turns : TurnKnows(x)'
  <2>0. \A x : TakenIn(x)' = TakenIn(x) BY TakenKept
  <2>1. TurnKnows(h)' BY <1>1, <1>3, <2>0 DEF TurnKnows, TakenIn
  <2>2. ASSUME NEW x \in Turns, x # h PROVE TurnKnows(x)'
    BY <1>3, <2>0, <2>2 DEF GroupInv, TurnKnows, TakenIn
  <2> QED BY <2>1, <2>2
<1>5. /\ UNCHANGED <<kind, paidIn, paidOut, late, pot, wallet>> /\ open' \in 0..Length
      /\ seat' \in [Joiners -> GroupSeatRow]
  BY DEF GroupInv, GroupTypes
<1>6. Rotation' BY RotationKept DEF GroupInv
<1> QED BY ONLY GroupInv, <1>3, <1>4, <1>5, <1>6, OnlyHands

-----------------------------------------------------------------------------
(* Joining *)

LEMMA HighestSeat == ASSUME GroupInv, NEW m \in Joiners PROVE G!Max({seat[x].position : x \in Joiners}) \in Nat
<1> PICK U : U = {seat[x].position : x \in Joiners} OBVIOUS
<1>1. IsFiniteSet(U)
  <2> DEFINE f == [x \in Joiners |-> seat[x].position]
  <2>1. f \in [Joiners -> U] /\ \A u \in U : \E x \in Joiners : f[x] = u OBVIOUS
  <2> HIDE DEF f
  <2>2. f \in Surjection(Joiners, U) BY <2>1 DEF Surjection
  <2> QED BY <2>2, GroupSets, FS_Surjection
<1>2. U \subseteq Nat /\ U # {} BY DEF GroupInv, GroupTypes, GroupSeatRow
<1>3. U \subseteq Int BY <1>2
<1>4. \E x \in U : \A y \in U : y <= x BY <1>1, <1>2, <1>3, Greatest
<1>5. \E x \in U : \A y \in U : x >= y BY <1>3, <1>4
<1>6. G!Max(U) \in U BY <1>5 DEF G!Max
<1> QED BY <1>2, <1>6

LEMMA JoinIsRead == ASSUME GroupInv, NEW h \in Turns, NEW m \in Joiners, G!JoinRead(h, m) PROVE GroupInv'
<1> USE DEF G!JoinRead
<1>1. PICK n \in Nat : n = IF kind = "vsla" THEN 0 ELSE G!Max({seat[x].position : x \in Joiners}) + 1
  <2>1. PICK g \in Nat : g = G!Max({seat[x].position : x \in Joiners}) BY HighestSeat
  <2>2. (IF kind = "vsla" THEN 0 ELSE g + 1) \in Nat OBVIOUS
  <2> QED BY <2>1, <2>2
<1>2. PICK pc \in {"join", "contribute", "close"} : pc = "join" OBVIOUS
<1>3. PICK r \in Nat : r = 0 OBVIOUS
<1>4. G!Start(h, pc, m, r, n) BY <1>1, <1>2, <1>3 DEF Joiners
<1>5. pc = "join" BY <1>2
<1> QED BY <1>4, <1>5, HandTakes

LEMMA Joins == ASSUME GroupInv, NEW h \in Turns, G!JoinGroup(h) PROVE GroupInv'
<1> USE DEF G!JoinGroup
<1>0. seat \in [Joiners -> GroupSeatRow] /\ hand[h] \in TurnRow BY DEF GroupInv, GroupTypes
<1>m. PICK m \in Joiners : hand[h].who = m BY DEF GroupInv, TurnKnows
<1>n. PICK n \in Nat : hand[h].amount = n BY <1>0 DEF TurnRow
<1>1. seat' \in [Joiners -> GroupSeatRow]
  <2>1. CASE seat[m].in BY <1>0, <1>m, <2>1
  <2>2. CASE ~seat[m].in
    <3> DEFINE row == [in |-> TRUE, position |-> n, shares |-> 0]
    <3>1. row \in GroupSeatRow BY DEF GroupSeatRow
    <3>2. seat' = [seat EXCEPT ![m] = row] BY <1>m, <1>n, <2>2
    <3> HIDE DEF row
    <3> QED BY <1>0, <3>1, <3>2
  <2> QED BY <2>1, <2>2
<1>2. /\ UNCHANGED <<kind, paidIn, paidOut, late, pot, wallet>> /\ open' \in 0..Length /\ open' = open
      /\ G!Done(h)
  BY DEF GroupInv, GroupTypes
<1>3. hand' \in [Turns -> TurnRow] /\ \A x \in Turns : TurnKnows(x)' BY <1>2, HandEndsIdle
<1>4. Rotation'
  <2>1. \A r : GivenOut(r)' = GivenOut(r) BY <1>2, PaidKept
  <2>2. \A x \in Joiners : seat[x].shares = 0 => seat'[x].shares = 0 BY <1>0, <1>m
  <2> QED BY <1>2, <2>1, <2>2 DEF GroupInv, Rotation
<1> QED BY ONLY GroupInv, <1>1, <1>2, <1>3, <1>4, OnlyHands

-----------------------------------------------------------------------------
(* Contributions *)

LEMMA ContributionIsRead ==
    ASSUME GroupInv, NEW h \in Turns, NEW m \in Joiners, NEW n \in 1..2, G!ContributeRead(h, m, n)
    PROVE  GroupInv'
<1> USE DEF G!ContributeRead
<1>1. PICK r \in Rounds : r = open BY GroupSets DEF GroupInv, GroupTypes, Rounds
<1>2. PICK pc \in {"join", "contribute", "close"} : pc = "contribute" OBVIOUS
<1>3. G!Start(h, pc, m, r, n) /\ n \in Nat /\ r \in Nat BY <1>1, <1>2 DEF Rounds
<1>4. pc = "contribute" /\ (kind = "rosca" => n = 1) BY <1>2
<1> QED BY ONLY GroupInv, h \in Turns, m \in Joiners, r \in Rounds, pc \in {"join", "contribute", "close"},
           <1>3, <1>4, HandTakes

\* A member's payment into a round.
LEMMA RoundGrows ==
    ASSUME GroupTypes, NEW r \in Rounds, NEW m \in Joiners, NEW n \in Nat,
           paidIn' = [paidIn EXCEPT ![r][m] = @ + n]
    PROVE  /\ paidIn' \in [Rounds -> [Joiners -> Nat]] /\ TakenIn(r)' = TakenIn(r) + n
           /\ \A x \in Rounds : x # r => paidIn'[x] = paidIn[x] /\ TakenIn(x)' = TakenIn(x)
           /\ paidIn'[r][m] = paidIn[r][m] + n
           /\ \A x \in Joiners : x # m => paidIn'[r][x] = paidIn[r][x]
<1>0. paidIn \in [Rounds -> [Joiners -> Nat]] BY DEF GroupTypes
<1>1. /\ paidIn' \in [Rounds -> [Joiners -> Nat]] /\ paidIn'[r][m] = paidIn[r][m] + n
      /\ \A x \in Rounds : x # r => paidIn'[x] = paidIn[x]
      /\ \A x \in Joiners : x # m => paidIn'[r][x] = paidIn[r][x]
  BY <1>0
<1>2. \A x \in Rounds : x # r => TakenIn(x)' = TakenIn(x) BY <1>1 DEF TakenIn
<1>3. TakenIn(r)' = TakenIn(r) + n
  <2>1. PICK f, g : f = paidIn[r] /\ g = paidIn'[r] OBVIOUS
  <2>2. /\ f \in [Joiners -> Nat] /\ g \in [Joiners -> Nat]
        /\ g[m] = f[m] + n /\ \A x \in Joiners : x # m => g[x] = f[x]
    BY <1>0, <1>1, <2>1
  <2>3. PICK p, q : p = f[m] /\ q = g[m] OBVIOUS
  <2>4. Shifts(f, g, Joiners, m, p, q) BY <2>2, <2>3 DEF Shifts
  <2>5. /\ SumFunctionOnSet(g, Joiners) = (SumFunctionOnSet(f, Joiners) - p) + q
        /\ SumFunctionOnSet(f, Joiners) \in Int
    BY ONLY <2>4, SumShift, GroupSets
  <2>6. q = p + n /\ p \in Int BY <2>2, <2>3
  <2>7. SumFunctionOnSet(g, Joiners) = SumFunctionOnSet(f, Joiners) + n BY ONLY <2>5, <2>6, n \in Nat
  <2> QED BY <2>1, <2>7 DEF TakenIn
<1> QED BY <1>1, <1>2, <1>3

LEMMA RoundsMove ==
    ASSUME GroupInv, NEW r \in Rounds, NEW d \in Int,
           \A x \in Rounds : x # r => TakenIn(x)' = TakenIn(x) /\ GivenOut(x)' = GivenOut(x),
           TakenIn(r)' - GivenOut(r)' = (TakenIn(r) - GivenOut(r)) + d,
           TakenIn(r)' \in Int, GivenOut(r)' \in Int
    PROVE  SumFunctionOnSet(InTheRounds', Rounds) = SumFunctionOnSet(InTheRounds, Rounds) + d
<1>1. PICK f, g : f = InTheRounds /\ g = InTheRounds' OBVIOUS
<1>2. \A x \in Rounds : f[x] = TakenIn(x) - GivenOut(x) /\ g[x] = TakenIn(x)' - GivenOut(x)'
  BY <1>1 DEF InTheRounds
<1>3. \A x \in Rounds : GivenOut(x) \in Int /\ TakenIn(x) \in Int BY TakenInt, GivenInt DEF GroupInv
<1>4. \A x \in Rounds : f[x] \in Int /\ g[x] \in Int /\ (x # r => g[x] = f[x])
  <2>1. ASSUME NEW x \in Rounds, x # r PROVE f[x] \in Int /\ g[x] = f[x] BY <1>2, <1>3, <2>1
  <2>2. f[r] \in Int BY <1>2, <1>3
  <2>3. g[r] \in Int BY <1>2
  <2> QED BY <2>1, <2>2, <2>3
<1>5. PICK p, q : p = f[r] /\ q = g[r] OBVIOUS
<1>6. Shifts(f, g, Rounds, r, p, q) BY <1>4, <1>5 DEF Shifts
<1>7. /\ SumFunctionOnSet(g, Rounds) = (SumFunctionOnSet(f, Rounds) - p) + q
      /\ SumFunctionOnSet(f, Rounds) \in Int
  BY ONLY <1>6, SumShift, GroupSets
<1>8. q = p + d /\ p \in Int BY <1>2, <1>4, <1>5
<1>9. SumFunctionOnSet(g, Rounds) = SumFunctionOnSet(f, Rounds) + d BY ONLY <1>7, <1>8, d \in Int
<1> QED BY <1>1, <1>9

LEMMA WalletMoves ==
    ASSUME GroupTypes, NEW m \in Joiners, NEW n \in Nat, wallet[m] >= n,
           wallet' = [wallet EXCEPT ![m] = @ - n]
    PROVE  /\ wallet' \in [Joiners -> Nat]
           /\ SumFunctionOnSet(wallet', Joiners) = SumFunctionOnSet(wallet, Joiners) - n
<1>0. wallet \in [Joiners -> Nat] BY DEF GroupTypes
<1>1. /\ wallet' \in [Joiners -> Nat] /\ wallet'[m] = wallet[m] - n
      /\ \A x \in Joiners : x # m => wallet'[x] = wallet[x]
  BY <1>0
<1>2. PICK p, q : p = wallet[m] /\ q = wallet'[m] OBVIOUS
<1>3. Shifts(wallet, wallet', Joiners, m, p, q) BY <1>0, <1>1, <1>2 DEF Shifts
<1>4. /\ SumFunctionOnSet(wallet', Joiners) = (SumFunctionOnSet(wallet, Joiners) - p) + q
      /\ SumFunctionOnSet(wallet, Joiners) \in Int
  BY ONLY <1>3, SumShift, GroupSets
<1>5. q = p - n /\ p \in Int BY <1>0, <1>1, <1>2
<1>6. SumFunctionOnSet(wallet', Joiners) = SumFunctionOnSet(wallet, Joiners) - n
  BY ONLY <1>4, <1>5, n \in Nat
<1> QED BY <1>1, <1>6

LEMMA Contributes == ASSUME GroupInv, NEW h \in Turns, G!Contribute(h) PROVE GroupInv'
<1> USE DEF G!Contribute
<1>0. hand[h] \in TurnRow /\ GroupTypes /\ hand[h].pc = "contribute" /\ G!Done(h) /\ UNCHANGED <<kind, open, paidOut>>
  BY DEF GroupInv, GroupTypes
<1>m. PICK m \in Joiners : hand[h].who = m BY <1>0 DEF GroupInv, TurnKnows
<1>r. PICK r \in Rounds : hand[h].round = r BY <1>0 DEF GroupInv, TurnKnows
<1>n. PICK n \in Nat : hand[h].amount = n /\ (kind = "rosca" => n = 1)
  BY <1>0 DEF GroupInv, TurnKnows, TurnRow
<1>o. open' = 0 \/ (open # 0 /\ open <= open' /\ open' \in Nat) BY <1>0 DEF GroupTypes
<1>1. CASE ~(wallet[m] >= n /\ ~G!AlreadyIn(r, m))
  <2>1. UNCHANGED <<wallet, paidIn, late, pot, seat>> BY <1>1, <1>m, <1>r, <1>n
  <2>2. hand' \in [Turns -> TurnRow] /\ \A x \in Turns : TurnKnows(x)' BY <1>0, <1>o, <2>1, HandEndsIdle
  <2>3. open' \in 0..Length /\ seat' \in [Joiners -> GroupSeatRow] BY <1>0, <2>1 DEF GroupTypes
  <2>4. Rotation' BY <1>0, <2>1, RotationKept DEF GroupInv
  <2> QED BY ONLY GroupInv, <1>0, <2>1, <2>2, <2>3, <2>4, OnlyHands
<1>2. CASE wallet[m] >= n /\ ~G!AlreadyIn(r, m)
  <2>1. /\ wallet' = [wallet EXCEPT ![m] = @ - n] /\ paidIn' = [paidIn EXCEPT ![r][m] = @ + n]
        /\ pot' = pot + n /\ late' = (late \/ open = 0)
        /\ seat' = IF kind = "vsla" THEN [seat EXCEPT ![m].shares = @ + n] ELSE seat
    BY <1>2, <1>m, <1>r, <1>n
  <2>2. /\ paidIn' \in [Rounds -> [Joiners -> Nat]] /\ TakenIn(r)' = TakenIn(r) + n
        /\ \A x \in Rounds : x # r => paidIn'[x] = paidIn[x] /\ TakenIn(x)' = TakenIn(x)
        /\ paidIn'[r][m] = paidIn[r][m] + n
        /\ \A x \in Joiners : x # m => paidIn'[r][x] = paidIn[r][x]
    BY <1>0, <2>1, RoundGrows
  <2>3. \A x \in Rounds : TakenIn(x) \in Nat BY <1>0, TakenInt
  <2>4. \A x \in Rounds : TakenIn(x)' >= TakenIn(x) /\ TakenIn(x)' \in Int BY <2>2, <2>3
  <2>5. hand' \in [Turns -> TurnRow] /\ \A x \in Turns : TurnKnows(x)' BY <1>0, <1>o, <2>4, HandEnds
  <2>6. /\ wallet' \in [Joiners -> Nat]
        /\ SumFunctionOnSet(wallet', Joiners) = SumFunctionOnSet(wallet, Joiners) - n
    BY <1>0, <1>2, <2>1, WalletMoves
  <2>7. seat' \in [Joiners -> GroupSeatRow]
    <3>1. seat \in [Joiners -> GroupSeatRow] /\ seat[m].shares \in Nat BY <1>0 DEF GroupTypes, GroupSeatRow
    <3>2. PICK k \in Nat : k = seat[m].shares + n BY <3>1
    <3> DEFINE row == [seat[m] EXCEPT !.shares = k]
    <3>3. row \in GroupSeatRow BY <3>1 DEF GroupSeatRow
    <3>4. seat' = IF kind = "vsla" THEN [seat EXCEPT ![m] = row] ELSE seat BY <2>1, <3>1, <3>2
    <3> HIDE DEF row
    <3> QED BY <3>1, <3>3, <3>4
  <2>8. GroupTypes'
    <3>1. pot' \in Int /\ late' \in BOOLEAN BY <1>0, <2>1 DEF GroupTypes
    <3> QED BY <1>0, <2>2, <2>5, <2>6, <2>7, <3>1 DEF GroupTypes
  <2>9. OncePerRound'
    <3> SUFFICES ASSUME kind = "rosca", NEW x \in Rounds, NEW y \in Joiners PROVE paidIn'[x][y] <= 1
      BY <1>0 DEF OncePerRound
    <3>1. paidIn[x][y] <= 1 BY DEF GroupInv, OncePerRound
    <3>2. paidIn[r][m] \in Nat BY <1>0 DEF GroupTypes
    <3>3. paidIn[r][m] = 0 BY <1>2, <3>2 DEF G!AlreadyIn
    <3> QED BY <1>n, <2>2, <3>1, <3>3
  <2>10. MoneyStays'
    <3>0. \A x \in Rounds : GivenOut(x)' = GivenOut(x) /\ GivenOut(x) \in Nat BY <1>0, PaidKept, GivenInt
    <3>1. TakenIn(r)' - GivenOut(r)' = (TakenIn(r) - GivenOut(r)) + n BY <2>2, <2>3, <3>0
    <3>2. SumFunctionOnSet(InTheRounds', Rounds) = SumFunctionOnSet(InTheRounds, Rounds) + n
      BY <2>2, <2>4, <3>0, <3>1, RoundsMove
    <3>3. pot' = SumFunctionOnSet(InTheRounds', Rounds) BY <2>1, <3>2 DEF GroupInv, MoneyStays
    <3>4. pot' + SumFunctionOnSet(wallet', Joiners) = Cardinality(Joiners \ Others)
      <4>1. pot \in Int /\ SumFunctionOnSet(wallet, Joiners) \in Int BY <1>0, WalletsInt DEF GroupTypes
      <4>2. pot' + SumFunctionOnSet(wallet', Joiners) = pot + SumFunctionOnSet(wallet, Joiners)
        BY ONLY <2>1, <2>6, <4>1, n \in Nat
      <4> QED BY <4>2 DEF GroupInv, MoneyStays
    <3>5. ASSUME NEW x \in Rounds, GivenOut(x)' > TakenIn(x)' PROVE Again(x)'
      <4>1. GivenOut(x) > TakenIn(x) BY <2>3, <2>4, <3>0, <3>5
      <4>2. Again(x) BY <4>1 DEF GroupInv, MoneyStays
      <4> QED BY <1>0, <2>1, <4>2 DEF Again
    <3> QED BY <3>3, <3>4, <3>5 DEF MoneyStays
  <2>11. Rotation'
    <3>1. \A x : GivenOut(x)' = GivenOut(x) BY <1>0, PaidKept
    <3>2. open' = 0 => late' BY <1>0, <2>1
    <3> QED BY <1>0, <3>1, <3>2 DEF GroupInv, Rotation
  <2> QED BY <2>5, <2>8, <2>9, <2>10, <2>11 DEF GroupInv
<1> QED BY <1>1, <1>2

-----------------------------------------------------------------------------
(* The end of a round *)

LEMMA CloseIsRead == ASSUME GroupInv, NEW h \in Turns, G!CloseRead(h) PROVE GroupInv'
<1> USE DEF G!CloseRead
<1>1. PICK r \in Rounds : r = open BY GroupSets DEF GroupInv, GroupTypes, Rounds
<1>2. PICK n \in Nat : n = G!PaidInto(r) /\ n = TakenIn(r) BY TakenInt DEF GroupInv
<1>3. PICK pc \in {"join", "contribute", "close"} : pc = "close" OBVIOUS
<1>4. PICK m \in Joiners \cup {NoOne} : m = NoOne OBVIOUS
<1>5. G!Start(h, pc, m, r, n) /\ r \in Nat BY <1>1, <1>2, <1>3, <1>4 DEF Rounds
<1>6. pc = "close" /\ n <= TakenIn(r) /\ r = open BY <1>1, <1>2, <1>3
<1> QED BY ONLY GroupInv, h \in Turns, m \in Joiners \cup {NoOne}, r \in Rounds, n \in Nat,
           pc \in {"join", "contribute", "close"}, <1>5, <1>6, HandTakes

LEMMA Product == \A a, b \in Nat : a * b \in Nat
OBVIOUS

LEMMA Quotient == \A a \in Nat : \A b \in Nat \ {0} : a \div b \in Nat
OBVIOUS

\* The members that are paid divide the pot between them: the floors, and one more
\* for as many as there are kobo left.
LEMMA DividesUp ==
    ASSUME NEW n \in Nat, NEW E \in SUBSET Joiners, NEW U \in SUBSET E, NEW part0, NEW out,
           \A m \in E : part0[m] \in Nat, Cardinality(U) = n - SumFunctionOnSet(part0, E),
           \A m \in Joiners : out[m] = IF m \in U THEN part0[m] + 1 ELSE IF m \in E THEN part0[m] ELSE 0
    PROVE  SumFunctionOnSet(out, Joiners) = n
<1>0. IsFiniteSet(Joiners) /\ IsFiniteSet(E) /\ IsFiniteSet(U) BY GroupSets, FS_Subset
<1>1. SumFunctionOnSet(out, Joiners) = SumFunctionOnSet(out, E)
  <2>1. (\A m \in Joiners : out[m] \in Int) /\ (\A m \in Joiners \ E : out[m] = 0) OBVIOUS
  <2> QED BY <1>0, <2>1, SumSupport
<1> DEFINE one == [m \in E |-> IF m \in U THEN 1 ELSE 0]
<1>2. \A m \in E : one[m] \in Int /\ (m \in U => one[m] = 1) /\ (m \notin U => one[m] = 0) OBVIOUS
<1> HIDE DEF one
<1>3. \A m \in E : part0[m] \in Int /\ out[m] = part0[m] + one[m]
  <2> SUFFICES ASSUME NEW m \in E PROVE part0[m] \in Int /\ out[m] = part0[m] + one[m] OBVIOUS
  <2>1. part0[m] \in Nat /\ m \in Joiners OBVIOUS
  <2>2. CASE m \in U BY <1>2, <2>1, <2>2
  <2>3. CASE m \notin U
    <3>1. out[m] = part0[m] /\ one[m] = 0 BY <1>2, <2>1, <2>3
    <3> QED BY <2>1, <3>1
  <2> QED BY <2>2, <2>3
<1>4. SumFunctionOnSet(out, E) = SumFunctionOnSet(part0, E) + SumFunctionOnSet(one, E)
  BY <1>0, <1>2, <1>3, SumAdd
<1>5. SumFunctionOnSet(one, E) = SumFunctionOnSet(one, U)
  <2>1. (\A m \in E : one[m] \in Int) /\ (\A m \in E \ U : one[m] = 0) BY <1>2
  <2> QED BY <1>0, <2>1, SumSupport
<1>6. SumFunctionOnSet(one, U) = Cardinality(U)
  <2>1. \A m \in U : one[m] = 1 BY <1>2
  <2> QED BY <1>0, <2>1, SumOnes
<1>7. SumFunctionOnSet(part0, E) \in Int BY <1>0, <1>3, SumInt
<1> QED BY <1>1, <1>4, <1>5, <1>6, <1>7

LEMMA SharesOut ==
    ASSUME GroupInv, NEW n \in Nat, NEW p \in G!ShareOuts(n)
    PROVE  (\A m \in Joiners : p[m] \in Nat) /\ SumFunctionOnSet(p, Joiners) = n /\ DOMAIN p = Joiners
<1> DEFINE E == {m \in G!Seated : seat[m].shares > 0}
           total == G!SharesOf(E)
           floors == [m \in E |-> (n * seat[m].shares) \div total]
<1>1. E \in SUBSET Joiners /\ (\A m \in E : seat[m].shares > 0) BY DEF G!Seated, Joiners
<1>2. E # {} BY DEF G!ShareOuts
<1>3. PICK U \in SUBSET E :
        /\ G!Cardinality(U) = n - G!SumFunction(floors)
        /\ p = [m \in Joiners |-> IF m \in U THEN ((n * seat[m].shares) \div total) + 1
                                ELSE IF m \in E THEN (n * seat[m].shares) \div total ELSE 0]
  BY <1>2 DEF G!ShareOuts, Joiners
<1>4. G!SumFunction(floors) = SumFunctionOnSet(floors, E)
  <2>1. DOMAIN floors = E OBVIOUS
  <2> HIDE DEF floors
  <2> QED BY <2>1, GroupOfSums
<1>5. G!Cardinality(U) = Cardinality(U) BY DEF G!Cardinality, Cardinality
<1>6. total \in Nat \ {0}
  <2> DEFINE s == [m \in E |-> seat[m].shares]
  <2>1. \A m \in E : s[m] \in Nat /\ s[m] > 0 BY <1>1 DEF GroupInv, GroupTypes, GroupSeatRow
  <2>2. DOMAIN s = E OBVIOUS
  <2>3. total = G!SumFunction(s) BY DEF G!SharesOf
  <2> HIDE DEF s, total
  <2>4. PICK F0 : F0 = E OBVIOUS
  <2>5. total = SumFunctionOnSet(s, F0) BY <2>2, <2>3, <2>4, GroupOfSums
  <2>6. PICK x \in F0 : TRUE BY <1>2, <2>4
  <2>7. IsFiniteSet(F0) /\ IsFiniteSet(F0 \ {x}) BY <1>1, <2>4, GroupSets, FS_Subset
  <2>8. \A m \in F0 : s[m] \in Nat /\ s[m] \in Int /\ s[m] > 0 BY <2>1, <2>4
  <2>9. SumFunctionOnSet(s, F0) = s[x] + SumFunctionOnSet(s, F0 \ {x}) BY <2>7, <2>8, SumRemove
  <2>10. \A m \in F0 \ {x} : s[m] \in Nat BY <2>8
  <2>11. SumFunctionOnSet(s, F0 \ {x}) \in Nat BY <2>7, <2>10, SumNat
  <2> QED BY <2>5, <2>6, <2>8, <2>9, <2>11
<1> HIDE DEF total
<1>7. \A m \in E : floors[m] \in Nat /\ floors[m] = (n * seat[m].shares) \div total
  <2> SUFFICES ASSUME NEW m \in E PROVE (n * seat[m].shares) \div total \in Nat OBVIOUS
  <2>1. PICK k \in Nat : k = seat[m].shares BY <1>1 DEF GroupInv, GroupTypes, GroupSeatRow
  <2>2. n * k \in Nat BY Product
  <2> QED BY <1>6, <2>1, <2>2, Quotient
<1> HIDE DEF floors
<1>8. \A m \in Joiners : p[m] = IF m \in U THEN floors[m] + 1 ELSE IF m \in E THEN floors[m] ELSE 0
  BY <1>3, <1>7
<1> HIDE DEF E
<1>9. Cardinality(U) = n - SumFunctionOnSet(floors, E) BY <1>3, <1>4, <1>5
<1>10. SumFunctionOnSet(p, Joiners) = n
  <2>1. \A m \in E : floors[m] \in Nat BY <1>7
  <2> QED BY ONLY n \in Nat, <1>1, U \in SUBSET E, <2>1, <1>8, <1>9, DividesUp
<1>11. \A m \in Joiners : p[m] \in Nat BY <1>7, <1>8
<1>12. DOMAIN p = Joiners BY <1>3
<1> QED BY <1>10, <1>11, <1>12

LEMMA PaidOut ==
    ASSUME GroupInv, NEW r, NEW n \in Nat, NEW p \in G!Payouts(r, n)
    PROVE  (\A m \in Joiners : p[m] \in Nat) /\ SumFunctionOnSet(p, Joiners) = n /\ DOMAIN p = Joiners
<1>1. CASE kind = "rosca"
  <2>1. PICK b \in G!Beneficiaries(r) : p = [m \in Joiners |-> IF m = b THEN n ELSE 0]
    BY <1>1 DEF G!Payouts, Joiners
  <2>2. b \in Joiners BY DEF G!Beneficiaries, G!Seated, Joiners
  <2>3. \A m \in Joiners : p[m] \in Nat /\ p[m] \in Int /\ (m # b => p[m] = 0) BY <2>1
  <2>4. p[b] = n BY <2>1, <2>2
  <2>5. SumFunctionOnSet(p, Joiners) = p[b] + SumFunctionOnSet(p, Joiners \ {b})
    BY <2>2, <2>3, GroupSets, SumRemove
  <2>6. SumFunctionOnSet(p, Joiners \ {b}) = 0
    <3>1. IsFiniteSet(Joiners \ {b}) /\ {} \in SUBSET (Joiners \ {b}) BY GroupSets, FS_Subset
    <3>2. \A m \in Joiners \ {b} : p[m] \in Int /\ p[m] = 0 BY <2>3
    <3> QED BY <3>1, <3>2, SumSupport, SumEmpty
  <2>7. DOMAIN p = Joiners BY <2>1
  <2> QED BY <2>3, <2>4, <2>5, <2>6, <2>7
<1>2. CASE kind # "rosca"
  <2>1. p \in G!ShareOuts(n) BY <1>2 DEF G!Payouts
  <2> QED BY <2>1, SharesOut
<1> QED BY <1>1, <1>2

LEMMA Closes == ASSUME GroupInv, NEW h \in Turns, G!CloseCycle(h) PROVE GroupInv'
<1>0. hand[h] \in TurnRow /\ GroupTypes /\ hand[h].pc = "close" /\ G!Done(h) /\ UNCHANGED <<kind, paidIn, late>>
  BY DEF GroupInv, GroupTypes, G!CloseCycle
<1>r. PICK r \in Rounds : hand[h].round = r BY <1>0 DEF GroupInv, TurnKnows
<1>n. PICK n \in Nat : hand[h].amount = n BY <1>0 DEF TurnRow
<1>l. n <= TakenIn(r) /\ (open = 0 \/ r <= open) BY <1>0, <1>r, <1>n DEF GroupInv, TurnKnows
<1>i. r \in 1..Length /\ Length \in Nat /\ open \in 0..Length BY <1>0, GroupSets DEF Rounds, GroupTypes
<1>a. G!After(r) \in 0..Length BY <1>i DEF G!After
<1>o. ~G!Opened(r) => (r < Length /\ open = r) \/ (r = Length /\ (open = r \/ open = 0))
  BY <1>l, <1>i DEF G!Opened
<1>f. ~G!Opened(r) => G!After(r) = 0 \/ (open # 0 /\ open <= G!After(r) /\ G!After(r) \in Nat)
  BY <1>o, <1>i DEF G!After
<1>1. CASE UNCHANGED <<open, seat, paidOut, pot, wallet>>
  <2>1. open' \in 0..Length /\ seat' \in [Joiners -> GroupSeatRow] BY <1>0, <1>1 DEF GroupTypes
  <2>2. hand' \in [Turns -> TurnRow] /\ \A x \in Turns : TurnKnows(x)' BY <1>0, <1>1, <1>i, HandEndsIdle
  <2>3. Rotation' BY <1>0, <1>1, RotationKept DEF GroupInv
  <2> QED BY ONLY GroupInv, <1>0, <1>1, <2>1, <2>2, <2>3, OnlyHands
<1>2. CASE ~G!Opened(r) /\ open' = G!After(r) /\ UNCHANGED <<seat, paidOut, pot, wallet>>
  <2>1. open' \in 0..Length /\ seat' \in [Joiners -> GroupSeatRow] BY <1>0, <1>2, <1>a DEF GroupTypes
  <2>2. hand' \in [Turns -> TurnRow] /\ \A x \in Turns : TurnKnows(x)' BY <1>0, <1>2, <1>f, HandEndsIdle
  <2>3. Rotation'
    <3>1. \A x : GivenOut(x)' = GivenOut(x) BY <1>2, PaidKept
    <3>2. ASSUME NEW x \in Rounds, open' # 0, open' <= x PROVE GivenOut(x)' = 0
      <4>1. open # 0 /\ open <= x BY <1>2, <1>i, <1>o, <3>2 DEF G!After, Rounds
      <4> QED BY <3>1, <4>1 DEF GroupInv, Rotation
    <3>3. ASSUME kind' = "vsla", open' = 0, ~late'
          PROVE  GivenOut(Length)' = 0 \/ \A m \in Joiners : seat'[m].shares = 0
      <4>1. r = Length /\ Length \in Rounds BY <1>2, <1>i, <3>3 DEF G!After, Rounds
      <4>2. CASE open = 0 BY <1>0, <1>2, <3>1, <3>3, <4>2 DEF GroupInv, Rotation
      <4>3. CASE open = Length
        <5>1. open # 0 /\ open <= Length BY <1>i, <4>3
        <5> QED BY <3>1, <4>1, <5>1 DEF GroupInv, Rotation
      <4> QED BY <1>2, <1>o, <4>1, <4>2, <4>3
    <3> QED BY <3>2, <3>3 DEF Rotation
  <2> QED BY ONLY GroupInv, <1>0, <1>2, <2>1, <2>2, <2>3, OnlyHands
<1>3. ASSUME ~G!Opened(r), open' = G!After(r), NEW p \in G!Payouts(r, n), ~G!Posted(r, p), G!Pays(r, p)
      PROVE  GroupInv'
  <2>1. /\ wallet' = [m \in Joiners |-> wallet[m] + p[m]]
        /\ paidOut' = [paidOut EXCEPT ![r] = [m \in Joiners |-> @[m] + p[m]]]
        /\ pot' = pot - G!SumFunction(p)
        /\ seat' = IF kind = "vsla" THEN [m \in Joiners |-> [seat[m] EXCEPT !.shares = 0]] ELSE seat
    BY <1>3 DEF G!Pays, Joiners
  <2>2. /\ (\A m \in Joiners : p[m] \in Nat) /\ SumFunctionOnSet(p, Joiners) = n /\ DOMAIN p = Joiners
    BY PaidOut
  <2>s. pot' = pot - n
    <3>1. G!SumFunction(p) = n BY <2>2, GroupOfSums
    <3> QED BY <2>1, <3>1
  <2>3. /\ paidOut \in [Rounds -> [Joiners -> Nat]] /\ wallet \in [Joiners -> Nat]
        /\ seat \in [Joiners -> GroupSeatRow] /\ pot \in Int
    BY <1>0 DEF GroupTypes
  <2>4. /\ paidOut' \in [Rounds -> [Joiners -> Nat]]
        /\ \A m \in Joiners : paidOut'[r][m] = paidOut[r][m] + p[m]
        /\ \A x \in Rounds : x # r => paidOut'[x] = paidOut[x]
    <3> DEFINE row == [m \in Joiners |-> paidOut[r][m] + p[m]]
    <3>1. row \in [Joiners -> Nat] /\ \A m \in Joiners : row[m] = paidOut[r][m] + p[m] BY <2>2, <2>3
    <3>2. paidOut' = [paidOut EXCEPT ![r] = row] BY <2>1
    <3> HIDE DEF row
    <3> QED BY <2>3, <3>1, <3>2
  <2>5. GivenOut(r)' = GivenOut(r) + n /\ \A x \in Rounds : x # r => GivenOut(x)' = GivenOut(x)
    <3>1. PICK f, g : f = paidOut[r] /\ g = paidOut'[r] OBVIOUS
    <3>2. \A m \in Joiners : f[m] \in Int /\ p[m] \in Int /\ g[m] = f[m] + p[m] BY <2>2, <2>3, <2>4, <3>1
    <3>3. SumFunctionOnSet(g, Joiners) = SumFunctionOnSet(f, Joiners) + SumFunctionOnSet(p, Joiners)
      BY <3>2, GroupSets, SumAdd
    <3> QED BY <2>2, <2>4, <3>1, <3>3 DEF GivenOut
  <2>6. wallet' \in [Joiners -> Nat] BY <2>1, <2>2, <2>3
  <2>7. SumFunctionOnSet(wallet', Joiners) = SumFunctionOnSet(wallet, Joiners) + n
    <3>1. \A m \in Joiners : wallet[m] \in Int /\ p[m] \in Int /\ wallet'[m] = wallet[m] + p[m]
      BY <2>1, <2>2, <2>3
    <3>2. SumFunctionOnSet(wallet', Joiners) = SumFunctionOnSet(wallet, Joiners) + SumFunctionOnSet(p, Joiners)
      BY <3>1, GroupSets, SumAdd
    <3> QED BY <2>2, <3>2
  <2>8. seat' \in [Joiners -> GroupSeatRow] /\ (kind = "vsla" => \A m \in Joiners : seat'[m].shares = 0)
    <3>1. \A m \in Joiners : [seat[m] EXCEPT !.shares = 0] \in GroupSeatRow BY <2>3 DEF GroupSeatRow
    <3>2. \A m \in Joiners : [seat[m] EXCEPT !.shares = 0].shares = 0 BY <2>3 DEF GroupSeatRow
    <3> QED BY <2>1, <2>3, <3>1, <3>2
  <2>h. hand' \in [Turns -> TurnRow] /\ \A x \in Turns : TurnKnows(x)' BY <1>0, <1>3, <1>f, HandEndsIdle
  <2>p. pot' \in Int BY <2>s, <2>3
  <2>9. GroupTypes' BY <1>0, <1>3, <1>a, <2>h, <2>p, <2>4, <2>6, <2>8 DEF GroupTypes
  \* What was paid of this round before: nothing, or it was shared out and shares were bought since.
  <2>b. GivenOut(r) = 0 \/ Again(r)
    <3>1. CASE open # 0
      <4>1. open <= r BY <1>3, <1>o, <1>i, <3>1
      <4> QED BY <3>1, <4>1 DEF GroupInv, Rotation
    <3>2. CASE open = 0 /\ kind = "rosca"
      <4>1. PICK f : f = paidOut[r] OBVIOUS
      <4>2. \A m \in Joiners : f[m] \in Nat /\ ~(f[m] > 0) BY <1>3, <2>3, <3>2, <4>1 DEF G!Posted, Joiners
      <4>3. \A m \in Joiners : f[m] = 0 BY <4>2
      <4> QED BY <4>1, <4>3, GroupSets, NoneAdd DEF GivenOut
    <3>3. CASE open = 0 /\ kind = "vsla"
      <4>1. r = Length BY <1>3, <1>o, <1>i, <3>3
      <4>2. CASE late BY <3>3, <4>1, <4>2 DEF Again
      <4>3. CASE ~late
        <5>1. ASSUME \A m \in Joiners : seat[m].shares = 0 PROVE FALSE
          <6>1. {m \in G!Seated : seat[m].shares > 0} = {} BY <5>1 DEF G!Seated, Joiners
          <6>2. G!ShareOuts(n) = {} BY <6>1 DEF G!ShareOuts
          <6> QED BY <3>3, <6>2 DEF G!Payouts
        <5> QED BY <3>3, <4>1, <4>3, <5>1 DEF GroupInv, Rotation
      <4> QED BY <4>2, <4>3
    <3> QED BY <1>0, <3>1, <3>2, <3>3 DEF GroupTypes
  <2>10. MoneyStays'
    <3>1. \A x \in Rounds : TakenIn(x)' = TakenIn(x) /\ TakenIn(x) \in Nat /\ GivenOut(x) \in Nat
      BY <1>0, TakenKept, TakenInt, GivenInt
    <3>2. PICK d \in Int : d = 0 - n OBVIOUS
    <3>3. TakenIn(r)' - GivenOut(r)' = (TakenIn(r) - GivenOut(r)) + d BY <2>5, <3>1, <3>2
    <3>4. SumFunctionOnSet(InTheRounds', Rounds) = SumFunctionOnSet(InTheRounds, Rounds) + d
      <4>1. \A x \in Rounds : x # r => TakenIn(x)' = TakenIn(x) /\ GivenOut(x)' = GivenOut(x) BY <2>5, <3>1
      <4>2. TakenIn(r)' \in Int /\ GivenOut(r)' \in Int BY <2>5, <3>1
      <4> QED BY ONLY GroupInv, r \in Rounds, d \in Int, <3>3, <4>1, <4>2, RoundsMove
    <3>5. SumFunctionOnSet(wallet, Joiners) \in Int /\ SumFunctionOnSet(InTheRounds, Rounds) \in Int
      BY <1>0, WalletsInt, RoundsInt
    <3>6. pot = SumFunctionOnSet(InTheRounds, Rounds) BY DEF GroupInv, MoneyStays
    <3>7. pot' = SumFunctionOnSet(InTheRounds', Rounds)
      BY ONLY <2>s, <3>2, <3>4, <3>5, <3>6, n \in Nat
    <3>8. pot' + SumFunctionOnSet(wallet', Joiners) = pot + SumFunctionOnSet(wallet, Joiners)
      BY ONLY <2>s, <2>3, <2>7, <3>5, n \in Nat
    <3>9. pot' + SumFunctionOnSet(wallet', Joiners) = Cardinality(Joiners \ Others)
      BY <3>8 DEF GroupInv, MoneyStays
    <3>10. ASSUME NEW x \in Rounds, GivenOut(x)' > TakenIn(x)' PROVE Again(x)'
      <4>0. Again(x) => Again(x)' BY <1>0 DEF Again
      <4>1. CASE x = r
        <5>1. GivenOut(r) # 0 BY <1>l, <2>5, <3>1, <3>10, <4>1
        <5> QED BY <2>b, <4>0, <4>1, <5>1
      <4>2. CASE x # r
        <5>1. GivenOut(x) > TakenIn(x) BY <2>5, <3>1, <3>10, <4>2
        <5> QED BY <4>0, <5>1 DEF GroupInv, MoneyStays
      <4> QED BY <4>1, <4>2
    <3> QED BY <3>7, <3>9, <3>10 DEF MoneyStays
  <2>11. Rotation'
    <3>1. ASSUME NEW x \in Rounds, open' # 0, open' <= x PROVE GivenOut(x)' = 0
      <4>1. open # 0 /\ open <= x /\ x # r BY <1>3, <1>i, <1>o, <3>1 DEF G!After, Rounds
      <4> QED BY <2>5, <4>1 DEF GroupInv, Rotation
    <3> QED BY <1>0, <2>8, <3>1 DEF Rotation
  <2>12. OncePerRound' BY <1>0 DEF GroupInv, OncePerRound
  <2> QED BY <2>h, <2>9, <2>10, <2>11, <2>12 DEF GroupInv
<1> QED BY <1>1, <1>2, <1>3, <1>0, <1>r, <1>n DEF G!CloseCycle

-----------------------------------------------------------------------------
LEMMA GroupStep == ASSUME GroupInv, G!Next PROVE GroupInv'
<1>1. PICK h \in Turns :
        \/ \E m \in Members \cup Others : G!JoinRead(h, m)
        \/ \E m \in Members \cup Others, n \in 1..2 : G!ContributeRead(h, m, n)
        \/ G!CloseRead(h) \/ G!JoinGroup(h) \/ G!Contribute(h) \/ G!CloseCycle(h)
  BY DEF G!Next, Turns
<1>2. CASE \E m \in Members \cup Others : G!JoinRead(h, m) BY <1>2, JoinIsRead DEF Joiners
<1>3. CASE \E m \in Members \cup Others, n \in 1..2 : G!ContributeRead(h, m, n)
  BY <1>3, ContributionIsRead DEF Joiners
<1>4. CASE G!CloseRead(h) BY <1>4, CloseIsRead
<1>5. CASE G!JoinGroup(h) BY <1>5, Joins
<1>6. CASE G!Contribute(h) BY <1>6, Contributes
<1>7. CASE G!CloseCycle(h) BY <1>7, Closes
<1> QED BY <1>1, <1>2, <1>3, <1>4, <1>5, <1>6, <1>7

LEMMA GroupHolds == GroupInv => G!TypeOK /\ G!PotAddsUp
<1> SUFFICES ASSUME GroupInv PROVE G!TypeOK /\ G!PotAddsUp OBVIOUS
<1>0. GroupTypes BY DEF GroupInv
<1>2. G!TypeOK BY <1>0 DEF G!TypeOK, GroupTypes, Joiners, GroupSeatRow
<1>3. \A r \in Rounds : G!PaidInto(r) = TakenIn(r) /\ G!PaidOutOf(r) = GivenOut(r) BY <1>0, TakenInt, GivenInt
<1>4. [r \in Rounds |-> G!PaidInto(r) - G!PaidOutOf(r)] = InTheRounds BY <1>3 DEF InTheRounds
<1>5. G!SumFunction(InTheRounds) = SumFunctionOnSet(InTheRounds, Rounds)
  <2> PICK f : f = InTheRounds OBVIOUS
  <2>1. DOMAIN f = Rounds BY DEF InTheRounds
  <2> QED BY <2>1, GroupOfSums
<1>6. G!SumFunction(wallet) = SumFunctionOnSet(wallet, Joiners) BY <1>0, GroupOfSums DEF GroupTypes
<1>7. G!Cardinality(Joiners \ Others) = Cardinality(Joiners \ Others) BY DEF G!Cardinality, Cardinality
<1>8. pot = G!SumFunction([r \in Rounds |-> G!PaidInto(r) - G!PaidOutOf(r)])
  BY <1>4, <1>5 DEF GroupInv, MoneyStays
<1>9. pot + G!SumFunction(wallet) = 1 * G!Cardinality(Joiners \ Others)
  <2>1. Cardinality(Joiners \ Others) \in Nat BY GroupSets, FS_Subset, FS_CardinalityType
  <2> QED BY <1>6, <1>7, <2>1 DEF GroupInv, MoneyStays
<1>10. \A r \in Rounds : G!PaidOutOf(r) > G!PaidInto(r) => G!SharedAgain(r)
  BY <1>3 DEF GroupInv, MoneyStays, Again, G!SharedAgain
<1>11. kind = "rosca" => \A r \in Rounds, m \in Joiners : paidIn[r][m] <= 1 BY DEF GroupInv, OncePerRound
<1> QED BY <1>2, <1>8, <1>9, <1>10, <1>11 DEF G!PotAddsUp, G!Rounds, Rounds, Joiners

LEMMA GroupAlways == Spec => []GroupInv
<1>1. Init => GroupInv BY GroupStart DEF Init
<1>2. GroupInv /\ [Next]_vars => GroupInv'
  <2> SUFFICES ASSUME GroupInv, [Next]_vars PROVE GroupInv' OBVIOUS
  <2>1. G!Next \/ UNCHANGED groupsVars BY Zenon DEF Next, vars
  <2>2. CASE UNCHANGED groupsVars
    <3>1. UNCHANGED <<kind, open, seat, paidIn, paidOut, late, pot, wallet, hand>> BY <2>2 DEF groupsVars
    <3>2. \A r \in Rounds : TakenIn(r)' = TakenIn(r) BY <3>1, TakenKept
    <3>3. \A h \in Turns : TurnKnows(h)' BY <3>1 DEF GroupInv, TurnKnows, TakenIn
    <3>4. open' \in 0..Length /\ seat' \in [Joiners -> GroupSeatRow] /\ hand' \in [Turns -> TurnRow]
      BY <3>1 DEF GroupInv, GroupTypes
    <3>5. Rotation' BY <3>1, RotationKept DEF GroupInv
    <3> QED BY ONLY GroupInv, <3>1, <3>3, <3>4, <3>5, OnlyHands
  <2> QED BY <2>1, <2>2, GroupStep
<1> QED BY <1>1, <1>2, PTL DEF Spec

-----------------------------------------------------------------------------
(* Savings products: an account, its journal and the one member who works it. *)

Savers == Members \cup Others
AccountRow == [status : {"none", "active", "matured"}, kind : {"fixed", "goal", "junior"},
               term : {"none", "running", "over"}, holder : Savers \cup {NoOne},
               guardian : Savers \cup {NoOne}, balance : Nat]
SaverRow == [pc : {"idle", "deposit", "withdraw", "mature"}, acct : Rows \cup {NoRow}, amount : Nat]

ProductTypes ==
    /\ account \in [Rows -> AccountRow] /\ purse \in [Savers -> Nat]
    /\ booked \in [Rows -> Int] /\ interest \in [Rows -> Int]
    /\ saver \in [Savers -> SaverRow]

AccountLawful(a) ==
    /\ booked[a] = account[a].balance
    /\ account[a].status # "none" => account[a].holder \in Savers
    /\ account[a].status # "active" => account[a].balance = 0
    /\ interest[a] > 0 => account[a].status = "matured" /\ P!IsTerm(a)

\* A handler works an active account of its member, which nobody else works.
SaverKnows(m) ==
    saver[m].pc # "idle" =>
        /\ saver[m].acct \in Rows
        /\ P!Controls(saver[m].acct, m)
        /\ account[saver[m].acct].status = "active"
        /\ saver[m].pc = "mature" => saver[m].amount = account[saver[m].acct].balance

SavedInAll ==
    SumFunctionOnSet(purse, Savers) + SumFunctionOnSet(booked, Rows)
        = Kobo * Cardinality(Savers \ Others) + SumFunctionOnSet(interest, Rows)

ProductInv ==
    /\ ProductTypes
    /\ \A a \in Rows : AccountLawful(a)
    /\ \A m \in Savers : SaverKnows(m)
    /\ SavedInAll

LEMMA SaverSets ==
    /\ IsFiniteSet(Savers) /\ IsFiniteSet(Rows) /\ Savers \ Others \in SUBSET Savers
    /\ IsFiniteSet(Savers \ Others) /\ Cardinality(Savers \ Others) \in Nat
    /\ Kobo \in Nat /\ Rate \in Nat /\ NoOne \notin Savers
    /\ \A U : P!Cardinality(U) = Cardinality(U)
<1>1. \A U : P!Cardinality(U) = Cardinality(U) BY DEF P!Cardinality, Cardinality
<1>2. IsFiniteSet(Savers) BY FrontdeskAssumption, FS_Union DEF Savers
<1>3. IsFiniteSet(Savers \ Others) BY <1>2, FS_Subset
<1> QED BY <1>1, <1>2, <1>3, FrontdeskAssumption, FS_CardinalityType DEF Savers

LEMMA ProductStart == P!Init => ProductInv
<1> SUFFICES ASSUME P!Init PROVE ProductInv OBVIOUS
<1> USE DEF P!Init
<1>1. P!Unopened \in AccountRow /\ P!Unopened.status = "none" /\ P!Unopened.balance = 0
  BY DEF P!Unopened, AccountRow
<1>2. P!Idle \in SaverRow /\ P!Idle.pc = "idle" BY DEF P!Idle, SaverRow
<1>3. ProductTypes BY <1>1, <1>2, SaverSets DEF ProductTypes, Savers
<1>4. \A a \in Rows : AccountLawful(a) BY <1>1 DEF AccountLawful
<1>5. \A m \in Savers : SaverKnows(m) BY <1>2 DEF SaverKnows, Savers
<1>6. SavedInAll
  <2> DEFINE U == Savers \ Others
  <2>1. /\ \A m \in Savers : purse[m] \in Int
        /\ \A m \in Savers \ U : purse[m] = 0
        /\ \A m \in U : purse[m] = Kobo
    BY SaverSets DEF Savers
  <2>2. U \in SUBSET Savers /\ IsFiniteSet(U) /\ Kobo \in Int /\ Cardinality(U) \in Nat BY SaverSets
  <2> HIDE DEF U
  <2>3. SumFunctionOnSet(purse, Savers) = SumFunctionOnSet(purse, U)
    BY <2>1, <2>2, SaverSets, SumSupport
  <2>4. SumFunctionOnSet(purse, U) = Kobo * Cardinality(U) BY <2>1, <2>2, SumConstant
  <2>5. \A a \in Rows : booked[a] = 0 /\ interest[a] = 0 OBVIOUS
  <2>6. SumFunctionOnSet(booked, Rows) = SumFunctionOnSet(interest, Rows) BY <2>5, SaverSets, SumSame
  <2>7. SumFunctionOnSet(booked, Rows) \in Int BY <2>5, SaverSets, SumInt
  <2>8. Kobo * Cardinality(U) \in Int BY <2>2
  <2>9. SumFunctionOnSet(purse, Savers) + SumFunctionOnSet(booked, Rows)
          = Kobo * Cardinality(U) + SumFunctionOnSet(interest, Rows)
    BY <2>3, <2>4, <2>6, <2>7, <2>8
  <2> QED BY <2>9 DEF SavedInAll, U
<1> QED BY <1>3, <1>4, <1>5, <1>6 DEF ProductInv

LEMMA PurseMoves ==
    ASSUME purse \in [Savers -> Nat], NEW m \in Savers, NEW w \in Int, purse[m] + w \in Nat,
           purse' = [purse EXCEPT ![m] = purse[m] + w]
    PROVE  /\ purse' \in [Savers -> Nat] /\ SumFunctionOnSet(purse, Savers) \in Int
           /\ SumFunctionOnSet(purse', Savers) = SumFunctionOnSet(purse, Savers) + w
<1>1. /\ purse' \in [Savers -> Nat]
      /\ \A y \in Savers : purse[y] \in Int /\ purse'[y] \in Int /\ (y # m => purse'[y] = purse[y])
  OBVIOUS
<1>2. PICK p, q : p = purse[m] /\ q = purse'[m] OBVIOUS
<1>3. Shifts(purse, purse', Savers, m, p, q) BY <1>1, <1>2 DEF Shifts
<1>4. SumFunctionOnSet(purse', Savers) = (SumFunctionOnSet(purse, Savers) - p) + q BY ONLY <1>3, SumShift, SaverSets
<1>5. SumFunctionOnSet(purse, Savers) \in Int BY ONLY <1>3, SumShift, SaverSets
<1>6. q = p + w /\ p \in Int BY <1>2
<1> QED BY <1>1, <1>4, <1>5, <1>6

LEMMA SavedMoves ==
    ASSUME booked \in [Rows -> Int], NEW a \in Rows, NEW b \in Int,
           booked' = [booked EXCEPT ![a] = booked[a] + b]
    PROVE  /\ booked' \in [Rows -> Int] /\ SumFunctionOnSet(booked, Rows) \in Int
           /\ SumFunctionOnSet(booked', Rows) = SumFunctionOnSet(booked, Rows) + b
<1>1. /\ booked' \in [Rows -> Int]
      /\ \A y \in Rows : booked[y] \in Int /\ booked'[y] \in Int /\ (y # a => booked'[y] = booked[y])
  OBVIOUS
<1>2. PICK p, q : p = booked[a] /\ q = booked'[a] OBVIOUS
<1>3. Shifts(booked, booked', Rows, a, p, q) BY <1>1, <1>2 DEF Shifts
<1>4. SumFunctionOnSet(booked', Rows) = (SumFunctionOnSet(booked, Rows) - p) + q BY ONLY <1>3, SumShift, SaverSets
<1>5. SumFunctionOnSet(booked, Rows) \in Int BY ONLY <1>3, SumShift, SaverSets
<1>6. q = p + b /\ p \in Int BY <1>2
<1> QED BY <1>1, <1>4, <1>5, <1>6

LEMMA InterestMoves ==
    ASSUME interest \in [Rows -> Int], NEW a \in Rows, NEW b \in Int,
           interest' = [interest EXCEPT ![a] = interest[a] + b]
    PROVE  /\ interest' \in [Rows -> Int] /\ SumFunctionOnSet(interest, Rows) \in Int
           /\ SumFunctionOnSet(interest', Rows) = SumFunctionOnSet(interest, Rows) + b
<1>1. /\ interest' \in [Rows -> Int]
      /\ \A y \in Rows : interest[y] \in Int /\ interest'[y] \in Int /\ (y # a => interest'[y] = interest[y])
  OBVIOUS
<1>2. PICK p, q : p = interest[a] /\ q = interest'[a] OBVIOUS
<1>3. Shifts(interest, interest', Rows, a, p, q) BY <1>1, <1>2 DEF Shifts
<1>4. SumFunctionOnSet(interest', Rows) = (SumFunctionOnSet(interest, Rows) - p) + q BY ONLY <1>3, SumShift, SaverSets
<1>5. SumFunctionOnSet(interest, Rows) \in Int BY ONLY <1>3, SumShift, SaverSets
<1>6. q = p + b /\ p \in Int BY <1>2
<1> QED BY <1>1, <1>4, <1>5, <1>6

\* A wallet, an account's journal and the interest on it move together.
LEMMA SavingsMove ==
    ASSUME ProductInv, NEW m \in Savers, NEW a \in Rows, NEW w \in Int, NEW b \in Int, NEW i \in Int,
           w + b = i, purse[m] + w \in Nat,
           purse' = [purse EXCEPT ![m] = purse[m] + w],
           booked' = [booked EXCEPT ![a] = booked[a] + b],
           interest' = [interest EXCEPT ![a] = interest[a] + i]
    PROVE  /\ purse' \in [Savers -> Nat] /\ booked' \in [Rows -> Int] /\ interest' \in [Rows -> Int]
           /\ SavedInAll'
<1>1. purse \in [Savers -> Nat] /\ booked \in [Rows -> Int] /\ interest \in [Rows -> Int]
  BY DEF ProductInv, ProductTypes
<1>2. purse' \in [Savers -> Nat] /\ booked' \in [Rows -> Int] /\ interest' \in [Rows -> Int]
  BY <1>1
<1>4. /\ SumFunctionOnSet(purse, Savers) \in Int
      /\ SumFunctionOnSet(purse', Savers) = SumFunctionOnSet(purse, Savers) + w
  BY <1>1, PurseMoves
<1>5. /\ SumFunctionOnSet(booked, Rows) \in Int
      /\ SumFunctionOnSet(booked', Rows) = SumFunctionOnSet(booked, Rows) + b
  BY <1>1, SavedMoves
<1>6. /\ SumFunctionOnSet(interest, Rows) \in Int
      /\ SumFunctionOnSet(interest', Rows) = SumFunctionOnSet(interest, Rows) + i
  BY <1>1, InterestMoves
<1> DEFINE k == Kobo * Cardinality(Savers \ Others)
<1>7. k \in Int BY SaverSets
<1>8. SumFunctionOnSet(purse, Savers) + SumFunctionOnSet(booked, Rows)
        = k + SumFunctionOnSet(interest, Rows)
  BY DEF ProductInv, SavedInAll
<1> HIDE DEF k
<1>9. SumFunctionOnSet(purse', Savers) + SumFunctionOnSet(booked', Rows)
        = k + SumFunctionOnSet(interest', Rows)
  BY <1>4, <1>5, <1>6, <1>7, <1>8
<1> QED BY <1>2, <1>9 DEF SavedInAll, k

\* An account that the member alone works moves, and he is done with it.
LEMMA SaversKnow ==
    ASSUME ProductInv, NEW m \in Savers, NEW a \in Rows, NEW row \in AccountRow,
           account' = [account EXCEPT ![a] = row], saver' = [saver EXCEPT ![m] = P!Idle],
           P!Controls(a, m)
    PROVE  saver' \in [Savers -> SaverRow] /\ \A y \in Savers : SaverKnows(y)'
<1>1. P!Idle \in SaverRow /\ P!Idle.pc = "idle" BY DEF P!Idle, SaverRow
<1>2. saver' \in [Savers -> SaverRow] BY <1>1 DEF ProductInv, ProductTypes
<1>3. ASSUME NEW y \in Savers PROVE SaverKnows(y)'
  <2>1. CASE y = m BY <1>1, <2>1 DEF SaverKnows, ProductInv, ProductTypes
  <2>2. CASE y # m
    <3>1. saver'[y] = saver[y] BY <2>2 DEF ProductInv, ProductTypes
    <3>2. CASE saver[y].pc = "idle" BY <3>1, <3>2 DEF SaverKnows
    <3>3. CASE saver[y].pc # "idle"
      <4>1. P!Controls(saver[y].acct, y) /\ saver[y].acct \in Rows
        BY <3>3 DEF ProductInv, SaverKnows
      <4>2. saver[y].acct # a BY <4>1, <2>2 DEF P!Controls
      <4>3. account'[saver[y].acct] = account[saver[y].acct]
        BY <4>1, <4>2 DEF ProductInv, ProductTypes
      <4>4. P!Controls(saver[y].acct, y)' BY <4>1, <4>3, <3>1 DEF P!Controls
      <4> QED BY <3>1, <4>1, <4>3, <4>4 DEF ProductInv, SaverKnows
    <3> QED BY <3>2, <3>3
  <2> QED BY <2>1, <2>2
<1> QED BY <1>2, <1>3

LEMMA OpensAccount ==
    ASSUME ProductInv, NEW a \in Rows, NEW k \in {"fixed", "goal", "junior"}, NEW s \in Savers,
           NEW g \in Savers \cup {NoOne}, P!OpenAs(a, k, s, g)
    PROVE  ProductInv'
<1> USE DEF P!OpenAs
<1>1. PICK t \in {"none", "running"} :
        account' = [account EXCEPT ![a] = [status |-> "active", kind |-> k, term |-> t,
                                           holder |-> s, guardian |-> g, balance |-> 0]]
  OBVIOUS
<1> DEFINE row == [status |-> "active", kind |-> k, term |-> t, holder |-> s, guardian |-> g, balance |-> 0]
<1>2. row \in AccountRow /\ row.status = "active" /\ row.balance = 0 /\ row.holder \in Savers
  BY DEF AccountRow
<1>3. account' = [account EXCEPT ![a] = row] BY <1>1
<1> HIDE DEF row
<1>4. account' \in [Rows -> AccountRow] /\ account'[a] = row /\ \A x \in Rows : x # a => account'[x] = account[x]
  BY <1>2, <1>3 DEF ProductInv, ProductTypes
<1>5. ProductTypes' BY <1>4 DEF ProductInv, ProductTypes
<1>6. \A x \in Rows : AccountLawful(x)'
  <2>1. AccountLawful(a) BY DEF ProductInv
  <2>2. booked'[a] = 0 /\ ~(interest'[a] > 0) BY <2>1 DEF AccountLawful, ProductInv, ProductTypes
  <2>3. AccountLawful(a)' BY <2>2, <1>2, <1>4 DEF AccountLawful
  <2>4. ASSUME NEW x \in Rows, x # a PROVE AccountLawful(x)'
    BY <2>4, <1>4 DEF ProductInv, AccountLawful, P!IsTerm
  <2> QED BY <2>3, <2>4
<1>7. ASSUME NEW y \in Savers PROVE SaverKnows(y)'
  <2>1. saver'[y] = saver[y] OBVIOUS
  <2>2. CASE saver[y].pc = "idle" BY <2>1, <2>2 DEF SaverKnows
  <2>3. CASE saver[y].pc # "idle"
    <3>1. P!Controls(saver[y].acct, y) /\ saver[y].acct \in Rows /\ saver[y].acct # a
      BY <2>3 DEF ProductInv, SaverKnows
    <3>2. account'[saver[y].acct] = account[saver[y].acct] BY <3>1, <1>4
    <3>3. P!Controls(saver[y].acct, y)' BY <3>1, <3>2, <2>1 DEF P!Controls
    <3> QED BY <3>1, <3>2, <3>3, <2>1 DEF ProductInv, SaverKnows
  <2> QED BY <2>2, <2>3
<1>8. SavedInAll' BY DEF ProductInv, SavedInAll
<1> QED BY <1>5, <1>6, <1>7, <1>8 DEF ProductInv

LEMMA TermRunsOut == ASSUME ProductInv, NEW a \in Rows, P!TermEnds(a) PROVE ProductInv'
<1> USE DEF P!TermEnds
<1> DEFINE row == [account[a] EXCEPT !.term = "over"]
<1>1. account[a] \in AccountRow BY DEF ProductInv, ProductTypes
<1>2. /\ row \in AccountRow /\ row.status = account[a].status /\ row.balance = account[a].balance
      /\ row.holder = account[a].holder /\ row.guardian = account[a].guardian /\ row.kind = account[a].kind
  BY <1>1 DEF AccountRow
<1>3. account' = [account EXCEPT ![a] = row] BY DEF ProductInv, ProductTypes
<1> HIDE DEF row
<1>4. account' \in [Rows -> AccountRow] /\ account'[a] = row /\ \A x \in Rows : x # a => account'[x] = account[x]
  BY <1>2, <1>3 DEF ProductInv, ProductTypes
<1>5. ProductTypes' BY <1>4 DEF ProductInv, ProductTypes
<1>6. \A x \in Rows : /\ account'[x].status = account[x].status /\ account'[x].balance = account[x].balance
                      /\ account'[x].holder = account[x].holder /\ account'[x].kind = account[x].kind
                      /\ account'[x].guardian = account[x].guardian
  BY <1>2, <1>4
<1>7. \A x \in Rows : AccountLawful(x)' BY <1>6 DEF ProductInv, AccountLawful, P!IsTerm
<1>8. \A y \in Savers : SaverKnows(y)' BY <1>6 DEF ProductInv, SaverKnows, P!Controls
<1>9. SavedInAll' BY DEF ProductInv, SavedInAll
<1> QED BY <1>5, <1>7, <1>8, <1>9 DEF ProductInv

LEMMA SaverReads ==
    ASSUME ProductInv, NEW m \in Savers, NEW a \in Rows, NEW pc \in {"deposit", "withdraw", "mature"},
           NEW n \in Nat, P!Start(m, a, pc, n), pc = "mature" => n = account[a].balance
    PROVE  ProductInv'
<1> USE DEF P!Start
<1> DEFINE row == [pc |-> pc, acct |-> a, amount |-> n]
<1>1. row \in SaverRow /\ row.pc = pc /\ row.acct = a /\ row.amount = n BY DEF SaverRow
<1>2. saver' = [saver EXCEPT ![m] = row] OBVIOUS
<1> HIDE DEF row
<1>3. saver' \in [Savers -> SaverRow] /\ saver'[m] = row /\ \A y \in Savers : y # m => saver'[y] = saver[y]
  BY <1>1, <1>2 DEF ProductInv, ProductTypes
<1>4. ProductTypes' BY <1>3 DEF ProductInv, ProductTypes
<1>5. P!Controls(a, m)' BY DEF P!Controls
<1>6. \A y \in Savers : SaverKnows(y)'
  <2>1. SaverKnows(m)' BY <1>1, <1>3, <1>5 DEF SaverKnows
  <2>2. ASSUME NEW y \in Savers, y # m PROVE SaverKnows(y)'
    BY <2>2, <1>3 DEF ProductInv, SaverKnows, P!Controls
  <2> QED BY <2>1, <2>2
<1>7. (\A x \in Rows : AccountLawful(x)') /\ SavedInAll'
  BY DEF ProductInv, AccountLawful, P!IsTerm, SavedInAll
<1> QED BY <1>4, <1>6, <1>7 DEF ProductInv

\* Nothing moves but the handler, which is done.
LEMMA SaverGivesUp ==
    ASSUME ProductInv, NEW m \in Savers, UNCHANGED <<account, purse, booked, interest>>, P!Done(m)
    PROVE  ProductInv'
<1> USE DEF P!Done
<1>1. P!Idle \in SaverRow /\ P!Idle.pc = "idle" BY DEF P!Idle, SaverRow
<1>2. ProductTypes' BY <1>1 DEF ProductInv, ProductTypes
<1>3. \A y \in Savers : SaverKnows(y)' BY <1>1 DEF ProductInv, ProductTypes, SaverKnows, P!Controls
<1>4. (\A x \in Rows : AccountLawful(x)') /\ SavedInAll'
  BY DEF ProductInv, AccountLawful, P!IsTerm, SavedInAll
<1> QED BY <1>2, <1>3, <1>4 DEF ProductInv

\* What a commit does, of whatever kind.
LEMMA SaverCommits ==
    ASSUME ProductInv, NEW m \in Savers, NEW w \in Int, NEW b \in Int, NEW i \in Nat, NEW s \in Savers,
           NEW a \in Rows, NEW row \in AccountRow, P!Controls(a, m), w + b = i, purse[s] + w \in Nat,
           purse' = [purse EXCEPT ![s] = purse[s] + w],
           booked' = [booked EXCEPT ![a] = booked[a] + b],
           interest' = [interest EXCEPT ![a] = interest[a] + i],
           account' = [account EXCEPT ![a] = row], P!Done(m),
           row.balance = account[a].balance + b, row.kind = account[a].kind, row.holder = account[a].holder,
           row.status \in {"active", "matured"}, row.status = "matured" => row.balance = 0,
           i > 0 => row.status = "matured" /\ P!IsTerm(a),
           account[a].status = "active"
    PROVE  ProductInv'
<1>1. i \in Int OBVIOUS
<1>2. /\ purse' \in [Savers -> Nat] /\ booked' \in [Rows -> Int] /\ interest' \in [Rows -> Int]
      /\ SavedInAll'
  BY <1>1, SavingsMove
<1>3. saver' = [saver EXCEPT ![m] = P!Idle] BY DEF P!Done
<1>4. saver' \in [Savers -> SaverRow] /\ \A y \in Savers : SaverKnows(y)' BY <1>3, SaversKnow
<1>5. account' \in [Rows -> AccountRow] /\ account'[a] = row /\ \A x \in Rows : x # a => account'[x] = account[x]
  BY DEF ProductInv, ProductTypes
<1>6. ProductTypes' BY <1>2, <1>4, <1>5 DEF ProductTypes
<1>7. AccountLawful(a) /\ booked[a] \in Int /\ interest[a] \in Int BY DEF ProductInv, ProductTypes
<1>8. booked'[a] = booked[a] + b /\ interest'[a] = interest[a] + i BY DEF ProductInv, ProductTypes
<1>9. AccountLawful(a)'
  <2>1. booked'[a] = account'[a].balance BY <1>5, <1>7, <1>8 DEF AccountLawful
  <2>2. account'[a].holder \in Savers BY <1>5, <1>7 DEF AccountLawful
  <2>3. account'[a].status # "active" => account'[a].balance = 0 BY <1>5
  <2>4. ~(interest[a] > 0) BY <1>7 DEF AccountLawful
  <2>5. interest'[a] > 0 => i > 0 BY <1>7, <1>8, <2>4
  <2>6. interest'[a] > 0 => account'[a].status = "matured" /\ P!IsTerm(a)'
    BY <2>5, <1>5 DEF P!IsTerm
  <2> QED BY <2>1, <2>2, <2>3, <2>6 DEF AccountLawful
<1>10. ASSUME NEW x \in Rows, x # a PROVE AccountLawful(x)'
  <2>1. booked'[x] = booked[x] /\ interest'[x] = interest[x] /\ account'[x] = account[x]
    BY <1>5, <1>10 DEF ProductInv, ProductTypes
  <2> QED BY <2>1 DEF ProductInv, AccountLawful, P!IsTerm
<1> QED BY <1>2, <1>4, <1>6, <1>9, <1>10 DEF ProductInv

LEMMA SaverDeposits == ASSUME ProductInv, NEW m \in Savers, P!DepositToProduct(m) PROVE ProductInv'
<1> USE DEF P!DepositToProduct
<1>1. PICK a \in Rows : saver[m].acct = a /\ P!Controls(a, m) /\ account[a].status = "active"
  BY DEF ProductInv, SaverKnows
<1>2. PICK n \in Nat : saver[m].amount = n BY DEF ProductInv, ProductTypes, SaverRow
<1>3. CASE ~(purse[m] >= n) BY <1>1, <1>2, <1>3, SaverGivesUp
<1>4. CASE purse[m] >= n
  <2>0. /\ purse \in [Savers -> Nat] /\ booked \in [Rows -> Int] /\ interest \in [Rows -> Int]
        /\ account \in [Rows -> AccountRow]
    BY DEF ProductInv, ProductTypes
  <2> DEFINE row == [account[a] EXCEPT !.balance = account[a].balance + n]
             w == 0 - n
  <2>1. account[a] \in AccountRow /\ account[a].balance \in Nat BY <2>0 DEF AccountRow
  <2>2. /\ row \in AccountRow /\ row.balance = account[a].balance + n
        /\ row.kind = account[a].kind /\ row.holder = account[a].holder
        /\ row.status = "active"
    BY <1>1, <2>1 DEF AccountRow
  <2>3. purse' = [purse EXCEPT ![m] = purse[m] - n] /\ booked' = [booked EXCEPT ![a] = booked[a] + n]
    BY <1>1, <1>2, <1>4, <2>0
  <2>4. account' = [account EXCEPT ![a] = row] BY <1>1, <1>2, <1>4, <2>0
  <2> HIDE DEF row
  <2>5. purse[m] - n = purse[m] + w /\ purse[m] + w \in Nat /\ w \in Int /\ w + n = 0 BY <1>4, <2>0
  <2> HIDE DEF w
  <2>6. purse' = [purse EXCEPT ![m] = purse[m] + w] BY <2>3, <2>5
  <2>i. PICK i \in Nat : i = 0 OBVIOUS
  <2>7. interest' = interest /\ interest[a] + i = interest[a]
    <3>1. interest' = interest BY <1>1, <1>2, <1>4
    <3> QED BY <2>0, <2>i, <3>1
  <2>8. interest' = [interest EXCEPT ![a] = interest[a] + i] BY <2>0, <2>7
  <2>9. n \in Int /\ ~(i > 0) /\ P!Done(m) BY <2>i
  <2>10. w + n = i BY <2>5, <2>i
  <2>11. /\ row.status \in {"active", "matured"} /\ (row.status = "matured" => row.balance = 0)
         /\ (i > 0 => row.status = "matured" /\ P!IsTerm(a))
    BY <2>2, <2>9
  <2> QED BY <1>1, <2>2, <2>3, <2>4, <2>5, <2>6, <2>8, <2>9, <2>10, <2>11, SaverCommits
<1> QED BY <1>3, <1>4

LEMMA SaverWithdraws == ASSUME ProductInv, NEW m \in Savers, P!WithdrawFromProduct(m) PROVE ProductInv'
<1> USE DEF P!WithdrawFromProduct
<1>1. PICK a \in Rows : saver[m].acct = a /\ P!Controls(a, m) /\ account[a].status = "active"
  BY DEF ProductInv, SaverKnows
<1>2. PICK n \in Nat : saver[m].amount = n BY DEF ProductInv, ProductTypes, SaverRow
<1>3. CASE ~(account[a].balance >= n) BY <1>1, <1>2, <1>3, SaverGivesUp
<1>4. CASE account[a].balance >= n
  <2>0. /\ purse \in [Savers -> Nat] /\ booked \in [Rows -> Int] /\ interest \in [Rows -> Int]
        /\ account \in [Rows -> AccountRow]
    BY DEF ProductInv, ProductTypes
  <2> DEFINE row == [account[a] EXCEPT !.balance = account[a].balance - n]
             b == 0 - n
  <2>1. account[a] \in AccountRow /\ account[a].balance \in Nat BY <2>0 DEF AccountRow
  <2>a. account[a].balance - n \in Nat /\ account[a].balance - n = account[a].balance + b /\ b \in Int
        /\ booked[a] - n = booked[a] + b /\ n + b = 0 /\ purse[m] + n \in Nat
    BY <1>4, <2>0, <2>1
  <2>2. /\ row \in AccountRow /\ row.balance = account[a].balance - n
        /\ row.kind = account[a].kind /\ row.holder = account[a].holder
        /\ row.status = "active"
    BY <1>1, <2>1, <2>a DEF AccountRow
  <2>3. purse' = [purse EXCEPT ![m] = purse[m] + n] /\ booked' = [booked EXCEPT ![a] = booked[a] - n]
    BY <1>1, <1>2, <1>4, <2>0
  <2>4. account' = [account EXCEPT ![a] = row] BY <1>1, <1>2, <1>4, <2>0
  <2> HIDE DEF row, b
  <2>5. booked' = [booked EXCEPT ![a] = booked[a] + b] /\ row.balance = account[a].balance + b
    BY <2>2, <2>3, <2>a
  <2>i. PICK i \in Nat : i = 0 OBVIOUS
  <2>7. interest' = interest /\ interest[a] + i = interest[a]
    <3>1. interest' = interest BY <1>1, <1>2, <1>4
    <3> QED BY <2>0, <2>i, <3>1
  <2>8. interest' = [interest EXCEPT ![a] = interest[a] + i] BY <2>0, <2>7
  <2>9. n \in Int /\ ~(i > 0) /\ P!Done(m) BY <2>i
  <2>10. n + b = i BY <2>a, <2>i
  <2>11. /\ row.status \in {"active", "matured"} /\ (row.status = "matured" => row.balance = 0)
         /\ (i > 0 => row.status = "matured" /\ P!IsTerm(a))
    BY <2>2, <2>9
  <2> QED BY <1>1, <2>2, <2>3, <2>4, <2>5, <2>8, <2>9, <2>10, <2>11, <2>a, SaverCommits
<1> QED BY <1>1, <1>3, <1>4

LEMMA AccountMatures == ASSUME ProductInv, NEW m \in Savers, P!MatureProduct(m) PROVE ProductInv'
<1> USE DEF P!MatureProduct
<1>1. PICK a \in Rows : /\ saver[m].acct = a /\ P!Controls(a, m) /\ account[a].status = "active"
                        /\ saver[m].amount = account[a].balance
  BY DEF ProductInv, SaverKnows
<1>2. PICK n \in Nat : saver[m].amount = n BY DEF ProductInv, ProductTypes, SaverRow
<1>0. /\ purse \in [Savers -> Nat] /\ booked \in [Rows -> Int] /\ interest \in [Rows -> Int]
      /\ account \in [Rows -> AccountRow]
  BY DEF ProductInv, ProductTypes
<1>3. PICK s \in Savers : account[a].holder = s BY <1>1 DEF ProductInv, AccountLawful
<1>4. PICK i : i = P!Interest(a, n) OBVIOUS
<1>5. i \in Nat /\ (i > 0 => P!IsTerm(a))
  <2>1. 2 * n * Rate + 100 \in Nat
    <3>1. \A x, y \in Nat : 2 * x * y + 100 \in Nat OBVIOUS
    <3> QED BY <3>1, SaverSets
  <2>2. \A x \in Nat : x \div 200 \in Nat OBVIOUS
  <2>3. (2 * n * Rate + 100) \div 200 \in Nat BY <2>1, <2>2
  <2> QED BY <1>4, <2>3 DEF P!Interest
<1> DEFINE row == [account[a] EXCEPT !.status = "matured", !.balance = 0]
           b == 0 - n
           w == n + i
<1>6. account[a] \in AccountRow /\ account[a].balance = n BY <1>0, <1>1, <1>2
<1>7. /\ row \in AccountRow /\ row.balance = 0 /\ row.status = "matured"
      /\ row.kind = account[a].kind /\ row.holder = account[a].holder
  BY <1>6 DEF AccountRow
<1>8. /\ purse' = [purse EXCEPT ![s] = (purse[s] + n) + i] /\ booked' = [booked EXCEPT ![a] = booked[a] - n]
      /\ interest' = [interest EXCEPT ![a] = interest[a] + i]
  BY <1>0, <1>1, <1>2, <1>3, <1>4
<1>9. account' = [account EXCEPT ![a] = row] BY <1>0, <1>1, <1>2
<1> HIDE DEF row
<1>10. /\ b \in Int /\ w \in Int /\ w + b = i /\ purse[s] + w \in Nat /\ (purse[s] + n) + i = purse[s] + w
       /\ booked[a] - n = booked[a] + b /\ row.balance = account[a].balance + b
  BY <1>0, <1>5, <1>6, <1>7
<1> HIDE DEF b, w
<1>11. purse' = [purse EXCEPT ![s] = purse[s] + w] /\ booked' = [booked EXCEPT ![a] = booked[a] + b]
  BY <1>8, <1>10
<1>12. row.status \in {"active", "matured"} /\ (i > 0 => row.status = "matured" /\ P!IsTerm(a))
  BY <1>5, <1>7
<1> QED BY <1>1, <1>5, <1>7, <1>8, <1>9, <1>10, <1>11, <1>12, SaverCommits

LEMMA ProductStep == ASSUME ProductInv, P!Next PROVE ProductInv'
<1>k. "junior" \in {"fixed", "goal", "junior"} /\ NoOne \in Savers \cup {NoOne} OBVIOUS
<1>1. ASSUME NEW m \in Savers, NEW a \in Rows, NEW k \in {"fixed", "goal", "junior"}, P!OpenProduct(m, a, k)
      PROVE  ProductInv'
  BY <1>1, <1>k, OpensAccount DEF P!OpenProduct
<1>2. ASSUME NEW m \in Savers, NEW a \in Rows, NEW minor \in Savers, P!OpenJuniorAccount(m, a, minor)
      PROVE  ProductInv'
  BY <1>2, <1>k, OpensAccount DEF P!OpenJuniorAccount
<1>3. ASSUME NEW m \in Savers, NEW a \in Rows, NEW n \in 1..Kobo, P!DepositRead(m, a, n) PROVE ProductInv'
  <2>1. n \in Nat BY SaverSets
  <2> QED BY <1>3, <2>1, SaverReads DEF P!DepositRead
<1>4. ASSUME NEW m \in Savers, NEW a \in Rows, NEW n \in 1..Kobo, P!WithdrawRead(m, a, n) PROVE ProductInv'
  <2>1. n \in Nat BY SaverSets
  <2> QED BY <1>4, <2>1, SaverReads DEF P!WithdrawRead
<1>5. ASSUME NEW m \in Savers, NEW a \in Rows, P!MatureRead(m, a) PROVE ProductInv'
  <2>1. account[a].balance \in Nat BY DEF ProductInv, ProductTypes, AccountRow
  <2> QED BY <1>5, <2>1, SaverReads DEF P!MatureRead
<1> QED BY <1>1, <1>2, <1>3, <1>4, <1>5, SaverDeposits, SaverWithdraws, AccountMatures, TermRunsOut
        DEF P!Next, Savers

LEMMA ProductHolds == ProductInv => P!TypeOK /\ P!ProductsAddUp
<1> SUFFICES ASSUME ProductInv PROVE P!TypeOK /\ P!ProductsAddUp OBVIOUS
<1>1. P!TypeOK BY DEF ProductInv, ProductTypes, AccountRow, Savers, P!TypeOK
<1>2. /\ P!SumFunction(purse) = SumFunctionOnSet(purse, Savers)
      /\ P!SumFunction(booked) = SumFunctionOnSet(booked, Rows)
      /\ P!SumFunction(interest) = SumFunctionOnSet(interest, Rows)
  <2>1. DOMAIN purse = Savers /\ DOMAIN booked = Rows /\ DOMAIN interest = Rows
    BY DEF ProductInv, ProductTypes
  <2> QED BY <2>1 DEF P!SumFunction, P!SumFunctionOnSet, P!FoldFunctionOnSet, P!MapThenFoldSet,
         SumFunctionOnSet, FoldFunctionOnSet, MapThenFoldSet
<1>3. P!SumFunction(purse) + P!SumFunction(booked)
        = Kobo * P!Cardinality((Members \cup Others) \ Others) + P!SumFunction(interest)
  BY <1>2, SaverSets DEF ProductInv, SavedInAll, Savers
<1>4. \A a \in Rows : /\ booked[a] = account[a].balance
                      /\ account[a].status = "matured" => account[a].balance = 0
                      /\ interest[a] > 0 => account[a].status = "matured" /\ P!IsTerm(a)
  BY DEF ProductInv, AccountLawful
<1> QED BY <1>1, <1>3, <1>4 DEF P!ProductsAddUp

LEMMA ProductAlways == Spec => []ProductInv
<1>1. Init => ProductInv BY ProductStart DEF Init
<1>2. ProductInv /\ [Next]_vars => ProductInv'
  <2> SUFFICES ASSUME ProductInv, [Next]_vars PROVE ProductInv' OBVIOUS
  <2>1. P!Next \/ UNCHANGED productsVars BY Zenon DEF Next, vars
  <2>2. CASE UNCHANGED productsVars
    BY <2>2 DEF productsVars, ProductInv, ProductTypes, AccountLawful, SaverKnows, SavedInAll,
                P!IsTerm, P!Controls
  <2> QED BY <2>1, <2>2, ProductStep
<1> QED BY <1>1, <1>2, PTL DEF Spec

-----------------------------------------------------------------------------
(* The shop: an order takes one unit and makes one loan, and what the journal has of
   the portfolio is their prices and what was taken off them. *)

\* An order that was placed is somebody's, and one without a loan owes nothing.
OrderRow ==
    {r \in [status : {"none", "pending", "approved", "dispatched", "completed", "rejected"},
            by : Buyers \cup {NoOne}, loan : {"none", "disbursed", "paid"}, balance : Int,
            due : BOOLEAN, paidToday : BOOLEAN] :
        /\ r.status # "none" => r.by \in Buyers
        /\ r.loan # "none" => r.status # "none"
        /\ r.loan = "none" => r.balance = 0}
TaskRow == [pc : {"idle", "approve", "reject", "dispatch", "repay", "debit", "settle", "complete"},
            for : Rows \cup {NoRow}, amount : Int, full : BOOLEAN]

ShopTypes ==
    /\ stock \in Nat /\ shopWallet \in [Buyers -> Nat] /\ order \in [Rows -> OrderRow]
    /\ loans \in [Rows -> Nat] /\ portfolio \in Int /\ corrected \in BOOLEAN

\* A handler is about an order that was placed; one about money, about a loan.
About(r, rows) ==
    r.pc # "idle" =>
        /\ r.for \in Rows /\ rows[r.for].status # "none"
        /\ r.pc \in {"repay", "debit", "settle", "complete"} => rows[r.for].loan # "none"
TasksKnown ==
    /\ clerk \in [Hands -> TaskRow] /\ payer \in [Buyers -> TaskRow] /\ job \in TaskRow
    /\ \A c \in Hands : About(clerk[c], order)
    /\ \A m \in Buyers : About(payer[m], order)
    /\ About(job, order)

UnitsLeft ==
    /\ stock + SumFunctionOnSet(loans, Rows) = 2
    /\ \A o \in Rows : loans[o] = (IF order[o].loan = "none" THEN 0 ELSE 1)

Left == [o \in Rows |-> order[o].balance]
Prices == 2 * Price * SumFunctionOnSet(loans, Rows)
PortfolioBooked ==
    /\ portfolio >= Prices - SumFunctionOnSet(Left, Rows)
    /\ ~corrected => portfolio = Prices - SumFunctionOnSet(Left, Rows)

ShopInv == ShopTypes /\ TasksKnown /\ UnitsLeft /\ PortfolioBooked

LEMMA ShopSets ==
    IsFiniteSet(Rows) /\ NoRow \notin Rows /\ NoOne \notin Buyers /\ Price \in Nat /\ Installment \in Nat
    /\ Kobo \in Nat
BY FrontdeskAssumption

LEMMA ShopStart == B!Init => ShopInv
<1> SUFFICES ASSUME B!Init PROVE ShopInv OBVIOUS
<1> USE DEF B!Init
<1>1. B!Idle \in TaskRow /\ B!Idle.pc = "idle" BY DEF B!Idle, TaskRow
<1>2. B!Unplaced \in OrderRow /\ B!Unplaced.balance = 0 /\ B!Unplaced.loan = "none"
  BY DEF B!Unplaced, B!NoLoan, OrderRow
<1>3. ShopTypes
  <2>1. 3 * Kobo \in Nat BY ShopSets
  <2>2. order \in [Rows -> OrderRow] BY <1>2
  <2>3. shopWallet \in [Buyers -> Nat]
    <3>1. PICK w \in Nat : w = 3 * Kobo BY <2>1
    <3> QED BY <3>1
  <2>4. loans \in [Rows -> Nat] /\ stock \in Nat /\ portfolio \in Int OBVIOUS
  <2>5. corrected \in BOOLEAN BY Zenon
  <2> QED BY <2>2, <2>3, <2>4, <2>5 DEF ShopTypes
<1>4. TasksKnown
  <2>1. clerk \in [Hands -> TaskRow] /\ payer \in [Buyers -> TaskRow] /\ job \in TaskRow BY <1>1
  <2>2. (\A c \in Hands : clerk[c].pc = "idle") /\ (\A m \in Buyers : payer[m].pc = "idle") /\ job.pc = "idle"
    BY <1>1
  <2> QED BY <2>1, <2>2 DEF TasksKnown, About
<1>5. \A o \in Rows : loans[o] = 0 /\ order[o].balance = 0 /\ order[o].loan = "none" BY <1>2
<1>6. {} \in SUBSET Rows OBVIOUS
<1>7. SumFunctionOnSet(loans, Rows) = 0 BY <1>5, <1>6, ShopSets, SumSupport, SumEmpty
<1>8. SumFunctionOnSet(Left, Rows) = 0
  <2> DEFINE f == Left
  <2>1. \A o \in Rows : f[o] \in Int /\ f[o] = 0 BY <1>5 DEF Left
  <2> HIDE DEF f
  <2>2. SumFunctionOnSet(f, Rows) = 0 BY <2>1, <1>6, ShopSets, SumSupport, SumEmpty
  <2> QED BY <2>2 DEF f
<1>9. UnitsLeft BY <1>5, <1>7 DEF UnitsLeft
<1>10. PortfolioBooked
  <2>1. Prices = 0 BY <1>7, ShopSets DEF Prices
  <2> QED BY <1>8, <2>1 DEF PortfolioBooked
<1> QED BY <1>3, <1>4, <1>9, <1>10 DEF ShopInv

LEMMA LeftInt == ASSUME ShopInv PROVE SumFunctionOnSet(Left, Rows) \in Int
<1> DEFINE f == Left
<1>1. \A o \in Rows : f[o] \in Int BY DEF ShopInv, ShopTypes, OrderRow, Left
<1> HIDE DEF f
<1>2. SumFunctionOnSet(f, Rows) \in Int BY <1>1, ShopSets, SumInt
<1> QED BY <1>2 DEF f

LEMMA LoansInt == ASSUME ShopInv PROVE SumFunctionOnSet(loans, Rows) \in Int
<1>1. \A o \in Rows : loans[o] \in Int BY DEF ShopInv, ShopTypes
<1> QED BY <1>1, ShopSets, SumInt

LEMMA PricesInt == ASSUME ShopInv PROVE Prices \in Int
<1>1. PICK n \in Int : n = SumFunctionOnSet(loans, Rows) BY LoansInt
<1>2. 2 * Price * n \in Int BY ShopSets
<1> QED BY <1>1, <1>2 DEF Prices

\* One order's row moves.
LEMMA LeftMoves ==
    ASSUME ShopInv, NEW o \in Rows, NEW row \in OrderRow, order' = [order EXCEPT ![o] = row]
    PROVE  SumFunctionOnSet(Left', Rows) = (SumFunctionOnSet(Left, Rows) - order[o].balance) + row.balance
<1>0. order \in [Rows -> OrderRow] BY DEF ShopInv, ShopTypes
<1>1. \A r \in OrderRow : r.balance \in Int BY DEF OrderRow
<1>2. /\ \A y \in Rows : order[y] \in OrderRow /\ order'[y] \in OrderRow /\ (y # o => order'[y] = order[y])
      /\ order'[o] = row
  BY <1>0
<1>3. Shifts(Left, Left', Rows, o, order[o].balance, row.balance)
  <2> DEFINE f == [y \in Rows |-> order[y].balance]
             g == [y \in Rows |-> order'[y].balance]
  <2>1. /\ \A y \in Rows : f[y] \in Int /\ g[y] \in Int /\ (y # o => g[y] = f[y])
        /\ f[o] = order[o].balance /\ g[o] = row.balance
    BY <1>1, <1>2
  <2>2. Left = f /\ Left' = g BY DEF Left
  <2> HIDE DEF f, g
  <2> QED BY <2>1, <2>2 DEF Shifts
<1> QED BY ONLY <1>3, SumShift, ShopSets

LEMMA LeftKept ==
    ASSUME \A o \in Rows : order'[o].balance = order[o].balance, UNCHANGED <<loans, portfolio, corrected>>,
           ShopInv
    PROVE  PortfolioBooked'
<1>1. Left' = Left BY DEF Left
<1> QED BY <1>1 DEF ShopInv, PortfolioBooked, Prices

LEMMA UnitsKept ==
    ASSUME ShopInv, UNCHANGED <<stock, loans>>,
           \A o \in Rows : order'[o].loan = "none" <=> order[o].loan = "none"
    PROVE  UnitsLeft'
BY DEF ShopInv, UnitsLeft

\* What was placed stays placed, and a loan stays one.
OrdersGoOn ==
    \A o \in Rows : /\ order[o].status # "none" => order'[o].status # "none"
                    /\ order[o].loan # "none" => order'[o].loan # "none"

LEMMA TasksGoOn ==
    ASSUME ShopInv, OrdersGoOn,
           clerk' \in [Hands -> TaskRow], payer' \in [Buyers -> TaskRow], job' \in TaskRow,
           \A c \in Hands : clerk'[c] = clerk[c] \/ About(clerk'[c], order'),
           \A m \in Buyers : payer'[m] = payer[m] \/ About(payer'[m], order'),
           job' = job \/ About(job', order')
    PROVE  TasksKnown'
<1>1. \A c \in Hands : About(clerk'[c], order') BY DEF ShopInv, TasksKnown, About, OrdersGoOn
<1>2. \A m \in Buyers : About(payer'[m], order') BY DEF ShopInv, TasksKnown, About, OrdersGoOn
<1>3. About(job', order') BY DEF ShopInv, TasksKnown, About, OrdersGoOn
<1> QED BY <1>1, <1>2, <1>3 DEF TasksKnown, About

LEMMA TasksStay == ASSUME ShopInv, OrdersGoOn, UNCHANGED <<clerk, payer, job>> PROVE TasksKnown'
BY TasksGoOn DEF ShopInv, TasksKnown

\* One order's row moves, and keeps its balance; it has a loan or not as before.
LEMMA OrderRowMoves ==
    ASSUME ShopInv, NEW o \in Rows, NEW row \in OrderRow, order' = [order EXCEPT ![o] = row],
           row.balance = order[o].balance, row.loan = "none" <=> order[o].loan = "none",
           row.status = "none" => order[o].status = "none",
           UNCHANGED <<stock, loans, portfolio, shopWallet, corrected>>,
           OrdersGoOn => TasksKnown'
    PROVE  ShopInv'
<1>0. order \in [Rows -> OrderRow] BY DEF ShopInv, ShopTypes
<1>1. order'[o] = row /\ \A x \in Rows : x # o => order'[x] = order[x] BY <1>0
<1>2. \A x \in Rows : /\ order'[x].balance = order[x].balance
                      /\ order'[x].loan = "none" <=> order[x].loan = "none"
                      /\ order[x].status # "none" => order'[x].status # "none"
  BY <1>1
<1>3. OrdersGoOn BY <1>2 DEF OrdersGoOn
<1>4. ShopTypes' BY <1>0 DEF ShopInv, ShopTypes
<1>5. UnitsLeft' BY <1>2, UnitsKept
<1>6. PortfolioBooked' BY <1>2, LeftKept
<1> QED BY <1>3, <1>4, <1>5, <1>6 DEF ShopInv

\* Only a handler moves.
LEMMA OnlyTasks ==
    ASSUME ShopInv, UNCHANGED <<stock, loans, order, portfolio, shopWallet, corrected>>,
           OrdersGoOn => TasksKnown'
    PROVE  ShopInv'
<1>1. OrdersGoOn BY DEF OrdersGoOn
<1>2. ShopTypes' BY DEF ShopInv, ShopTypes
<1>3. UnitsLeft' BY UnitsKept
<1>4. PortfolioBooked' BY LeftKept
<1> QED BY <1>1, <1>2, <1>3, <1>4 DEF ShopInv

LEMMA IdleTask == B!Idle \in TaskRow /\ B!Idle.pc = "idle" /\ \A rows : About(B!Idle, rows)
BY DEF B!Idle, TaskRow, About

LEMMA ClerkIdles ==
    ASSUME ShopInv, OrdersGoOn, NEW c \in Hands, clerk' = [clerk EXCEPT ![c] = B!Idle], UNCHANGED <<payer, job>>
    PROVE  TasksKnown'
<1>1. clerk' \in [Hands -> TaskRow] BY IdleTask DEF ShopInv, TasksKnown
<1>2. \A x \in Hands : clerk'[x] = clerk[x] \/ About(clerk'[x], order') BY IdleTask DEF ShopInv, TasksKnown
<1> QED BY <1>1, <1>2, TasksGoOn DEF ShopInv, TasksKnown

LEMMA PayerIdles ==
    ASSUME ShopInv, OrdersGoOn, NEW m \in Buyers, payer' = [payer EXCEPT ![m] = B!Idle], UNCHANGED <<clerk, job>>
    PROVE  TasksKnown'
<1>1. payer' \in [Buyers -> TaskRow] BY IdleTask DEF ShopInv, TasksKnown
<1>2. \A x \in Buyers : payer'[x] = payer[x] \/ About(payer'[x], order') BY IdleTask DEF ShopInv, TasksKnown
<1> QED BY <1>1, <1>2, TasksGoOn DEF ShopInv, TasksKnown

LEMMA JobGoesOn ==
    ASSUME ShopInv, OrdersGoOn, job' \in TaskRow, About(job', order'), UNCHANGED <<clerk, payer>>
    PROVE  TasksKnown'
BY TasksGoOn DEF ShopInv, TasksKnown

LEMMA OrderFields ==
    ASSUME ShopInv, NEW o \in Rows
    PROVE  /\ order \in [Rows -> OrderRow] /\ order[o] \in OrderRow /\ order[o].balance \in Int
           /\ order[o].status # "none" => order[o].by \in Buyers
           /\ order[o].loan # "none" => order[o].status # "none"
           /\ order[o].loan = "none" => order[o].balance = 0
BY DEF ShopInv, ShopTypes, OrderRow

-----------------------------------------------------------------------------
(* Orders *)

LEMMA Ordered ==
    ASSUME ShopInv, NEW m \in Buyers, NEW o \in Rows, B!CreateShopOrder(m, o) PROVE ShopInv'
<1> USE DEF B!CreateShopOrder
<1> DEFINE row == [order[o] EXCEPT !.status = "pending", !.by = m]
<1>1. /\ row \in OrderRow /\ row.balance = order[o].balance /\ row.loan = order[o].loan
      /\ row.status = "pending"
  BY OrderFields DEF OrderRow
<1>2. order' = [order EXCEPT ![o] = row] BY OrderFields
<1> HIDE DEF row
<1>3. UNCHANGED <<stock, loans, portfolio, shopWallet, corrected, clerk, payer, job>> BY DEF B!goods, B!money
<1>4. OrdersGoOn => TasksKnown' BY <1>3, TasksStay
<1> QED BY ONLY ShopInv, o \in Rows, <1>1, <1>2, <1>3, <1>4, OrderRowMoves

LEMMA ItemCloses == ASSUME ShopInv, B!CloseShopItem PROVE ShopInv'
<1> USE DEF B!CloseShopItem
<1>3. UNCHANGED <<stock, loans, order, portfolio, shopWallet, corrected, clerk, payer, job>> BY DEF B!money
<1>4. OrdersGoOn => TasksKnown' BY <1>3, TasksStay
<1> QED BY ONLY ShopInv, <1>3, <1>4, OnlyTasks

LEMMA ClerkReads ==
    ASSUME ShopInv, NEW c \in Hands, NEW o \in Rows, NEW pc \in {"approve", "reject", "dispatch"},
           NEW status \in {"pending", "approved"}, B!ClerkRead(c, pc, o, status)
    PROVE  ShopInv'
<1> USE DEF B!ClerkRead
<1>1. UNCHANGED <<stock, loans, order, portfolio, shopWallet, corrected, payer, job>> BY DEF B!goods, B!money
<1> DEFINE task == [B!Idle EXCEPT !.pc = pc, !.for = o]
<1>2. task \in TaskRow /\ task.pc = pc /\ task.for = o
  <2>1. B!Idle \in TaskRow BY IdleTask
  <2> HIDE DEF task
  <2>2. task = [B!Idle EXCEPT !.pc = pc, !.for = o] BY DEF task
  <2> QED BY <2>1, <2>2 DEF TaskRow
<1>3. clerk' = [clerk EXCEPT ![c] = task] OBVIOUS
<1> HIDE DEF task
<1>4. About(task, order') BY <1>1, <1>2 DEF About
<1>5. clerk \in [Hands -> TaskRow] BY DEF ShopInv, TasksKnown
<1>6. clerk' \in [Hands -> TaskRow] /\ \A x \in Hands : clerk'[x] = clerk[x] \/ About(clerk'[x], order')
  BY <1>2, <1>3, <1>4, <1>5
<1>7. OrdersGoOn => TasksKnown' BY <1>1, <1>6, TasksGoOn DEF ShopInv, TasksKnown
<1> QED BY ONLY ShopInv, <1>1, <1>7, OnlyTasks

LEMMA ClerkKnows ==
    ASSUME ShopInv, NEW c \in Hands, clerk[c].pc # "idle"
    PROVE  clerk[c].for \in Rows /\ order[clerk[c].for].status # "none"
BY DEF ShopInv, TasksKnown, About

LEMMA Ruled ==
    ASSUME ShopInv, NEW c \in Hands, NEW pc \in {"approve", "reject", "dispatch"}, B!Decides(c, pc),
           NEW status \in {"approved", "rejected"},
           order' = [order EXCEPT ![clerk[c].for].status = status], UNCHANGED <<B!goods, B!money>>
    PROVE  ShopInv'
<1> USE DEF B!Decides
<1>o. PICK o \in Rows : clerk[c].for = o BY ClerkKnows
<1>s. order[o].status # "none" BY <1>o, ClerkKnows
<1> DEFINE row == [order[o] EXCEPT !.status = status]
<1>1. /\ row \in OrderRow /\ row.balance = order[o].balance /\ row.loan = order[o].loan
      /\ row.status = status
  BY <1>s, OrderFields DEF OrderRow
<1>2. order' = [order EXCEPT ![o] = row] BY <1>o, OrderFields
<1> HIDE DEF row
<1>3. UNCHANGED <<stock, loans, portfolio, shopWallet, corrected, payer, job>> BY DEF B!goods, B!money
<1>4. OrdersGoOn => TasksKnown'
  <2>1. clerk' = [clerk EXCEPT ![c] = B!Idle] OBVIOUS
  <2> QED BY <1>3, <2>1, ClerkIdles
<1>5. row.status = "none" => order[o].status = "none" BY <1>1
<1> QED BY ONLY ShopInv, o \in Rows, <1>1, <1>2, <1>3, <1>4, <1>5, OrderRowMoves

LEMMA Approved == ASSUME ShopInv, NEW c \in Hands, B!ApproveShopOrder(c) PROVE ShopInv'
<1>1. PICK status \in {"approved", "rejected"} : status = "approved" OBVIOUS
<1>2. PICK pc \in {"approve", "reject", "dispatch"} : pc = "approve" OBVIOUS
<1>3. /\ B!Decides(c, pc) /\ order' = [order EXCEPT ![clerk[c].for].status = status]
      /\ UNCHANGED <<B!goods, B!money>>
  BY <1>1, <1>2 DEF B!ApproveShopOrder
<1> QED BY <1>3, Ruled

LEMMA Rejected == ASSUME ShopInv, NEW c \in Hands, B!RejectShopOrder(c) PROVE ShopInv'
<1>1. PICK status \in {"approved", "rejected"} : status = "rejected" OBVIOUS
<1>2. PICK pc \in {"approve", "reject", "dispatch"} : pc = "reject" OBVIOUS
<1>3. /\ B!Decides(c, pc) /\ order' = [order EXCEPT ![clerk[c].for].status = status]
      /\ UNCHANGED <<B!goods, B!money>>
  BY <1>1, <1>2 DEF B!RejectShopOrder
<1> QED BY <1>3, Ruled

LEMMA Dispatches == ASSUME ShopInv, NEW c \in Hands, B!DispatchShopOrder(c) PROVE ShopInv'
<1> USE DEF B!DispatchShopOrder
<1>o. PICK o \in Rows : clerk[c].for = o BY ClerkKnows DEF B!Decides
<1>s. order[o].status # "none" BY <1>o, ClerkKnows DEF B!Decides
<1>c. clerk' = [clerk EXCEPT ![c] = B!Idle] BY DEF B!Decides
<1>u. UNCHANGED <<listed, shopWallet, payer, job, days, corrected>> OBVIOUS
<1>1. CASE ~(stock > 0 /\ ~B!Dispatched(o))
  <2>1. UNCHANGED <<stock, order, loans, portfolio>> BY <1>1, <1>o
  <2>2. OrdersGoOn => TasksKnown' BY <1>c, <1>u, ClerkIdles
  <2> QED BY <1>u, <2>1, <2>2, OnlyTasks
<1>2. CASE stock > 0 /\ ~B!Dispatched(o)
  <2>0. /\ stock' = stock - 1 /\ loans' = [loans EXCEPT ![o] = @ + 1] /\ portfolio' = portfolio + Price
        /\ order' = [order EXCEPT ![o].status = "dispatched", ![o].loan = "disbursed",
                                  ![o].balance = Price, ![o].due = FALSE]
    BY <1>2, <1>o
  <2>t. stock \in Nat /\ loans \in [Rows -> Nat] /\ portfolio \in Int BY DEF ShopInv, ShopTypes
  <2>l. loans[o] = 0 /\ order[o].loan = "none" /\ order[o].balance = 0
    <3>1. loans[o] = 0 BY <1>2, <2>t DEF B!Dispatched
    <3>2. order[o].loan = "none" BY <3>1 DEF ShopInv, UnitsLeft
    <3> QED BY <3>1, <3>2, OrderFields
  <2> DEFINE row == [order[o] EXCEPT !.status = "dispatched", !.loan = "disbursed", !.balance = Price,
                                     !.due = FALSE]
  <2>1. row \in OrderRow /\ row.balance = Price /\ row.loan = "disbursed" /\ row.status = "dispatched"
    <3>1. order[o] \in OrderRow /\ order[o].by \in Buyers BY <1>s, OrderFields
    <3>2. Price \in Int BY ShopSets
    <3> QED BY <3>1, <3>2 DEF OrderRow
  <2>2. order' = [order EXCEPT ![o] = row] BY <2>0, OrderFields
  <2> HIDE DEF row
  <2>3. /\ order' \in [Rows -> OrderRow] /\ order'[o] = row
        /\ \A x \in Rows : x # o => order'[x] = order[x]
    BY <2>1, <2>2, OrderFields
  <2>4. OrdersGoOn BY <2>1, <2>3 DEF OrdersGoOn
  <2>5. TasksKnown' BY <1>c, <1>u, <2>4, ClerkIdles
  <2>6. /\ loans' \in [Rows -> Nat] /\ loans'[o] = 1
        /\ \A x \in Rows : x # o => loans'[x] = loans[x]
    BY <2>0, <2>t, <2>l
  <2>7. ShopTypes'
    <3>1. stock' \in Nat BY <1>2, <2>0, <2>t
    <3>2. portfolio' \in Int BY <2>0, <2>t, ShopSets
    <3>3. shopWallet' \in [Buyers -> Nat] /\ corrected' \in BOOLEAN BY <1>u DEF ShopInv, ShopTypes
    <3> QED BY <2>3, <2>6, <3>1, <3>2, <3>3 DEF ShopTypes
  <2>8. UnitsLeft'
    <3>1. PICK p, q : p = loans[o] /\ q = loans'[o] OBVIOUS
    <3>2. Shifts(loans, loans', Rows, o, p, q) BY <2>6, <2>t, <3>1 DEF Shifts
    <3>3. /\ SumFunctionOnSet(loans', Rows) = (SumFunctionOnSet(loans, Rows) - p) + q
          /\ SumFunctionOnSet(loans, Rows) \in Int
      BY ONLY <3>2, SumShift, ShopSets
    <3>4. p = 0 /\ q = 1 BY <2>l, <2>6, <3>1
    <3>5. SumFunctionOnSet(loans', Rows) = SumFunctionOnSet(loans, Rows) + 1 BY ONLY <3>3, <3>4
    <3>6. stock + SumFunctionOnSet(loans, Rows) = 2 BY DEF ShopInv, UnitsLeft
    <3>7. stock' + SumFunctionOnSet(loans', Rows) = 2 BY ONLY <3>3, <3>5, <3>6, <2>0, <2>t
    <3>8. \A x \in Rows : loans'[x] = (IF order'[x].loan = "none" THEN 0 ELSE 1)
      BY <2>1, <2>3, <2>6 DEF ShopInv, UnitsLeft
    <3> QED BY <3>7, <3>8 DEF UnitsLeft
  <2>9. PortfolioBooked'
    <3>1. SumFunctionOnSet(Left', Rows) = (SumFunctionOnSet(Left, Rows) - order[o].balance) + row.balance
      BY <2>1, <2>2, LeftMoves
    <3>2. SumFunctionOnSet(Left', Rows) = SumFunctionOnSet(Left, Rows) + Price
      BY <2>1, <2>l, <3>1, LeftInt, ShopSets
    <3>p. Prices' = Prices + 2 * Price
      <4>1. PICK f, g : f = loans /\ g = loans' OBVIOUS
      <4>2. Shifts(f, g, Rows, o, 0, 1) BY <2>l, <2>6, <2>t, <4>1 DEF Shifts
      <4>3. PICK k \in Int : k = SumFunctionOnSet(f, Rows) BY <4>1, LoansInt
      <4>4. SumFunctionOnSet(g, Rows) = k + 1
        <5>1. SumFunctionOnSet(g, Rows) = (SumFunctionOnSet(f, Rows) - 0) + 1 BY ONLY <4>2, SumShift, ShopSets
        <5> QED BY <4>3, <5>1
      <4>5. PICK t \in Int : t = 2 * Price BY ShopSets
      <4>6. t * (k + 1) = t * k + t * 1 BY Distribute
      <4> QED BY <4>1, <4>3, <4>4, <4>5, <4>6 DEF Prices
    <3>q. Prices \in Int /\ SumFunctionOnSet(Left, Rows) \in Int /\ Price \in Int BY LeftInt, PricesInt, ShopSets
    <3>r. /\ portfolio >= Prices - SumFunctionOnSet(Left, Rows)
          /\ ~corrected => portfolio = Prices - SumFunctionOnSet(Left, Rows)
      BY DEF ShopInv, PortfolioBooked
    <3>3. portfolio' >= Prices' - SumFunctionOnSet(Left', Rows)
      BY ONLY <2>0, <2>t, <3>2, <3>p, <3>q, <3>r
    <3>4. ~corrected' => portfolio' = Prices' - SumFunctionOnSet(Left', Rows)
      <4> SUFFICES ASSUME ~corrected' PROVE portfolio' = Prices' - SumFunctionOnSet(Left', Rows) OBVIOUS
      <4>1. portfolio = Prices - SumFunctionOnSet(Left, Rows) BY <1>u, <3>r
      <4> QED BY ONLY <2>0, <2>t, <3>2, <3>p, <3>q, <4>1
    <3> QED BY <3>3, <3>4 DEF PortfolioBooked
  <2> QED BY <2>5, <2>7, <2>8, <2>9 DEF ShopInv
<1> QED BY <1>1, <1>2

-----------------------------------------------------------------------------
(* Days *)

LEMMA DateComes == ASSUME ShopInv, NEW o \in Rows, B!DueDateComes(o) PROVE ShopInv'
<1> USE DEF B!DueDateComes
<1> DEFINE row == [order[o] EXCEPT !.due = TRUE, !.paidToday = FALSE]
<1>1. /\ row \in OrderRow /\ row.balance = order[o].balance /\ row.loan = order[o].loan
      /\ row.status = order[o].status
  BY OrderFields DEF OrderRow
<1>2. order' = [order EXCEPT ![o] = row] BY OrderFields
<1> HIDE DEF row
<1>3. UNCHANGED <<stock, loans, portfolio, shopWallet, corrected, clerk, payer, job>> BY DEF B!goods
<1>4. OrdersGoOn => TasksKnown' BY <1>3, TasksStay
<1> QED BY ONLY ShopInv, o \in Rows, <1>1, <1>2, <1>3, <1>4, OrderRowMoves

LEMMA DayPasses == ASSUME ShopInv, B!NextDay PROVE ShopInv'
<1> USE DEF B!NextDay
<1>1. \A o \in Rows : /\ order'[o] \in OrderRow /\ order'[o].balance = order[o].balance
                      /\ order'[o].loan = order[o].loan /\ order'[o].status = order[o].status
  BY OrderFields DEF OrderRow
<1>2. UNCHANGED <<stock, loans, portfolio, shopWallet, corrected, clerk, payer, job>> BY DEF B!goods
<1>3. OrdersGoOn BY <1>1 DEF OrdersGoOn
<1>4. ShopTypes'
  <2>1. order' \in [Rows -> OrderRow] BY <1>1
  <2> QED BY <1>2, <2>1 DEF ShopInv, ShopTypes
<1>5. TasksKnown' BY <1>2, <1>3, TasksStay
<1>6. UnitsLeft' BY <1>1, <1>2, UnitsKept
<1>7. PortfolioBooked' BY <1>1, <1>2, LeftKept
<1> QED BY <1>4, <1>5, <1>6, <1>7 DEF ShopInv

-----------------------------------------------------------------------------
(* The job *)

LEMMA JobKnows ==
    ASSUME ShopInv, job.pc # "idle"
    PROVE  /\ job \in TaskRow /\ job.for \in Rows /\ order[job.for].status # "none" /\ job.amount \in Int
           /\ job.pc \in {"debit", "settle", "complete"} => order[job.for].loan # "none"
BY DEF ShopInv, TasksKnown, About, TaskRow

LEMMA JobTakesOne == ASSUME ShopInv, NEW o \in Rows, B!JobTakes(o) PROVE ShopInv'
<1> USE DEF B!JobTakes
<1>1. UNCHANGED <<stock, loans, order, portfolio, shopWallet, corrected, clerk, payer>> BY DEF B!goods
<1>2. order[o].loan = "disbursed" /\ order[o].status # "none" /\ order[o].by \in Buyers
  BY OrderFields DEF B!InArrears
<1>3. PICK w \in Nat : w = shopWallet[order[o].by] BY <1>2 DEF ShopInv, ShopTypes
<1>4. PICK n \in Int : n = B!Smaller(Installment, order[o].balance) BY OrderFields, ShopSets DEF B!Smaller
<1>5. PICK a \in Int : a = B!Smaller(n, w) BY DEF B!Smaller
<1>6. (w >= n) \in BOOLEAN OBVIOUS
<1>7. job' = [pc |-> "debit", for |-> o, amount |-> a, full |-> w >= n] BY <1>3, <1>4, <1>5
<1>8. job' \in TaskRow /\ About(job', order')
  <2>1. job' \in TaskRow BY <1>6, <1>7 DEF TaskRow
  <2>2. job'.pc = "debit" /\ job'.for = o BY <1>7
  <2> QED BY <1>1, <1>2, <2>1, <2>2 DEF About
<1>9. OrdersGoOn => TasksKnown' BY <1>1, <1>8, JobGoesOn
<1> QED BY ONLY ShopInv, <1>1, <1>9, OnlyTasks

LEMMA JobIdles == ASSUME ShopInv, OrdersGoOn, job' = B!Idle, UNCHANGED <<clerk, payer>> PROVE TasksKnown'
<1>1. job' \in TaskRow /\ About(job', order') BY IdleTask
<1> QED BY <1>1, JobGoesOn

LEMMA JobStops == ASSUME ShopInv, B!JobDies PROVE ShopInv'
<1> USE DEF B!JobDies
<1>1. UNCHANGED <<stock, loans, order, portfolio, shopWallet, corrected, clerk, payer>> /\ job' = B!Idle
  BY DEF B!goods
<1>2. OrdersGoOn => TasksKnown' BY <1>1, JobIdles
<1> QED BY ONLY ShopInv, <1>1, <1>2, OnlyTasks

\* The job goes from one statement to the next, about the same order.
LEMMA JobAdvances ==
    ASSUME ShopInv, OrdersGoOn, job.pc \in {"debit", "settle"}, NEW pc \in {"settle", "complete"},
           job' = [job EXCEPT !.pc = pc], UNCHANGED <<clerk, payer>>
    PROVE  TasksKnown'
<1>1. job \in TaskRow /\ job.for \in Rows /\ order[job.for].status # "none" /\ order[job.for].loan # "none"
  BY JobKnows
<1>2. job' \in TaskRow /\ job'.pc = pc /\ job'.for = job.for BY <1>1 DEF TaskRow
<1>3. About(job', order') BY <1>1, <1>2 DEF About, OrdersGoOn
<1> QED BY <1>2, <1>3, JobGoesOn

LEMMA JobCompleted == ASSUME ShopInv, B!JobCompletes PROVE ShopInv'
<1> USE DEF B!JobCompletes
<1>o. PICK o \in Rows : job.for = o BY JobKnows
<1>s. order[o].status # "none" BY <1>o, JobKnows
<1> DEFINE row == [order[o] EXCEPT !.status = "completed"]
<1>1. /\ row \in OrderRow /\ row.balance = order[o].balance /\ row.loan = order[o].loan
      /\ row.status = "completed"
  BY <1>s, OrderFields DEF OrderRow
<1>2. order' = [order EXCEPT ![o] = row] BY <1>o, OrderFields
<1> HIDE DEF row
<1>3. UNCHANGED <<stock, loans, portfolio, shopWallet, corrected, clerk, payer>> /\ job' = B!Idle BY DEF B!goods
<1>4. OrdersGoOn => TasksKnown' BY <1>3, JobIdles
<1> QED BY ONLY ShopInv, o \in Rows, <1>1, <1>2, <1>3, <1>4, OrderRowMoves

LEMMA JobSettled == ASSUME ShopInv, B!JobSettles PROVE ShopInv'
<1> USE DEF B!JobSettles
<1>o. PICK o \in Rows : job.for = o BY JobKnows
<1>s. order[o].status # "none" /\ order[o].loan # "none" BY <1>o, JobKnows
<1>3. UNCHANGED <<stock, loans, portfolio, shopWallet, corrected, clerk, payer>> BY DEF B!goods
<1>4. CASE order[o].balance <= 0
  <2> DEFINE row == [order[o] EXCEPT !.loan = "paid"]
  <2>1. /\ row \in OrderRow /\ row.balance = order[o].balance /\ row.loan = "paid"
        /\ row.status = order[o].status
    BY <1>s, OrderFields DEF OrderRow
  <2>2. order' = [order EXCEPT ![o] = row] BY <1>o, <1>4, OrderFields
  <2> HIDE DEF row
  <2>3. OrdersGoOn => TasksKnown'
    <3>1. PICK pc \in {"settle", "complete"} : pc = "complete" OBVIOUS
    <3>2. job' = [job EXCEPT !.pc = pc] BY <1>4, <1>o, <3>1
    <3> QED BY <1>3, <3>2, JobAdvances
  <2>4. row.loan = "none" <=> order[o].loan = "none" BY <1>s, <2>1
  <2> QED BY ONLY ShopInv, o \in Rows, <1>3, <2>1, <2>2, <2>3, <2>4, OrderRowMoves
<1>5. CASE ~(order[o].balance <= 0)
  <2> DEFINE row == [order[o] EXCEPT !.due = FALSE]
  <2>1. /\ row \in OrderRow /\ row.balance = order[o].balance /\ row.loan = order[o].loan
        /\ row.status = order[o].status
    BY OrderFields DEF OrderRow
  <2>2. order' = [order EXCEPT ![o] = row] /\ job' = B!Idle BY <1>o, <1>5, OrderFields
  <2> HIDE DEF row
  <2>3. OrdersGoOn => TasksKnown' BY <1>3, <2>2, JobIdles
  <2> QED BY ONLY ShopInv, o \in Rows, <1>3, <2>1, <2>2, <2>3, OrderRowMoves
<1> QED BY <1>4, <1>5

\* An order's balance moves.
LEMMA BalanceFalls ==
    ASSUME ShopInv, NEW o \in Rows, order[o].loan # "none", NEW row \in OrderRow,
           order' = [order EXCEPT ![o] = row], row.loan # "none", row.status = order[o].status,
           UNCHANGED <<stock, loans>>, shopWallet' \in [Buyers -> Nat], portfolio' \in Int,
           corrected' \in BOOLEAN, corrected => corrected',
           NEW n \in Int, row.balance = order[o].balance - n,
           portfolio' >= portfolio + n, ~corrected' => portfolio' = portfolio + n,
           OrdersGoOn => TasksKnown'
    PROVE  ShopInv'
<1>3. /\ order' \in [Rows -> OrderRow] /\ order'[o] = row
      /\ \A x \in Rows : x # o => order'[x] = order[x]
  BY OrderFields
<1>4. OrdersGoOn
  <2>1. order[o].status # "none" BY OrderFields
  <2> QED BY <1>3, <2>1 DEF OrdersGoOn
<1>5. ShopTypes' BY <1>3 DEF ShopInv, ShopTypes
<1>6. UnitsLeft'
  <2>1. \A x \in Rows : order'[x].loan = "none" <=> order[x].loan = "none" BY <1>3
  <2> QED BY <2>1, UnitsKept
<1>7. PortfolioBooked'
  <2>1. SumFunctionOnSet(Left', Rows) = (SumFunctionOnSet(Left, Rows) - order[o].balance) + row.balance
    BY LeftMoves
  <2>2. order[o].balance \in Int /\ portfolio \in Int BY OrderFields DEF ShopInv, ShopTypes
  <2>3. SumFunctionOnSet(Left, Rows) \in Int BY LeftInt
  <2>4. SumFunctionOnSet(Left', Rows) = SumFunctionOnSet(Left, Rows) - n
    BY ONLY <2>1, <2>2, <2>3, n \in Int, row.balance = order[o].balance - n
  <2>5. /\ portfolio >= Prices - SumFunctionOnSet(Left, Rows)
        /\ ~corrected => portfolio = Prices - SumFunctionOnSet(Left, Rows)
    BY DEF ShopInv, PortfolioBooked
  <2>p. Prices' = Prices /\ Prices \in Int BY PricesInt DEF Prices
  <2>6. portfolio' >= Prices' - SumFunctionOnSet(Left', Rows)
    BY ONLY <2>2, <2>3, <2>4, <2>5, <2>p, n \in Int, portfolio' \in Int, portfolio' >= portfolio + n
  <2>7. ~corrected' => portfolio' = Prices' - SumFunctionOnSet(Left', Rows)
    <3> SUFFICES ASSUME ~corrected' PROVE portfolio' = Prices' - SumFunctionOnSet(Left', Rows) OBVIOUS
    <3>1. portfolio = Prices - SumFunctionOnSet(Left, Rows) /\ portfolio' = portfolio + n BY <2>5
    <3> QED BY ONLY <2>2, <2>3, <2>4, <2>p, <3>1, n \in Int
  <2> QED BY <2>6, <2>7 DEF PortfolioBooked
<1> QED BY <1>4, <1>5, <1>6, <1>7 DEF ShopInv

LEMMA JobDebited == ASSUME ShopInv, B!JobDebits PROVE ShopInv'
<1> USE DEF B!JobDebits
<1>o. PICK o \in Rows : job.for = o BY JobKnows
<1>s. order[o].status # "none" /\ order[o].loan # "none" BY <1>o, JobKnows
<1>m. PICK m \in Buyers : order[o].by = m BY <1>s, OrderFields
<1>n. PICK n \in Int : job.amount = n BY JobKnows
<1>1. UNCHANGED <<stock, loans, clerk, payer, corrected>> BY DEF B!goods
<1>2. OrdersGoOn => TasksKnown'
  <2>1. PICK pc \in {"settle", "complete"} : pc = "settle" OBVIOUS
  <2>2. job' = [job EXCEPT !.pc = pc] BY <2>1
  <2> QED BY <1>1, <2>2, JobAdvances
<1>3. CASE ~(n > 0 /\ shopWallet[m] >= n)
  <2>1. UNCHANGED <<shopWallet, order, portfolio>> BY <1>3, <1>o, <1>m, <1>n
  <2> QED BY <1>1, <1>2, <2>1, OnlyTasks
<1>4. CASE n > 0 /\ shopWallet[m] >= n
  <2>0. /\ shopWallet' = [shopWallet EXCEPT ![m] = @ - n] /\ portfolio' = portfolio + n
        /\ order' = [order EXCEPT ![o].balance = @ - n, ![o].paidToday = TRUE]
    BY <1>4, <1>o, <1>m, <1>n
  <2>1. PICK left \in Int : left = order[o].balance - n BY OrderFields
  <2> DEFINE row == [order[o] EXCEPT !.balance = left, !.paidToday = TRUE]
  <2>2. /\ row \in OrderRow /\ row.balance = left /\ row.loan = order[o].loan
        /\ row.status = order[o].status
    BY <1>s, OrderFields DEF OrderRow
  <2>3. order' = [order EXCEPT ![o] = row] BY <2>0, <2>1, OrderFields
  <2> HIDE DEF row
  <2>4. shopWallet' \in [Buyers -> Nat] BY <1>4, <2>0 DEF ShopInv, ShopTypes
  <2>5. portfolio' \in Int /\ portfolio' >= portfolio + n BY <2>0 DEF ShopInv, ShopTypes
  <2>6. corrected' \in BOOLEAN /\ (corrected => corrected') BY <1>1 DEF ShopInv, ShopTypes
  <2>7. row.balance = order[o].balance - n /\ row.loan # "none" BY <1>s, <2>1, <2>2
  <2> QED BY ONLY ShopInv, o \in Rows, n \in Int, <1>s, <1>1, <1>2, <2>0, <2>2, <2>3, <2>4, <2>5, <2>6, <2>7,
             BalanceFalls
<1> QED BY <1>3, <1>4

-----------------------------------------------------------------------------
(* Repayments of members *)

LEMMA RepaymentReads == ASSUME ShopInv, NEW m \in Buyers, NEW o \in Rows, B!RepayRead(m, o) PROVE ShopInv'
<1> USE DEF B!RepayRead
<1>1. UNCHANGED <<stock, loans, order, portfolio, shopWallet, corrected, clerk, job>> BY DEF B!goods
<1>2. order[o].loan = "disbursed" /\ order[o].status # "none" BY OrderFields
<1>3. PICK n \in Int : n = B!Principal(order[o].balance)
  <2>1. B!Smaller(0, order[o].balance) \in Int BY OrderFields DEF B!Smaller
  <2>2. PICK i \in Int : i = Installment - B!Smaller(0, order[o].balance) BY <2>1, ShopSets
  <2>3. B!Smaller(i, order[o].balance) \in Int BY OrderFields DEF B!Smaller
  <2> QED BY <2>2, <2>3 DEF B!Principal
<1> DEFINE task == [B!Idle EXCEPT !.pc = "repay", !.for = o, !.amount = n]
<1>4. task \in TaskRow /\ task.pc = "repay" /\ task.for = o BY DEF B!Idle, TaskRow
<1>5. payer' = [payer EXCEPT ![m] = task] BY <1>3
<1> HIDE DEF task
<1>6. About(task, order') BY <1>1, <1>2, <1>4 DEF About
<1>7. payer \in [Buyers -> TaskRow] BY DEF ShopInv, TasksKnown
<1>8. payer' \in [Buyers -> TaskRow] /\ \A x \in Buyers : payer'[x] = payer[x] \/ About(payer'[x], order')
  BY <1>4, <1>5, <1>6, <1>7
<1>9. OrdersGoOn => TasksKnown' BY <1>1, <1>8, TasksGoOn DEF ShopInv, TasksKnown
<1> QED BY ONLY ShopInv, <1>1, <1>9, OnlyTasks

LEMMA Repaid == ASSUME ShopInv, NEW m \in Buyers, B!RepayLoan(m) PROVE ShopInv'
<1> USE DEF B!RepayLoan
<1>k. /\ payer[m] \in TaskRow /\ payer[m].for \in Rows /\ order[payer[m].for].status # "none"
      /\ order[payer[m].for].loan # "none"
  BY DEF ShopInv, TasksKnown, About
<1>o. PICK o \in Rows : payer[m].for = o BY <1>k
<1>s. order[o].status # "none" /\ order[o].loan # "none" BY <1>o, <1>k
<1>n. PICK n \in Int : payer[m].amount = n BY <1>k DEF TaskRow
<1>1. UNCHANGED <<stock, loans, clerk, job>> BY DEF B!goods
<1>2. OrdersGoOn => TasksKnown'
  <2>1. payer' = [payer EXCEPT ![m] = B!Idle] OBVIOUS
  <2> QED BY <1>1, <2>1, PayerIdles
<1>3. CASE ~(shopWallet[m] >= Installment)
  <2>1. UNCHANGED <<shopWallet, order, portfolio, corrected>> BY <1>3
  <2> QED BY <1>1, <1>2, <2>1, OnlyTasks
<1>4. CASE shopWallet[m] >= Installment
  <2>1. PICK left \in Int : left = order[o].balance - n BY OrderFields
  <2>l. PICK l \in {"none", "disbursed", "paid"} : l = IF left <= 0 THEN "paid" ELSE order[o].loan
    BY OrderFields DEF OrderRow
  <2>0. /\ shopWallet' = [shopWallet EXCEPT ![m] = @ - Installment]
        /\ order' = [order EXCEPT ![o].balance = left, ![o].paidToday = TRUE, ![o].due = FALSE,
                                  ![o].loan = IF left <= 0 THEN "paid" ELSE @]
        /\ portfolio' = IF n > 0 THEN portfolio + n ELSE portfolio
        /\ corrected' = (corrected \/ n < 0)
    BY <1>4, <1>o, <1>n, <2>1
  <2> DEFINE row == [order[o] EXCEPT !.balance = left, !.paidToday = TRUE, !.due = FALSE, !.loan = l]
  <2>2. /\ row \in OrderRow /\ row.balance = left /\ row.loan = l /\ l # "none"
        /\ row.status = order[o].status
    BY <1>s, <2>l, OrderFields DEF OrderRow
  <2>3. order' = [order EXCEPT ![o] = row] BY <2>0, <2>l, OrderFields
  <2> HIDE DEF row
  <2>4. shopWallet' \in [Buyers -> Nat] BY <1>4, <2>0, ShopSets DEF ShopInv, ShopTypes
  <2>p. portfolio \in Int /\ corrected \in BOOLEAN BY DEF ShopInv, ShopTypes
  <2>5. portfolio' \in Int /\ portfolio' >= portfolio + n BY <2>0, <2>p
  <2>6. corrected' \in BOOLEAN /\ (corrected => corrected') BY <2>0, <2>p
  <2>7. ~corrected' => portfolio' = portfolio + n
    <3>1. ASSUME ~corrected' PROVE portfolio' = portfolio + n
      <4>1. ~(n < 0) BY <2>0, <3>1
      <4> QED BY ONLY <2>0, <2>p, <4>1, n \in Int
    <3> QED BY <3>1
  <2>8. row.balance = order[o].balance - n /\ row.loan # "none" BY <2>1, <2>2
  <2> QED BY ONLY ShopInv, o \in Rows, n \in Int, <1>s, <1>1, <1>2, <2>2, <2>3, <2>4, <2>5, <2>6, <2>7, <2>8,
             BalanceFalls
<1> QED BY <1>3, <1>4

-----------------------------------------------------------------------------
LEMMA ShopStep == ASSUME ShopInv, B!Next PROVE ShopInv'
<1>1. CASE \E m \in Buyers, o \in Rows : B!CreateShopOrder(m, o) \/ B!RepayRead(m, o)
  BY <1>1, Ordered, RepaymentReads
<1>2. CASE \E m \in Buyers : B!RepayLoan(m) BY <1>2, Repaid
<1>3. CASE B!CloseShopItem BY <1>3, ItemCloses
<1>4. CASE \E c \in Hands, o \in Rows : \/ B!ClerkRead(c, "approve", o, "pending")
                                       \/ B!ClerkRead(c, "reject", o, "pending")
                                       \/ B!ClerkRead(c, "dispatch", o, "approved")
  <2>1. PICK c \in Hands, o \in Rows, pc \in {"approve", "reject", "dispatch"},
             status \in {"pending", "approved"} : B!ClerkRead(c, pc, o, status)
    BY <1>4
  <2> QED BY <2>1, ClerkReads
<1>5. CASE \E c \in Hands : B!ApproveShopOrder(c) \/ B!RejectShopOrder(c) \/ B!DispatchShopOrder(c)
  BY <1>5, Approved, Rejected, Dispatches
<1>6. CASE \E o \in Rows : B!DueDateComes(o) \/ B!JobTakes(o) BY <1>6, DateComes, JobTakesOne
<1>7. CASE B!NextDay \/ B!JobDebits \/ B!JobSettles \/ B!JobCompletes \/ B!JobDies
  BY <1>7, DayPasses, JobDebited, JobSettled, JobCompleted, JobStops
<1> QED BY <1>1, <1>2, <1>3, <1>4, <1>5, <1>6, <1>7 DEF B!Next

LEMMA ShopHolds == ShopInv => B!TypeOK /\ B!GoodsMatchLoans
<1> SUFFICES ASSUME ShopInv PROVE B!TypeOK /\ B!GoodsMatchLoans OBVIOUS
<1>1. B!TypeOK BY DEF B!TypeOK, ShopInv, ShopTypes, OrderRow
<1>2. \A f : B!SumFunction(f) = SumFunctionOnSet(f, DOMAIN f)
  BY DEF B!SumFunction, B!SumFunctionOnSet, B!FoldFunctionOnSet, B!MapThenFoldSet, SumFunctionOnSet,
         FoldFunctionOnSet, MapThenFoldSet
<1>3. B!SumFunction(loans) = SumFunctionOnSet(loans, Rows) BY <1>2 DEF ShopInv, ShopTypes
<1>4. B!SumFunction([o \in Rows |-> order[o].balance]) = SumFunctionOnSet(Left, Rows) BY <1>2 DEF Left
<1>5. B!Debits = Prices - SumFunctionOnSet(Left, Rows) BY <1>3, <1>4 DEF B!Debits, Prices
<1> QED BY <1>1, <1>3, <1>5 DEF B!GoodsMatchLoans, B!NoLoan, ShopInv, UnitsLeft, PortfolioBooked

LEMMA ShopAlways == Spec => []ShopInv
<1>1. Init => ShopInv BY ShopStart DEF Init
<1>2. ShopInv /\ [Next]_vars => ShopInv'
  <2> SUFFICES ASSUME ShopInv, [Next]_vars PROVE ShopInv' OBVIOUS
  <2>1. B!Next \/ UNCHANGED shopVars BY Zenon DEF Next, vars
  <2>2. CASE UNCHANGED shopVars
    <3>1. Left' = Left BY <2>2 DEF Left, shopVars
    <3> QED BY <2>2, <3>1 DEF shopVars, ShopInv, ShopTypes, TasksKnown, About, UnitsLeft, PortfolioBooked, Prices
  <2> QED BY <2>1, <2>2, ShopStep
<1> QED BY <1>1, <1>2, PTL DEF Spec

-----------------------------------------------------------------------------
(* Commodity schemes: what was bought, reserved and financed before goods go out. *)

Sources == {"none", "cash", "supplier_credit"}
SchemeRow == [status : {"draft", "open", "closed", "purchased", "converted"},
              window : {"before", "in", "after"}, item : BOOLEAN, source : Sources]
SubRow == [status : {"none", "reserved", "cancelled", "rejected", "converted"},
           scheme : One \cup {NoRow}, by : Buyers \cup {NoOne}, qty : Nat,
           dispatched : BOOLEAN, collected : BOOLEAN]
BuyerRow == [pc : {"idle", "loans", "create", "cancel"}, scheme : One \cup {NoRow},
             qty : Nat, owed : Int, subs : SUBSET Rows]
StaffRow == [pc : {"idle", "open", "closed", "expired", "purchase", "reject", "dispatch", "collect", "convert"},
             scheme : One \cup {NoRow}, subs : SUBSET Rows, batch : BOOLEAN, source : Sources]

CommodityTypes ==
    /\ scheme \in [One -> SchemeRow] /\ sub \in [Rows -> SubRow]
    /\ financed \in [Rows -> Nat] /\ batchOpen \in BOOLEAN
    /\ buyer \in [Buyers -> BuyerRow] /\ staff \in [Hands -> StaffRow]

Bought(s) == s \in One /\ scheme[s].source # "none"

SubLawful(r) ==
    /\ financed[r] > 0 => Bought(sub[r].scheme)
    /\ sub[r].status = "converted" => financed[r] > 0
    /\ sub[r].dispatched => financed[r] > 0
    /\ sub[r].collected => sub[r].dispatched

SchemeLawful(s) == scheme[s].status = "purchased" => scheme[s].source # "none"

\* A buyer whose credit is being read has nothing reserved of the scheme.
BuyerKnows(m) ==
    buyer[m].pc \in {"loans", "create"} =>
        /\ buyer[m].scheme \in One
        /\ \A r \in Rows : sub[r].by = m /\ sub[r].scheme = buyer[m].scheme => sub[r].status # "reserved"

StaffKnows(c) ==
    /\ staff[c].pc = "purchase" => staff[c].source # "none"
    /\ staff[c].pc = "convert" => /\ Bought(staff[c].scheme)
                                  /\ \A r \in staff[c].subs : sub[r].scheme = staff[c].scheme
    /\ staff[c].pc \in {"dispatch", "collect"} => \A r \in staff[c].subs : financed[r] > 0
    /\ staff[c].pc = "collect" => \A r \in staff[c].subs : sub[r].dispatched

ReservedOnce ==
    \A r, t \in Rows : /\ r # t /\ sub[r].by = sub[t].by /\ sub[r].scheme = sub[t].scheme
                       /\ sub[r].status = "reserved"
                       => sub[t].status # "reserved"

CommodityInv ==
    /\ CommodityTypes
    /\ \A r \in Rows : SubLawful(r)
    /\ \A s \in One : SchemeLawful(s)
    /\ \A m \in Buyers : BuyerKnows(m)
    /\ \A c \in Hands : StaffKnows(c)
    /\ ReservedOnce

LEMMA CommodityStart == C!Init => CommodityInv
<1> SUFFICES ASSUME C!Init PROVE CommodityInv OBVIOUS
<1> USE DEF C!Init
<1>1. C!Draft \in SchemeRow /\ C!Draft.status = "draft" BY DEF C!Draft, SchemeRow, Sources
<1>2. C!NoSub \in SubRow /\ C!NoSub.status = "none" /\ ~C!NoSub.dispatched /\ ~C!NoSub.collected
  BY DEF C!NoSub, SubRow
<1>3. C!NotBuying \in BuyerRow /\ C!NotBuying.pc = "idle" BY DEF C!NotBuying, BuyerRow
<1>4. C!Free \in StaffRow /\ C!Free.pc = "idle" BY DEF C!Free, StaffRow, Sources
<1>5. CommodityTypes BY <1>1, <1>2, <1>3, <1>4 DEF CommodityTypes
<1>6. \A r \in Rows : SubLawful(r) /\ sub[r].status = "none" BY <1>2 DEF SubLawful
<1>7. \A s \in One : SchemeLawful(s) BY <1>1 DEF SchemeLawful
<1>8. \A m \in Buyers : BuyerKnows(m) BY <1>3 DEF BuyerKnows
<1>9. \A c \in Hands : StaffKnows(c) BY <1>4 DEF StaffKnows
<1> QED BY <1>5, <1>6, <1>7, <1>8, <1>9 DEF CommodityInv, ReservedOnce

\* What no step takes back.
NothingUndone ==
    /\ \A r \in Rows : /\ financed[r] > 0 => financed'[r] > 0
                       /\ sub[r].scheme \in One => sub'[r].scheme = sub[r].scheme
                       /\ sub[r].dispatched => sub'[r].dispatched
    /\ \A s \in One : scheme[s].source # "none" => scheme'[s].source # "none"

\* A new reservation is one of a buyer's whose credit was read.
NoneReserved(m) ==
    \A r \in Rows : sub'[r].by = m /\ sub'[r].status = "reserved" =>
        sub[r].by = m /\ sub[r].status = "reserved" /\ sub'[r].scheme = sub[r].scheme

LEMMA StaffKept ==
    ASSUME CommodityInv, NothingUndone, NEW c \in Hands, staff'[c] = staff[c]
    PROVE  StaffKnows(c)'
<1>0. staff[c].subs \subseteq Rows BY DEF CommodityInv, CommodityTypes, StaffRow
<1>1. StaffKnows(c) BY DEF CommodityInv
<1>3. staff[c].pc = "convert" => staff'[c].scheme \in One /\ scheme'[staff'[c].scheme].source # "none"
  BY <1>1 DEF StaffKnows, NothingUndone, Bought
<1>4. staff[c].pc = "convert" => \A r \in staff'[c].subs : sub'[r].scheme = staff'[c].scheme
  BY <1>0, <1>1 DEF StaffKnows, NothingUndone, Bought
<1>5. staff[c].pc \in {"dispatch", "collect"} => \A r \in staff'[c].subs : financed'[r] > 0
  BY <1>0, <1>1 DEF StaffKnows, NothingUndone
<1>6. staff[c].pc = "collect" => \A r \in staff'[c].subs : sub'[r].dispatched
  BY <1>0, <1>1 DEF StaffKnows, NothingUndone
<1> QED BY <1>1, <1>3, <1>4, <1>5, <1>6 DEF StaffKnows, Bought

LEMMA BuyerKept ==
    ASSUME CommodityInv, NEW m \in Buyers, buyer'[m] = buyer[m], NoneReserved(m)
    PROVE  BuyerKnows(m)'
BY DEF CommodityInv, BuyerKnows, NoneReserved

LEMMA BuyerIdle ==
    ASSUME NEW m \in Buyers, buyer'[m].pc \in {"idle", "cancel"} PROVE BuyerKnows(m)'
BY DEF BuyerKnows

LEMMA OwedInt ==
    CommodityTypes => \A m : C!SumFunction([r \in C!Of(m) |-> financed[r] * sub[r].qty]) \in Int
<1> SUFFICES ASSUME CommodityTypes, NEW m
             PROVE  C!SumFunction([r \in C!Of(m) |-> financed[r] * sub[r].qty]) \in Int
  OBVIOUS
<1> DEFINE f == [r \in C!Of(m) |-> financed[r] * sub[r].qty]
<1>1. IsFiniteSet(C!Of(m)) BY FS_Subset, FrontdeskAssumption DEF C!Of
<1>2. \A r \in C!Of(m) : financed[r] \in Int /\ sub[r].qty \in Int
  BY DEF C!Of, CommodityTypes, SubRow
<1>3. \A r \in C!Of(m) : f[r] \in Int BY <1>2
<1>4. DOMAIN f = C!Of(m) OBVIOUS
<1> HIDE DEF f
<1>5. C!SumFunction(f) = SumFunctionOnSet(f, C!Of(m))
  BY <1>4 DEF C!SumFunction, C!SumFunctionOnSet, C!FoldFunctionOnSet, C!MapThenFoldSet,
         SumFunctionOnSet, FoldFunctionOnSet, MapThenFoldSet
<1> QED BY <1>1, <1>3, <1>5, SumInt DEF f

\* The steps of a scheme: nothing but its row and an officer's hand moves.
LEMMA SchemeStep ==
    ASSUME CommodityInv, UNCHANGED <<sub, financed, batchOpen, buyer>>,
           scheme' \in [One -> SchemeRow], staff' \in [Hands -> StaffRow],
           \A s \in One : /\ scheme[s].source # "none" => scheme'[s].source # "none"
                          /\ SchemeLawful(s)',
           \A c \in Hands : staff'[c] = staff[c] \/ StaffKnows(c)'
    PROVE  CommodityInv'
<1>1. NothingUndone BY DEF NothingUndone
<1>2. CommodityTypes' BY DEF CommodityInv, CommodityTypes
<1>3. \A r \in Rows : SubLawful(r)'
  BY DEF CommodityInv, SubLawful, Bought
<1>4. \A m \in Buyers : BuyerKnows(m)' BY DEF CommodityInv, BuyerKnows
<1>5. \A c \in Hands : StaffKnows(c)' BY <1>1, StaffKept
<1>6. ReservedOnce' BY DEF CommodityInv, ReservedOnce
<1> QED BY <1>2, <1>3, <1>4, <1>5, <1>6 DEF CommodityInv

\* The steps of a subscription leave the schemes and the loans alone.
LEMMA SubStep ==
    ASSUME CommodityInv, UNCHANGED <<scheme, financed, batchOpen>>,
           sub' \in [Rows -> SubRow], buyer' \in [Buyers -> BuyerRow], staff' \in [Hands -> StaffRow],
           \A r \in Rows : /\ sub[r].scheme \in One => sub'[r].scheme = sub[r].scheme
                           /\ sub[r].dispatched => sub'[r].dispatched
                           /\ SubLawful(r)',
           \A m \in Buyers : BuyerKnows(m)',
           \A c \in Hands : staff'[c] = staff[c] \/ StaffKnows(c)',
           ReservedOnce'
    PROVE  CommodityInv'
<1>1. NothingUndone BY DEF NothingUndone
<1>2. CommodityTypes' BY DEF CommodityInv, CommodityTypes
<1>3. \A s \in One : SchemeLawful(s)' BY DEF CommodityInv, SchemeLawful
<1>5. \A c \in Hands : StaffKnows(c)' BY <1>1, StaffKept
<1> QED BY <1>2, <1>3, <1>5 DEF CommodityInv

LEMMA FreeHand == C!Free \in StaffRow /\ C!Free.pc = "idle" /\ C!Free.subs = {}
BY DEF C!Free, StaffRow, Sources
LEMMA FreeBuyer == C!NotBuying \in BuyerRow /\ C!NotBuying.pc = "idle" /\ C!NotBuying.subs = {}
BY DEF C!NotBuying, BuyerRow

LEMMA AddItem == ASSUME CommodityInv, NEW s \in One, C!AddSchemeItem(s) PROVE CommodityInv'
<1> USE DEF C!AddSchemeItem
<1>1. scheme' \in [One -> SchemeRow] /\ staff' \in [Hands -> StaffRow]
  BY DEF CommodityInv, CommodityTypes, SchemeRow
<1>2. \A x \in One : scheme'[x].source = scheme[x].source /\ scheme'[x].status = scheme[x].status
  BY DEF CommodityInv, CommodityTypes, SchemeRow
<1>3. \A x \in One : SchemeLawful(x)' BY <1>2 DEF CommodityInv, SchemeLawful
<1> QED BY <1>1, <1>2, <1>3, SchemeStep

LEMMA Window == ASSUME CommodityInv, NEW s \in One, C!WindowMoves(s) PROVE CommodityInv'
<1> USE DEF C!WindowMoves
<1>1. scheme' \in [One -> SchemeRow] /\ staff' \in [Hands -> StaffRow]
  BY DEF CommodityInv, CommodityTypes, SchemeRow
<1>2. \A x \in One : scheme'[x].source = scheme[x].source /\ scheme'[x].status = scheme[x].status
  BY DEF CommodityInv, CommodityTypes, SchemeRow
<1>3. \A x \in One : SchemeLawful(x)' BY <1>2 DEF CommodityInv, SchemeLawful
<1> QED BY <1>1, <1>2, <1>3, SchemeStep

\* An officer's read: his hand and nothing else.
LEMMA StaffReads ==
    ASSUME CommodityInv, UNCHANGED <<scheme, sub, financed, batchOpen, buyer>>,
           NEW c \in Hands, NEW row \in StaffRow, staff' = [staff EXCEPT ![c] = row], StaffKnows(c)'
    PROVE  CommodityInv'
<1>1. staff' \in [Hands -> StaffRow] BY DEF CommodityInv, CommodityTypes
<1>2. \A x \in Hands : staff'[x] = staff[x] \/ StaffKnows(x)' BY DEF CommodityInv, CommodityTypes
<1>3. scheme' \in [One -> SchemeRow] BY DEF CommodityInv, CommodityTypes
<1>4. \A x \in One : SchemeLawful(x)' BY DEF CommodityInv, SchemeLawful
<1> QED BY <1>1, <1>2, <1>3, <1>4, SchemeStep

LEMMA OpensOrCloses ==
    ASSUME CommodityInv, NEW c \in Hands, NEW s \in One, C!OpenRead(c, s) \/ C!CloseRead(c, s) \/ C!ExpiredRead(c, s)
    PROVE  CommodityInv'
<1>1. PICK p \in {"open", "closed", "expired"} : C!Reads(c, p, s)
  BY DEF C!OpenRead, C!CloseRead, C!ExpiredRead
<1> DEFINE row == [C!Free EXCEPT !.pc = p, !.scheme = s]
<1>2. row \in StaffRow /\ row.pc = p BY FreeHand DEF StaffRow
<1>3. staff' = [staff EXCEPT ![c] = row] /\ UNCHANGED <<scheme, sub, financed, batchOpen, buyer>>
  BY <1>1 DEF C!Reads
<1> HIDE DEF row
<1>4. staff'[c] = row BY <1>3 DEF CommodityInv, CommodityTypes
<1>5. StaffKnows(c)' BY <1>2, <1>4 DEF StaffKnows
<1> QED BY <1>2, <1>3, <1>5, StaffReads

LEMMA OpenedOrClosed ==
    ASSUME CommodityInv, NEW c \in Hands, NEW p \in {"open", "closed"},
           C!OpenOrCloseScheme(c, p) \/ (p = "closed" /\ C!RunSchemeWindows(c))
    PROVE  CommodityInv'
<1> USE DEF C!OpenOrCloseScheme, C!RunSchemeWindows, C!Writes
<1>1. scheme' \in [One -> SchemeRow] /\ staff' \in [Hands -> StaffRow]
  BY FreeHand DEF CommodityInv, CommodityTypes, SchemeRow
<1>2. \A x \in One : /\ scheme'[x].source = scheme[x].source
                     /\ scheme'[x].status = scheme[x].status \/ scheme'[x].status = p
  BY DEF CommodityInv, CommodityTypes, SchemeRow
<1>3. \A x \in One : SchemeLawful(x)' BY <1>2 DEF CommodityInv, SchemeLawful
<1>4. \A x \in Hands : staff'[x] = staff[x] \/ StaffKnows(x)'
  BY FreeHand DEF CommodityInv, CommodityTypes, StaffKnows
<1> QED BY <1>1, <1>2, <1>3, <1>4, SchemeStep

LEMMA PurchaseReads ==
    ASSUME CommodityInv, NEW c \in Hands, NEW s \in One, C!PurchaseRead(c, s) PROVE CommodityInv'
<1>1. PICK o \in {"cash", "supplier_credit"} :
          staff' = [staff EXCEPT ![c] = [C!Free EXCEPT !.pc = "purchase", !.scheme = s, !.source = o]]
  BY DEF C!PurchaseRead
<1> DEFINE row == [C!Free EXCEPT !.pc = "purchase", !.scheme = s, !.source = o]
<1>2. row \in StaffRow /\ row.pc = "purchase" /\ row.source = o BY FreeHand DEF StaffRow, Sources
<1>3. staff' = [staff EXCEPT ![c] = row] /\ UNCHANGED <<scheme, sub, financed, batchOpen, buyer>>
  BY <1>1 DEF C!PurchaseRead
<1> HIDE DEF row
<1>4. staff'[c] = row BY <1>3 DEF CommodityInv, CommodityTypes
<1>5. StaffKnows(c)' BY <1>2, <1>4 DEF StaffKnows
<1> QED BY <1>2, <1>3, <1>5, StaffReads

LEMMA Purchased == ASSUME CommodityInv, NEW c \in Hands, C!PurchaseScheme(c) PROVE CommodityInv'
<1> USE DEF C!PurchaseScheme, C!Writes
<1>0. staff[c] \in StaffRow /\ staff[c].source # "none"
  BY DEF CommodityInv, CommodityTypes, StaffKnows
<1>a. staff[c].source \in Sources BY <1>0 DEF StaffRow
<1>b. scheme' \in [One -> SchemeRow]
  BY <1>a DEF CommodityInv, CommodityTypes, SchemeRow
<1>c. staff' \in [Hands -> StaffRow] BY FreeHand DEF CommodityInv, CommodityTypes
<1>2. \A x \in One : \/ scheme'[x] = scheme[x]
                     \/ scheme'[x].source = staff[c].source
  BY DEF CommodityInv, CommodityTypes, SchemeRow
<1>3. \A x \in One : SchemeLawful(x)' BY <1>0, <1>2 DEF CommodityInv, SchemeLawful
<1>4. \A x \in Hands : staff'[x] = staff[x] \/ StaffKnows(x)'
  BY FreeHand DEF CommodityInv, CommodityTypes, StaffKnows
<1>5. \A x \in One : scheme[x].source # "none" => scheme'[x].source # "none" BY <1>0, <1>2
<1> QED BY <1>b, <1>c, <1>3, <1>4, <1>5, SchemeStep

LEMMA SubReads ==
    ASSUME CommodityInv, NEW c \in Hands, NEW r \in Rows,
           C!RejectRead(c, r) \/ C!DispatchRead(c, r) \/ C!CollectRead(c, r)
    PROVE  CommodityInv'
<1>1. PICK p \in {"reject", "dispatch", "collect"} :
          /\ C!SubRead(c, p, r)
          /\ p # "reject" => sub[r].status = "converted"
          /\ p = "collect" => sub[r].dispatched
  BY DEF C!RejectRead, C!DispatchRead, C!CollectRead
<1> DEFINE row == [C!Free EXCEPT !.pc = p, !.subs = {r}]
<1>2. row \in StaffRow /\ row.pc = p /\ row.subs = {r} BY FreeHand DEF StaffRow
<1>3. staff' = [staff EXCEPT ![c] = row] /\ UNCHANGED <<scheme, sub, financed, batchOpen, buyer>>
  BY <1>1 DEF C!SubRead
<1> HIDE DEF row
<1>4. staff'[c] = row BY <1>3 DEF CommodityInv, CommodityTypes
<1>5. StaffKnows(c)' BY <1>1, <1>2, <1>3, <1>4 DEF StaffKnows, CommodityInv, SubLawful
<1> QED BY <1>2, <1>3, <1>5, StaffReads

LEMMA ConvertReads ==
    ASSUME CommodityInv, NEW c \in Hands, NEW s \in One, C!ConvertRead(c, s) PROVE CommodityInv'
<1> DEFINE T == {r \in Rows : sub[r].scheme = s /\ sub[r].status = "reserved"}
           row == [C!Free EXCEPT !.pc = "convert", !.scheme = s, !.subs = T, !.batch = batchOpen]
<1>2. row \in StaffRow /\ row.pc = "convert" /\ row.scheme = s /\ row.subs = T
  BY FreeHand DEF StaffRow, CommodityInv, CommodityTypes
<1>3. staff' = [staff EXCEPT ![c] = row] /\ UNCHANGED <<scheme, sub, financed, batchOpen, buyer>>
  BY DEF C!ConvertRead
<1>6. scheme[s].source # "none" BY DEF C!ConvertRead, CommodityInv, SchemeLawful
<1>7. \A r \in T : sub[r].scheme = s OBVIOUS
<1> HIDE DEF row, T
<1>4. staff'[c] = row BY <1>3 DEF CommodityInv, CommodityTypes
<1>5. StaffKnows(c)' BY <1>2, <1>3, <1>4, <1>6, <1>7 DEF StaffKnows, Bought
<1> QED BY <1>2, <1>3, <1>5, StaffReads

\* A buyer's read: his row and nothing else.
LEMMA BuyerReads ==
    ASSUME CommodityInv, UNCHANGED <<scheme, sub, financed, batchOpen, staff>>,
           NEW m \in Buyers, NEW row \in BuyerRow, buyer' = [buyer EXCEPT ![m] = row], BuyerKnows(m)'
    PROVE  CommodityInv'
<1>1. buyer' \in [Buyers -> BuyerRow] BY DEF CommodityInv, CommodityTypes
<1>2. \A x \in Buyers : BuyerKnows(x)' BY DEF CommodityInv, CommodityTypes, BuyerKnows
<1>3. sub' \in [Rows -> SubRow] /\ staff' \in [Hands -> StaffRow] BY DEF CommodityInv, CommodityTypes
<1>4. \A r \in Rows : SubLawful(r)' BY DEF CommodityInv, SubLawful, Bought
<1>5. ReservedOnce' BY DEF CommodityInv, ReservedOnce
<1> QED BY <1>1, <1>2, <1>3, <1>4, <1>5, SubStep

LEMMA Subscribes ==
    ASSUME CommodityInv, NEW m \in Buyers, NEW s \in One, NEW n \in 1..1, C!SubscribeRead(m, s, n)
    PROVE  CommodityInv'
<1> DEFINE sum == C!SumFunction([r \in C!Of(m) |-> financed[r] * sub[r].qty])
           row == [pc |-> "loans", scheme |-> s, qty |-> n, subs |-> {}, owed |-> sum]
<1>1. sum \in Int BY OwedInt DEF CommodityInv
<1> HIDE DEF sum
<1>2. row \in BuyerRow /\ row.pc = "loans" /\ row.scheme = s BY <1>1 DEF BuyerRow
<1>3. buyer' = [buyer EXCEPT ![m] = row] /\ UNCHANGED <<scheme, sub, financed, batchOpen, staff>>
  BY DEF C!SubscribeRead, sum
<1>4. \A r \in Rows : sub[r].by = m /\ sub[r].scheme = s => sub[r].status # "reserved"
  BY DEF C!SubscribeRead, C!NoneYet, C!Of, C!Active
<1> HIDE DEF row
<1>5. buyer'[m] = row BY <1>3 DEF CommodityInv, CommodityTypes
<1>6. BuyerKnows(m)' BY <1>2, <1>3, <1>4, <1>5 DEF BuyerKnows
<1> QED BY <1>2, <1>3, <1>6, BuyerReads

LEMMA Credit == ASSUME CommodityInv, NEW m \in Buyers, C!CreditRead(m) PROVE CommodityInv'
<1>0. buyer[m] \in BuyerRow BY DEF CommodityInv, CommodityTypes
<1>1. UNCHANGED <<scheme, sub, financed, batchOpen, staff>> /\ buyer[m].pc = "loans"
  BY DEF C!CreditRead
<1>2. \/ buyer' = [buyer EXCEPT ![m].pc = "create"]
      \/ buyer' = [buyer EXCEPT ![m] = C!NotBuying]
  BY DEF C!CreditRead
<1>3. CASE buyer' = [buyer EXCEPT ![m].pc = "create"]
  <2> DEFINE row == [buyer[m] EXCEPT !.pc = "create"]
  <2>1. row \in BuyerRow /\ row.scheme = buyer[m].scheme BY <1>0 DEF BuyerRow
  <2>2. buyer' = [buyer EXCEPT ![m] = row] BY <1>3 DEF CommodityInv, CommodityTypes
  <2> HIDE DEF row
  <2>3. buyer'[m] = row BY <2>2 DEF CommodityInv, CommodityTypes
  <2>4. BuyerKnows(m)' BY <1>1, <2>1, <2>3 DEF BuyerKnows, CommodityInv
  <2> QED BY <1>1, <2>1, <2>2, <2>4, BuyerReads
<1>4. CASE buyer' = [buyer EXCEPT ![m] = C!NotBuying]
  <2>1. buyer'[m] = C!NotBuying BY <1>4 DEF CommodityInv, CommodityTypes
  <2>2. BuyerKnows(m)' BY <2>1, FreeBuyer, BuyerIdle
  <2> QED BY <1>1, <1>4, <2>2, FreeBuyer, BuyerReads
<1> QED BY <1>2, <1>3, <1>4

LEMMA Cancels == ASSUME CommodityInv, NEW m \in Buyers, NEW r \in Rows, C!CancelRead(m, r) PROVE CommodityInv'
<1> DEFINE row == [C!NotBuying EXCEPT !.pc = "cancel", !.subs = {r}]
<1>1. row \in BuyerRow /\ row.pc = "cancel" BY FreeBuyer DEF BuyerRow
<1>2. buyer' = [buyer EXCEPT ![m] = row] /\ UNCHANGED <<scheme, sub, financed, batchOpen, staff>>
  BY DEF C!CancelRead
<1> HIDE DEF row
<1>3. buyer'[m] = row BY <1>2 DEF CommodityInv, CommodityTypes
<1>4. BuyerKnows(m)' BY <1>1, <1>3, BuyerIdle
<1> QED BY <1>1, <1>2, <1>4, BuyerReads

LEMMA Subscribed == ASSUME CommodityInv, NEW m \in Buyers, NEW r \in Rows, C!SubscribeCommodity(m, r) PROVE CommodityInv'
<1> USE DEF C!SubscribeCommodity
<1> DEFINE row == [status |-> "reserved", scheme |-> buyer[m].scheme, by |-> m,
                   qty |-> buyer[m].qty, dispatched |-> FALSE, collected |-> FALSE]
<1>0. buyer[m] \in BuyerRow /\ buyer[m].scheme \in One
  BY DEF CommodityInv, CommodityTypes, BuyerKnows
<1>1. row \in SubRow BY <1>0 DEF SubRow, BuyerRow
<1>2. /\ row.status = "reserved" /\ row.scheme = buyer[m].scheme /\ row.by = m
      /\ ~row.dispatched /\ ~row.collected
  OBVIOUS
<1> HIDE DEF row
<1>3. sub' = [sub EXCEPT ![r] = row] BY DEF row
<1>4. sub' \in [Rows -> SubRow] /\ sub'[r] = row /\ \A x \in Rows : x # r => sub'[x] = sub[x]
  BY <1>1, <1>3 DEF CommodityInv, CommodityTypes
<1>5. buyer' \in [Buyers -> BuyerRow] /\ staff' \in [Hands -> StaffRow]
  BY FreeBuyer DEF CommodityInv, CommodityTypes
<1>6. buyer'[m] = C!NotBuying /\ \A x \in Buyers : x # m => buyer'[x] = buyer[x]
  BY DEF CommodityInv, CommodityTypes
<1>7. sub[r].scheme \notin One /\ ~sub[r].dispatched /\ sub[r].status = "none"
  BY FrontdeskAssumption DEF C!NoSub
<1>8. financed[r] = 0 BY <1>7 DEF CommodityInv, CommodityTypes, SubLawful, Bought
<1>9. \A x \in Rows : SubLawful(x)'
  BY <1>2, <1>4, <1>8 DEF CommodityInv, SubLawful, Bought
<1>10. \A x \in Buyers : BuyerKnows(x)'
  <2> TAKE x \in Buyers
  <2>1. CASE x = m BY <2>1, <1>6, FreeBuyer, BuyerIdle
  <2>2. CASE x # m
    <3>1. NoneReserved(x) BY <2>2, <1>2, <1>4 DEF NoneReserved
    <3> QED BY <2>2, <1>6, <3>1, BuyerKept
  <2> QED BY <2>1, <2>2
<1>11. \A x \in Rows : sub[x].by = m /\ sub[x].scheme = row.scheme => sub[x].status # "reserved"
  BY <1>2 DEF CommodityInv, BuyerKnows
<1>12. ReservedOnce'
  <2>1. SUFFICES ASSUME NEW x \in Rows, NEW t \in Rows, x # t, sub'[x].by = sub'[t].by,
                       sub'[x].scheme = sub'[t].scheme, sub'[x].status = "reserved",
                       sub'[t].status = "reserved"
                PROVE  FALSE
    BY DEF ReservedOnce
  <2>2. CASE x = r BY <2>1, <2>2, <1>2, <1>4, <1>11
  <2>3. CASE t = r BY <2>1, <2>3, <1>2, <1>4, <1>11
  <2>4. CASE x # r /\ t # r BY <2>1, <2>4, <1>4 DEF CommodityInv, ReservedOnce
  <2> QED BY <2>2, <2>3, <2>4
<1> QED BY <1>2, <1>4, <1>5, <1>7, <1>9, <1>10, <1>12, SubStep

\* A subscription is written whatever it has become: what is reserved becomes less.
LEMMA SubWritten ==
    ASSUME CommodityInv, UNCHANGED <<scheme, financed, batchOpen>>,
           buyer' \in [Buyers -> BuyerRow], staff' \in [Hands -> StaffRow],
           \A m \in Buyers : buyer'[m] = buyer[m] \/ buyer'[m].pc = "idle",
           \A c \in Hands : staff'[c] = staff[c] \/ staff'[c].pc = "idle",
           NEW r \in Rows, NEW row \in SubRow, sub' = [sub EXCEPT ![r] = row],
           row.scheme = sub[r].scheme, row.by = sub[r].by,
           row.status \in {"cancelled", "rejected", sub[r].status},
           sub[r].dispatched => row.dispatched, row.dispatched => financed[r] > 0,
           row.collected => row.dispatched
    PROVE  CommodityInv'
<1>1. sub' \in [Rows -> SubRow] /\ sub'[r] = row /\ \A x \in Rows : x # r => sub'[x] = sub[x]
  BY DEF CommodityInv, CommodityTypes
<1>2. \A x \in Rows : SubLawful(x)'
  BY <1>1 DEF CommodityInv, SubLawful, Bought
<1>3. \A x \in Rows : /\ sub'[x].by = sub[x].by /\ sub'[x].scheme = sub[x].scheme
                      /\ sub'[x].status = "reserved" => sub[x].status = "reserved"
  BY <1>1
<1>4. \A m \in Buyers : BuyerKnows(m)'
  <2> TAKE m \in Buyers
  <2>1. NoneReserved(m) BY <1>3 DEF NoneReserved
  <2> QED BY <2>1, BuyerKept, BuyerIdle
<1>5. \A c \in Hands : staff'[c] = staff[c] \/ StaffKnows(c)' BY DEF StaffKnows
<1>6. ReservedOnce' BY <1>3 DEF CommodityInv, ReservedOnce
<1>7. \A x \in Rows : sub[x].dispatched => sub'[x].dispatched BY <1>1
<1> QED BY <1>1, <1>2, <1>3, <1>4, <1>5, <1>6, <1>7, SubStep

LEMMA Cancelled == ASSUME CommodityInv, NEW m \in Buyers, C!CancelCommoditySubscription(m) PROVE CommodityInv'
<1>0. buyer[m] \in BuyerRow BY DEF CommodityInv, CommodityTypes
<1>1. PICK r \in Rows : sub' = [sub EXCEPT ![r].status = "cancelled"]
  BY <1>0 DEF C!CancelCommoditySubscription, BuyerRow
<1> DEFINE row == [sub[r] EXCEPT !.status = "cancelled"]
<1>2. sub[r] \in SubRow /\ SubLawful(r) BY DEF CommodityInv, CommodityTypes
<1>3. /\ row \in SubRow /\ row.scheme = sub[r].scheme /\ row.by = sub[r].by /\ row.status = "cancelled"
      /\ row.dispatched = sub[r].dispatched /\ row.collected = sub[r].collected
  BY <1>2 DEF SubRow
<1>4. sub' = [sub EXCEPT ![r] = row] BY <1>1 DEF CommodityInv, CommodityTypes
<1> HIDE DEF row
<1>5. /\ UNCHANGED <<scheme, financed, batchOpen, staff>>
      /\ buyer' = [buyer EXCEPT ![m] = C!NotBuying]
  BY DEF C!CancelCommoditySubscription
<1>6. buyer' \in [Buyers -> BuyerRow] /\ \A x \in Buyers : buyer'[x] = buyer[x] \/ buyer'[x].pc = "idle"
  BY <1>5, FreeBuyer DEF CommodityInv, CommodityTypes
<1>7. staff' \in [Hands -> StaffRow] BY <1>5 DEF CommodityInv, CommodityTypes
<1> QED BY <1>2, <1>3, <1>4, <1>5, <1>6, <1>7, SubWritten DEF SubLawful

LEMMA StaffWrites == ASSUME CommodityInv, NEW c \in Hands, C!SubWrite(c) PROVE CommodityInv'
<1>0. staff[c] \in StaffRow /\ StaffKnows(c) BY DEF CommodityInv, CommodityTypes
<1>1. PICK r \in staff[c].subs :
          \/ C!Writes(c, "reject") /\ sub' = [sub EXCEPT ![r].status = "rejected"]
          \/ C!Writes(c, "dispatch") /\ sub' = [sub EXCEPT ![r].dispatched = TRUE]
          \/ C!Writes(c, "collect") /\ sub' = [sub EXCEPT ![r].collected = TRUE]
  BY DEF C!SubWrite
<1>2. r \in Rows BY <1>0 DEF StaffRow
<1>3. sub[r] \in SubRow /\ SubLawful(r) BY <1>2 DEF CommodityInv, CommodityTypes
<1>4. /\ UNCHANGED <<scheme, financed, batchOpen, buyer>>
      /\ staff' = [staff EXCEPT ![c] = C!Free]
  BY <1>1 DEF C!SubWrite, C!Writes
<1>5. staff' \in [Hands -> StaffRow] /\ \A x \in Hands : staff'[x] = staff[x] \/ staff'[x].pc = "idle"
  BY <1>4, FreeHand DEF CommodityInv, CommodityTypes
<1>6. buyer' \in [Buyers -> BuyerRow] BY <1>4 DEF CommodityInv, CommodityTypes
<1>7. PICK row \in SubRow :
          /\ row.scheme = sub[r].scheme /\ row.by = sub[r].by
          /\ row.status \in {"rejected", sub[r].status}
          /\ sub[r].dispatched => row.dispatched
          /\ row.dispatched => financed[r] > 0
          /\ row.collected => row.dispatched
          /\ sub' = [sub EXCEPT ![r] = row]
  <2>1. CASE C!Writes(c, "reject") /\ sub' = [sub EXCEPT ![r].status = "rejected"]
    <3> DEFINE row == [sub[r] EXCEPT !.status = "rejected"]
    <3>1. /\ row \in SubRow /\ row.scheme = sub[r].scheme /\ row.by = sub[r].by /\ row.status = "rejected"
          /\ row.dispatched = sub[r].dispatched /\ row.collected = sub[r].collected
      BY <1>3 DEF SubRow
    <3>2. sub' = [sub EXCEPT ![r] = row] BY <2>1 DEF CommodityInv, CommodityTypes
    <3> HIDE DEF row
    <3> QED BY <3>1, <3>2, <1>3 DEF SubLawful
  <2>2. CASE C!Writes(c, "dispatch") /\ sub' = [sub EXCEPT ![r].dispatched = TRUE]
    <3> DEFINE row == [sub[r] EXCEPT !.dispatched = TRUE]
    <3>1. /\ row \in SubRow /\ row.scheme = sub[r].scheme /\ row.by = sub[r].by
          /\ row.status = sub[r].status /\ row.dispatched
      BY <1>3 DEF SubRow
    <3>2. sub' = [sub EXCEPT ![r] = row] BY <2>2 DEF CommodityInv, CommodityTypes
    <3>3. financed[r] > 0 BY <2>2, <1>0 DEF C!Writes, StaffKnows
    <3> HIDE DEF row
    <3> QED BY <3>1, <3>2, <3>3
  <2>3. CASE C!Writes(c, "collect") /\ sub' = [sub EXCEPT ![r].collected = TRUE]
    <3> DEFINE row == [sub[r] EXCEPT !.collected = TRUE]
    <3>1. /\ row \in SubRow /\ row.scheme = sub[r].scheme /\ row.by = sub[r].by
          /\ row.status = sub[r].status /\ row.dispatched = sub[r].dispatched
      BY <1>3 DEF SubRow
    <3>2. sub' = [sub EXCEPT ![r] = row] BY <2>3 DEF CommodityInv, CommodityTypes
    <3>3. financed[r] > 0 /\ sub[r].dispatched BY <2>3, <1>0 DEF C!Writes, StaffKnows
    <3> HIDE DEF row
    <3> QED BY <3>1, <3>2, <3>3
  <2> QED BY <1>1, <2>1, <2>2, <2>3
<1> QED BY <1>2, <1>4, <1>5, <1>6, <1>7, SubWritten

LEMMA Converted == ASSUME CommodityInv, NEW c \in Hands, C!ConvertScheme(c) PROVE CommodityInv'
<1>0. staff[c] \in StaffRow /\ StaffKnows(c) /\ staff[c].pc = "convert"
  BY DEF CommodityInv, CommodityTypes, C!ConvertScheme, C!Writes
<1> DEFINE T == staff[c].subs
           s == staff[c].scheme
<1>1. T \subseteq Rows /\ Bought(s) /\ \A r \in T : sub[r].scheme = s BY <1>0 DEF StaffRow, StaffKnows
<1>2. staff' = [staff EXCEPT ![c] = C!Free] /\ UNCHANGED buyer BY DEF C!ConvertScheme, C!Writes
<1>3. staff' \in [Hands -> StaffRow] /\ \A x \in Hands : staff'[x] = staff[x] \/ staff'[x].pc = "idle"
  BY <1>2, FreeHand DEF CommodityInv, CommodityTypes
<1>4. \A x \in Hands : staff'[x] = staff[x] \/ StaffKnows(x)' BY <1>3 DEF StaffKnows
<1>5. CASE UNCHANGED <<scheme, sub, financed, batchOpen>>
  <2>1. scheme' \in [One -> SchemeRow] BY <1>5 DEF CommodityInv, CommodityTypes
  <2>2. \A x \in One : SchemeLawful(x)' BY <1>5 DEF CommodityInv, SchemeLawful
  <2> QED BY <1>2, <1>3, <1>4, <1>5, <2>1, <2>2, SchemeStep
<1>6. CASE /\ financed' = [r \in Rows |-> IF r \in T THEN financed[r] + 1 ELSE financed[r]]
           /\ sub' = [r \in Rows |-> IF r \in T THEN [sub[r] EXCEPT !.status = "converted"] ELSE sub[r]]
           /\ scheme' = [scheme EXCEPT ![s].status = "converted"]
           /\ batchOpen' = TRUE
  <2> HIDE DEF T, s
  <2>1. /\ financed' \in [Rows -> Nat]
        /\ \A r \in Rows : /\ financed[r] > 0 => financed'[r] > 0
                           /\ r \in T => financed'[r] > 0
                           /\ r \notin T => financed'[r] = financed[r]
    BY <1>6 DEF CommodityInv, CommodityTypes
  <2>2. \A r \in Rows : /\ sub'[r] \in SubRow
                        /\ sub'[r].by = sub[r].by /\ sub'[r].scheme = sub[r].scheme
                        /\ sub'[r].dispatched = sub[r].dispatched /\ sub'[r].collected = sub[r].collected
                        /\ r \in T => sub'[r].status = "converted"
                        /\ r \notin T => sub'[r].status = sub[r].status
    BY <1>6 DEF CommodityInv, CommodityTypes, SubRow
  <2>3. /\ scheme' \in [One -> SchemeRow]
        /\ \A x \in One : /\ scheme'[x].source = scheme[x].source
                          /\ scheme'[x].status \in {scheme[x].status, "converted"}
    BY <1>6 DEF CommodityInv, CommodityTypes, SchemeRow
  <2>4. sub' \in [Rows -> SubRow] BY <1>6, <2>2
  <2>5. CommodityTypes' BY <1>2, <1>3, <1>6, <2>1, <2>3, <2>4 DEF CommodityInv, CommodityTypes
  <2>6. NothingUndone BY <2>1, <2>2, <2>3 DEF NothingUndone
  <2>7. \A r \in Rows : SubLawful(r)'
    <3> TAKE r \in Rows
    <3>1. SubLawful(r) BY DEF CommodityInv
    <3>2. financed'[r] > 0 => Bought(sub[r].scheme)
      BY <3>1, <2>1, <1>1 DEF SubLawful, CommodityInv, CommodityTypes
    <3>3. Bought(sub[r].scheme) => sub'[r].scheme \in One /\ scheme'[sub'[r].scheme].source # "none"
      BY <2>2, <2>3 DEF Bought
    <3>4. sub'[r].status = "converted" => financed'[r] > 0 BY <3>1, <2>1, <2>2 DEF SubLawful
    <3>5. sub'[r].dispatched => financed'[r] > 0 BY <3>1, <2>1, <2>2 DEF SubLawful
    <3>6. sub'[r].collected => sub'[r].dispatched BY <3>1, <2>2 DEF SubLawful
    <3> QED BY <3>2, <3>3, <3>4, <3>5, <3>6 DEF SubLawful, Bought
  <2>8. \A x \in One : SchemeLawful(x)' BY <2>3 DEF CommodityInv, SchemeLawful
  <2>9. \A m \in Buyers : BuyerKnows(m)'
    <3> TAKE m \in Buyers
    <3>1. NoneReserved(m) BY <2>2 DEF NoneReserved
    <3> QED BY <1>2, <3>1, BuyerKept
  <2>10. ReservedOnce'
    <3>1. \A r \in Rows : sub'[r].status = "reserved" => sub[r].status = "reserved" BY <2>2
    <3> QED BY <2>2, <3>1 DEF CommodityInv, ReservedOnce
  <2> QED BY <1>4, <2>5, <2>6, <2>7, <2>8, <2>9, <2>10, StaffKept DEF CommodityInv
<1> QED BY <1>5, <1>6 DEF C!ConvertScheme

LEMMA CommodityStutter ==
    ASSUME CommodityInv, UNCHANGED <<scheme, sub, financed, buyer, staff>>, batchOpen' \in BOOLEAN
    PROVE  CommodityInv'
<1>1. CommodityTypes' BY DEF CommodityInv, CommodityTypes
<1>2. NothingUndone BY DEF NothingUndone
<1>3. \A r \in Rows : SubLawful(r)' BY DEF CommodityInv, SubLawful, Bought
<1>4. \A x \in One : SchemeLawful(x)' BY DEF CommodityInv, SchemeLawful
<1>5. \A m \in Buyers : BuyerKnows(m)' BY DEF CommodityInv, BuyerKnows
<1>6. ReservedOnce' BY DEF CommodityInv, ReservedOnce
<1> QED BY <1>1, <1>2, <1>3, <1>4, <1>5, <1>6, StaffKept DEF CommodityInv

LEMMA CommodityStep == ASSUME CommodityInv, C!Next PROVE CommodityInv'
<1>1. CASE \E s \in One : C!AddSchemeItem(s) \/ C!WindowMoves(s)
  BY <1>1, AddItem, Window
<1>2. CASE \E m \in Buyers, s \in One, n \in 1..1 : C!SubscribeRead(m, s, n)
  BY <1>2, Subscribes
<1>3. CASE \E m \in Buyers : C!CreditRead(m) \/ C!CancelCommoditySubscription(m)
  BY <1>3, Credit, Cancelled
<1>4. CASE \E m \in Buyers, r \in Rows : C!SubscribeCommodity(m, r) \/ C!CancelRead(m, r)
  BY <1>4, Subscribed, Cancels
<1>5. CASE \E c \in Hands, s \in One :
              C!OpenRead(c, s) \/ C!CloseRead(c, s) \/ C!ExpiredRead(c, s) \/ C!PurchaseRead(c, s) \/ C!ConvertRead(c, s)
  BY <1>5, OpensOrCloses, PurchaseReads, ConvertReads
<1>6. CASE \E c \in Hands, pc \in {"open", "closed"} : C!OpenOrCloseScheme(c, pc)
  BY <1>6, OpenedOrClosed
<1>7. CASE \E c \in Hands : C!RunSchemeWindows(c) \/ C!PurchaseScheme(c) \/ C!SubWrite(c) \/ C!ConvertScheme(c)
  <2>1. ASSUME NEW c \in Hands, C!RunSchemeWindows(c) PROVE CommodityInv'
    <3>1. PICK p \in {"open", "closed"} : p = "closed" OBVIOUS
    <3> QED BY <2>1, <3>1, OpenedOrClosed
  <2> QED BY <1>7, <2>1, Purchased, StaffWrites, Converted
<1>8. CASE \E c \in Hands, r \in Rows : C!RejectRead(c, r) \/ C!DispatchRead(c, r) \/ C!CollectRead(c, r)
  BY <1>8, SubReads
<1>9. CASE C!BatchCloses BY <1>9, CommodityStutter DEF C!BatchCloses
<1> QED BY <1>1, <1>2, <1>3, <1>4, <1>5, <1>6, <1>7, <1>8, <1>9 DEF C!Next

LEMMA CommodityHolds == CommodityInv => C!TypeOK /\ C!HandedOverOnDebt
<1> SUFFICES ASSUME CommodityInv PROVE C!TypeOK /\ C!HandedOverOnDebt OBVIOUS
<1>1. C!TypeOK BY DEF CommodityInv, CommodityTypes, SchemeRow, SubRow, C!TypeOK
<1>2. \A r \in Rows : sub[r].dispatched => financed[r] > 0 /\ scheme[sub[r].scheme].source # "none"
  BY DEF CommodityInv, SubLawful, Bought
<1> QED BY <1>1, <1>2 DEF CommodityInv, SubLawful, ReservedOnce, C!HandedOverOnDebt

LEMMA CommodityAlways == Spec => []CommodityInv
<1>1. Init => CommodityInv BY CommodityStart DEF Init
<1>2. CommodityInv /\ [Next]_vars => CommodityInv'
  <2> SUFFICES ASSUME CommodityInv, [Next]_vars PROVE CommodityInv' OBVIOUS
  <2>1. C!Next \/ UNCHANGED commodityVars BY Zenon DEF Next, vars
  <2>2. CASE UNCHANGED commodityVars
    BY <2>2, CommodityStutter DEF commodityVars, CommodityInv, CommodityTypes
  <2> QED BY <2>1, <2>2, CommodityStep
<1> QED BY <1>1, <1>2, PTL DEF Spec
=============================================================================
