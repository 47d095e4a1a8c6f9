------------------------------- MODULE Groups -------------------------------
(* A savings group inside a cooperative (services/groups.ts), of either kind: a
   ROSCA pays each round's pot to the member whose turn it is, a VSLA shares it
   out by the shares bought. A chat handler is one transaction, so it is a step
   that reads and a step that commits; a mandate's collection contributes too. *)
EXTENDS Integers, FiniteSetsExt

CONSTANTS
    Members,
    Walletless,   \* members without a wallet: they cannot pay in, and are owed in the books
    Hands,        \* concurrent handlers
    Wallet0,      \* kobo in a wallet at the start
    Length,       \* cycleLength, the number of rounds
    MaxShares,    \* bound: shares a contribution may buy, at a price of 1
    NoOne

VARIABLES
    kind,      \* "rosca" or "vsla"
    open,      \* cycleNumber of the open GroupCycle; 0 once the group is closed
    seat,      \* GroupMember: joined, rotationPosition, shares
    paidIn,    \* GroupContribution per round and member
    paidOut,   \* the journal's payout entries per round and member
    late,      \* history: a contribution was committed after the last round had been closed
    pot,       \* balance of the account liability:group_pot
    wallet,    \* Wallet.balance, or liability:group_payout of one who has no wallet
    hand       \* a handler between its reads and its commit

vars == <<kind, open, seat, paidIn, paidOut, late, pot, wallet, hand>>

Rounds == 1..Length
Out == [in |-> FALSE, position |-> 0, shares |-> 0]
Idle == [pc |-> "idle", who |-> NoOne, round |-> 0, amount |-> 0]

Init ==
    /\ kind \in {"rosca", "vsla"}
    /\ open = 1
    /\ seat = [m \in Members |-> Out]
    /\ paidIn = [r \in Rounds |-> [m \in Members |-> 0]]
    /\ paidOut = [r \in Rounds |-> [m \in Members |-> 0]]
    /\ late = FALSE
    /\ pot = 0
    /\ wallet = [m \in Members |-> IF m \in Walletless THEN 0 ELSE Wallet0]
    /\ hand = [h \in Hands |-> Idle]

Seated == {m \in Members : seat[m].in}
PaidInto(r) == SumFunction(paidIn[r])
PaidOutOf(r) == SumFunction(paidOut[r])
SharesOf(S) == SumFunction([m \in S |-> seat[m].shares])

Start(h, pc, m, r, n) ==
    /\ hand[h].pc = "idle"
    /\ hand' = [hand EXCEPT ![h] = [pc |-> pc, who |-> m, round |-> r, amount |-> n]]
    /\ UNCHANGED <<kind, open, seat, paidIn, paidOut, late, pot, wallet>>

Done(h) == hand' = [hand EXCEPT ![h] = Idle]

-----------------------------------------------------------------------------
(* Joining. The place is one more than the highest that was read. *)

JoinRead(h, m) ==
    /\ open > 0 /\ ~seat[m].in
    /\ Start(h, "join", m, 0,
             IF kind = "vsla" THEN 0 ELSE Max({seat[x].position : x \in Members}) + 1)

\* A second row of the same member fails on its unique key.
JoinGroup(h) ==
    /\ hand[h].pc = "join"
    /\ LET m == hand[h].who
       IN  seat' = IF seat[m].in THEN seat
                   ELSE [seat EXCEPT ![m] = [in |-> TRUE, position |-> hand[h].amount, shares |-> 0]]
    /\ Done(h)
    /\ UNCHANGED <<kind, open, paidIn, paidOut, late, pot, wallet>>

-----------------------------------------------------------------------------
(* Contributions *)

ContributeRead(h, m, n) ==
    /\ open > 0 /\ seat[m].in /\ m \notin Walletless /\ wallet[m] >= n
    /\ kind = "rosca" => n = 1 /\ paidIn[open][m] = 0
    /\ Start(h, "contribute", m, open, n)

\* In a ROSCA the journal's reference is of the round and the member, so that the
\* second of two contributions is rolled back.
AlreadyIn(r, m) == kind = "rosca" /\ paidIn[r][m] > 0

(* The guarded debit, the row, the shares and the entry, for the round that was
   open at the read: nothing asks whether it still is. *)
Contribute(h) ==
    /\ hand[h].pc = "contribute"
    /\ LET m == hand[h].who
           r == hand[h].round
           n == hand[h].amount
       IN  IF wallet[m] >= n /\ ~AlreadyIn(r, m)
           THEN /\ wallet' = [wallet EXCEPT ![m] = @ - n]
                /\ paidIn' = [paidIn EXCEPT ![r][m] = @ + n]
                /\ pot' = pot + n
                /\ late' = (late \/ open = 0)
                /\ seat' = IF kind = "vsla" THEN [seat EXCEPT ![m].shares = @ + n] ELSE seat
           ELSE UNCHANGED <<wallet, paidIn, late, pot, seat>>
    /\ Done(h)
    /\ UNCHANGED <<kind, open, paidOut>>

-----------------------------------------------------------------------------
(* The end of a round *)

CloseRead(h) == open > 0 /\ Start(h, "close", NoOne, open, PaidInto(open))

\* The member at the round's position; without one, whoever is next in the order
\* of the positions. Members at the same position come in any order.
Beneficiaries(r) ==
    LET at == {m \in Seated : seat[m].position = r}
        index == (r - 1) % Cardinality(Seated)
        before(m) == {x \in Seated : seat[x].position < seat[m].position}
        upto(m) == {x \in Seated : seat[x].position <= seat[m].position}
    IN  IF at # {} THEN at
        ELSE {m \in Seated : Cardinality(before(m)) <= index /\ index < Cardinality(upto(m))}

\* Pro rata by shares, the largest remainders first.
ShareOuts(n) ==
    LET E == {m \in Seated : seat[m].shares > 0}
        total == SharesOf(E)
        floor(m) == (n * seat[m].shares) \div total
        rest(m) == (n * seat[m].shares) % total
        lucky(U) == [m \in Members |-> IF m \in U THEN floor(m) + 1
                                       ELSE IF m \in E THEN floor(m) ELSE 0]
        left == n - SumFunction([m \in E |-> floor(m)])
    IN  IF E = {} THEN {}
        ELSE {lucky(U) : U \in {U \in SUBSET E :
                 Cardinality(U) = left /\ \A u \in U, x \in E \ U : rest(u) >= rest(x)}}

\* What a round's pot of n kobo may turn into; none when nobody can be paid.
Payouts(r, n) ==
    IF n = 0 \/ Seated = {} THEN {}
    ELSE IF kind = "rosca"
    THEN {[m \in Members |-> IF m = b THEN n ELSE 0] : b \in Beneficiaries(r)}
    ELSE ShareOuts(n)

\* Mutant: an entry that was there before is not an error.
PostedIgnored(r, p) == FALSE

\* The payout of a ROSCA has a journal reference of the round, a share-out one of the
\* round and the member: the second of a kind is refused.
Posted(r, p) ==
    \E m \in Members : paidOut[r][m] > 0 /\ (kind = "rosca" \/ p[m] > 0)

\* The next round's row exists: creating it again fails on its unique key. After the
\* last round no row is created.
Opened(r) == r < Length /\ open # r

After(r) == IF r < Length THEN r + 1 ELSE 0

Pays(r, p) ==
    /\ wallet' = [m \in Members |-> wallet[m] + p[m]]
    /\ paidOut' = [paidOut EXCEPT ![r] = [m \in Members |-> @[m] + p[m]]]
    /\ pot' = pot - SumFunction(p)
    /\ seat' = IF kind = "vsla" THEN [m \in Members |-> [seat[m] EXCEPT !.shares = 0]] ELSE seat

\* Pays what was in the round when it was read, and opens the next one.
CloseCycle(h) ==
    /\ hand[h].pc = "close"
    /\ LET r == hand[h].round
           P == Payouts(r, hand[h].amount)
       IN  \/ /\ Opened(r) \/ \E p \in P : Posted(r, p)    \* rolled back
              /\ UNCHANGED <<open, seat, paidOut, pot, wallet>>
           \/ /\ ~Opened(r) /\ P = {}
              /\ open' = After(r)
              /\ UNCHANGED <<seat, paidOut, pot, wallet>>
           \/ /\ ~Opened(r) /\ \E p \in P : ~Posted(r, p) /\ Pays(r, p)
              /\ open' = After(r)
    /\ Done(h)
    /\ UNCHANGED <<kind, paidIn, late>>

Next ==
    \E h \in Hands :
       \/ \E m \in Members : JoinRead(h, m)
       \/ \E m \in Members, n \in 1..MaxShares : ContributeRead(h, m, n)
       \/ CloseRead(h) \/ JoinGroup(h) \/ Contribute(h) \/ CloseCycle(h)

Spec == Init /\ [][Next]_vars

-----------------------------------------------------------------------------
(* Properties *)

\* The records keep to the columns of the schema, and no wallet is negative.
TypeOK ==
    /\ kind \in {"rosca", "vsla"} /\ open \in 0..Length
    /\ seat \in [Members -> [in : BOOLEAN, position : Nat, shares : Nat]]
    /\ pot \in Int /\ late \in BOOLEAN /\ wallet \in [Members -> Nat]

\* A VSLA took a contribution after its last round was closed. The buyer has a share
\* again, and may have no share-out of that round: an admin who had also read it as
\* open shares it out to him a second time.
SharedAgain(r) == kind = "vsla" /\ r = Length /\ late

(* README "Groups": "Every contribution, payout and share-out is booked ... so
   the books always balance". However handlers of members, of a mandate and of
   two admins cross, money only moves between wallets and the pot, no round pays
   out more than it took in, nor what another round took in, but for one that is
   shared out again, and a member of a ROSCA pays into a round once. *)
PotAddsUp ==
    /\ pot = SumFunction([r \in Rounds |-> PaidInto(r) - PaidOutOf(r)])
    /\ pot + SumFunction(wallet) = Wallet0 * Cardinality(Members \ Walletless)
    /\ \A r \in Rounds : PaidOutOf(r) > PaidInto(r) => SharedAgain(r)
    /\ kind = "rosca" => \A r \in Rounds, m \in Members : paidIn[r][m] <= 1

(* README "Groups": "the whole pot is distributed with no rounding loss". A
   contribution that commits after the close has read its round stays in the pot
   for good; a last round that is shared out again leaves it short. *)
WholePotDistributed ==
    open = 0 /\ (\A h \in Hands : hand[h] = Idle) => pot = 0
=============================================================================
