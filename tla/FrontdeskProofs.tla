-------------------------- MODULE FrontdeskProofs --------------------------
(* Theorems about MCFrontdesk, for every value of its constants: ballots decide once, by
   a quorum and for what was voted on; a chat runs an operation only on what its own flow
   has asked for; and, with BooksProofs, the books of every part match: the federation's
   fund (federation/index.ts), insurance (insurance/index.ts), the ledger itself (ledger.ts,
   provisioning.ts) and the screening of what comes in and goes out (aml.ts). *)
EXTENDS BooksProofs

-----------------------------------------------------------------------------
(* Ballots: what every row and every handler relies on. *)

SeatRow == [present : BOOLEAN, holder : Voters \cup {NoOne}]
QuestionRow == [kind : V!Kinds \cup {"none"}, status : {"none", "open", "closed"},
                outcome : Candidates \cup {NoOne}, options : SUBSET Candidates]
VoterRow == [pc : {"idle", "attend", "proxy", "cast"}, on : One \cup {NoRow},
             option : Candidates \cup {NoOne}, for : Voters \cup {NoOne}, here : BOOLEAN]
CloserRow == [pc : {"idle", "open", "shut", "close"}, on : One \cup {NoRow},
              option : Candidates \cup {NoOne}, quorum : BOOLEAN]

BallotTypes ==
    /\ meeting \in {"scheduled", "open", "closed"}
    /\ chair \in [Voters -> SeatRow]
    /\ question \in [One -> QuestionRow]
    /\ ballots \in [One -> SUBSET (Voters \X Candidates)]
    /\ voter \in [Voters -> VoterRow]
    /\ closer \in [Hands -> CloserRow]
    /\ admins \in SUBSET (One \X UnitCandidates)

\* The ballots of q for o, and who sits or is represented and counts.
Tally(q, o) == Cardinality({b \in ballots[q] : b[2] = o})
Counting == V!Represented \ Suspended

OneBallotEach == \A q \in One : \A b, d \in ballots[q] : b[1] = d[1] => b = d

\* Nobody holds the seat of an absent member.
SeatsHeld == \A m \in Voters : ~chair[m].present => chair[m].holder = NoOne

\* A ballot m casts on q for o is one m may cast.
MayCast(m, q, o) ==
    /\ q \in One /\ question[q].status # "none" /\ o \in question[q].options
    /\ question[q].kind = "unit" => m \in Unit
    /\ question[q].kind = "motion" => chair[m].present

QuestionLawful(q) ==
    /\ \A b \in ballots[q] : MayCast(b[1], q, b[2])
    /\ question[q].status = "none" => question[q].options = {}
    /\ question[q].kind = "unit" => question[q].options \subseteq UnitCandidates

\* A tally of q that makes o the admin of the unit, or that carries the motion.
Elected(q, o) ==
    /\ Cardinality(ballots[q]) >= V!Required(Unit)
    /\ V!Required(Unit) > 0 => Tally(q, o) > 0
Carried(q) == Cardinality(Counting) >= V!Required(Voters) /\ Tally(q, Yes) > 0

VoterKnows(m) ==
    /\ voter[m].pc = "cast" => MayCast(m, voter[m].on, voter[m].option)
    /\ voter[m].pc \in {"attend", "proxy"} => voter[m].for \in Voters

CloserKnows(c) ==
    closer[c].pc = "close" =>
        LET q == closer[c].on IN
        /\ q \in One /\ question[q].status # "none"
        /\ question[q].kind = "unit" /\ closer[c].option # NoOne /\ closer[c].quorum =>
               closer[c].option \in UnitCandidates /\ Elected(q, closer[c].option)
        /\ question[q].kind = "motion" /\ closer[c].option = Yes => Carried(q)

AdminsElected == \A a \in admins : Elected(a[1], a[2])
MotionsCarried ==
    \A q \in One : question[q].kind = "motion" /\ question[q].outcome = Yes =>
        question[q].status # "none" /\ Carried(q)

BallotInv ==
    /\ BallotTypes /\ OneBallotEach /\ SeatsHeld
    /\ \A q \in One : QuestionLawful(q)
    /\ \A m \in Voters : VoterKnows(m)
    /\ \A c \in Hands : CloserKnows(c)
    /\ AdminsElected /\ MotionsCarried

LEMMA BallotSets ==
    /\ \A X : V!Cardinality(X) = Cardinality(X)
    /\ \A q, o : V!Votes(q, o) = Tally(q, o)
    /\ \A X \in SUBSET Voters : V!Required(X) \in Nat
<1>1. \A X : V!Cardinality(X) = Cardinality(X)
  BY DEF V!Cardinality, Cardinality
<1>2. ASSUME NEW X \in SUBSET Voters PROVE V!Required(X) \in Nat
  <2> DEFINE n == Cardinality(V!Active(X))
             a == n * Percent
  <2>1. IsFiniteSet(V!Active(X)) BY FrontdeskAssumption, FS_Subset DEF V!Active
  <2>2. n \in Nat /\ Percent \in Nat BY <2>1, FS_CardinalityType, FrontdeskAssumption
  <2> HIDE DEF n
  <2>3. a \in Nat BY <2>2
  <2> HIDE DEF a
  <2>4. (a + 99) \div 100 \in Nat BY <2>3
  <2>5. V!Required(X) = (a + 99) \div 100 BY <1>1 DEF V!Required, n, a
  <2> QED BY <2>4, <2>5
<1>3. \A q, o : V!Votes(q, o) = Tally(q, o) BY <1>1 DEF V!Votes, Tally
<1> QED BY <1>1, <1>2, <1>3

\* Ballots and seats are finite sets.
LEMMA BallotsFinite ==
    ASSUME BallotTypes
    PROVE  /\ \A q \in One : \A X \in SUBSET ballots[q] : IsFiniteSet(X) /\ Cardinality(X) \in Nat
           /\ Counting \subseteq Voters /\ IsFiniteSet(Counting) /\ Cardinality(Counting) \in Nat
<1>1. IsFiniteSet(Voters \X Candidates) BY FrontdeskAssumption, FS_Product
<1>2. ASSUME NEW q \in One, NEW X \in SUBSET ballots[q] PROVE IsFiniteSet(X) /\ Cardinality(X) \in Nat
  <2>1. X \subseteq Voters \X Candidates BY DEF BallotTypes
  <2> QED BY <1>1, <2>1, FS_Subset, FS_CardinalityType
<1>3. Counting \subseteq Voters
  BY DEF BallotTypes, Counting, V!Represented, SeatRow
<1> QED BY <1>2, <1>3, FrontdeskAssumption, FS_Subset, FS_CardinalityType

\* What no step takes back: a ballot, a seat, a candidate, what a question is about.
Grows ==
    /\ \A q \in One : ballots[q] \subseteq ballots'[q]
    /\ \A m \in Voters : chair[m].present => chair'[m].present
    /\ Counting \subseteq Counting'
    /\ \A q \in One : question[q].status # "none" =>
           /\ question'[q].status # "none" /\ question'[q].kind = question[q].kind
           /\ question[q].options \subseteq question'[q].options

\* So what a tally found stays true, whoever votes after it.
LEMMA TalliesStand ==
    ASSUME BallotTypes, BallotTypes', Grows, NEW q \in One
    PROVE  /\ \A o \in Candidates : Elected(q, o) => Elected(q, o)'
           /\ Carried(q) => Carried(q)'
<1>1. ASSUME NEW o PROVE Tally(q, o) \in Nat /\ Tally(q, o)' \in Nat /\ Tally(q, o) <= Tally(q, o)'
  <2> DEFINE X == {b \in ballots[q] : b[2] = o}
             T == {b \in ballots'[q] : b[2] = o}
  <2>1. X \subseteq T BY DEF Grows
  <2>2. IsFiniteSet(X) /\ Cardinality(X) \in Nat BY BallotsFinite
  <2>3. IsFiniteSet(T) /\ Cardinality(T) \in Nat
    <3>1. T \in SUBSET (Voters \X Candidates) BY DEF BallotTypes
    <3> QED BY <3>1, FrontdeskAssumption, FS_Product, FS_Subset, FS_CardinalityType
  <2>4. Cardinality(X) <= Cardinality(T) BY <2>1, <2>3, FS_Subset
  <2> QED BY <2>2, <2>3, <2>4 DEF Tally
<1>2. /\ Cardinality(ballots[q]) \in Nat /\ Cardinality(ballots'[q]) \in Nat
      /\ Cardinality(ballots[q]) <= Cardinality(ballots'[q])
  <2>1. ballots'[q] \in SUBSET (Voters \X Candidates) BY DEF BallotTypes
  <2>2. IsFiniteSet(ballots'[q]) BY <2>1, FrontdeskAssumption, FS_Product, FS_Subset
  <2>3. ballots[q] \subseteq ballots'[q] BY DEF Grows
  <2> QED BY <2>2, <2>3, FS_Subset, FS_CardinalityType
<1>3. Cardinality(Counting) \in Nat /\ Cardinality(Counting)' \in Nat
      /\ Cardinality(Counting) <= Cardinality(Counting)'
  <2>1. Counting' \subseteq Voters
    BY DEF BallotTypes, Counting, V!Represented, SeatRow
  <2>2. IsFiniteSet(Counting') BY <2>1, FrontdeskAssumption, FS_Subset
  <2>3. Counting \subseteq Counting' BY DEF Grows
  <2> QED BY <2>2, <2>3, FS_Subset, FS_CardinalityType
<1>4. V!Required(Unit) \in Nat /\ V!Required(Voters) \in Nat
  BY BallotSets, FrontdeskAssumption
<1>5. /\ V!Required(Unit)' = V!Required(Unit) /\ V!Required(Voters)' = V!Required(Voters)
  OBVIOUS
<1> QED BY <1>1, <1>2, <1>3, <1>4, <1>5 DEF Elected, Carried

\* A vote that may be cast may still be cast after steps that take nothing back.
LEMMA StillMayCast ==
    ASSUME Grows, NEW m \in Voters, NEW q, NEW o, MayCast(m, q, o)
    PROVE  MayCast(m, q, o)'
BY DEF Grows, MayCast

\* What handlers know, and what was decided, outlives the steps of others.
LEMMA KnowledgeKept ==
    ASSUME BallotInv, BallotTypes', Grows
    PROVE  /\ \A m \in Voters : voter'[m] = voter[m] => VoterKnows(m)'
           /\ \A c \in Hands : closer'[c] = closer[c] => CloserKnows(c)'
           /\ \A a \in admins : Elected(a[1], a[2])'
<1>1. BallotTypes BY DEF BallotInv
<1>2. ASSUME NEW m \in Voters, voter'[m] = voter[m] PROVE VoterKnows(m)'
  <2>1. VoterKnows(m) BY DEF BallotInv
  <2> QED BY <1>2, <2>1, StillMayCast DEF VoterKnows
<1>3. ASSUME NEW c \in Hands, closer'[c] = closer[c] PROVE CloserKnows(c)'
  <2>0. PICK q, o : q = closer[c].on /\ o = closer[c].option OBVIOUS
  <2>1. CloserKnows(c) BY DEF BallotInv
  <2>2. SUFFICES ASSUME closer[c].pc = "close"
                 PROVE  /\ q \in One /\ question'[q].status # "none"
                        /\ question'[q].kind = "unit" /\ o # NoOne /\ closer[c].quorum =>
                              o \in UnitCandidates /\ Elected(q, o)'
                        /\ question'[q].kind = "motion" /\ o = Yes => Carried(q)'
    BY <1>3, <2>0 DEF CloserKnows
  <2>3. /\ q \in One /\ question[q].status # "none"
        /\ question[q].kind = "unit" /\ o # NoOne /\ closer[c].quorum =>
               o \in UnitCandidates /\ Elected(q, o)
        /\ question[q].kind = "motion" /\ o = Yes => Carried(q)
    BY <2>0, <2>1, <2>2 DEF CloserKnows
  <2>4. question'[q].status # "none" /\ question'[q].kind = question[q].kind
    BY <2>3 DEF Grows
  <2>5. Carried(q) => Carried(q)' BY <1>1, <2>3, TalliesStand
  <2>6. o \in UnitCandidates /\ Elected(q, o) => Elected(q, o)'
    BY <1>1, <2>3, TalliesStand, FrontdeskAssumption
  <2> QED BY <2>3, <2>4, <2>5, <2>6
<1>4. ASSUME NEW a \in admins PROVE Elected(a[1], a[2])'
  <2>1. a \in One \X UnitCandidates BY <1>1 DEF BallotTypes
  <2>2. a[1] \in One /\ a[2] \in Candidates BY <2>1, FrontdeskAssumption
  <2>3. Elected(a[1], a[2]) BY DEF BallotInv, AdminsElected
  <2> QED BY <1>1, <2>2, <2>3, TalliesStand
<1> QED BY <1>2, <1>3, <1>4

\* A step that changes no question, ballot or seat.
StandsStill == UNCHANGED <<chair, question, ballots>>
LEMMA NothingLost ==
    ASSUME StandsStill
    PROVE  Grows
<1>1. Counting' = Counting BY DEF StandsStill, Counting, V!Represented
<1> QED BY <1>1 DEF StandsStill, Grows

LEMMA NothingNew ==
    ASSUME BallotInv, BallotTypes', StandsStill, admins' = admins,
           \A m \in Voters : VoterKnows(m)', \A c \in Hands : CloserKnows(c)'
    PROVE  BallotInv'
<1>1. Grows BY NothingLost
<1>2. OneBallotEach' /\ SeatsHeld' BY DEF BallotInv, StandsStill, OneBallotEach, SeatsHeld
<1>3. \A q \in One : QuestionLawful(q)'
  <2> TAKE q \in One
  <2>1. QuestionLawful(q) BY DEF BallotInv
  <2> QED BY <2>1 DEF QuestionLawful, StandsStill, MayCast
<1>4. AdminsElected' BY <1>1, KnowledgeKept DEF AdminsElected
<1>5. MotionsCarried'
  <2>1. ASSUME NEW q \in One, Carried(q) PROVE Carried(q)'
    BY <1>1, <2>1, TalliesStand DEF BallotInv
  <2> QED BY <2>1 DEF BallotInv, MotionsCarried, StandsStill
<1> QED BY <1>2, <1>3, <1>4, <1>5 DEF BallotInv

\* The meeting, and what members and admins read of it.
LEMMA ChairKeeps ==
    ASSUME BallotInv, NEW c \in Hands, V!OpenMeeting(c) \/ V!CloseMeeting(c)
    PROVE  BallotInv'
<1>1. PICK pc \in {"open", "shut"}, status \in {"scheduled", "open", "closed"} :
         V!ChairReads(c, pc, status) \/ V!ChairWrites(c, pc, status)
  BY DEF V!OpenMeeting, V!CloseMeeting
<1>2. StandsStill /\ UNCHANGED <<voter, admins>>
  BY <1>1 DEF V!ChairReads, V!ChairWrites, StandsStill
<1>3. /\ closer'[c].pc # "close" /\ closer' \in [Hands -> CloserRow]
      /\ \A d \in Hands \ {c} : closer'[d] = closer[d]
  <2>1. PICK row : closer' = [closer EXCEPT ![c] = row] /\ row \in {V!Idle, [V!Idle EXCEPT !.pc = pc]}
    BY <1>1, Zenon DEF V!ChairReads, V!ChairWrites
  <2>2. PICK p \in {"idle", "open", "shut"} :
            row = [pc |-> p, on |-> NoRow, option |-> NoOne, quorum |-> FALSE]
    BY <2>1 DEF V!Idle
  <2>3. row \in CloserRow /\ row.pc # "close" BY <2>2 DEF CloserRow
  <2> QED BY <2>1, <2>3 DEF BallotInv, BallotTypes
<1>4. meeting' \in {"scheduled", "open", "closed"}
  BY <1>1 DEF BallotInv, BallotTypes, V!ChairReads, V!ChairWrites
<1>5. BallotTypes' BY <1>2, <1>3, <1>4 DEF BallotInv, BallotTypes, StandsStill
<1>6. \A m \in Voters : VoterKnows(m)' BY <1>2, <1>5, NothingLost, KnowledgeKept
<1>7. \A d \in Hands : CloserKnows(d)'
  <2> TAKE d \in Hands
  <2>1. CASE d = c BY <1>3, <2>1 DEF CloserKnows
  <2>2. CASE d # c BY <1>2, <1>3, <1>5, <2>2, NothingLost, KnowledgeKept
  <2> QED BY <2>1, <2>2
<1> QED BY <1>2, <1>5, <1>6, <1>7, NothingNew

\* Members read: a seat to take, a vote to cast.
LEMMA VoterMoves ==
    ASSUME BallotInv, NEW m \in Voters, NEW row \in VoterRow,
           voter' = [voter EXCEPT ![m] = row], StandsStill, UNCHANGED <<meeting, closer, admins>>,
           row.pc = "cast" => MayCast(m, row.on, row.option),
           row.pc \in {"attend", "proxy"} => row.for \in Voters
    PROVE  BallotInv'
<1>1. voter' \in [Voters -> VoterRow] /\ voter'[m] = row /\ \A y \in Voters \ {m} : voter'[y] = voter[y]
  BY DEF BallotInv, BallotTypes
<1>2. BallotTypes' BY <1>1 DEF BallotInv, BallotTypes, StandsStill
<1>3. \A c \in Hands : CloserKnows(c)' BY <1>2, NothingLost, KnowledgeKept
<1>4. MayCast(m, row.on, row.option) => MayCast(m, row.on, row.option)'
  BY NothingLost, StillMayCast
<1>5. \A y \in Voters : VoterKnows(y)'
  <2> TAKE y \in Voters
  <2>1. CASE y = m BY <1>1, <1>4, <2>1 DEF VoterKnows
  <2>2. CASE y # m BY <1>1, <1>2, <2>2, NothingLost, KnowledgeKept
  <2> QED BY <2>1, <2>2
<1> QED BY <1>2, <1>3, <1>5, NothingNew

LEMMA WaitingRow == V!Waiting \in VoterRow
BY DEF V!Waiting, VoterRow

LEMMA AttendKeeps ==
    ASSUME BallotInv, NEW m \in Voters, NEW x \in Voters, V!AttendRead(m) \/ V!ProxyRead(m, x)
    PROVE  BallotInv'
<1>1. PICK pc \in {"attend", "proxy"}, y \in Voters : V!Attends(m, pc, y)
  BY DEF V!AttendRead, V!ProxyRead
<1> DEFINE row == [V!Waiting EXCEPT !.pc = pc, !.for = y, !.here = chair[m].present]
<1>2. chair[m].present \in BOOLEAN BY DEF BallotInv, BallotTypes, SeatRow
<1>3. row \in VoterRow /\ row.pc \in {"attend", "proxy"} /\ row.for = y
  BY <1>2, WaitingRow DEF VoterRow
<1>4. /\ voter' = [voter EXCEPT ![m] = row] /\ StandsStill
      /\ UNCHANGED <<meeting, closer, admins>>
  BY <1>1 DEF V!Attends, StandsStill
<1> HIDE DEF row
<1> QED BY <1>3, <1>4, VoterMoves

LEMMA CastReadKeeps ==
    ASSUME BallotInv, NEW m \in Voters, NEW q \in One, NEW o \in Candidates,
           V!CastVote(m, q, o) \/ V!CastBuyVote(m, q, o) \/ V!CastMotionVote(m, q, o)
    PROVE  BallotInv'
<1>1. V!CastRead(m, q, o)
  BY DEF V!CastVote, V!CastBuyVote, V!CastMotionVote
<1>2. /\ question[q].kind = "unit" => m \in Unit
      /\ question[q].kind = "motion" => chair[m].present
  BY DEF V!CastVote, V!CastBuyVote, V!CastMotionVote
<1>3. MayCast(m, q, o) BY <1>1, <1>2 DEF MayCast, V!CastRead
<1> DEFINE row == [V!Waiting EXCEPT !.pc = "cast", !.on = q, !.option = o]
<1>4. row \in VoterRow /\ row.pc = "cast" /\ row.on = q /\ row.option = o
  BY WaitingRow DEF VoterRow
<1>5. /\ voter' = [voter EXCEPT ![m] = row] /\ StandsStill
      /\ UNCHANGED <<meeting, closer, admins>>
  BY <1>1 DEF V!CastRead, StandsStill
<1> HIDE DEF row
<1> QED BY <1>3, <1>4, <1>5, VoterMoves

-----------------------------------------------------------------------------
(* Ballots: the tallies. *)

\* Who leads an election in which a ballot was cast has a ballot.
LEMMA LeaderHasBallot ==
    ASSUME BallotInv, NEW q \in One, NEW o \in V!Leaders(q), Cardinality(ballots[q]) > 0
    PROVE  Tally(q, o) > 0
<1>1. BallotTypes /\ QuestionLawful(q) BY DEF BallotInv
<1>2. PICK b \in ballots[q] : TRUE
  BY <1>1, BallotsFinite, FS_EmptySet
<1>3. b[2] \in question[q].options BY <1>1 DEF QuestionLawful, MayCast
<1> DEFINE T == {d \in ballots[q] : d[2] = b[2]}
<1>4. IsFiniteSet(T) /\ Cardinality(T) \in Nat /\ T # {} BY <1>1, <1>2, BallotsFinite
<1>5. Tally(q, b[2]) > 0 /\ Tally(q, b[2]) \in Nat
  BY <1>4, FS_EmptySet DEF Tally
<1>6. V!Votes(q, o) >= V!Votes(q, b[2]) BY <1>3 DEF V!Leaders
<1>7. Tally(q, o) \in Nat BY <1>1, BallotsFinite DEF Tally
<1> QED BY <1>5, <1>6, <1>7, BallotSets

\* A tally that finds a quorum and one leader is one the unit's admin may rest on.
LEMMA ElectedByTally ==
    ASSUME BallotInv, NEW q \in One, NEW o \in V!Leaders(q),
           Cardinality(ballots[q]) >= V!Required(Unit), question[q].kind = "unit"
    PROVE  o \in UnitCandidates /\ Elected(q, o)
<1>1. o \in question[q].options BY DEF V!Leaders
<1>2. QuestionLawful(q) /\ BallotTypes BY DEF BallotInv
<1>3. o \in UnitCandidates BY <1>1, <1>2 DEF QuestionLawful
<1>4. V!Required(Unit) \in Nat /\ Cardinality(ballots[q]) \in Nat
  BY <1>2, BallotSets, BallotsFinite, FrontdeskAssumption
<1> QED BY <1>3, <1>4, LeaderHasBallot DEF Elected

\* The motion's tally: a quorum of seats and more yes than no.
LEMMA CarriedByTally ==
    ASSUME BallotInv, NEW q \in One, V!QuorumMet, V!Votes(q, Yes) > V!Votes(q, No)
    PROVE  Carried(q)
<1>1. BallotTypes BY DEF BallotInv
<1>2. Tally(q, Yes) \in Nat /\ Tally(q, No) \in Nat BY <1>1, BallotsFinite DEF Tally
<1>3. Cardinality(Counting) >= V!Required(Voters)
  BY BallotSets DEF V!QuorumMet, V!Active, Counting
<1> QED BY <1>2, <1>3, BallotSets DEF Carried

\* An admin who has read a tally.
LEMMA CloserMoves ==
    ASSUME BallotInv, NEW c \in Hands, NEW row \in CloserRow,
           closer' = [closer EXCEPT ![c] = row], StandsStill, UNCHANGED <<meeting, voter, admins>>,
           row.pc = "close", row.on \in One, question[row.on].status # "none",
           question[row.on].kind = "unit" /\ row.option # NoOne /\ row.quorum =>
               row.option \in UnitCandidates /\ Elected(row.on, row.option),
           question[row.on].kind = "motion" /\ row.option = Yes => Carried(row.on)
    PROVE  BallotInv'
<1>1. closer' \in [Hands -> CloserRow] /\ closer'[c] = row /\ \A d \in Hands \ {c} : closer'[d] = closer[d]
  BY DEF BallotInv, BallotTypes
<1>2. BallotTypes' BY <1>1 DEF BallotInv, BallotTypes, StandsStill
<1>3. \A m \in Voters : VoterKnows(m)' BY <1>2, NothingLost, KnowledgeKept
<1>4. /\ Carried(row.on) => Carried(row.on)'
      /\ row.option \in UnitCandidates /\ Elected(row.on, row.option) => Elected(row.on, row.option)'
  BY <1>2, NothingLost, TalliesStand, FrontdeskAssumption DEF BallotInv
<1>5. question' = question BY DEF StandsStill
<1>6. CloserKnows(c)' BY <1>1, <1>4, <1>5 DEF CloserKnows
<1>7. \A d \in Hands : CloserKnows(d)'
  <2> TAKE d \in Hands
  <2>1. CASE d = c BY <1>6, <2>1
  <2>2. CASE d # c BY <1>1, <1>2, <2>2, NothingLost, KnowledgeKept
  <2> QED BY <2>1, <2>2
<1> QED BY <1>2, <1>3, <1>7, NothingNew

\* An admin reads a tally: what is known of it is known of the votes.
LEMMA CloseReadKeeps ==
    ASSUME BallotInv, NEW c \in Hands, NEW q \in One, NEW kinds, NEW outcome, NEW quorum \in BOOLEAN,
           V!CloseRead(c, q, kinds, outcome, quorum), outcome \in Candidates \cup {NoOne},
           question[q].kind = "unit" /\ outcome # NoOne /\ quorum =>
               outcome \in UnitCandidates /\ Elected(q, outcome),
           question[q].kind = "motion" /\ outcome = Yes => Carried(q)
    PROVE  BallotInv'
<1> DEFINE row == [pc |-> "close", on |-> q, option |-> outcome, quorum |-> quorum]
<1>1. row \in CloserRow /\ row.pc = "close" /\ row.on = q /\ row.option = outcome /\ row.quorum = quorum
  BY DEF CloserRow
<1>2. /\ closer' = [closer EXCEPT ![c] = row] /\ StandsStill
      /\ UNCHANGED <<meeting, voter, admins>> /\ question[q].status # "none"
  BY DEF V!CloseRead, StandsStill
<1> HIDE DEF row
<1> QED BY <1>1, <1>2, CloserMoves

LEMMA TallyVoteKeeps ==
    ASSUME BallotInv, NEW c \in Hands, NEW q \in One, V!TallyVote(c, q)
    PROVE  BallotInv'
<1> DEFINE outcome == IF Cardinality(V!Leaders(q)) = 1 THEN CHOOSE o \in V!Leaders(q) : TRUE ELSE NoOne
           quorum == Cardinality(ballots[q]) >=
                         V!Required(IF question[q].kind = "unit" THEN Unit ELSE Voters)
<1>1. V!CloseRead(c, q, {"unit", "exec"}, outcome, quorum)
  BY BallotSets DEF V!TallyVote
<1>2. question[q].kind \in {"unit", "exec"} BY <1>1 DEF V!CloseRead
<1>3. Cardinality(V!Leaders(q)) = 1 => outcome \in V!Leaders(q)
  <2>1. Cardinality(V!Leaders(q)) = 1 => V!Leaders(q) # {} BY FS_EmptySet
  <2> QED BY <2>1
<1>4. V!Leaders(q) \subseteq Candidates
  BY DEF V!Leaders, BallotInv, BallotTypes, QuestionRow
<1>5. outcome \in Candidates \cup {NoOne} BY <1>3, <1>4
<1>6. question[q].kind = "unit" /\ outcome # NoOne /\ quorum =>
          outcome \in UnitCandidates /\ Elected(q, outcome)
  BY <1>3, ElectedByTally
<1>7. Yes # NoOne BY FrontdeskAssumption
<1>8. quorum \in BOOLEAN OBVIOUS
<1> HIDE DEF outcome, quorum
<1> QED BY <1>1, <1>2, <1>5, <1>6, <1>8, CloseReadKeeps

LEMMA TallyPollKeeps ==
    ASSUME BallotInv, NEW c \in Hands, NEW q \in One, V!TallyPoll(c, q)
    PROVE  BallotInv'
<1>1. PICK o \in V!Leaders(q) : V!CloseRead(c, q, {"poll"}, o, TRUE)
  BY DEF V!TallyPoll
<1>2. question[q].kind = "poll" BY <1>1 DEF V!CloseRead
<1>3. o \in Candidates
  BY DEF V!Leaders, BallotInv, BallotTypes, QuestionRow
<1> QED BY <1>1, <1>2, <1>3, CloseReadKeeps

LEMMA TallyMotionKeeps ==
    ASSUME BallotInv, NEW c \in Hands, NEW q \in One, V!TallyMotion(c, q)
    PROVE  BallotInv'
<1> DEFINE outcome == IF V!QuorumMet /\ V!Votes(q, Yes) > V!Votes(q, No) THEN Yes ELSE NoOne
<1>1. V!CloseRead(c, q, {"motion"}, outcome, V!QuorumMet)
  BY DEF V!TallyMotion
<1>2. question[q].kind = "motion" BY <1>1 DEF V!CloseRead
<1>3. outcome \in Candidates \cup {NoOne} /\ Yes # NoOne BY FrontdeskAssumption
<1>4. outcome = Yes => Carried(q) BY <1>3, CarriedByTally
<1>5. V!QuorumMet \in BOOLEAN BY DEF V!QuorumMet
<1> HIDE DEF outcome
<1> QED BY <1>1, <1>2, <1>3, <1>4, <1>5, CloseReadKeeps

-----------------------------------------------------------------------------
(* Ballots: the steps that write. *)

\* What a step that writes must show, once it is seen to take nothing back.
LEMMA Written ==
    ASSUME BallotInv, BallotTypes', Grows, OneBallotEach', SeatsHeld',
           \A q \in One : QuestionLawful(q)',
           NEW m, \A y \in Voters \ {m} : voter'[y] = voter[y],
           m \in Voters => VoterKnows(m)',
           NEW c, \A d \in Hands \ {c} : closer'[d] = closer[d],
           c \in Hands => CloserKnows(c)',
           \A a \in admins' \ admins : Elected(a[1], a[2])',
           MotionsCarried'
    PROVE  BallotInv'
<1>1. \A y \in Voters : VoterKnows(y)'
  <2> TAKE y \in Voters
  <2> QED BY KnowledgeKept
<1>2. \A d \in Hands : CloserKnows(d)'
  <2> TAKE d \in Hands
  <2> QED BY KnowledgeKept
<1>3. AdminsElected' BY KnowledgeKept DEF AdminsElected
<1> QED BY <1>1, <1>2, <1>3 DEF BallotInv

\* A motion carried before the step is carried after it.
LEMMA MotionsStay ==
    ASSUME BallotInv, BallotTypes', Grows, NEW q \in One,
           question'[q].kind = "motion" /\ question'[q].outcome = Yes,
           question'[q].outcome = question[q].outcome, question[q].status # "none"
    PROVE  question'[q].status # "none" /\ Carried(q)'
<1>1. question[q].kind = "motion" BY DEF Grows
<1>2. Carried(q) /\ BallotTypes BY <1>1 DEF BallotInv, MotionsCarried
<1> QED BY <1>2, TalliesStand DEF Grows

\* A question is asked.
LEMMA AskKeeps ==
    ASSUME BallotInv, NEW q \in One, NEW kd \in V!Kinds, NEW options \in SUBSET Candidates,
           V!Ask(q, kd, options), kd = "unit" => options = {}
    PROVE  BallotInv'
<1> DEFINE row == [kind |-> kd, status |-> "open", outcome |-> NoOne, options |-> options]
<1>1. /\ question[q].status = "none" /\ question' = [question EXCEPT ![q] = row]
      /\ UNCHANGED <<meeting, chair, ballots, voter, closer, admins>>
  BY DEF V!Ask
<1>2. row \in QuestionRow /\ row.kind = kd /\ row.status = "open" /\ row.outcome = NoOne
      /\ row.options = options
  BY DEF QuestionRow
<1> HIDE DEF row
<1>3. /\ question' \in [One -> QuestionRow] /\ question'[q] = row
      /\ \A p \in One \ {q} : question'[p] = question[p]
  BY <1>1, <1>2 DEF BallotInv, BallotTypes
<1>4. BallotTypes' BY <1>1, <1>3 DEF BallotInv, BallotTypes
<1>5. Counting' = Counting BY <1>1 DEF Counting, V!Represented
<1>6. Grows BY <1>1, <1>3, <1>5 DEF Grows
<1>7. ballots[q] = {}
  <2>1. QuestionLawful(q) BY DEF BallotInv
  <2> QED BY <1>1, <2>1 DEF QuestionLawful, MayCast
<1>8. \A p \in One : QuestionLawful(p)'
  <2> TAKE p \in One
  <2>1. CASE p = q BY <1>1, <1>2, <1>3, <1>7, <2>1 DEF QuestionLawful
  <2>2. CASE p # q
    <3>1. QuestionLawful(p) BY DEF BallotInv
    <3> QED BY <1>1, <1>3, <2>2, <3>1 DEF QuestionLawful, MayCast
  <2> QED BY <2>1, <2>2
<1>9. MotionsCarried'
  <2> SUFFICES ASSUME NEW p \in One, question'[p].kind = "motion", question'[p].outcome = Yes
               PROVE  question'[p].status # "none" /\ Carried(p)'
    BY DEF MotionsCarried
  <2>1. Yes # NoOne BY FrontdeskAssumption
  <2>2. p # q BY <1>2, <1>3, <2>1
  <2>3. question'[p] = question[p] BY <1>3, <2>2
  <2>4. question[p].status # "none" BY <2>3 DEF BallotInv, MotionsCarried
  <2> QED BY <1>4, <1>6, <2>3, <2>4, MotionsStay
<1>10. OneBallotEach' /\ SeatsHeld' BY <1>1 DEF BallotInv, OneBallotEach, SeatsHeld
<1>11. /\ \A y \in Voters : VoterKnows(y)'
       /\ \A d \in Hands : CloserKnows(d)'
  BY <1>1, <1>4, <1>6, KnowledgeKept
<1>12. AdminsElected' BY <1>1, <1>4, <1>6, KnowledgeKept DEF AdminsElected
<1> QED BY <1>4, <1>8, <1>9, <1>10, <1>11, <1>12 DEF BallotInv

\* An option is added to a question that is open.
LEMMA OptionKeeps ==
    ASSUME BallotInv, NEW q \in One, NEW o \in Candidates, V!AddOption(q, o),
           question[q].kind = "unit" => o \in UnitCandidates
    PROVE  BallotInv'
<1> DEFINE row == [question[q] EXCEPT !.options = @ \cup {o}]
<1>1. /\ question[q].status = "open" /\ question' = [question EXCEPT ![q] = row]
      /\ UNCHANGED <<meeting, chair, ballots, voter, closer, admins>>
  BY DEF V!AddOption
<1>2. question[q] \in QuestionRow BY DEF BallotInv, BallotTypes
<1>3. row \in QuestionRow /\ row.kind = question[q].kind /\ row.status = "open"
      /\ row.outcome = question[q].outcome /\ row.options = question[q].options \cup {o}
  BY <1>1, <1>2 DEF QuestionRow
<1> HIDE DEF row
<1>4. /\ question' \in [One -> QuestionRow] /\ question'[q] = row
      /\ \A p \in One \ {q} : question'[p] = question[p]
  BY <1>1, <1>3 DEF BallotInv, BallotTypes
<1>5. BallotTypes' BY <1>1, <1>4 DEF BallotInv, BallotTypes
<1>6. Counting' = Counting BY <1>1 DEF Counting, V!Represented
<1>7. Grows BY <1>1, <1>3, <1>4, <1>6 DEF Grows
<1>8. \A p \in One : QuestionLawful(p)'
  <2> TAKE p \in One
  <2>1. QuestionLawful(p) BY DEF BallotInv
  <2>2. CASE p = q
    <3>1. ASSUME NEW b \in ballots[q] PROVE MayCast(b[1], q, b[2])'
      <4>1. MayCast(b[1], q, b[2]) BY <2>1, <2>2 DEF QuestionLawful
      <4> QED BY <1>1, <1>3, <1>4, <4>1 DEF MayCast
    <3>2. question[q].kind = "unit" => question[q].options \subseteq UnitCandidates
      BY <2>1, <2>2 DEF QuestionLawful
    <3> QED BY <1>1, <1>3, <1>4, <2>2, <3>1, <3>2 DEF QuestionLawful
  <2>3. CASE p # q BY <1>1, <1>4, <2>1, <2>3 DEF QuestionLawful, MayCast
  <2> QED BY <2>2, <2>3
<1>9. MotionsCarried'
  <2> SUFFICES ASSUME NEW p \in One, question'[p].kind = "motion", question'[p].outcome = Yes
               PROVE  question'[p].status # "none" /\ Carried(p)'
    BY DEF MotionsCarried
  <2>1. question[p].kind = "motion" /\ question'[p].outcome = question[p].outcome
    BY <1>3, <1>4
  <2>2. question[p].status # "none" BY <2>1 DEF BallotInv, MotionsCarried
  <2> QED BY <1>5, <1>7, <2>1, <2>2, MotionsStay
<1>10. OneBallotEach' /\ SeatsHeld' BY <1>1 DEF BallotInv, OneBallotEach, SeatsHeld
<1>11. /\ \A y \in Voters : VoterKnows(y)'
       /\ \A d \in Hands : CloserKnows(d)'
  BY <1>1, <1>5, <1>7, KnowledgeKept
<1>12. AdminsElected' BY <1>1, <1>5, <1>7, KnowledgeKept DEF AdminsElected
<1> QED BY <1>5, <1>8, <1>9, <1>10, <1>11, <1>12 DEF BallotInv

\* The handler that has written is idle again.
LEMMA VoterRests ==
    ASSUME BallotInv, NEW m \in Voters, voter' = [voter EXCEPT ![m] = V!Waiting]
    PROVE  /\ voter' \in [Voters -> VoterRow] /\ VoterKnows(m)'
           /\ \A y \in Voters \ {m} : voter'[y] = voter[y]
<1>1. voter' \in [Voters -> VoterRow] /\ voter'[m] = V!Waiting
      /\ \A y \in Voters \ {m} : voter'[y] = voter[y]
  BY WaitingRow DEF BallotInv, BallotTypes
<1>2. V!Waiting.pc = "idle" BY DEF V!Waiting
<1> QED BY <1>1, <1>2 DEF VoterKnows

\* A ballot is cast, unless its voter has one: the question may be closed by now.
LEMMA PutBallotKeeps ==
    ASSUME BallotInv, NEW m \in Voters, V!PutBallot(m)
    PROVE  BallotInv'
<1>0. PICK q, o : q = voter[m].on /\ o = voter[m].option OBVIOUS
<1>1. /\ voter[m].pc = "cast" /\ voter' = [voter EXCEPT ![m] = V!Waiting]
      /\ ballots' = IF V!Voted(m, q) THEN ballots ELSE [ballots EXCEPT ![q] = @ \cup {<<m, o>>}]
      /\ UNCHANGED <<meeting, chair, question, closer, admins>>
  BY <1>0 DEF V!PutBallot
<1>2. MayCast(m, q, o) BY <1>0, <1>1 DEF BallotInv, VoterKnows
<1>3. q \in One /\ o \in Candidates
  BY <1>2 DEF MayCast, BallotInv, BallotTypes, QuestionRow
<1>4. /\ ballots'[q] = IF V!Voted(m, q) THEN ballots[q] ELSE ballots[q] \cup {<<m, o>>}
      /\ \A p \in One \ {q} : ballots'[p] = ballots[p]
      /\ ballots' \in [One -> SUBSET (Voters \X Candidates)]
  BY <1>1, <1>3 DEF BallotInv, BallotTypes
<1>5. /\ voter' \in [Voters -> VoterRow] /\ VoterKnows(m)'
      /\ \A y \in Voters \ {m} : voter'[y] = voter[y]
  BY <1>1, VoterRests
<1>6. BallotTypes' BY <1>1, <1>4, <1>5 DEF BallotInv, BallotTypes
<1>7. Counting' = Counting BY <1>1 DEF Counting, V!Represented
<1>8. Grows BY <1>1, <1>4, <1>7 DEF Grows
<1>9. OneBallotEach'
  <2> SUFFICES ASSUME NEW p \in One, NEW b \in ballots'[p], NEW d \in ballots'[p], b[1] = d[1]
               PROVE  b = d
    BY DEF OneBallotEach
  <2>1. b \in ballots[p] /\ d \in ballots[p] => b = d BY DEF BallotInv, OneBallotEach
  <2>2. CASE p = q /\ ~V!Voted(m, q)
    <3>1. \A e \in ballots[q] : e[1] # m BY <2>2 DEF V!Voted
    <3>2. <<m, o>>[1] = m OBVIOUS
    <3> QED BY <1>4, <2>1, <2>2, <3>1, <3>2
  <2>3. CASE p # q \/ V!Voted(m, q) BY <1>4, <2>1, <2>3
  <2> QED BY <2>2, <2>3
<1>10. SeatsHeld' BY <1>1 DEF BallotInv, SeatsHeld
<1>11. \A p \in One : QuestionLawful(p)'
  <2> TAKE p \in One
  <2>1. QuestionLawful(p) BY DEF BallotInv
  <2>2. ASSUME NEW b \in ballots'[p] PROVE MayCast(b[1], p, b[2])
    <3>1. CASE b \in ballots[p] BY <2>1, <3>1 DEF QuestionLawful
    <3>2. CASE b \notin ballots[p]
      <4>1. p = q /\ b = <<m, o>> BY <1>4, <2>2, <3>2
      <4> QED BY <1>2, <4>1
    <3> QED BY <3>1, <3>2
  <2> QED BY <1>1, <2>1, <2>2 DEF QuestionLawful, MayCast
<1>12. MotionsCarried'
  <2> SUFFICES ASSUME NEW p \in One, question'[p].kind = "motion", question'[p].outcome = Yes
               PROVE  question'[p].status # "none" /\ Carried(p)'
    BY DEF MotionsCarried
  <2>1. question[p].status # "none" BY <1>1 DEF BallotInv, MotionsCarried
  <2> QED BY <1>1, <1>6, <1>8, <2>1, MotionsStay
<1>13. \A d \in Hands : CloserKnows(d)' BY <1>1, <1>6, <1>8, KnowledgeKept
<1>14. \A y \in Voters : VoterKnows(y)' BY <1>5, <1>6, <1>8, KnowledgeKept
<1>15. AdminsElected' BY <1>1, <1>6, <1>8, KnowledgeKept DEF AdminsElected
<1> QED BY <1>6, <1>9, <1>10, <1>11, <1>12, <1>13, <1>14, <1>15 DEF BallotInv

\* A seat is taken, for oneself or for an absent member, or not at all.
LEMMA TakeSeatKeeps ==
    ASSUME BallotInv, NEW m \in Voters, V!TakeSeat(m)
    PROVE  BallotInv'
<1>0. PICK x : x = voter[m].for OBVIOUS
<1> DEFINE taken == [y \in Voters |->
               IF y = x THEN [present |-> TRUE, holder |-> IF x = m THEN NoOne ELSE m]
               ELSE IF y = m THEN [chair[y] EXCEPT !.present = TRUE] ELSE chair[y]]
<1>1. /\ voter[m].pc \in {"attend", "proxy"} /\ voter' = [voter EXCEPT ![m] = V!Waiting]
      /\ \/ chair' = chair
         \/ ~chair[x].present /\ chair' = taken
      /\ UNCHANGED <<meeting, question, ballots, closer, admins>>
  BY <1>0 DEF V!TakeSeat
<1>2. x \in Voters BY <1>0, <1>1 DEF BallotInv, VoterKnows
<1>3. chair \in [Voters -> SeatRow] BY DEF BallotInv, BallotTypes
<1>4. /\ chair' \in [Voters -> SeatRow]
      /\ \A y \in Voters : /\ chair[y].present => chair'[y].present
                           /\ chair'[y].holder # NoOne => chair'[y].present \/ chair' = chair
                           /\ chair[y].holder # NoOne => chair'[y].holder = chair[y].holder
  <2>1. CASE chair' = chair BY <1>3, <2>1
  <2>2. CASE ~chair[x].present /\ chair' = taken
    <3>1. \A y \in Voters : ~chair[y].present => chair[y].holder = NoOne
      BY DEF BallotInv, SeatsHeld
    <3>2. ASSUME NEW y \in Voters
          PROVE  /\ taken[y] \in SeatRow
                 /\ chair[y].present => taken[y].present
                 /\ taken[y].holder # NoOne => taken[y].present
                 /\ chair[y].holder # NoOne => taken[y].holder = chair[y].holder
      <4>1. chair[y] \in SeatRow BY <1>3
      <4>2. CASE y = x BY <2>2, <3>1, <4>2 DEF SeatRow
      <4>3. CASE y # x /\ y = m
        <5>1. taken[y] = [chair[y] EXCEPT !.present = TRUE] BY <4>3
        <5> HIDE DEF taken
        <5> QED BY <4>1, <5>1 DEF SeatRow
      <4>4. CASE y # x /\ y # m
        <5>1. taken[y] = chair[y] BY <4>4
        <5> HIDE DEF taken
        <5> QED BY <3>1, <4>1, <5>1
      <4> QED BY <4>2, <4>3, <4>4
    <3>3. taken = [y \in Voters |-> taken[y]] OBVIOUS
    <3> HIDE DEF taken
    <3>4. taken \in [Voters -> SeatRow] BY <3>2, <3>3
    <3> QED BY <2>2, <3>2, <3>4
  <2> QED BY <1>1, <2>1, <2>2
<1>5. SeatsHeld'
  <2>1. CASE chair' = chair BY <2>1 DEF BallotInv, SeatsHeld
  <2>2. CASE chair' # chair BY <1>4, <2>2 DEF SeatsHeld
  <2> QED BY <2>1, <2>2
<1>6. Counting \subseteq Counting'
  <2>1. ASSUME NEW y \in V!Represented PROVE y \in V!Represented'
    <3>1. CASE y \in Voters /\ chair[y].present BY <1>4, <3>1 DEF V!Represented
    <3>2. CASE y # NoOne /\ \E z \in Voters : y = chair[z].holder
      <4>1. PICK z \in Voters : y = chair[z].holder BY <3>2
      <4>2. chair'[z].holder = y BY <1>4, <3>2, <4>1
      <4> QED BY <3>2, <4>2 DEF V!Represented
    <3> QED BY <3>1, <3>2 DEF V!Represented
  <2> QED BY <2>1 DEF Counting
<1>7. /\ voter' \in [Voters -> VoterRow] /\ VoterKnows(m)'
      /\ \A y \in Voters \ {m} : voter'[y] = voter[y]
  BY <1>1, VoterRests
<1>8. BallotTypes' BY <1>1, <1>4, <1>7 DEF BallotInv, BallotTypes
<1>9. Grows BY <1>1, <1>4, <1>6 DEF Grows
<1>10. OneBallotEach' BY <1>1 DEF BallotInv, OneBallotEach
<1>11. \A p \in One : QuestionLawful(p)'
  <2> TAKE p \in One
  <2>1. QuestionLawful(p) BY DEF BallotInv
  <2>2. ASSUME NEW b \in ballots[p] PROVE MayCast(b[1], p, b[2])'
    <3>1. b \in Voters \X Candidates BY DEF BallotInv, BallotTypes
    <3>2. b[1] \in Voters BY <3>1
    <3> QED BY <1>9, <2>1, <3>2, StillMayCast DEF QuestionLawful
  <2> QED BY <1>1, <2>1, <2>2 DEF QuestionLawful
<1>12. MotionsCarried'
  <2> SUFFICES ASSUME NEW p \in One, question'[p].kind = "motion", question'[p].outcome = Yes
               PROVE  question'[p].status # "none" /\ Carried(p)'
    BY DEF MotionsCarried
  <2>1. question[p].status # "none" BY <1>1 DEF BallotInv, MotionsCarried
  <2> QED BY <1>1, <1>8, <1>9, <2>1, MotionsStay
<1>13. \A d \in Hands : CloserKnows(d)' BY <1>1, <1>8, <1>9, KnowledgeKept
<1>14. \A y \in Voters : VoterKnows(y)' BY <1>7, <1>8, <1>9, KnowledgeKept
<1>15. AdminsElected' BY <1>1, <1>8, <1>9, KnowledgeKept DEF AdminsElected
<1> QED BY <1>5, <1>8, <1>10, <1>11, <1>12, <1>13, <1>14, <1>15 DEF BallotInv

\* An admin writes the outcome he has read over the row.
LEMMA ClosesKeep ==
    ASSUME BallotInv, NEW c \in Hands, NEW q \in One, NEW kinds, V!Closes(c, q, kinds),
           \/ admins' = admins
           \/ /\ question[q].kind = "unit" /\ closer[c].option # NoOne /\ closer[c].quorum
              /\ admins' = admins \cup {<<q, closer[c].option>>}
    PROVE  BallotInv'
<1>0. PICK o : o = closer[c].option OBVIOUS
<1> DEFINE row == [question[q] EXCEPT !.status = "closed", !.outcome = o]
<1>1. /\ closer[c].pc = "close" /\ closer[c].on = q
      /\ question' = [question EXCEPT ![q] = row] /\ closer' = [closer EXCEPT ![c] = V!Idle]
      /\ UNCHANGED <<meeting, chair, ballots, voter>>
  BY <1>0 DEF V!Closes
<1>2. question[q] \in QuestionRow /\ closer[c] \in CloserRow BY DEF BallotInv, BallotTypes
<1>3. o \in Candidates \cup {NoOne} BY <1>0, <1>2 DEF CloserRow
<1>4. row \in QuestionRow /\ row.kind = question[q].kind /\ row.status = "closed"
      /\ row.outcome = o /\ row.options = question[q].options
  BY <1>2, <1>3 DEF QuestionRow
<1> HIDE DEF row
<1>5. /\ question' \in [One -> QuestionRow] /\ question'[q] = row
      /\ \A p \in One \ {q} : question'[p] = question[p]
  BY <1>1, <1>4 DEF BallotInv, BallotTypes
<1>6. /\ question[q].status # "none"
      /\ question[q].kind = "unit" /\ o # NoOne /\ closer[c].quorum =>
             o \in UnitCandidates /\ Elected(q, o)
      /\ question[q].kind = "motion" /\ o = Yes => Carried(q)
  BY <1>0, <1>1 DEF BallotInv, CloserKnows
<1>7. V!Idle \in CloserRow /\ V!Idle.pc = "idle" BY DEF V!Idle, CloserRow
<1>8. closer' \in [Hands -> CloserRow] /\ closer'[c] = V!Idle
      /\ \A d \in Hands \ {c} : closer'[d] = closer[d]
  BY <1>1, <1>7 DEF BallotInv, BallotTypes
<1>9. CloserKnows(c)' BY <1>7, <1>8 DEF CloserKnows
<1>10. admins' \in SUBSET (One \X UnitCandidates) BY <1>0, <1>6 DEF BallotInv, BallotTypes
<1>11. BallotTypes' BY <1>1, <1>5, <1>8, <1>10 DEF BallotInv, BallotTypes
<1>12. Counting' = Counting BY <1>1 DEF Counting, V!Represented
<1>13. Grows BY <1>1, <1>4, <1>5, <1>12 DEF Grows
<1>14. OneBallotEach' /\ SeatsHeld' BY <1>1 DEF BallotInv, OneBallotEach, SeatsHeld
<1>15. \A p \in One : QuestionLawful(p)'
  <2> TAKE p \in One
  <2>1. QuestionLawful(p) BY DEF BallotInv
  <2>2. CASE p = q BY <1>1, <1>4, <1>5, <1>6, <2>1, <2>2 DEF QuestionLawful, MayCast
  <2>3. CASE p # q BY <1>1, <1>5, <2>1, <2>3 DEF QuestionLawful, MayCast
  <2> QED BY <2>2, <2>3
<1>16. MotionsCarried'
  <2> SUFFICES ASSUME NEW p \in One, question'[p].kind = "motion", question'[p].outcome = Yes
               PROVE  question'[p].status # "none" /\ Carried(p)'
    BY DEF MotionsCarried
  <2>1. CASE p = q
    <3>1. Carried(q) BY <1>4, <1>5, <1>6, <2>1
    <3>2. Carried(q)' BY <1>11, <1>13, <3>1, TalliesStand DEF BallotInv
    <3> QED BY <1>4, <1>5, <2>1, <3>2
  <2>2. CASE p # q
    <3>1. question'[p] = question[p] BY <1>5, <2>2
    <3>2. question[p].status # "none" BY <3>1 DEF BallotInv, MotionsCarried
    <3> QED BY <1>11, <1>13, <3>1, <3>2, MotionsStay
  <2> QED BY <2>1, <2>2
<1>17. \A d \in Hands : CloserKnows(d)' BY <1>8, <1>9, <1>11, <1>13, KnowledgeKept
<1>18. \A y \in Voters : VoterKnows(y)' BY <1>1, <1>11, <1>13, KnowledgeKept
<1>19. AdminsElected'
  <2>1. \A a \in admins : Elected(a[1], a[2])' BY <1>11, <1>13, KnowledgeKept
  <2>2. CASE admins' = admins BY <2>1, <2>2 DEF AdminsElected
  <2>3. CASE /\ question[q].kind = "unit" /\ o # NoOne /\ closer[c].quorum
             /\ admins' = admins \cup {<<q, o>>}
    <3>1. o \in Candidates /\ Elected(q, o) BY <1>6, <2>3, FrontdeskAssumption
    <3>2. Elected(q, o)' BY <1>11, <1>13, <3>1, TalliesStand DEF BallotInv
    <3>3. \A a \in {<<q, o>>} : Elected(a[1], a[2])' BY <3>2
    <3> QED BY <2>1, <2>3, <3>3 DEF AdminsElected
  <2> QED BY <1>0, <2>2, <2>3
<1> QED BY <1>11, <1>14, <1>15, <1>16, <1>17, <1>18, <1>19 DEF BallotInv

-----------------------------------------------------------------------------
(* Ballots: every step, and what it means for the decisions. *)

LEMMA BallotStart ==
    ASSUME V!Init
    PROVE  BallotInv
<1>1. /\ chair = [m \in Voters |-> V!Absent] /\ question = [q \in One |-> V!Unasked]
      /\ ballots = [q \in One |-> {}] /\ voter = [m \in Voters |-> V!Waiting]
      /\ closer = [c \in Hands |-> V!Idle] /\ admins = {} /\ meeting = "scheduled"
  BY DEF V!Init
<1>2. V!Absent \in SeatRow /\ V!Absent.holder = NoOne BY DEF V!Absent, SeatRow
<1>3. V!Unasked \in QuestionRow /\ V!Unasked.kind = "none" /\ V!Unasked.options = {}
  BY DEF V!Unasked, QuestionRow
<1>4. V!Idle \in CloserRow /\ V!Idle.pc = "idle" BY DEF V!Idle, CloserRow
<1>5. V!Waiting \in VoterRow /\ V!Waiting.pc = "idle" BY WaitingRow DEF V!Waiting
<1>6. BallotTypes BY <1>1, <1>2, <1>3, <1>4, <1>5 DEF BallotTypes
<1>7. OneBallotEach /\ SeatsHeld BY <1>1, <1>2 DEF OneBallotEach, SeatsHeld
<1>8. \A q \in One : QuestionLawful(q) BY <1>1, <1>3 DEF QuestionLawful
<1>9. \A m \in Voters : VoterKnows(m) BY <1>1, <1>5 DEF VoterKnows
<1>10. \A c \in Hands : CloserKnows(c) BY <1>1, <1>4 DEF CloserKnows
<1>11. AdminsElected /\ MotionsCarried BY <1>1, <1>3 DEF AdminsElected, MotionsCarried
<1> QED BY <1>6, <1>7, <1>8, <1>9, <1>10, <1>11 DEF BallotInv

LEMMA BallotStep ==
    ASSUME BallotInv, V!Next
    PROVE  BallotInv'
<1>1. ASSUME NEW m \in Voters, NEW x \in Voters, V!AttendRead(m) \/ V!ProxyRead(m, x)
      PROVE  BallotInv'
  BY <1>1, AttendKeeps
<1>2. ASSUME NEW m \in Voters, V!TakeSeat(m) \/ V!PutBallot(m) PROVE BallotInv'
  BY <1>2, TakeSeatKeeps, PutBallotKeeps
<1>3. ASSUME NEW m \in Voters, NEW q \in One, NEW o \in Candidates,
             V!CastVote(m, q, o) \/ V!CastBuyVote(m, q, o) \/ V!CastMotionVote(m, q, o)
      PROVE  BallotInv'
  BY <1>3, CastReadKeeps
<1>4. ASSUME NEW q \in One, V!StartVote(q) \/ V!StartBuyPoll(q) \/ V!AddMotion(q) PROVE BallotInv'
  <2>1. CASE V!StartVote(q)
    <3>1. PICK kd \in {"unit", "exec"} : V!Ask(q, kd, {}) BY <2>1 DEF V!StartVote
    <3>2. kd \in V!Kinds /\ {} \in SUBSET Candidates BY DEF V!Kinds
    <3> QED BY <3>1, <3>2, AskKeeps
  <2>2. CASE V!StartBuyPoll(q)
    <3>1. V!Ask(q, "poll", {}) BY <2>2 DEF V!StartBuyPoll
    <3>2. "poll" \in V!Kinds /\ {} \in SUBSET Candidates BY DEF V!Kinds
    <3> QED BY <3>1, <3>2, AskKeeps
  <2>3. CASE V!AddMotion(q)
    <3>1. V!Ask(q, "motion", Candidates) BY <2>3 DEF V!AddMotion
    <3>2. "motion" \in V!Kinds /\ Candidates \in SUBSET Candidates BY DEF V!Kinds
    <3> QED BY <3>1, <3>2, AskKeeps
  <2> QED BY <1>4, <2>1, <2>2, <2>3
<1>5. ASSUME NEW q \in One, NEW o \in Candidates, V!AddCandidate(q, o) \/ V!AddPollOption(q, o)
      PROVE  BallotInv'
  <2>1. V!AddOption(q, o) /\ (question[q].kind = "unit" => o \in UnitCandidates)
    BY <1>5 DEF V!AddCandidate, V!AddPollOption
  <2> QED BY <2>1, OptionKeeps
<1>6. ASSUME NEW c \in Hands, V!OpenMeeting(c) \/ V!CloseMeeting(c) PROVE BallotInv'
  BY <1>6, ChairKeeps
<1>7. ASSUME NEW c \in Hands, NEW q \in One,
             V!TallyVote(c, q) \/ V!TallyPoll(c, q) \/ V!TallyMotion(c, q)
      PROVE  BallotInv'
  BY <1>7, TallyVoteKeeps, TallyPollKeeps, TallyMotionKeeps
<1>8. ASSUME NEW c \in Hands, NEW q \in One,
             V!CloseVote(c, q) \/ V!CloseBuyPoll(c, q) \/ V!CloseMotion(c, q)
      PROVE  BallotInv'
  <2>1. CASE V!CloseVote(c, q)
    <3>1. V!Closes(c, q, {"unit", "exec"}) BY <2>1 DEF V!CloseVote
    <3>2. \/ admins' = admins
          \/ /\ question[q].kind = "unit" /\ closer[c].option # NoOne /\ closer[c].quorum
             /\ admins' = admins \cup {<<q, closer[c].option>>}
      BY <2>1 DEF V!CloseVote
    <3> QED BY <3>1, <3>2, ClosesKeep
  <2>2. CASE V!CloseBuyPoll(c, q) \/ V!CloseMotion(c, q)
    <3>1. PICK kinds : V!Closes(c, q, kinds) BY <2>2 DEF V!CloseBuyPoll, V!CloseMotion
    <3>2. admins' = admins BY <2>2 DEF V!CloseBuyPoll, V!CloseMotion
    <3> QED BY <3>1, <3>2, ClosesKeep
  <2> QED BY <1>8, <2>1, <2>2
<1> QED BY <1>1, <1>2, <1>3, <1>4, <1>5, <1>6, <1>7, <1>8 DEF V!Next

\* As many voters as ballots.
LEMMA VotersAreBallots ==
    ASSUME BallotTypes, OneBallotEach, NEW q \in One
    PROVE  Cardinality({b[1] : b \in ballots[q]}) = Cardinality(ballots[q])
<1> DEFINE voters == {b[1] : b \in ballots[q]}
           f == [b \in ballots[q] |-> b[1]]
<1>1. IsFiniteSet(ballots[q]) BY BallotsFinite
<1>2. f \in Bijection(ballots[q], voters)
  <2>1. f \in [ballots[q] -> voters] OBVIOUS
  <2>2. \A b, d \in ballots[q] : f[b] = f[d] => b = d BY DEF OneBallotEach
  <2>3. \A v \in voters : \E b \in ballots[q] : f[b] = v OBVIOUS
  <2> QED BY <2>1, <2>2, <2>3 DEF Bijection, Injection, Surjection, IsInjective
<1>3. ExistsBijection(ballots[q], voters) BY <1>2 DEF ExistsBijection
<1> QED BY <1>1, <1>3, FS_Bijection

LEMMA BallotInvDecides ==
    ASSUME BallotInv
    PROVE  BallotsDecide
<1>1. BallotTypes /\ OneBallotEach BY DEF BallotInv
<1>2. V!TypeOK
  BY <1>1 DEF BallotTypes, V!TypeOK, QuestionRow
<1>3. \A q \in One : V!Cardinality({b[1] : b \in ballots[q]}) = V!Cardinality(ballots[q])
  BY <1>1, VotersAreBallots, BallotSets
<1>4. \A q \in One : \A b \in ballots[q] :
          /\ b[2] \in question[q].options
          /\ question[q].kind = "unit" => b[1] \in Unit
          /\ question[q].kind = "motion" => chair[b[1]].present
  BY DEF BallotInv, QuestionLawful, MayCast
<1>5. ASSUME NEW a \in admins
      PROVE  /\ V!Cardinality({b[1] : b \in ballots[a[1]]}) >= V!Required(Unit)
             /\ V!Required(Unit) > 0 => V!Votes(a[1], a[2]) > 0
             /\ a[2] \in UnitCandidates
  <2>1. a \in One \X UnitCandidates BY <1>1 DEF BallotTypes
  <2>2. a[1] \in One /\ a[2] \in UnitCandidates BY <2>1
  <2>3. Elected(a[1], a[2]) BY DEF BallotInv, AdminsElected
  <2>4. Cardinality({b[1] : b \in ballots[a[1]]}) = Cardinality(ballots[a[1]])
    BY <1>1, <2>2, VotersAreBallots
  <2> QED BY <2>2, <2>3, <2>4, BallotSets DEF Elected
<1>6. \A q \in One : question[q].kind = "motion" /\ question[q].outcome = Yes =>
          V!Cardinality(V!Active(V!Represented)) >= V!Required(Voters) /\ V!Votes(q, Yes) > 0
  BY BallotSets DEF BallotInv, MotionsCarried, Carried, Counting, V!Active
<1> QED BY <1>2, <1>3, <1>4, <1>5, <1>6 DEF BallotsDecide, V!BallotsDecide

\* votes.ts, buypoll.ts, meetings.ts: a member has one ballot for a question, of his
\* unit or from his seat; the admin of a unit and a motion that passed rest on a
\* quorum and on a ballot, whatever ballots and closes come in between.
THEOREM BallotsAlwaysDecide == Spec => []BallotsDecide
<1>1. Init => BallotInv BY BallotStart DEF Init
<1>2. BallotInv /\ [Next]_vars => BallotInv'
  <2> SUFFICES ASSUME BallotInv, [Next]_vars PROVE BallotInv'
    OBVIOUS
  <2>1. V!Next \/ UNCHANGED ballotsVars
    BY Zenon DEF Next, vars
  <2>2. CASE UNCHANGED ballotsVars
    <3>1. StandsStill /\ UNCHANGED <<meeting, voter, closer, admins>>
      BY <2>2 DEF ballotsVars, StandsStill
    <3>2. BallotTypes' BY <3>1 DEF BallotInv, BallotTypes, StandsStill
    <3>3. /\ \A m \in Voters : VoterKnows(m)'
          /\ \A c \in Hands : CloserKnows(c)'
      BY <3>1, <3>2, NothingLost, KnowledgeKept
    <3> QED BY <3>1, <3>2, <3>3, NothingNew
  <2> QED BY <2>1, <2>2, BallotStep
<1>3. BallotInv => BallotsDecide BY BallotInvDecides
<1> QED BY <1>1, <1>2, <1>3, PTL DEF Spec

-----------------------------------------------------------------------------
(* Sessions: what the session of a phone holds in each state. *)

\* The fields given since the command that began the flow.
Fresh(d) == {f \in DOMAIN d : d[f] = "now"}

\* The fields each state has asked for before: what its step, or one that
\* follows, takes from the session.
Asked(s) ==
    CASE s = "name" -> {"joinCode"}
      [] s \in {"referral", "consent", "phone", "otp", "email", "birthday", "nok_name",
                "nok_phone", "pin"} -> {"joinCode", "name"}
      [] s = "pin_confirm" -> {"joinCode", "name", "pinHash"}
      [] s = "loan_months" -> {"loanAmount"}
      [] s = "loan_bank_account" -> {"loanAmount", "loanMonths"}
      [] s = "loan_bank_code" -> {"loanAmount", "loanMonths", "loanAccount"}
      [] s = "loan_bank_confirm" -> {"loanAmount", "loanMonths", "loanAccount", "loanBankCode"}
      [] s \in {"guarantor_1", "guarantor_2"} -> {"loanId"}
      [] s = "withdraw_pin" -> {"withdrawAmount"}
      [] s = "bank_choice" -> {"bankAccount"}
      [] s = "bank_confirm" -> {"bankAccount", "bankCode"}
      [] s = "mandate_pin" -> {"mandateCap", "bankAccount", "bankCode"}
      [] s = "cancelmandate_pin" -> {"mandateId"}
      [] s = "buyshares_pin" -> {"shareCount"}
      [] s = "shop_pin" -> {"shopItemId"}
      [] s = "bonus_destination" -> {"bonusAmount"}
      [] s \in {"bonus_phone", "bonus_pin"} -> {"bonusAmount", "bonusDestination"}
      [] s = "insurance_plan" -> {"insuranceProduct"}
      [] s = "insurance_confirm" -> {"insuranceProduct", "insurancePlan"}
      [] s = "death_cert" -> {"deathClaimId"}
      [] s = "dividend_confirm" -> {"dividendRate"}
      [] s = "sharedividend_confirm" -> {"shareDividendRate"}
      [] s = "changephone_otp" -> {"newPhone"}
      [] s = "onboard_code" -> {"coopName"}
      [] s \in {"onboard_state", "onboard_phone"} -> {"coopName", "coopCode"}
      [] OTHER -> {}

\* What a bank account is asked for, and what that flow has asked before.
AskedFor(i) == CASE i = "withdraw" -> "withdrawAmount" [] i = "mandate" -> "mandateCap"
                 [] OTHER -> "payeeName"

\* The states in which more depends on the fields than Asked says.
BankStates == {"bank_account", "bank_choice", "bank_confirm"}
ForkStates == BankStates \cup {"bonus_amount", "bonus_destination", "bonus_pin"}

Sound(s, d) ==
    /\ s \in S!BotState /\ DOMAIN d \subseteq S!FlowData /\ \A f \in DOMAIN d : d[f] \in {"old", "now"}
    /\ Asked(s) \subseteq Fresh(d)
    /\ s \in BankStates => \A i \in S!Intents \cap DOMAIN d : AskedFor(i) \in Fresh(d)
    /\ s \in {"bonus_amount", "bonus_destination"} => "airtime" \notin DOMAIN d
    /\ s = "bonus_pin" /\ "airtime" \in DOMAIN d => "bonusPhone" \in Fresh(d)

\* An operation ran on what was asked for, and not for a late card.
Proper(r) ==
    r # S!NoRun =>
        /\ r.missing = {}
        /\ r.stale \subseteq {"withdrawAccount", "pendingGuarantors"}
        /\ r.answer # "late"

Person == [joined : BOOLEAN, bank : BOOLEAN, asked : BOOLEAN, agreed : BOOLEAN, moving : BOOLEAN]

SessionInv ==
    /\ channel \in {"whatsapp", "telegram"} /\ aged \in BOOLEAN /\ who \in Person
    /\ Sound(state, data) /\ Proper(ran) /\ Proper(owed)

\* What the helpers of Sessions leave fresh.
LEMMA FreshFields ==
    /\ \A X : DOMAIN S!Only(X) = X /\ Fresh(S!Only(X)) = X
    /\ \A d, X : DOMAIN S!Plus(d, X) = DOMAIN d \cup X /\ Fresh(S!Plus(d, X)) = Fresh(d) \cup X
    /\ \A d, X : DOMAIN S!Minus(d, X) = DOMAIN d \ X /\ Fresh(S!Minus(d, X)) = Fresh(d) \ X
    /\ \A d : DOMAIN S!Old(d) = DOMAIN d /\ Fresh(S!Old(d)) = {}
BY DEF Fresh, S!Only, S!Plus, S!Minus, S!Old

LEMMA FieldValues ==
    /\ \A X : \A f \in X : S!Only(X)[f] \in {"old", "now"}
    /\ \A d, X : (\A f \in DOMAIN d : d[f] \in {"old", "now"})
                    => \A f \in DOMAIN S!Plus(d, X) : S!Plus(d, X)[f] \in {"old", "now"}
    /\ \A d, X : (\A f \in DOMAIN d : d[f] \in {"old", "now"})
                    => \A f \in DOMAIN S!Minus(d, X) : S!Minus(d, X)[f] \in {"old", "now"}
    /\ \A d : \A f \in DOMAIN d : S!Old(d)[f] \in {"old", "now"}
BY DEF S!Only, S!Plus, S!Minus, S!Old

\* A state begun with what it asks for.
LEMMA SoundOnly ==
    ASSUME NEW s \in S!BotState \ ForkStates, NEW X \in SUBSET S!FlowData, Asked(s) \subseteq X
    PROVE  Sound(s, S!Only(X))
BY FreshFields, FieldValues DEF Sound, ForkStates

\* A state reached from another: it asks for what the other did, or what it was given.
LEMMA SoundPlus ==
    ASSUME NEW s, NEW d, Sound(s, d), NEW t \in S!BotState \ ForkStates, NEW X \in SUBSET S!FlowData,
           Asked(t) \subseteq Asked(s) \cup X
    PROVE  Sound(t, S!Plus(d, X))
<1> DEFINE e == S!Plus(d, X)
<1>1. DOMAIN e = DOMAIN d \cup X /\ Fresh(e) = Fresh(d) \cup X BY FreshFields
<1>2. \A f \in DOMAIN e : e[f] \in {"old", "now"} BY FieldValues DEF Sound
<1> HIDE DEF e
<1>3. Sound(t, e) BY <1>1, <1>2 DEF Sound, ForkStates
<1> QED BY <1>3 DEF e

LEMMA SoundSame ==
    ASSUME NEW s, NEW d, Sound(s, d), NEW t \in S!BotState \ ForkStates, Asked(t) \subseteq Asked(s)
    PROVE  Sound(t, d)
BY DEF Sound, ForkStates

LEMMA SoundOld ==
    ASSUME NEW s, NEW d, Sound(s, d), NEW t \in S!BotState \ ForkStates, Asked(t) = {}
    PROVE  Sound(t, S!Old(d))
<1> DEFINE e == S!Old(d)
<1>1. DOMAIN e = DOMAIN d BY FreshFields
<1>2. \A f \in DOMAIN e : e[f] \in {"old", "now"} BY FieldValues, <1>1
<1> HIDE DEF e
<1>3. Sound(t, e) BY <1>1, <1>2 DEF Sound, ForkStates
<1> QED BY <1>3 DEF e

\* The states and fields of the code, by name.
LEMMA StateNames ==
    /\ {"idle", "coop_code", "name", "referral", "consent", "phone", "otp", "changephone_otp",
        "email", "birthday", "nok_name", "nok_phone", "pin", "pin_confirm", "loan_amount",
        "loan_months", "loan_bank_account", "loan_bank_code", "loan_bank_confirm", "guarantor_1",
        "guarantor_2", "withdraw_amount", "withdraw_pin", "repay_pin", "buyshares_pin", "shop_pin",
        "mandate_pin", "cancelmandate_pin", "delete_account_pin", "insurance_product",
        "insurance_plan", "insurance_confirm", "bonus_phone", "death_cert", "literacy_quiz",
        "literacy_optin", "optin", "ai_consent", "ai_confirm", "dividend_confirm",
        "sharedividend_confirm", "ai_query_confirm", "onboard_name", "onboard_code",
        "onboard_state", "onboard_phone"} \subseteq S!BotState \ ForkStates
    /\ ForkStates \subseteq S!BotState
BY DEF S!BotState, S!SecretStates, ForkStates, BankStates

LEMMA AskedOfMembers ==
    /\ \A s \in {"idle", "coop_code", "loan_amount", "withdraw_amount", "repay_pin", "delete_account_pin",
                 "insurance_product", "literacy_quiz", "literacy_optin", "optin", "ai_consent",
                 "ai_confirm", "ai_query_confirm", "onboard_name"} : Asked(s) = {}
    /\ Asked("name") = {"joinCode"}
    /\ \A s \in {"referral", "consent", "phone", "otp", "email", "birthday", "nok_name",
                 "nok_phone", "pin"} : Asked(s) = {"joinCode", "name"}
    /\ Asked("pin_confirm") = {"joinCode", "name", "pinHash"}
    /\ Asked("onboard_code") = {"coopName"}
    /\ \A s \in {"onboard_state", "onboard_phone"} : Asked(s) = {"coopName", "coopCode"}
    /\ Asked("death_cert") = {"deathClaimId"} /\ Asked("changephone_otp") = {"newPhone"}
    /\ Asked("dividend_confirm") = {"dividendRate"}
    /\ Asked("sharedividend_confirm") = {"shareDividendRate"}
BY DEF Asked

LEMMA AskedOfMoney ==
    /\ Asked("loan_months") = {"loanAmount"}
    /\ Asked("loan_bank_account") = {"loanAmount", "loanMonths"}
    /\ Asked("loan_bank_code") = {"loanAmount", "loanMonths", "loanAccount"}
    /\ Asked("loan_bank_confirm") = {"loanAmount", "loanMonths", "loanAccount", "loanBankCode"}
    /\ \A s \in {"guarantor_1", "guarantor_2"} : Asked(s) = {"loanId"}
    /\ Asked("withdraw_pin") = {"withdrawAmount"} /\ Asked("bank_account") = {}
    /\ Asked("bank_choice") = {"bankAccount"} /\ Asked("bank_confirm") = {"bankAccount", "bankCode"}
    /\ Asked("mandate_pin") = {"mandateCap", "bankAccount", "bankCode"}
    /\ Asked("cancelmandate_pin") = {"mandateId"}
    /\ Asked("buyshares_pin") = {"shareCount"} /\ Asked("shop_pin") = {"shopItemId"}
    /\ Asked("bonus_amount") = {} /\ Asked("bonus_destination") = {"bonusAmount"}
    /\ \A s \in {"bonus_phone", "bonus_pin"} : Asked(s) = {"bonusAmount", "bonusDestination"}
    /\ Asked("insurance_plan") = {"insuranceProduct"}
    /\ Asked("insurance_confirm") = {"insuranceProduct", "insurancePlan"}
BY DEF Asked

LEMMA FieldNames ==
    {"withdraw", "mandate", "payee", "joinCode", "referrerCode", "name", "consentGiven", "contactPhone",
     "otp", "phoneVerified", "nok", "pinHash", "loanAmount", "loanMonths", "loanAccount",
     "loanBankCode", "pendingGuarantors", "loanId", "withdrawAmount", "withdrawAccount",
     "bankAccount", "bankCode", "payeeName", "mandateCap", "mandateId", "shareCount",
     "shopItemId", "bonusAmount", "bonusDestination", "airtime", "bonusPhone",
     "insuranceProduct", "insurancePlan", "deathClaimId", "memberId", "quiz",
     "aiCommand", "dividendRate", "shareDividendRate", "coopName", "coopCode",
     "newPhone"} \subseteq S!FlowData
BY DEF S!FlowData, S!Intents

\* The session after a step.
Kept == Sound(state', data') /\ aged' \in BOOLEAN

LEMMA StageKeeps ==
    ASSUME NEW s, NEW d, S!Stage(s, d), Sound(s, d)
    PROVE  Kept
BY DEF S!Stage, Kept

LEMMA AskAgainKeeps ==
    ASSUME SessionInv, S!AskAgain
    PROVE  Kept
BY DEF S!AskAgain, Kept, SessionInv

LEMMA StateKept ==
    ASSUME SessionInv, UNCHANGED <<state, data, aged>>
    PROVE  Kept
BY DEF Kept, SessionInv

\* A flow that begins with the fields of one message.
LEMMA Begins ==
    ASSUME NEW t \in S!BotState \ ForkStates, NEW X \in SUBSET S!FlowData, Asked(t) \subseteq X,
           S!Stage(t, S!Only(X))
    PROVE  Kept
BY SoundOnly, StageKeeps

LEMMA Clears ==
    ASSUME S!Clear
    PROVE  Kept
<1>1. S!Stage("idle", S!Only({})) BY DEF S!Clear
<1>2. {} \in SUBSET S!FlowData /\ Asked("idle") = {} BY AskedOfMembers
<1> QED BY <1>1, <1>2, StateNames, Begins

\* A flow that goes on with one field more, or none.
LEMMA Continues ==
    ASSUME SessionInv, NEW s, state = s, NEW t \in S!BotState \ ForkStates, NEW X \in SUBSET S!FlowData,
           Asked(t) \subseteq Asked(s) \cup X, S!Stage(t, S!Plus(data, X))
    PROVE  Kept
<1>1. Sound(s, data) BY DEF SessionInv
<1> QED BY <1>1, SoundPlus, StageKeeps

LEMMA GoesOn ==
    ASSUME SessionInv, NEW s, state = s, NEW t \in S!BotState \ ForkStates,
           Asked(t) \subseteq Asked(s), S!Stage(t, data)
    PROVE  Kept
<1>1. Sound(s, data) BY DEF SessionInv
<1> QED BY <1>1, SoundSame, StageKeeps

LEMMA Takes ==
    ASSUME SessionInv, NEW s, NEW f \in S!FlowData, NEW t \in S!BotState \ ForkStates,
           Asked(t) \subseteq Asked(s) \cup {f}, S!Take(s, f, t)
    PROVE  Kept
<1>1. state = s /\ (S!AskAgain \/ S!Stage(t, S!Plus(data, {f}))) BY DEF S!Take
<1>2. {f} \in SUBSET S!FlowData OBVIOUS
<1> QED BY <1>1, <1>2, AskAgainKeeps, Continues

-----------------------------------------------------------------------------
(* Sessions: the steps that only talk. *)

LEMMA JoinCodeKeeps ==
    ASSUME SessionInv, NEW fields \in SUBSET {"referrerCode"}, S!HandleJoinCode(fields)
    PROVE  Kept
<1>1. CASE S!Stage("coop_code", S!Only({})) BY <1>1, Begins, AskedOfMembers, StateNames
<1>2. CASE S!Clear BY <1>2, Clears
<1>3. CASE S!Stage("name", S!Only({"joinCode"} \cup fields))
  <2>1. {"joinCode"} \cup fields \in SUBSET S!FlowData BY FieldNames
  <2> QED BY <1>3, <2>1, Begins, AskedOfMembers, StateNames
<1> QED BY <1>1, <1>2, <1>3 DEF S!HandleJoinCode

LEMMA RegisteringKeeps ==
    ASSUME SessionInv, S!Registering
    PROVE  Kept
<1>1. CASE S!CoopCode BY <1>1, JoinCodeKeeps DEF S!CoopCode
<1>2. CASE S!Name
  <2>1. state = "name" BY <1>2 DEF S!Name
  <2>2. CASE S!AskAgain BY <2>2, AskAgainKeeps
  <2>3. CASE S!Stage("consent", S!Plus(data, {"name"}))
    BY <2>1, <2>3, Continues, AskedOfMembers, StateNames, FieldNames
  <2>4. CASE S!Stage("referral", S!Plus(data, {"name"}))
    BY <2>1, <2>4, Continues, AskedOfMembers, StateNames, FieldNames
  <2> QED BY <1>2, <2>2, <2>3, <2>4 DEF S!Name, S!AskConsent
<1>3. CASE S!Referral
  <2>1. state = "referral" /\ S!Stage("consent", data) BY <1>3 DEF S!Referral, S!AskConsent
  <2> QED BY <2>1, GoesOn, AskedOfMembers, StateNames
<1>4. CASE S!AnswerConsent
  <2>1. state = "consent" BY <1>4 DEF S!AnswerConsent
  <2>2. CASE S!AskAgain \/ S!Clear BY <2>2, AskAgainKeeps, Clears
  <2>3. CASE S!Stage("phone", S!Plus(data, {"consentGiven"}))
    BY <2>1, <2>3, Continues, AskedOfMembers, StateNames, FieldNames
  <2>4. CASE S!Stage("email", data) BY <2>1, <2>4, GoesOn, AskedOfMembers, StateNames
  <2> QED BY <1>4, <2>2, <2>3, <2>4 DEF S!AnswerConsent, S!AskEmail
<1>5. CASE S!ContactPhone
  <2>1. state = "phone" BY <1>5 DEF S!ContactPhone
  <2>2. CASE S!AskAgain BY <2>2, AskAgainKeeps
  <2>3. CASE S!Stage("otp", S!Plus(data, {"contactPhone", "otp"}))
    BY <2>1, <2>3, Continues, AskedOfMembers, StateNames, FieldNames
  <2>4. CASE S!Stage("email", S!Plus(data, {"contactPhone"}))
    BY <2>1, <2>4, Continues, AskedOfMembers, StateNames, FieldNames
  <2> QED BY <1>5, <2>2, <2>3, <2>4 DEF S!ContactPhone, S!DeliverOtp, S!AskEmail
<1>6. CASE S!Otp
  <2>1. state = "otp" BY <1>6 DEF S!Otp
  <2>2. CASE S!AskAgain BY <2>2, AskAgainKeeps
  <2>3. CASE S!Stage("email", S!Plus(S!Minus(data, {"otp"}), {"phoneVerified"}))
    <3> DEFINE d == S!Minus(data, {"otp"})
    <3>1. DOMAIN d = DOMAIN data \ {"otp"} /\ Fresh(d) = Fresh(data) \ {"otp"}
          /\ \A f \in DOMAIN d : d[f] \in {"old", "now"}
      BY FreshFields, FieldValues DEF SessionInv, Sound
    <3> HIDE DEF d
    <3>2. Sound("otp", d)
      BY <2>1, <3>1, AskedOfMembers DEF SessionInv, Sound, BankStates
    <3>3. Sound("email", S!Plus(d, {"phoneVerified"}))
      BY <3>2, SoundPlus, AskedOfMembers, StateNames, FieldNames
    <3> QED BY <2>3, <3>3, StageKeeps DEF d
  <2> QED BY <1>6, <2>2, <2>3 DEF S!Otp, S!AskEmail
<1>7. CASE S!Email \/ S!Birthday \/ S!NokName
  <2>1. CASE S!AskAgain BY <2>1, AskAgainKeeps
  <2>2. CASE /\ state \in {"email", "birthday", "nok_name"}
             /\ \E t \in {"birthday", "nok_name", "nok_phone"} : S!Stage(t, data)
    BY <2>2, GoesOn, AskedOfMembers, StateNames
  <2> QED BY <1>7, <2>1, <2>2 DEF S!Email, S!Birthday, S!NokName, S!AskBirthday, S!AskNokName
<1>8. CASE S!NokPhone
  BY <1>8, Takes, AskedOfMembers, StateNames, FieldNames DEF S!NokPhone
<1>9. CASE S!Pin
  BY <1>9, Takes, AskedOfMembers, StateNames, FieldNames DEF S!Pin
<1>10. CASE state = "pin_confirm" /\ S!Stage("pin", data)
  BY <1>10, GoesOn, AskedOfMembers, StateNames
<1> QED BY <1>1, <1>2, <1>3, <1>4, <1>5, <1>6, <1>7, <1>8, <1>9, <1>10 DEF S!Registering

LEMMA OnboardingKeeps ==
    ASSUME SessionInv, S!Onboarding
    PROVE  Kept
<1>1. CASE S!OnboardName
  <2>1. CASE S!AskAgain BY <2>1, AskAgainKeeps
  <2>2. CASE S!Stage("onboard_code", S!Only({"coopName"}))
    BY <2>2, Begins, AskedOfMembers, StateNames, FieldNames
  <2> QED BY <1>1, <2>1, <2>2 DEF S!OnboardName
<1>2. CASE S!OnboardCode
  BY <1>2, Takes, AskedOfMembers, StateNames, FieldNames DEF S!OnboardCode
<1>3. CASE S!OnboardState
  BY <1>3, GoesOn, AskedOfMembers, StateNames DEF S!OnboardState
<1>4. CASE S!AskAgain BY <1>4, AskAgainKeeps
<1> QED BY <1>1, <1>2, <1>3, <1>4 DEF S!Onboarding

\* A bank account is asked for, after what it is for.
LEMMA BankFlowKeeps ==
    ASSUME NEW i \in {"withdraw", "mandate"}, NEW s, NEW d, Sound(s, d), AskedFor(i) \in Fresh(d),
           S!StartBankFlow(i, d)
    PROVE  Kept
<1> DEFINE b == S!Minus(d, S!Intents)
           e == S!Plus(b, {i})
<1>0. /\ DOMAIN b = DOMAIN d \ S!Intents /\ Fresh(b) = Fresh(d) \ S!Intents
      /\ \A f \in DOMAIN b : b[f] \in {"old", "now"}
  BY FreshFields, FieldValues DEF Sound
<1> HIDE DEF b
<1>1. /\ DOMAIN e = (DOMAIN d \ S!Intents) \cup {i}
      /\ Fresh(e) = (Fresh(d) \ S!Intents) \cup {i}
      /\ \A f \in DOMAIN e : e[f] \in {"old", "now"}
  <2>1. DOMAIN e = DOMAIN b \cup {i} /\ Fresh(e) = Fresh(b) \cup {i} BY FreshFields
  <2>2. \A f \in DOMAIN e : e[f] \in {"old", "now"} BY <1>0, FieldValues
  <2> HIDE DEF e
  <2> QED BY <1>0, <2>1, <2>2
<1>2. i \in S!Intents /\ S!Intents \cap DOMAIN e = {i} /\ AskedFor(i) \notin S!Intents
  BY <1>1 DEF S!Intents, AskedFor
<1>3. DOMAIN e \subseteq S!FlowData BY <1>1, FieldNames DEF Sound
<1>4. S!Stage("bank_account", e) BY DEF S!StartBankFlow, b
<1> HIDE DEF e
<1>5. Sound("bank_account", e)
  BY <1>1, <1>2, <1>3, AskedOfMoney, StateNames DEF Sound, ForkStates, BankStates
<1> QED BY <1>4, <1>5, StageKeeps

LEMMA WithdrawPinKeeps ==
    ASSUME NEW d, Sound("withdraw_amount", d), "withdrawAmount" \in Fresh(d), S!AskWithdrawPin(d)
    PROVE  Kept
<1>1. CASE S!Stage("withdraw_pin", d)
  <2>1. Sound("withdraw_pin", d) BY AskedOfMoney, StateNames DEF Sound, ForkStates, BankStates
  <2> QED BY <1>1, <2>1, StageKeeps
<1>2. CASE S!StartBankFlow("withdraw", d)
  BY <1>2, BankFlowKeeps DEF AskedFor
<1> QED BY <1>1, <1>2 DEF S!AskWithdrawPin

LEMMA ChoosingKeeps ==
    ASSUME SessionInv, S!Choosing
    PROVE  Kept
<1>1. CASE S!LoanAmount \/ S!LoanMonths \/ S!LoanBankAccount \/ S!LoanBankCode
  BY <1>1, Takes, AskedOfMembers, AskedOfMoney, StateNames, FieldNames
     DEF S!LoanAmount, S!LoanMonths, S!LoanBankAccount, S!LoanBankCode
<1>2. CASE S!NotThatBank BY <1>2, GoesOn, AskedOfMoney, StateNames DEF S!NotThatBank
<1>3. CASE S!WithdrawAmount
  <2>1. CASE S!AskAgain BY <2>1, AskAgainKeeps
  <2>2. CASE state = "withdraw_amount" /\ S!AskWithdrawPin(S!Plus(data, {"withdrawAmount"}))
    <3>1. Sound("withdraw_amount", data) BY <2>2 DEF SessionInv
    <3>2. Sound("withdraw_amount", S!Plus(data, {"withdrawAmount"}))
      BY <3>1, SoundPlus, AskedOfMembers, StateNames, FieldNames
    <3>3. "withdrawAmount" \in Fresh(S!Plus(data, {"withdrawAmount"})) BY FreshFields
    <3> QED BY <2>2, <3>2, <3>3, WithdrawPinKeeps
  <2> QED BY <1>3, <2>1, <2>2 DEF S!WithdrawAmount
<1>4. CASE S!BankAccountStep \/ S!BankChoiceStep
  <2>1. CASE S!AskAgain BY <2>1, AskAgainKeeps
  <2>2. PICK s \in {"bank_account", "bank_choice"}, t \in {"bank_choice", "bank_confirm"}, f \in {"bankAccount", "bankCode"} :
           /\ s = "bank_account" => t = "bank_choice" /\ f = "bankAccount"
           /\ s = "bank_choice" => t = "bank_confirm" /\ f = "bankCode"
           /\ S!Take(s, f, t)
    BY <1>4 DEF S!BankAccountStep, S!BankChoiceStep
  <2>3. CASE state = s /\ S!Stage(t, S!Plus(data, {f}))
    <3> DEFINE e == S!Plus(data, {f})
    <3>1. Sound(s, data) BY <2>3 DEF SessionInv
    <3>2. /\ DOMAIN e = DOMAIN data \cup {f} /\ Fresh(e) = Fresh(data) \cup {f}
          /\ \A g \in DOMAIN e : e[g] \in {"old", "now"}
      BY <3>1, FreshFields, FieldValues DEF Sound
    <3> HIDE DEF e
    <3>3. s \in BankStates /\ t \in BankStates /\ f \notin S!Intents /\ t \in S!BotState
          /\ Asked(t) \subseteq Asked(s) \cup {f} /\ f \in S!FlowData
          /\ t # "bonus_pin" /\ t \notin {"bonus_amount", "bonus_destination"}
      BY <2>2, AskedOfMoney, StateNames, FieldNames DEF BankStates, ForkStates, S!Intents
    <3>4. Sound(t, e) BY <3>1, <3>2, <3>3 DEF Sound
    <3> QED BY <2>3, <3>4, StageKeeps DEF e
  <2> QED BY <2>1, <2>2, <2>3 DEF S!Take
<1>5. CASE S!BankConfirmStep
  <2>1. CASE S!AskAgain BY <2>1, AskAgainKeeps
  <2>2. state = "bank_confirm" /\ Sound("bank_confirm", data) BY <1>5 DEF S!BankConfirmStep, SessionInv
  <2>3. \A i \in S!Intents \cap DOMAIN data : AskedFor(i) \in Fresh(data)
    BY <2>2 DEF Sound, BankStates
  <2>4. CASE "withdraw" \in DOMAIN data /\ S!Stage("withdraw_pin", S!Plus(data, {"withdrawAccount"}))
    <3> DEFINE e == S!Plus(data, {"withdrawAccount"})
    <3>1. "withdrawAmount" \in Fresh(data) BY <2>3, <2>4 DEF AskedFor, S!Intents
    <3>2. /\ DOMAIN e = DOMAIN data \cup {"withdrawAccount"}
          /\ Fresh(e) = Fresh(data) \cup {"withdrawAccount"}
          /\ \A g \in DOMAIN e : e[g] \in {"old", "now"}
      BY <2>2, FreshFields, FieldValues DEF Sound
    <3> HIDE DEF e
    <3>3. Sound("withdraw_pin", e)
      BY <2>2, <3>1, <3>2, AskedOfMoney, StateNames, FieldNames DEF Sound, ForkStates, BankStates
    <3> QED BY <2>4, <3>3, StageKeeps DEF e
  <2>5. CASE "mandate" \in DOMAIN data /\ S!Stage("mandate_pin", data)
    <3>1. "mandateCap" \in Fresh(data) BY <2>3, <2>5 DEF AskedFor, S!Intents
    <3>2. Sound("mandate_pin", data)
      BY <2>2, <3>1, AskedOfMoney, StateNames DEF Sound, ForkStates, BankStates
    <3> QED BY <2>5, <3>2, StageKeeps
  <2> QED BY <1>5, <2>1, <2>4, <2>5 DEF S!BankConfirmStep
<1>6. CASE S!BonusAmount
  <2>1. CASE S!AskAgain BY <2>1, AskAgainKeeps
  <2>2. CASE state = "bonus_amount" /\ S!Stage("bonus_destination", S!Plus(data, {"bonusAmount"}))
    <3> DEFINE e == S!Plus(data, {"bonusAmount"})
    <3>1. Sound("bonus_amount", data) BY <2>2 DEF SessionInv
    <3>2. /\ DOMAIN e = DOMAIN data \cup {"bonusAmount"} /\ Fresh(e) = Fresh(data) \cup {"bonusAmount"}
          /\ \A g \in DOMAIN e : e[g] \in {"old", "now"}
      BY <3>1, FreshFields, FieldValues DEF Sound
    <3> HIDE DEF e
    <3>3. Sound("bonus_destination", e)
      BY <3>1, <3>2, AskedOfMoney, StateNames, FieldNames DEF Sound, ForkStates, BankStates
    <3> QED BY <2>2, <3>3, StageKeeps DEF e
  <2> QED BY <1>6, <2>1, <2>2 DEF S!BonusAmount
<1>7. CASE S!BonusDestination
  <2>1. CASE S!AskAgain BY <2>1, AskAgainKeeps
  <2>2. state = "bonus_destination" /\ Sound("bonus_destination", data)
    BY <1>7 DEF S!BonusDestination, SessionInv
  <2>3. CASE S!Stage("bonus_phone", S!Plus(data, {"bonusDestination", "airtime"}))
    BY <2>2, <2>3, Continues, AskedOfMoney, StateNames, FieldNames
  <2>4. CASE S!Stage("bonus_pin", S!Plus(data, {"bonusDestination"}))
    <3> DEFINE e == S!Plus(data, {"bonusDestination"})
    <3>1. "airtime" \notin DOMAIN data BY <2>2 DEF Sound
    <3>2. /\ DOMAIN e = DOMAIN data \cup {"bonusDestination"}
          /\ Fresh(e) = Fresh(data) \cup {"bonusDestination"}
          /\ \A g \in DOMAIN e : e[g] \in {"old", "now"}
      BY <2>2, FreshFields, FieldValues DEF Sound
    <3> HIDE DEF e
    <3>3. Sound("bonus_pin", e)
      BY <2>2, <3>1, <3>2, AskedOfMoney, StateNames, FieldNames DEF Sound, ForkStates, BankStates
    <3> QED BY <2>4, <3>3, StageKeeps DEF e
  <2> QED BY <1>7, <2>1, <2>3, <2>4 DEF S!BonusDestination
<1>8. CASE S!BonusPhone
  <2>1. CASE S!AskAgain BY <2>1, AskAgainKeeps
  <2>2. CASE state = "bonus_phone" /\ S!Stage("bonus_pin", S!Plus(data, {"bonusPhone"}))
    <3> DEFINE e == S!Plus(data, {"bonusPhone"})
    <3>1. Sound("bonus_phone", data) BY <2>2 DEF SessionInv
    <3>2. /\ DOMAIN e = DOMAIN data \cup {"bonusPhone"} /\ Fresh(e) = Fresh(data) \cup {"bonusPhone"}
          /\ \A g \in DOMAIN e : e[g] \in {"old", "now"}
      BY <3>1, FreshFields, FieldValues DEF Sound
    <3> HIDE DEF e
    <3>3. Sound("bonus_pin", e)
      BY <3>1, <3>2, AskedOfMoney, StateNames, FieldNames DEF Sound, ForkStates, BankStates
    <3> QED BY <2>2, <3>3, StageKeeps DEF e
  <2> QED BY <1>8, <2>1, <2>2 DEF S!BonusPhone, S!Take
<1>9. CASE S!InsuranceProduct \/ S!InsurancePlan \/ S!DeclinePolicy
  <2>1. CASE S!AskAgain \/ S!Clear BY <2>1, AskAgainKeeps, Clears
  <2>2. CASE S!Stage("insurance_plan", S!Only({"insuranceProduct"}))
    BY <2>2, Begins, AskedOfMoney, StateNames, FieldNames
  <2>3. CASE S!Stage("insurance_confirm", S!Only({"insuranceProduct", "insurancePlan"}))
    BY <2>3, Begins, AskedOfMoney, StateNames, FieldNames
  <2> QED BY <1>9, <2>1, <2>2, <2>3 DEF S!InsuranceProduct, S!InsurancePlan, S!DeclinePolicy
<1> QED BY <1>1, <1>2, <1>3, <1>4, <1>5, <1>6, <1>7, <1>8, <1>9 DEF S!Choosing

\* An idle session holds nothing that a flow could take for its own.
LEMMA StartsOver ==
    ASSUME NEW d, Sound("idle", d), NEW t \in {"withdraw_amount", "loan_amount", "onboard_name"},
           S!Stage(t, S!Old(d))
    PROVE  Kept
<1>1. Asked(t) = {} /\ t \in S!BotState \ ForkStates BY AskedOfMembers, StateNames
<1> QED BY <1>1, SoundOld, StageKeeps

\* What a command begins with.
LEMMA Opens ==
    ASSUME NEW t \in S!BotState \ ForkStates, NEW f \in S!FlowData, Asked(t) \subseteq {f},
           S!Stage(t, S!Only({f}))
    PROVE  Kept
<1>1. {f} \in SUBSET S!FlowData OBVIOUS
<1> QED BY <1>1, Begins

LEMMA OpensBare ==
    ASSUME NEW t \in S!BotState \ ForkStates, Asked(t) = {}, S!Stage(t, S!Only({}))
    PROVE  Kept
BY Begins

LEMMA MoneyCommandKeeps ==
    ASSUME SessionInv, NEW d, Sound("idle", d),
           \/ S!HandleWithdraw(d) \/ S!HandleLoan(d) \/ S!StartLoanFromNL
           \/ S!HandleRepay \/ S!HandleBuyShares \/ S!BuyItem
           \/ S!HandleStartBonusWithdrawal \/ S!HandleMandate \/ S!HandleCancelMandate \/ S!HandleAddPayee
    PROVE  Kept
<1>1. CASE S!HandleWithdraw(d)
  <2>1. CASE S!Stage("withdraw_amount", S!Old(d)) BY <2>1, StartsOver
  <2>2. CASE S!AskWithdrawPin(S!Only({"withdrawAmount"}))
    <3>1. {"withdrawAmount"} \in SUBSET S!FlowData BY FieldNames
    <3>2. Sound("withdraw_amount", S!Only({"withdrawAmount"}))
      BY <3>1, SoundOnly, AskedOfMembers, StateNames
    <3>3. "withdrawAmount" \in Fresh(S!Only({"withdrawAmount"})) BY FreshFields
    <3> QED BY <2>2, <3>2, <3>3, WithdrawPinKeeps
  <2> QED BY <1>1, <2>1, <2>2 DEF S!HandleWithdraw
<1>2. CASE S!HandleLoan(d)
  <2>1. CASE S!Stage("loan_amount", S!Old(d)) BY <2>1, StartsOver
  <2>2. CASE S!Stage("loan_months", S!Only({"loanAmount"}))
    BY <2>2, Opens, AskedOfMoney, StateNames, FieldNames
  <2>3. CASE S!Stage("loan_bank_account", S!Only({"loanAmount", "loanMonths"}))
    <3>1. {"loanAmount", "loanMonths"} \in SUBSET S!FlowData BY FieldNames
    <3> QED BY <2>3, <3>1, Begins, AskedOfMoney, StateNames
  <2> QED BY <1>2, <2>1, <2>2, <2>3 DEF S!HandleLoan
<1>3. CASE S!StartLoanFromNL
  <2>1. PICK t \in {"loan_amount", "loan_months", "loan_bank_account"},
             X \in SUBSET {"pendingGuarantors", "loanAmount", "loanMonths"} :
           S!Stage(t, S!Only(X)) /\ Asked(t) \subseteq X
    <3>1. CASE S!Stage("loan_amount", S!Only({"pendingGuarantors"}))
      <4> WITNESS "loan_amount" \in {"loan_amount", "loan_months", "loan_bank_account"},
                  {"pendingGuarantors"} \in SUBSET {"pendingGuarantors", "loanAmount", "loanMonths"}
      <4> QED BY <3>1, AskedOfMembers
    <3>2. CASE S!Stage("loan_months", S!Only({"pendingGuarantors", "loanAmount"}))
      <4> WITNESS "loan_months" \in {"loan_amount", "loan_months", "loan_bank_account"},
                  {"pendingGuarantors", "loanAmount"} \in SUBSET {"pendingGuarantors", "loanAmount", "loanMonths"}
      <4> QED BY <3>2, AskedOfMoney
    <3>3. CASE S!Stage("loan_bank_account", S!Only({"pendingGuarantors", "loanAmount", "loanMonths"}))
      <4> WITNESS "loan_bank_account" \in {"loan_amount", "loan_months", "loan_bank_account"},
                  {"pendingGuarantors", "loanAmount", "loanMonths"}
                      \in SUBSET {"pendingGuarantors", "loanAmount", "loanMonths"}
      <4> QED BY <3>3, AskedOfMoney
    <3> QED BY <1>3, <3>1, <3>2, <3>3 DEF S!StartLoanFromNL
  <2>2. {"pendingGuarantors", "loanAmount", "loanMonths"} \subseteq S!FlowData BY FieldNames
  <2>3. {"loan_amount", "loan_months"} \subseteq S!BotState \ ForkStates BY StateNames
  <2>4. "loan_bank_account" \in S!BotState \ ForkStates BY StateNames
  <2>5. X \in SUBSET S!FlowData BY <2>2
  <2> QED BY <2>1, <2>3, <2>4, <2>5, Begins
<1>4. CASE S!HandleRepay BY <1>4, OpensBare, AskedOfMembers, StateNames DEF S!HandleRepay
<1>5. CASE S!HandleBuyShares
  BY <1>5, Opens, AskedOfMoney, StateNames, FieldNames DEF S!HandleBuyShares
<1>6. CASE S!BuyItem BY <1>6, Opens, AskedOfMoney, StateNames, FieldNames DEF S!BuyItem
<1>7. CASE S!HandleStartBonusWithdrawal
  <2>1. S!Stage("bonus_amount", S!Only({})) BY <1>7 DEF S!HandleStartBonusWithdrawal
  <2>2. DOMAIN S!Only({}) = {} /\ Fresh(S!Only({})) = {} BY FreshFields
  <2>3. Sound("bonus_amount", S!Only({}))
    BY <2>2, AskedOfMoney, StateNames DEF Sound, ForkStates, BankStates
  <2> QED BY <2>1, <2>3, StageKeeps
<1>8. CASE S!HandleMandate
  <2>1. S!StartBankFlow("mandate", S!Only({"mandateCap"})) BY <1>8 DEF S!HandleMandate
  <2>2. {"mandateCap"} \in SUBSET S!FlowData BY FieldNames
  <2>3. Sound("idle", S!Only({"mandateCap"})) BY <2>2, SoundOnly, AskedOfMembers, StateNames
  <2>4. AskedFor("mandate") \in Fresh(S!Only({"mandateCap"})) BY FreshFields DEF AskedFor
  <2> QED BY <2>1, <2>3, <2>4, BankFlowKeeps
<1>9. CASE S!HandleCancelMandate
  BY <1>9, Opens, AskedOfMoney, StateNames, FieldNames DEF S!HandleCancelMandate
<1>10. CASE S!HandleAddPayee
  <2> DEFINE e == S!Only({"payeeName", "payee", "bankAccount"})
  <2>1. S!Stage("bank_choice", e) BY <1>10 DEF S!HandleAddPayee
  <2>2. /\ DOMAIN e = {"payeeName", "payee", "bankAccount"}
        /\ Fresh(e) = {"payeeName", "payee", "bankAccount"}
        /\ \A f \in DOMAIN e : e[f] \in {"old", "now"}
    BY FreshFields, FieldValues
  <2> HIDE DEF e
  <2>3. AskedFor("payee") = "payeeName" BY DEF AskedFor
  <2>4. \A i \in S!Intents \cap DOMAIN e : i = "payee" BY <2>2 DEF S!Intents
  <2>5. Sound("bank_choice", e)
    BY <2>2, <2>3, <2>4, AskedOfMoney, StateNames, FieldNames DEF Sound, ForkStates, BankStates
  <2> QED BY <2>1, <2>5, StageKeeps
<1> QED BY <1>1, <1>2, <1>3, <1>4, <1>5, <1>6, <1>7, <1>8, <1>9, <1>10

LEMMA CommandKeeps ==
    ASSUME SessionInv, NEW d, Sound("idle", d), S!Command(d)
    PROVE  Kept
<1>1. CASE S!Stage("optin", S!Only({"memberId"}))
  BY <1>1, Opens, AskedOfMembers, StateNames, FieldNames
<1>2. CASE S!HandleJoinStart
  <2>1. CASE S!Stage("coop_code", S!Only({})) BY <2>1, OpensBare, AskedOfMembers, StateNames
  <2>2. CASE \E fields \in SUBSET {"referrerCode"} : S!HandleJoinCode(fields) BY <2>2, JoinCodeKeeps
  <2> QED BY <1>2, <2>1, <2>2 DEF S!HandleJoinStart
<1>3. CASE S!HandleOnboardStart(d) BY <1>3, StartsOver DEF S!HandleOnboardStart
<1>4. CASE \/ S!HandleWithdraw(d) \/ S!HandleLoan(d) \/ S!StartLoanFromNL
           \/ S!HandleRepay \/ S!HandleBuyShares \/ S!BuyItem
           \/ S!HandleStartBonusWithdrawal \/ S!HandleMandate \/ S!HandleCancelMandate \/ S!HandleAddPayee
  BY <1>4, MoneyCommandKeeps
<1>5. CASE S!HandleInsurance \/ S!HandleDeleteAccount \/ S!AskQuery
  <2>1. PICK t \in {"insurance_product", "delete_account_pin", "ai_query_confirm"} :
           S!Stage(t, S!Only({}))
    BY <1>5 DEF S!HandleInsurance, S!HandleDeleteAccount, S!AskQuery
  <2> QED BY <2>1, OpensBare, AskedOfMembers, StateNames
<1>6. CASE S!RequestPhoneChange
  BY <1>6, Opens, AskedOfMembers, StateNames, FieldNames DEF S!RequestPhoneChange
<1>7. CASE S!StartDeathClaim
  BY <1>7, Opens, AskedOfMembers, StateNames, FieldNames DEF S!StartDeathClaim
<1>8. CASE S!PreviewDividend
  BY <1>8, Opens, AskedOfMembers, StateNames, FieldNames DEF S!PreviewDividend
<1>9. CASE S!StartLiteracyQuiz
  <2>1. {"memberId", "quiz"} \in SUBSET S!FlowData BY FieldNames
  <2> QED BY <1>9, <2>1, Begins, AskedOfMembers, StateNames DEF S!StartLiteracyQuiz
<1>10. CASE S!SuggestCommand
  BY <1>10, Opens, AskedOfMembers, StateNames, FieldNames DEF S!SuggestCommand
<1> QED
  BY <1>1, <1>2, <1>3, <1>4, <1>5, <1>6, <1>7, <1>8, <1>9, <1>10 DEF S!Command

LEMMA TalkingKeeps ==
    ASSUME SessionInv, S!Talking
    PROVE  Kept
<1>1. CASE state = "idle" /\ S!Command(data)
  <2>1. Sound("idle", data) BY <1>1 DEF SessionInv
  <2> QED BY <1>1, <2>1, CommandKeeps
<1>2. CASE S!Registering BY <1>2, RegisteringKeeps
<1>3. CASE S!LiteracyOptIn BY <1>3, GoesOn, AskedOfMembers, StateNames DEF S!LiteracyOptIn
<1>4. CASE S!Onboarding BY <1>4, OnboardingKeeps
<1>5. CASE S!Choosing BY <1>5, ChoosingKeeps
<1>6. CASE S!WrongRate \/ S!AiQueryConfirm \/ S!Escape \/ S!Expire
  BY <1>6, Clears DEF S!WrongRate, S!AiQueryConfirm, S!Escape, S!Expire
<1>7. CASE S!LiteracyQuiz
  <2>1. CASE S!AskAgain \/ S!Clear BY <2>1, AskAgainKeeps, Clears
  <2>2. CASE state = "literacy_quiz" /\ S!Stage("literacy_quiz", data)
    BY <2>2, GoesOn, StateNames
  <2> QED BY <1>7, <2>1, <2>2 DEF S!LiteracyQuiz
<1>8. CASE S!AiConsent BY <1>8, AskAgainKeeps, Clears DEF S!AiConsent
<1>9. CASE S!AiConfirm
  <2>1. Sound("idle", S!Only({})) BY SoundOnly, AskedOfMembers, StateNames
  <2> QED BY <1>9, <2>1, Clears, CommandKeeps DEF S!AiConfirm
<1>10. CASE S!Age BY <1>10 DEF S!Age, Kept, SessionInv
<1>11. CASE S!RequireAiConsent
  BY <1>11, Opens, AskedOfMembers, StateNames, FieldNames DEF S!RequireAiConsent
<1> QED
  BY <1>1, <1>2, <1>3, <1>4, <1>5, <1>6, <1>7, <1>8, <1>9, <1>10, <1>11 DEF S!Talking

-----------------------------------------------------------------------------
(* Sessions: the steps that run an operation. *)

\* An operation whose fields have all been asked for.
LEMMA RunProper ==
    ASSUME NEW op \in DOMAIN S!Needs, NEW answer \in {"typed", "card"},
           S!Needs[op] \subseteq Fresh(data),
           op = "bonus" /\ "airtime" \in DOMAIN data => "bonusPhone" \in Fresh(data)
    PROVE  Proper(S!Run(op, answer))
<1> DEFINE need == S!Needs[op] \cup (IF op = "bonus" /\ "airtime" \in DOMAIN data
                                     THEN {"bonusPhone"} ELSE {})
           r == S!Run(op, answer)
<1>1. /\ r.missing = need \ DOMAIN data /\ r.answer = answer
      /\ r.stale = {f \in (need \cup S!May[op]) \cap DOMAIN data : data[f] = "old"}
  BY DEF S!Run
<1>2. need \subseteq Fresh(data) OBVIOUS
<1>3. S!May[op] \subseteq {"withdrawAccount", "pendingGuarantors"} BY DEF S!May
<1> HIDE DEF need, r
<1>4. r.missing = {} BY <1>1, <1>2 DEF Fresh
<1>5. r.stale \subseteq {"withdrawAccount", "pendingGuarantors"} BY <1>1, <1>2, <1>3 DEF Fresh
<1> QED BY <1>1, <1>4, <1>5 DEF Proper, r

LEMMA NeedsOf ==
    /\ {"register", "loan", "guarantor", "withdraw", "repay", "buyshares", "shop", "bonus",
        "mandate", "cancelmandate", "payee", "policy", "certificate", "delete", "dividend",
        "sharedividend", "phonechange", "provision"} \subseteq DOMAIN S!Needs
    /\ S!Needs["register"] = {"joinCode", "name", "pinHash"}
    /\ S!Needs["loan"] = {"loanAmount", "loanMonths", "loanAccount", "loanBankCode"}
    /\ S!Needs["guarantor"] = {"loanId"} /\ S!Needs["withdraw"] = {"withdrawAmount"}
    /\ S!Needs["repay"] = {} /\ S!Needs["buyshares"] = {"shareCount"}
    /\ S!Needs["shop"] = {"shopItemId"} /\ S!Needs["bonus"] = {"bonusAmount", "bonusDestination"}
    /\ S!Needs["mandate"] = {"mandateCap", "bankAccount", "bankCode"}
    /\ S!Needs["cancelmandate"] = {"mandateId"}
    /\ S!Needs["payee"] = {"payeeName", "bankAccount", "bankCode"}
    /\ S!Needs["policy"] = {"insuranceProduct", "insurancePlan"}
    /\ S!Needs["certificate"] = {"deathClaimId"} /\ S!Needs["delete"] = {}
    /\ S!Needs["dividend"] = {"dividendRate"}
    /\ S!Needs["sharedividend"] = {"shareDividendRate"}
    /\ S!Needs["phonechange"] = {"newPhone"}
    /\ S!Needs["provision"] = {"coopName", "coopCode"}
BY DEF S!Needs

\* What a step that runs an operation leaves true.
Ran == Kept /\ who' \in Person /\ Proper(ran') /\ Proper(owed')

LEMMA NoRunProper == Proper(S!NoRun)
BY DEF Proper

\* An operation run in a state that has asked for what it needs.
LEMMA RunAsked ==
    ASSUME SessionInv, NEW op \in DOMAIN S!Needs \ {"bonus"}, NEW answer \in {"typed", "card"},
           S!Needs[op] \subseteq Asked(state)
    PROVE  Proper(S!Run(op, answer))
<1>1. S!Needs[op] \subseteq Fresh(data) BY DEF SessionInv, Sound
<1> QED BY <1>1, RunProper

LEMMA EndsIdle ==
    ASSUME SessionInv, S!Stage("idle", data)
    PROVE  Kept
<1>1. Sound(state, data) BY DEF SessionInv
<1> QED BY <1>1, SoundSame, StageKeeps, AskedOfMembers, StateNames

LEMMA Repeats ==
    ASSUME SessionInv, NEW s, state = s, S!Stage(s, data)
    PROVE  Kept
BY StageKeeps DEF SessionInv

\* The answer that lets an operation run is not that of an old card.
LEMMA PinStepKeeps ==
    ASSUME SessionInv, NEW s, NEW op \in DOMAIN S!Needs \ {"bonus"}, S!Needs[op] \subseteq Asked(s),
           state = s, UNCHANGED <<channel, owed, who>>, NEW answer \in S!Answers,
           \/ S!Clear /\ ran' = S!NoRun
           \/ S!AskAgain /\ ran' = S!NoRun
           \/ S!Stage(s, data) /\ ran' = S!NoRun
           \/ /\ S!FlowTokenMatches(answer) /\ ran' = S!Run(op, answer)
              /\ S!Clear \/ S!IdleKeepingData
    PROVE  Ran
<1>1. Kept BY Clears, AskAgainKeeps, Repeats, EndsIdle DEF S!IdleKeepingData
<1>2. Proper(owed') /\ who' \in Person BY DEF SessionInv
<1>3. CASE ran' = S!NoRun BY <1>1, <1>2, <1>3, NoRunProper DEF Ran
<1>4. CASE S!FlowTokenMatches(answer) /\ ran' = S!Run(op, answer)
  <2>1. answer \in {"typed", "card"} BY <1>4 DEF S!Answers, S!FlowTokenMatches
  <2>2. Proper(S!Run(op, answer)) BY <2>1, RunAsked
  <2> QED BY <1>1, <1>2, <1>4, <2>2 DEF Ran
<1> QED BY <1>3, <1>4

LEMMA PinsKeep ==
    ASSUME SessionInv,
           \/ S!WithdrawPin \/ S!RepayPin \/ S!BuySharesPin \/ S!ShopPin
           \/ S!MandatePin \/ S!CancelMandatePin
    PROVE  Ran
<1>1. PICK s \in {"withdraw_pin", "repay_pin", "buyshares_pin", "shop_pin", "mandate_pin", "cancelmandate_pin"},
           op \in {"withdraw", "repay", "buyshares", "shop", "mandate", "cancelmandate"} :
         /\ S!Needs[op] \subseteq Asked(s) /\ state = s /\ UNCHANGED <<channel, owed, who>>
         /\ \E answer \in S!Answers :
              \/ S!Clear /\ ran' = S!NoRun
              \/ S!AskAgain /\ ran' = S!NoRun
              \/ S!Stage(s, data) /\ ran' = S!NoRun
              \/ /\ S!FlowTokenMatches(answer) /\ ran' = S!Run(op, answer)
                 /\ S!Clear \/ S!IdleKeepingData
  <2>1. /\ S!Needs["withdraw"] \subseteq Asked("withdraw_pin")
        /\ S!Needs["repay"] \subseteq Asked("repay_pin")
        /\ S!Needs["buyshares"] \subseteq Asked("buyshares_pin")
        /\ S!Needs["shop"] \subseteq Asked("shop_pin")
        /\ S!Needs["mandate"] \subseteq Asked("mandate_pin")
        /\ S!Needs["cancelmandate"] \subseteq Asked("cancelmandate_pin")
    BY NeedsOf, AskedOfMembers, AskedOfMoney
  <2>2. CASE S!WithdrawPin BY <2>1, <2>2 DEF S!WithdrawPin, S!PinStep
  <2>3. CASE S!RepayPin BY <2>1, <2>3 DEF S!RepayPin, S!PinStep
  <2>4. CASE S!BuySharesPin BY <2>1, <2>4 DEF S!BuySharesPin, S!PinStep
  <2>5. CASE S!ShopPin BY <2>1, <2>5 DEF S!ShopPin, S!PinStep
  <2>6. CASE S!MandatePin BY <2>1, <2>6 DEF S!MandatePin, S!PinStep
  <2>7. CASE S!CancelMandatePin BY <2>1, <2>7 DEF S!CancelMandatePin, S!PinStep
  <2> QED BY <2>2, <2>3, <2>4, <2>5, <2>6, <2>7
<1>2. op \in DOMAIN S!Needs \ {"bonus"} BY NeedsOf
<1> QED BY <1>1, <1>2, PinStepKeeps

LEMMA FinishKeeps ==
    ASSUME SessionInv, NEW s, NEW op \in DOMAIN S!Needs \ {"bonus"}, S!Needs[op] \subseteq Asked(s),
           S!Finish(s, op)
    PROVE  Ran
<1>1. Kept BY Clears DEF S!Finish
<1>2. Proper(S!Run(op, "typed")) BY RunAsked DEF S!Finish
<1> QED BY <1>1, <1>2 DEF S!Finish, SessionInv, Ran

\* The member's row after it is erased, joined, asked or moved.
LEMMA PersonAfter ==
    ASSUME NEW w \in Person, NEW a \in BOOLEAN
    PROVE  /\ [w EXCEPT !.joined = TRUE, !.asked = FALSE, !.agreed = a] \in Person
           /\ [w EXCEPT !.asked = TRUE] \in Person /\ [w EXCEPT !.moving = a] \in Person
           /\ [w EXCEPT !.joined = FALSE, !.bank = FALSE, !.asked = FALSE,
                        !.agreed = FALSE, !.moving = FALSE] \in Person
BY DEF Person

LEMMA WorkingKeeps ==
    ASSUME SessionInv, S!Working
    PROVE  Ran
<1>0. who \in Person /\ Proper(owed) /\ Proper(S!NoRun) BY NoRunProper DEF SessionInv
<1>1. CASE S!PinConfirm
  <2>1. Asked(state) = {"joinCode", "name", "pinHash"} BY <1>1, AskedOfMembers DEF S!PinConfirm
  <2>2. Proper(S!Run("register", "typed")) BY <2>1, RunAsked, NeedsOf
  <2>3. Proper(ran') BY <1>0, <1>1, <2>2 DEF S!PinConfirm
  <2>4. who' \in Person
    <3>1. CASE who' = who BY <1>0, <3>1
    <3>2. CASE who' = [who EXCEPT !.joined = TRUE, !.asked = FALSE,
                                  !.agreed = "consentGiven" \in DOMAIN data]
      <4>1. ("consentGiven" \in DOMAIN data) \in BOOLEAN OBVIOUS
      <4> QED BY <1>0, <3>2, <4>1, PersonAfter
    <3> QED BY <1>1, <3>1, <3>2 DEF S!PinConfirm
  <2>5. Kept
    <3>1. PICK t \in {"literacy_optin", "optin"}, X \in SUBSET {"memberId"} : S!Stage(t, S!Only(X))
      BY <1>1 DEF S!PinConfirm, S!AskLiteracyOptIn
    <3>2. X \in SUBSET S!FlowData BY FieldNames
    <3> QED BY <3>1, <3>2, Begins, AskedOfMembers, StateNames
  <2>6. owed' = owed BY <1>1 DEF S!PinConfirm
  <2> QED BY <1>0, <2>3, <2>4, <2>5, <2>6 DEF Ran
<1>2. CASE S!OptIn
  <2>1. Kept BY <1>2, Clears, AskAgainKeeps DEF S!OptIn
  <2>2. who' \in Person BY <1>0, <1>2, PersonAfter DEF S!OptIn
  <2> QED BY <1>0, <1>2, <2>1, <2>2 DEF Ran, S!OptIn
<1>3. CASE \/ S!WithdrawPin \/ S!RepayPin \/ S!BuySharesPin \/ S!ShopPin
           \/ S!MandatePin \/ S!CancelMandatePin
  BY <1>3, PinsKeep
<1>4. CASE S!BonusPin
  <2>1. state = "bonus_pin" /\ ran' = S!NoRun /\ who' = who BY <1>4 DEF S!BonusPin
  <2>2. Kept BY <1>4, <2>1, Clears, Repeats DEF S!BonusPin
  <2>3. CASE owed' = owed BY <1>0, <2>1, <2>2, <2>3 DEF Ran
  <2>4. ASSUME NEW answer \in S!Answers, S!FlowTokenMatches(answer), owed' = S!Run("bonus", answer)
        PROVE  Proper(owed')
    <3>1. answer \in {"typed", "card"} BY <2>4 DEF S!Answers, S!FlowTokenMatches
    <3>2. Sound("bonus_pin", data) BY <2>1 DEF SessionInv
    <3>3. S!Needs["bonus"] \subseteq Fresh(data) BY <3>2, NeedsOf, AskedOfMoney DEF Sound
    <3>4. "airtime" \in DOMAIN data => "bonusPhone" \in Fresh(data) BY <3>2 DEF Sound
    <3> QED BY <2>4, <3>1, <3>3, <3>4, RunProper, NeedsOf
  <2> QED BY <1>0, <1>4, <2>1, <2>2, <2>3, <2>4 DEF Ran, S!BonusPin
<1>5. CASE S!PayBonus \/ S!CrashBeforeBonus
  <2>1. Kept /\ who' = who BY <1>5, StateKept DEF S!PayBonus, S!CrashBeforeBonus
  <2> QED BY <1>0, <1>5, <2>1 DEF Ran, S!PayBonus, S!CrashBeforeBonus
<1>6. CASE S!DeleteAccountPin
  <2>1. Kept BY <1>6, Clears DEF S!DeleteAccountPin
  <2>2. who' \in Person BY <1>0, <1>6, PersonAfter DEF S!DeleteAccountPin
  <2>3. ASSUME NEW answer \in S!Answers, S!FlowTokenMatches(answer)
        PROVE  Proper(S!Run("delete", answer))
    <3>1. answer \in {"typed", "card"} BY <2>3 DEF S!Answers, S!FlowTokenMatches
    <3> QED BY <3>1, RunAsked, NeedsOf
  <2>4. Proper(ran') BY <1>0, <1>6, <2>3 DEF S!DeleteAccountPin
  <2> QED BY <1>0, <1>6, <2>1, <2>2, <2>4 DEF Ran, S!DeleteAccountPin
<1>7. CASE S!LoanConfirm
  <2>1. state = "loan_bank_confirm" BY <1>7 DEF S!LoanConfirm
  <2>2. Proper(S!Run("loan", "typed")) BY <2>1, RunAsked, NeedsOf, AskedOfMoney
  <2>3. CASE S!IdleKeepingData BY <1>0, <1>7, <2>2, <2>3, EndsIdle DEF Ran, S!LoanConfirm, S!IdleKeepingData
  <2>4. CASE \E t \in {"guarantor_1", "guarantor_2"} : S!Stage(t, S!Only({"loanId"}))
    <3>1. Kept BY <2>4, Opens, AskedOfMoney, StateNames, FieldNames
    <3> QED BY <1>0, <1>7, <2>2, <3>1 DEF Ran, S!LoanConfirm
  <2> QED BY <1>7, <2>3, <2>4 DEF S!LoanConfirm
<1>8. ASSUME NEW s \in {"guarantor_1", "guarantor_2"}, S!Guarantor(s)
      PROVE  Ran
  <2>1. state = s BY <1>8 DEF S!Guarantor
  <2>2. Proper(S!Run("guarantor", "typed")) BY <2>1, RunAsked, NeedsOf, AskedOfMoney
  <2>3. Asked("guarantor_2") \subseteq Asked(s) BY AskedOfMoney
  <2>4. Kept BY <1>8, <2>1, <2>3, AskAgainKeeps, GoesOn, EndsIdle, StateNames DEF S!Guarantor, S!IdleKeepingData
  <2> QED BY <1>0, <1>8, <2>2, <2>4 DEF Ran, S!Guarantor
<1>9. CASE S!SavePayee
  <2>1. S!Finish("bank_confirm", "payee") /\ "payee" \in DOMAIN data BY <1>9 DEF S!SavePayee
  <2>2. Sound("bank_confirm", data) BY <2>1 DEF S!Finish, SessionInv
  <2>3. AskedFor("payee") \in Fresh(data) BY <2>1, <2>2 DEF Sound, BankStates, S!Intents
  <2>4. S!Needs["payee"] \subseteq Fresh(data)
    BY <2>2, <2>3, NeedsOf, AskedOfMoney DEF Sound, AskedFor
  <2>5. Proper(S!Run("payee", "typed")) BY <2>4, RunProper, NeedsOf
  <2> QED BY <1>0, <2>1, <2>5, Clears DEF Ran, S!Finish
<1>10. CASE S!ConfirmPolicy \/ S!OnboardPhone \/ S!DividendConfirm
  BY <1>10, FinishKeeps, NeedsOf, AskedOfMembers, AskedOfMoney
     DEF S!ConfirmPolicy, S!OnboardPhone, S!DividendConfirm
<1>11. CASE S!DeathCert
  <2>1. Proper(S!Run("certificate", "typed"))
    BY <1>11, RunAsked, NeedsOf, AskedOfMembers DEF S!DeathCert
  <2>2. Kept BY <1>11, AskAgainKeeps, EndsIdle DEF S!DeathCert, S!IdleKeepingData
  <2> QED BY <1>0, <1>11, <2>1, <2>2 DEF Ran, S!DeathCert
<1>12. CASE S!ChangePhoneOtp
  <2>1. Proper(S!Run("phonechange", "typed"))
    BY <1>12, RunAsked, NeedsOf, AskedOfMembers DEF S!ChangePhoneOtp
  <2>2. Kept BY <1>12, AskAgainKeeps, Clears DEF S!ChangePhoneOtp
  <2>3. who' \in Person BY <1>0, <1>12, PersonAfter DEF S!ChangePhoneOtp
  <2> QED BY <1>0, <1>12, <2>1, <2>2, <2>3 DEF Ran, S!ChangePhoneOtp
<1>13. CASE S!ApprovePhoneChange \/ S!RejectPhoneChange
  <2>1. Kept BY <1>13, Clears, StateKept DEF S!ApprovePhoneChange, S!RejectPhoneChange
  <2>2. who' \in Person BY <1>0, <1>13, PersonAfter DEF S!ApprovePhoneChange, S!RejectPhoneChange
  <2> QED BY <1>0, <1>13, <2>1, <2>2 DEF Ran, S!ApprovePhoneChange, S!RejectPhoneChange
<1> QED
  BY <1>1, <1>2, <1>3, <1>4, <1>5, <1>6, <1>7, <1>8, <1>9, <1>10, <1>11, <1>12, <1>13
     DEF S!Working

-----------------------------------------------------------------------------
(* Sessions: the invariant. *)

LEMMA SessionInit == Init => SessionInv
<1> SUFFICES ASSUME Init PROVE SessionInv OBVIOUS
<1>1. S!Init BY DEF Init
<1>2. channel \in {"whatsapp", "telegram"} /\ who \in Person BY <1>1 DEF S!Init, Person
<1>3. Sound("idle", S!Only({})) BY SoundOnly, AskedOfMembers, StateNames
<1> QED BY <1>1, <1>2, <1>3, NoRunProper DEF S!Init, SessionInv

LEMMA SessionNext ==
    ASSUME SessionInv, S!Next \/ UNCHANGED sessionsVars
    PROVE  SessionInv'
<1>1. CASE S!Working
  <2>1. Ran BY <1>1, WorkingKeeps
  <2>2. channel' = channel
    BY <1>1 DEF S!Working, S!PinConfirm, S!OptIn, S!WithdrawPin, S!RepayPin, S!BuySharesPin,
       S!ShopPin, S!MandatePin, S!CancelMandatePin, S!PinStep, S!BonusPin, S!PayBonus,
       S!CrashBeforeBonus, S!DeleteAccountPin, S!LoanConfirm, S!Guarantor, S!SavePayee,
       S!Finish, S!ConfirmPolicy, S!DeathCert, S!OnboardPhone, S!DividendConfirm,
       S!ChangePhoneOtp, S!ApprovePhoneChange, S!RejectPhoneChange
  <2> QED BY <2>1, <2>2 DEF SessionInv, Ran, Kept
<1>2. CASE S!Talking /\ S!Quiet
  <2>1. Kept BY <1>2, TalkingKeeps
  <2> QED BY <1>2, <2>1, NoRunProper DEF S!Quiet, SessionInv, Kept
<1>3. CASE UNCHANGED sessionsVars BY <1>3 DEF sessionsVars, SessionInv, Sound, Proper
<1> QED BY <1>1, <1>2, <1>3 DEF S!Next

\* Every operation that a chat runs, whatever the commands, the flows left, the
\* answers to old cards and the restarts before it, runs on what was asked for
\* since its own command.
THEOREM RunsOnlyAsked == Spec => []RunsOnWhatWasAsked
<1>1. SessionInv /\ [Next]_vars => SessionInv'
  <2> SUFFICES ASSUME SessionInv, [Next]_vars PROVE SessionInv' OBVIOUS
  <2>1. S!Next \/ UNCHANGED sessionsVars BY Zenon DEF Next, vars
  <2> QED BY <2>1, SessionNext
<1>2. SessionInv => RunsOnWhatWasAsked
  BY DEF SessionInv, Sound, Person, S!TypeOK, RunsOnWhatWasAsked, S!RunsOnWhatWasAsked, Proper
<1> QED BY SessionInit, <1>1, <1>2, PTL DEF Spec

-----------------------------------------------------------------------------
(* The federation: who holds what of a loan, and both books of it. *)

Coops == Buyers \cup Others
CoopRow == [reserve : Nat, allocated : Nat, fund : Nat, receivable : Int, payable : Int, repairs : Nat]
PositionRow == [stake : Int, owed : Int]
\* A loan that is not paid out has no repayment; one that is open, no charge.
FederationLoan ==
    {r \in [status : {"none", "pending", "active", "repaid", "defaulted"}, by : Coops \cup {NoOne},
            lender : Coops \cup {NoOne}, principal : Nat, repaid : Nat, out : Nat, charges : Nat,
            interest : Nat] :
        /\ r.out \in {0, r.principal}
        /\ r.status \in {"active", "repaid"} => r.out = r.principal
        /\ r.repaid > 0 => r.out > 0
        /\ r.status = "repaid" => r.repaid >= r.principal
        /\ r.charges <= 1
        /\ r.charges = 1 => r.repaid >= r.principal
        /\ r.status \in {"none", "pending", "active"} => r.charges = 0
        /\ r.status \in {"none", "pending"} => r.out = 0
        /\ r.status = "none" => r.interest = 0
        /\ r.status # "none" => r.by \in Coops /\ r.principal > 0}
TreasurerRow == [pc : {"idle", "allocate", "borrow", "approve", "repay"}, by : Coops \cup {NoOne},
                 lender : Coops \cup {NoOne}, loan : One \cup {NoRow}, amount : Nat]

FederationTypes ==
    /\ coop \in [Coops -> CoopRow] /\ ledger \in [Coops -> PositionRow] /\ pool \in Int
    /\ lent \in [One -> FederationLoan] /\ treasurer \in [Hands -> TreasurerRow]

\* What a handler in the middle of its work can rely on.
TreasurerKnows(h) ==
    /\ treasurer[h].pc # "idle" => treasurer[h].by \in Coops
    /\ treasurer[h].pc \in {"borrow", "repay"} => treasurer[h].amount > 0
    /\ treasurer[h].pc = "approve" =>
          /\ treasurer[h].loan \in One
          /\ lent[treasurer[h].loan].status = "pending"
          /\ lent[treasurer[h].loan].by = treasurer[h].by
          /\ lent[treasurer[h].loan].principal = treasurer[h].amount
    /\ treasurer[h].pc = "repay" =>
          /\ treasurer[h].loan \in One
          /\ lent[treasurer[h].loan].status \in {"active", "repaid", "defaulted"}
          /\ lent[treasurer[h].loan].by = treasurer[h].by
          /\ lent[treasurer[h].loan].out > 0

\* An approval holds the row of its loan.
ApprovesAlone ==
    \A h, k \in Hands : /\ treasurer[h].pc = "approve" /\ treasurer[k].pc = "approve"
                        /\ treasurer[h].loan = treasurer[k].loan
                        => h = k

Charged(r, c) == IF r.by = c THEN r.interest ELSE 0
InterestOf(c) == [l \in One |-> Charged(lent[l], c)]
BothBooks(c) ==
    /\ ledger[c].stake = coop[c].receivable
    /\ ledger[c].owed = coop[c].payable + SumFunctionOnSet(InterestOf(c), One)

FederationInv ==
    /\ FederationTypes
    /\ \A h \in Hands : TreasurerKnows(h)
    /\ ApprovesAlone
    /\ \A c \in Buyers \ Others : BothBooks(c)

LEMMA FederationSets == IsFiniteSet(One) /\ NoRow \notin One /\ NoOne \notin Coops
BY FrontdeskAssumption DEF Coops

LEMMA InBase ==
    ASSUME NEW c \in Coops, NEW a \in Nat
    PROVE  F!Base(c, a) \in Nat /\ (c \notin Others => F!Base(c, a) = a)
<1>1. 2 * a + 3 \in Nat OBVIOUS
<1>2. \A x \in Nat : x \div (2 * 3) \in Nat OBVIOUS
<1>3. (2 * a + 3) \div (2 * 3) \in Nat BY <1>1, <1>2
<1> QED BY <1>3 DEF F!Base

LEMMA LesserOfTwo ==
    ASSUME NEW a \in Int, NEW b \in Int
    PROVE  F!Min({a, b}) \in {a, b} /\ F!Min({a, b}) <= a /\ F!Min({a, b}) <= b
<1>1. \E x \in {a, b} : \A y \in {a, b} : x <= y OBVIOUS
<1>2. F!Min({a, b}) \in {a, b} /\ \A y \in {a, b} : F!Min({a, b}) <= y BY <1>1 DEF F!Min
<1> QED BY <1>2

LEMMA InterestInt ==
    ASSUME FederationInv, NEW c \in Coops
    PROVE  SumFunctionOnSet(InterestOf(c), One) \in Int
<1> DEFINE f == InterestOf(c)
<1>1. \A l \in One : f[l] \in Int BY DEF FederationInv, FederationTypes, FederationLoan, InterestOf, Charged
<1> HIDE DEF f
<1>2. SumFunctionOnSet(f, One) \in Int BY <1>1, FederationSets, SumInt
<1> QED BY <1>2 DEF f

LEMMA FederationStart == F!Init => FederationInv
<1> SUFFICES ASSUME F!Init PROVE FederationInv OBVIOUS
<1> USE DEF F!Init
<1>1. F!Idle \in TreasurerRow /\ F!Idle.pc = "idle" BY DEF F!Idle, TreasurerRow
<1>2. F!NoLoanYet \in FederationLoan /\ F!NoLoanYet.interest = 0 BY DEF F!NoLoanYet, FederationLoan
<1>3. \A c \in Coops : /\ coop[c] \in CoopRow /\ coop[c].receivable = 0 /\ coop[c].payable = 0
                       /\ ledger[c] \in PositionRow /\ ledger[c].stake = 0 /\ ledger[c].owed = 0
  BY DEF Coops, CoopRow, PositionRow
<1>4. coop \in [Coops -> CoopRow] /\ ledger \in [Coops -> PositionRow] BY <1>3 DEF Coops
<1>5. FederationTypes
  <2>1. lent \in [One -> FederationLoan] BY <1>2
  <2>2. treasurer \in [Hands -> TreasurerRow] BY <1>1
  <2>3. pool \in Int OBVIOUS
  <2> QED BY <1>4, <2>1, <2>2, <2>3 DEF FederationTypes
<1>6. ASSUME NEW c \in Buyers \ Others PROVE BothBooks(c)
  <2> DEFINE f == InterestOf(c)
  <2>1. \A l \in One : f[l] \in Int /\ f[l] = 0 BY <1>2 DEF InterestOf, Charged
  <2>2. {} \in SUBSET One OBVIOUS
  <2> HIDE DEF f
  <2>3. SumFunctionOnSet(f, One) = 0 BY <2>1, <2>2, FederationSets, SumSupport, SumEmpty
  <2>4. c \in Coops BY DEF Coops
  <2> QED BY <1>3, <2>3, <2>4 DEF BothBooks, f
<1> QED BY <1>1, <1>5, <1>6 DEF FederationInv, TreasurerKnows, ApprovesAlone

\* One loan's row moves.
LEMMA LoanInterestMoves ==
    ASSUME FederationInv, NEW l \in One, NEW row \in FederationLoan, lent' = [lent EXCEPT ![l] = row],
           NEW c \in Coops
    PROVE  SumFunctionOnSet(InterestOf(c)', One)
             = (SumFunctionOnSet(InterestOf(c), One) - Charged(lent[l], c)) + Charged(row, c)
<1>0. lent \in [One -> FederationLoan] BY DEF FederationInv, FederationTypes
<1>1. \A r \in FederationLoan : Charged(r, c) \in Int BY DEF FederationLoan, Charged
<1>2. /\ \A y \in One : lent[y] \in FederationLoan /\ lent'[y] \in FederationLoan /\ (y # l => lent'[y] = lent[y])
      /\ lent'[l] = row
  BY <1>0
<1>3. Shifts(InterestOf(c), InterestOf(c)', One, l, Charged(lent[l], c), Charged(row, c))
  <2> DEFINE f == [y \in One |-> Charged(lent[y], c)]
             g == [y \in One |-> Charged(lent'[y], c)]
  <2>1. /\ \A y \in One : f[y] \in Int /\ g[y] \in Int /\ (y # l => g[y] = f[y])
        /\ f[l] = Charged(lent[l], c) /\ g[l] = Charged(row, c)
    BY <1>1, <1>2
  <2>2. InterestOf(c) = f /\ InterestOf(c)' = g BY DEF InterestOf, Charged
  <2> HIDE DEF f, g
  <2> QED BY <2>1, <2>2 DEF Shifts
<1> QED BY ONLY <1>3, SumShift, FederationSets

LEMMA InterestKept == ASSUME UNCHANGED lent, NEW c PROVE InterestOf(c)' = InterestOf(c)
BY DEF InterestOf, Charged

\* A handler that is done relies on nothing, the others on what has not moved.
LEMMA TreasurersKept ==
    ASSUME FederationInv, NEW h \in Hands, F!Done(h),
           \A k \in Hands : k # h /\ treasurer[k].pc \in {"approve", "repay"} =>
               lent'[treasurer[k].loan] = lent[treasurer[k].loan]
    PROVE  /\ treasurer' \in [Hands -> TreasurerRow]
           /\ \A k \in Hands : TreasurerKnows(k)'
           /\ ApprovesAlone'
<1>1. F!Idle \in TreasurerRow /\ F!Idle.pc = "idle" BY DEF F!Idle, TreasurerRow
<1>2. /\ treasurer' \in [Hands -> TreasurerRow] /\ treasurer'[h].pc = "idle"
      /\ \A k \in Hands : k # h => treasurer'[k] = treasurer[k]
  BY <1>1 DEF FederationInv, FederationTypes, F!Done
<1>3. \A k \in Hands : TreasurerKnows(k)'
  <2>1. TreasurerKnows(h)' BY <1>2 DEF TreasurerKnows
  <2>2. ASSUME NEW k \in Hands, k # h PROVE TreasurerKnows(k)'
    BY <1>2, <2>2 DEF FederationInv, TreasurerKnows
  <2> QED BY <2>1, <2>2
<1>4. ApprovesAlone' BY <1>2 DEF FederationInv, ApprovesAlone
<1> QED BY <1>2, <1>3, <1>4

LEMMA TreasurersStay ==
    ASSUME FederationInv, UNCHANGED <<lent, treasurer>>
    PROVE  (\A k \in Hands : TreasurerKnows(k)') /\ ApprovesAlone'
BY DEF FederationInv, TreasurerKnows, ApprovesAlone

LEMMA TreasurerTakes ==
    ASSUME FederationInv, NEW h \in Hands, NEW pc \in {"allocate", "borrow", "approve", "repay"},
           NEW c \in Coops, NEW k \in Coops \cup {NoOne}, NEW l \in One \cup {NoRow}, NEW a \in Nat,
           F!Take(h, pc, c, k, l, a),
           pc \in {"borrow", "repay"} => a > 0,
           pc = "approve" => /\ l \in One /\ lent[l].status = "pending" /\ lent[l].by = c
                             /\ lent[l].principal = a /\ ~F!RowLocked(l),
           pc = "repay" => l \in One /\ lent[l].status = "active" /\ lent[l].by = c /\ lent[l].out > 0
    PROVE  FederationInv'
<1> USE DEF F!Take
<1> DEFINE row == [pc |-> pc, by |-> c, lender |-> k, loan |-> l, amount |-> a]
<1>1. /\ row \in TreasurerRow /\ row.pc = pc /\ row.by = c /\ row.loan = l /\ row.amount = a
  BY DEF TreasurerRow
<1>2. treasurer' = [treasurer EXCEPT ![h] = row] OBVIOUS
<1> HIDE DEF row
<1>3. /\ treasurer' \in [Hands -> TreasurerRow] /\ treasurer'[h] = row
      /\ \A x \in Hands : x # h => treasurer'[x] = treasurer[x]
  BY <1>1, <1>2 DEF FederationInv, FederationTypes
<1>4. \A x \in Hands : TreasurerKnows(x)'
  <2>1. TreasurerKnows(h)' BY <1>1, <1>3 DEF TreasurerKnows
  <2>2. ASSUME NEW x \in Hands, x # h PROVE TreasurerKnows(x)'
    BY <1>3, <2>2 DEF FederationInv, TreasurerKnows
  <2> QED BY <2>1, <2>2
<1>5. ApprovesAlone'
  <2>1. pc = "approve" => \A x \in Hands : ~(treasurer[x].pc = "approve" /\ treasurer[x].loan = l)
    BY DEF F!RowLocked
  <2> QED BY <1>1, <1>3, <2>1 DEF FederationInv, ApprovesAlone
<1>6. FederationTypes' BY <1>3 DEF FederationInv, FederationTypes
<1>7. \A x \in Buyers \ Others : BothBooks(x)' BY InterestKept DEF FederationInv, BothBooks
<1> QED BY <1>4, <1>5, <1>6, <1>7 DEF FederationInv

\* A cooperative's own books move, and its ledger entry as much.
LEMMA CoopMoves ==
    ASSUME FederationInv, NEW c \in Coops, NEW row \in CoopRow, coop' = [coop EXCEPT ![c] = row],
           NEW pos \in PositionRow, ledger' = [ledger EXCEPT ![c] = pos], pool' \in Int,
           UNCHANGED lent,
           c \notin Others => /\ pos.stake - ledger[c].stake = row.receivable - coop[c].receivable
                              /\ pos.owed - ledger[c].owed = row.payable - coop[c].payable,
           treasurer' \in [Hands -> TreasurerRow], \A h \in Hands : TreasurerKnows(h)', ApprovesAlone'
    PROVE  FederationInv'
<1>0. /\ coop \in [Coops -> CoopRow] /\ ledger \in [Coops -> PositionRow]
      /\ lent \in [One -> FederationLoan]
  BY DEF FederationInv, FederationTypes
<1>1. /\ coop' \in [Coops -> CoopRow] /\ coop'[c] = row /\ \A x \in Coops : x # c => coop'[x] = coop[x]
      /\ ledger' \in [Coops -> PositionRow] /\ ledger'[c] = pos
      /\ \A x \in Coops : x # c => ledger'[x] = ledger[x]
  BY <1>0
<1>2. FederationTypes' BY <1>0, <1>1 DEF FederationTypes
<1>3. ASSUME NEW x \in Buyers \ Others PROVE BothBooks(x)'
  <2>0. x \in Coops /\ BothBooks(x) BY DEF Coops, FederationInv
  <2>1. InterestOf(x)' = InterestOf(x) BY InterestKept
  <2>2. SumFunctionOnSet(InterestOf(x), One) \in Int BY <2>0, InterestInt
  <2>3. CASE x # c BY <1>1, <2>0, <2>1, <2>3 DEF BothBooks
  <2>4. CASE x = c
    <3>1. /\ coop[c].receivable \in Int /\ coop[c].payable \in Int /\ row.receivable \in Int /\ row.payable \in Int
          /\ ledger[c].stake \in Int /\ ledger[c].owed \in Int /\ pos.stake \in Int /\ pos.owed \in Int
      BY <1>0 DEF CoopRow, PositionRow
    <3>2. /\ pos.stake - ledger[c].stake = row.receivable - coop[c].receivable
          /\ pos.owed - ledger[c].owed = row.payable - coop[c].payable
      BY <2>4
    <3>3. /\ ledger[c].stake = coop[c].receivable
          /\ ledger[c].owed = coop[c].payable + SumFunctionOnSet(InterestOf(x), One)
      BY <2>0, <2>4 DEF BothBooks
    <3>4. /\ pos.stake = row.receivable
          /\ pos.owed = row.payable + SumFunctionOnSet(InterestOf(x), One)
      BY ONLY <2>2, <3>1, <3>2, <3>3
    <3> QED BY <1>1, <2>1, <2>4, <3>4 DEF BothBooks
  <2> QED BY <2>3, <2>4
<1> QED BY <1>2, <1>3 DEF FederationInv

LEMMA FederationRows ==
    ASSUME FederationInv, NEW c \in Coops
    PROVE  /\ coop \in [Coops -> CoopRow] /\ ledger \in [Coops -> PositionRow] /\ pool \in Int
           /\ coop[c] \in CoopRow /\ ledger[c] \in PositionRow
           /\ coop[c].reserve \in Nat /\ coop[c].allocated \in Nat /\ coop[c].fund \in Nat
           /\ coop[c].receivable \in Int /\ coop[c].payable \in Int /\ coop[c].repairs \in Nat
           /\ ledger[c].stake \in Int /\ ledger[c].owed \in Int
           /\ ledger = [ledger EXCEPT ![c] = ledger[c]]
BY DEF FederationInv, FederationTypes, CoopRow, PositionRow

LEMMA Funded == ASSUME FederationInv, NEW c \in Coops, NEW a \in 1..2, F!FundFederation(c, a) PROVE FederationInv'
<1> USE DEF F!FundFederation
<1> DEFINE row == [coop[c] EXCEPT !.reserve = coop[c].reserve - a, !.fund = coop[c].fund + a]
<1>1. coop[c].reserve - a \in Nat /\ coop[c].fund + a \in Nat BY FederationRows
<1>2. /\ row \in CoopRow /\ row.receivable = coop[c].receivable /\ row.payable = coop[c].payable
  BY <1>1, FederationRows DEF CoopRow
<1>3. coop' = [coop EXCEPT ![c] = row] BY FederationRows
<1> HIDE DEF row
<1>4. ledger' = [ledger EXCEPT ![c] = ledger[c]] /\ pool' \in Int /\ ledger[c] \in PositionRow
  BY FederationRows
<1>5. treasurer' \in [Hands -> TreasurerRow] BY DEF FederationInv, FederationTypes
<1>6. /\ ledger[c].stake - ledger[c].stake = row.receivable - coop[c].receivable
      /\ ledger[c].owed - ledger[c].owed = row.payable - coop[c].payable
  BY <1>2, FederationRows
<1> QED BY <1>2, <1>3, <1>4, <1>5, <1>6, TreasurersStay, CoopMoves

LEMMA AllocationIsRead == ASSUME FederationInv, NEW h \in Hands, NEW c \in Coops, F!AllocateRead(h, c) PROVE FederationInv'
<1> USE DEF F!AllocateRead
<1>1. PICK a \in Nat : a = coop[c].reserve + 1 BY FederationRows
<1>2. F!Take(h, "allocate", c, NoOne, NoRow, a) BY <1>1
<1> QED BY <1>2, TreasurerTakes

LEMMA Allocated == ASSUME FederationInv, NEW h \in Hands, F!AllocateReserve(h) PROVE FederationInv'
<1> USE DEF F!AllocateReserve
<1>0. PICK c \in Coops : treasurer[h].by = c BY DEF FederationInv, TreasurerKnows
<1>a. PICK a \in Nat : treasurer[h].amount = a BY DEF FederationInv, FederationTypes, TreasurerRow
<1> DEFINE row == [coop[c] EXCEPT !.reserve = a, !.allocated = coop[c].allocated + 1]
<1>1. coop[c].allocated + 1 \in Nat BY FederationRows
<1>2. /\ row \in CoopRow /\ row.receivable = coop[c].receivable /\ row.payable = coop[c].payable
  BY <1>1, FederationRows DEF CoopRow
<1>3. coop' = [coop EXCEPT ![c] = row] BY <1>0, <1>a, FederationRows
<1> HIDE DEF row
<1>4. ledger' = [ledger EXCEPT ![c] = ledger[c]] /\ pool' \in Int /\ ledger[c] \in PositionRow
  BY FederationRows
<1>6. /\ ledger[c].stake - ledger[c].stake = row.receivable - coop[c].receivable
      /\ ledger[c].owed - ledger[c].owed = row.payable - coop[c].payable
  BY <1>2, FederationRows
<1>5. /\ treasurer' \in [Hands -> TreasurerRow] /\ (\A k \in Hands : TreasurerKnows(k)') /\ ApprovesAlone'
  <2>1. F!Done(h) /\ UNCHANGED lent OBVIOUS
  <2> QED BY ONLY FederationInv, h \in Hands, <2>1, TreasurersKept
<1>7. UNCHANGED lent OBVIOUS
<1> QED BY ONLY FederationInv, c \in Coops, <1>2, <1>3, <1>4, <1>5, <1>6, <1>7, CoopMoves

LEMMA BalancesRepaired == ASSUME FederationInv, NEW c \in Coops, F!GetFundBalances(c) PROVE FederationInv'
<1> USE DEF F!GetFundBalances
<1> DEFINE row == [coop[c] EXCEPT !.reserve = coop[c].allocated, !.repairs = coop[c].repairs + 1]
<1>1. coop[c].repairs + 1 \in Nat BY FederationRows
<1>2. /\ row \in CoopRow /\ row.receivable = coop[c].receivable /\ row.payable = coop[c].payable
  BY <1>1, FederationRows DEF CoopRow
<1>3. coop' = [coop EXCEPT ![c] = row] BY FederationRows
<1> HIDE DEF row
<1>4. ledger' = [ledger EXCEPT ![c] = ledger[c]] /\ pool' \in Int /\ ledger[c] \in PositionRow
  BY FederationRows
<1>5. treasurer' \in [Hands -> TreasurerRow] BY DEF FederationInv, FederationTypes
<1>6. /\ ledger[c].stake - ledger[c].stake = row.receivable - coop[c].receivable
      /\ ledger[c].owed - ledger[c].owed = row.payable - coop[c].payable
  BY <1>2, FederationRows
<1> QED BY <1>2, <1>3, <1>4, <1>5, <1>6, TreasurersStay, CoopMoves

LEMMA Contributed == ASSUME FederationInv, NEW c \in Coops, NEW a \in 1..2, F!Contribute(c, a) PROVE FederationInv'
<1> USE DEF F!Contribute
<1>b. PICK b \in Nat : b = F!Base(c, a) /\ (c \notin Others => b = a) BY InBase
<1> DEFINE row == [coop[c] EXCEPT !.fund = coop[c].fund - a, !.receivable = coop[c].receivable + a]
           pos == [ledger[c] EXCEPT !.stake = ledger[c].stake + b]
<1>1. coop[c].fund - a \in Nat /\ coop[c].receivable + a \in Int /\ ledger[c].stake + b \in Int BY FederationRows
<1>2. /\ row \in CoopRow /\ row.receivable = coop[c].receivable + a /\ row.payable = coop[c].payable
      /\ pos \in PositionRow /\ pos.stake = ledger[c].stake + b /\ pos.owed = ledger[c].owed
  BY <1>1, FederationRows DEF CoopRow, PositionRow
<1>3. coop' = [coop EXCEPT ![c] = row] BY FederationRows
<1>4. ledger' = [ledger EXCEPT ![c] = pos] /\ pool' \in Int BY <1>b, FederationRows
<1> HIDE DEF row, pos
<1>5. treasurer' \in [Hands -> TreasurerRow] BY DEF FederationInv, FederationTypes
<1>6. c \notin Others => /\ pos.stake - ledger[c].stake = row.receivable - coop[c].receivable
                         /\ pos.owed - ledger[c].owed = row.payable - coop[c].payable
  BY <1>b, <1>2, FederationRows
<1>7. UNCHANGED <<lent, treasurer>> OBVIOUS
<1> QED BY ONLY FederationInv, c \in Coops, <1>2, <1>3, <1>4, <1>5, <1>6, <1>7, TreasurersStay, CoopMoves

-----------------------------------------------------------------------------
(* Loans *)

LEMMA BorrowIsRead ==
    ASSUME FederationInv, NEW h \in Hands, NEW c \in Coops, NEW k \in Coops \cup {NoOne}, NEW a \in 1..2,
           F!BorrowRead(h, c, k, a)
    PROVE  FederationInv'
<1>1. F!Take(h, "borrow", c, k, NoRow, a) /\ a \in Nat /\ a > 0 BY DEF F!BorrowRead
<1> QED BY <1>1, TreasurerTakes

LEMMA ApprovalIsRead == ASSUME FederationInv, NEW h \in Hands, NEW l \in One, F!ApproveRead(h, l) PROVE FederationInv'
<1> USE DEF F!ApproveRead
<1>1. lent[l].status = "pending" /\ ~F!RowLocked(l) /\ lent[l] \in FederationLoan
  BY DEF F!Approvable, FederationInv, FederationTypes
<1>2. PICK c \in Coops : lent[l].by = c BY <1>1 DEF FederationLoan
<1>3. PICK a \in Nat : lent[l].principal = a BY <1>1 DEF FederationLoan
<1>4. F!Take(h, "approve", c, NoOne, l, a) BY <1>2, <1>3
<1> QED BY <1>1, <1>2, <1>3, <1>4, TreasurerTakes

LEMMA RepaymentIsRead ==
    ASSUME FederationInv, NEW h \in Hands, NEW l \in One, NEW a \in 1..2, F!RepayRead(h, l, a)
    PROVE  FederationInv'
<1> USE DEF F!RepayRead
<1>1. lent[l].status = "active" /\ lent[l] \in FederationLoan BY DEF FederationInv, FederationTypes
<1>2. PICK c \in Coops : lent[l].by = c BY <1>1 DEF FederationLoan
<1>3. lent[l].out > 0 BY <1>1 DEF FederationLoan
<1>4. F!Take(h, "repay", c, NoOne, l, a) /\ a \in Nat /\ a > 0 BY <1>2
<1> QED BY <1>1, <1>2, <1>3, <1>4, TreasurerTakes

\* A handler ends with nothing of it.
LEMMA TreasurerGivesUp ==
    ASSUME FederationInv, NEW h \in Hands, F!Done(h), UNCHANGED <<coop, ledger, pool, lent>>
    PROVE  FederationInv'
<1>1. /\ treasurer' \in [Hands -> TreasurerRow] /\ (\A k \in Hands : TreasurerKnows(k)') /\ ApprovesAlone'
  BY TreasurersKept
<1>2. FederationTypes' BY <1>1 DEF FederationInv, FederationTypes
<1>3. \A x \in Buyers \ Others : BothBooks(x)' BY InterestKept DEF FederationInv, BothBooks
<1> QED BY <1>1, <1>2, <1>3 DEF FederationInv

LEMMA TransferRolledBack == ASSUME FederationInv, NEW h \in Hands, F!RollBack(h) PROVE FederationInv'
BY TreasurerGivesUp DEF F!RollBack

\* A loan's row moves, with no interest and none of the books.
LEMMA LoanRowMoves ==
    ASSUME FederationInv, NEW l \in One, NEW row \in FederationLoan, lent' = [lent EXCEPT ![l] = row],
           UNCHANGED <<coop, ledger, pool>>,
           \A c \in Coops : Charged(row, c) = Charged(lent[l], c),
           treasurer' \in [Hands -> TreasurerRow], \A h \in Hands : TreasurerKnows(h)', ApprovesAlone'
    PROVE  FederationInv'
<1>0. lent \in [One -> FederationLoan] BY DEF FederationInv, FederationTypes
<1>1. FederationTypes' BY <1>0 DEF FederationInv, FederationTypes
<1>2. ASSUME NEW c \in Buyers \ Others PROVE BothBooks(c)'
  <2>0. c \in Coops /\ BothBooks(c) BY DEF Coops, FederationInv
  <2>1. SumFunctionOnSet(InterestOf(c)', One)
          = (SumFunctionOnSet(InterestOf(c), One) - Charged(lent[l], c)) + Charged(row, c)
    BY <2>0, LoanInterestMoves
  <2>2. Charged(row, c) \in Int /\ Charged(row, c) = Charged(lent[l], c) BY <2>0 DEF FederationLoan, Charged
  <2>3. SumFunctionOnSet(InterestOf(c), One) \in Int BY <2>0, InterestInt
  <2>4. SumFunctionOnSet(InterestOf(c)', One) = SumFunctionOnSet(InterestOf(c), One)
    BY ONLY <2>1, <2>2, <2>3
  <2> QED BY <2>0, <2>4 DEF BothBooks
<1> QED BY <1>1, <1>2 DEF FederationInv

LEMMA Borrows == ASSUME FederationInv, NEW h \in Hands, NEW l \in One, F!Borrow(h, l) PROVE FederationInv'
<1> USE DEF F!Borrow
<1>0. /\ lent \in [One -> FederationLoan] /\ lent[l] \in FederationLoan /\ lent[l].status = "none"
      /\ treasurer[h] \in TreasurerRow
  BY DEF FederationInv, FederationTypes
<1>1. PICK c \in Coops : treasurer[h].by = c BY DEF FederationInv, TreasurerKnows
<1>2. PICK a \in Nat : treasurer[h].amount = a /\ a > 0 BY <1>0 DEF TreasurerRow, FederationInv, TreasurerKnows
<1>3. CASE F!Base(c, a) > pool
  <2>1. UNCHANGED <<coop, ledger, pool, lent>> BY <1>1, <1>2, <1>3
  <2> QED BY <2>1, TreasurerGivesUp
<1>4. CASE ~(F!Base(c, a) > pool)
  <2> DEFINE row == [F!NoLoanYet EXCEPT !.status = "pending", !.by = c, !.lender = treasurer[h].lender,
                                        !.principal = a]
  <2>a. treasurer[h].lender \in Coops \cup {NoOne} BY <1>0 DEF TreasurerRow
  <2>b. /\ F!NoLoanYet.repaid = 0 /\ F!NoLoanYet.out = 0 /\ F!NoLoanYet.charges = 0
        /\ F!NoLoanYet.interest = 0
    BY DEF F!NoLoanYet
  <2>c. /\ row.status = "pending" /\ row.by = c /\ row.principal = a /\ row.out = 0 /\ row.repaid = 0
        /\ row.charges = 0 /\ row.interest = 0
    BY DEF F!NoLoanYet
  <2>d. row \in [status : {"none", "pending", "active", "repaid", "defaulted"}, by : Coops \cup {NoOne},
                 lender : Coops \cup {NoOne}, principal : Nat, repaid : Nat, out : Nat, charges : Nat,
                 interest : Nat]
    BY <1>2, <2>a DEF F!NoLoanYet
  <2>e. lent[l].interest = 0 BY <1>0 DEF FederationLoan
  <2>1. row \in FederationLoan /\ row.interest = 0 /\ lent[l].interest = 0
    <3> HIDE DEF row
    <3> QED BY <1>2, <2>c, <2>d, <2>e DEF FederationLoan
  <2>2. lent' = [lent EXCEPT ![l] = row] BY <1>1, <1>2, <1>4
  <2> HIDE DEF row
  <2>3. \A x \in Coops : Charged(row, x) = Charged(lent[l], x) BY <2>1 DEF Charged
  <2>4. \A k \in Hands : treasurer[k].pc \in {"approve", "repay"} => treasurer[k].loan # l
    BY <1>0 DEF FederationInv, TreasurerKnows
  <2>5. \A k \in Hands : k # h /\ treasurer[k].pc \in {"approve", "repay"} =>
                            lent'[treasurer[k].loan] = lent[treasurer[k].loan]
    BY <1>0, <2>2, <2>4 DEF FederationInv, TreasurerKnows
  <2>6. /\ treasurer' \in [Hands -> TreasurerRow] /\ (\A k \in Hands : TreasurerKnows(k)') /\ ApprovesAlone'
    BY <2>5, TreasurersKept
  <2>7. UNCHANGED <<coop, ledger, pool>> OBVIOUS
  <2> QED BY ONLY FederationInv, l \in One, <2>1, <2>2, <2>3, <2>6, <2>7, LoanRowMoves
<1> QED BY <1>3, <1>4

LEMMA Defaults == ASSUME FederationInv, NEW l \in One, F!MarkDefaulted(l) PROVE FederationInv'
<1> USE DEF F!MarkDefaulted
<1>0. lent \in [One -> FederationLoan] /\ lent[l] \in FederationLoan /\ lent[l].status # "none"
  BY DEF FederationInv, FederationTypes
<1> DEFINE row == [lent[l] EXCEPT !.status = "defaulted"]
<1>1. /\ row \in FederationLoan /\ row.interest = lent[l].interest /\ row.by = lent[l].by
      /\ row.status = "defaulted" /\ row.out = lent[l].out
  BY <1>0 DEF FederationLoan
<1>2. lent' = [lent EXCEPT ![l] = row] BY <1>0
<1> HIDE DEF row
<1>3. \A x \in Coops : Charged(row, x) = Charged(lent[l], x) BY <1>1 DEF Charged
<1>4. lent'[l] = row /\ \A x \in One : x # l => lent'[x] = lent[x] BY <1>0, <1>2
<1>5. \A k \in Hands : TreasurerKnows(k)'
  <2> SUFFICES ASSUME NEW k \in Hands PROVE TreasurerKnows(k)' OBVIOUS
  <2>1. treasurer[k].pc = "approve" => treasurer[k].loan # l BY DEF F!RowLocked
  <2> QED BY <1>1, <1>4, <2>1 DEF FederationInv, TreasurerKnows
<1>6. treasurer' \in [Hands -> TreasurerRow] /\ ApprovesAlone'
  BY DEF FederationInv, FederationTypes, ApprovesAlone
<1>7. UNCHANGED <<coop, ledger, pool>> OBVIOUS
<1> QED BY ONLY FederationInv, l \in One, <1>1, <1>2, <1>3, <1>5, <1>6, <1>7, LoanRowMoves

\* A loan's row moves with the books of its cooperative.
LEMMA LoanMoves ==
    ASSUME FederationInv, NEW l \in One, NEW lrow \in FederationLoan, lent' = [lent EXCEPT ![l] = lrow],
           NEW c \in Coops, lent[l].by = c, lrow.by = c,
           NEW row \in CoopRow, coop' = [coop EXCEPT ![c] = row],
           NEW pos \in PositionRow, ledger' = [ledger EXCEPT ![c] = pos], pool' \in Int,
           c \notin Others => /\ pos.stake = ledger[c].stake /\ row.receivable = coop[c].receivable
                              /\ pos.owed - ledger[c].owed
                                   = (row.payable - coop[c].payable) + (lrow.interest - lent[l].interest),
           treasurer' \in [Hands -> TreasurerRow], \A h \in Hands : TreasurerKnows(h)', ApprovesAlone'
    PROVE  FederationInv'
<1>0. /\ coop \in [Coops -> CoopRow] /\ ledger \in [Coops -> PositionRow]
      /\ lent \in [One -> FederationLoan] /\ lent[l] \in FederationLoan
  BY DEF FederationInv, FederationTypes
<1>1. /\ coop' \in [Coops -> CoopRow] /\ coop'[c] = row /\ \A x \in Coops : x # c => coop'[x] = coop[x]
      /\ ledger' \in [Coops -> PositionRow] /\ ledger'[c] = pos
      /\ \A x \in Coops : x # c => ledger'[x] = ledger[x]
      /\ lent' \in [One -> FederationLoan]
  BY <1>0
<1>2. FederationTypes' BY <1>1 DEF FederationTypes
<1>3. ASSUME NEW x \in Buyers \ Others PROVE BothBooks(x)'
  <2>0. x \in Coops /\ BothBooks(x) BY DEF Coops, FederationInv
  <2>1. SumFunctionOnSet(InterestOf(x)', One)
          = (SumFunctionOnSet(InterestOf(x), One) - Charged(lent[l], x)) + Charged(lrow, x)
    BY <2>0, LoanInterestMoves
  <2>2. SumFunctionOnSet(InterestOf(x), One) \in Int BY <2>0, InterestInt
  <2>i. lent[l].interest \in Int /\ lrow.interest \in Int BY <1>0 DEF FederationLoan
  <2>3. CASE x # c
    <3>1. Charged(lent[l], x) = 0 /\ Charged(lrow, x) = 0 BY <2>3 DEF Charged
    <3>2. SumFunctionOnSet(InterestOf(x)', One) = SumFunctionOnSet(InterestOf(x), One)
      BY ONLY <2>1, <2>2, <3>1
    <3> QED BY <1>1, <2>0, <2>3, <3>2 DEF BothBooks
  <2>4. CASE x = c
    <3>0. Charged(lent[l], x) = lent[l].interest /\ Charged(lrow, x) = lrow.interest BY <2>4 DEF Charged
    <3>1. /\ coop[c].payable \in Int /\ row.payable \in Int
          /\ ledger[c].owed \in Int /\ pos.owed \in Int
      BY <1>0 DEF CoopRow, PositionRow
    <3>2. /\ pos.stake = ledger[c].stake /\ row.receivable = coop[c].receivable
          /\ pos.owed - ledger[c].owed
               = (row.payable - coop[c].payable) + (lrow.interest - lent[l].interest)
      BY <2>4
    <3>3. /\ ledger[c].stake = coop[c].receivable
          /\ ledger[c].owed = coop[c].payable + SumFunctionOnSet(InterestOf(x), One)
      BY <2>0, <2>4 DEF BothBooks
    <3>4. pos.stake = row.receivable BY <3>2, <3>3
    <3>5. pos.owed = row.payable + SumFunctionOnSet(InterestOf(x)', One)
      <4>1. SumFunctionOnSet(InterestOf(x)', One)
              = (SumFunctionOnSet(InterestOf(x), One) - lent[l].interest) + lrow.interest
        BY ONLY <2>1, <3>0
      <4>2. ledger[c].owed = coop[c].payable + SumFunctionOnSet(InterestOf(x), One) BY <3>3
      <4>3. pos.owed - ledger[c].owed
              = (row.payable - coop[c].payable) + (lrow.interest - lent[l].interest)
        BY <3>2
      <4>4. PICK s, a, b, p, q, o, r \in Int :
              /\ s = SumFunctionOnSet(InterestOf(x), One) /\ a = lent[l].interest /\ b = lrow.interest
              /\ p = coop[c].payable /\ q = row.payable /\ o = ledger[c].owed /\ r = pos.owed
        BY ONLY <2>2, <2>i, <3>1
      <4>5. PICK t : t = SumFunctionOnSet(InterestOf(x)', One) OBVIOUS
      <4>6. t = (s - a) + b /\ o = p + s /\ r - o = (q - p) + (b - a)
        BY ONLY <4>1, <4>2, <4>3, <4>4, <4>5
      <4>7. r = q + t BY ONLY <4>6, s \in Int, a \in Int, b \in Int, p \in Int, q \in Int, o \in Int, r \in Int
      <4> QED BY ONLY <4>4, <4>5, <4>7
    <3> QED BY <1>1, <2>4, <3>4, <3>5 DEF BothBooks
  <2> QED BY <2>3, <2>4
<1> QED BY <1>2, <1>3 DEF FederationInv

LEMMA Approves == ASSUME FederationInv, NEW h \in Hands, F!ApproveLoan(h) PROVE FederationInv'
<1> USE DEF F!ApproveLoan
<1>0. /\ lent \in [One -> FederationLoan] /\ treasurer[h] \in TreasurerRow /\ pool \in Int
      /\ TreasurerKnows(h) /\ treasurer[h].pc = "approve"
  BY DEF FederationInv, FederationTypes
<1>l. PICK l \in One : treasurer[h].loan = l BY <1>0 DEF TreasurerKnows
<1>c. PICK c \in Coops : treasurer[h].by = c BY <1>0 DEF TreasurerKnows
<1>a. PICK a \in Nat : treasurer[h].amount = a BY <1>0 DEF TreasurerRow
<1>b. PICK b \in Nat : b = F!Base(c, a) /\ (c \notin Others => b = a) BY InBase
<1>1. /\ lent[l] \in FederationLoan /\ lent[l].status = "pending" /\ lent[l].by = c /\ lent[l].principal = a
      /\ lent[l].out = 0 /\ lent[l].charges = 0 /\ lent[l].repaid = 0
  BY <1>0, <1>l, <1>c, <1>a DEF TreasurerKnows, FederationLoan
<1>n. PICK n \in Nat : n = lent[l].out + a /\ n = a BY <1>1
<1> DEFINE lrow == [lent[l] EXCEPT !.status = "active", !.out = n]
           row == [coop[c] EXCEPT !.fund = coop[c].fund + a, !.payable = coop[c].payable + a]
           pos == [ledger[c] EXCEPT !.owed = ledger[c].owed + b]
<1>2. /\ lrow \in FederationLoan /\ lrow.by = c /\ lrow.interest = lent[l].interest /\ lrow.status = "active"
      /\ lrow.out = n
  BY <1>1, <1>n DEF FederationLoan
<1>3. coop[c].fund + a \in Nat /\ coop[c].payable + a \in Int /\ ledger[c].owed + b \in Int
  BY <1>b, FederationRows
<1>4. /\ row \in CoopRow /\ row.receivable = coop[c].receivable /\ row.payable = coop[c].payable + a
      /\ pos \in PositionRow /\ pos.stake = ledger[c].stake /\ pos.owed = ledger[c].owed + b
  BY <1>3, FederationRows DEF CoopRow, PositionRow
<1>5. coop' = [coop EXCEPT ![c] = row] BY <1>c, <1>a, FederationRows
<1>6. ledger' = [ledger EXCEPT ![c] = pos] /\ pool' \in Int BY <1>0, <1>a, <1>b, <1>c, FederationRows
<1>7. lent' = [lent EXCEPT ![l] = lrow] BY <1>0, <1>l, <1>a, <1>n
<1> HIDE DEF lrow, row, pos
<1>8. /\ treasurer' \in [Hands -> TreasurerRow] /\ (\A k \in Hands : TreasurerKnows(k)') /\ ApprovesAlone'
  <2>1. F!Done(h) OBVIOUS
  <2>2. ASSUME NEW k \in Hands, k # h, treasurer[k].pc \in {"approve", "repay"}
        PROVE  lent'[treasurer[k].loan] = lent[treasurer[k].loan]
    <3>1. treasurer[k].loan # l
      BY <1>0, <1>1, <1>l, <2>2 DEF FederationInv, TreasurerKnows, ApprovesAlone
    <3>2. treasurer[k].loan \in One BY <2>2 DEF FederationInv, TreasurerKnows
    <3> QED BY <1>0, <1>7, <3>1, <3>2
  <2> QED BY ONLY FederationInv, h \in Hands, <2>1, <2>2, TreasurersKept
<1>9. c \notin Others => /\ pos.stake = ledger[c].stake /\ row.receivable = coop[c].receivable
                         /\ pos.owed - ledger[c].owed
                              = (row.payable - coop[c].payable) + (lrow.interest - lent[l].interest)
  <2>1. lent[l].interest \in Int BY <1>1 DEF FederationLoan
  <2>2. coop[c].payable \in Int /\ ledger[c].owed \in Int BY FederationRows
  <2> QED BY <1>2, <1>4, <1>b, <2>1, <2>2
<1> QED BY ONLY FederationInv, l \in One, c \in Coops, <1>1, <1>2, <1>4, <1>5, <1>6, <1>7, <1>8, <1>9, LoanMoves

AfterRepayment(l, a, i) ==
    [lent[l] EXCEPT !.repaid = lent[l].repaid + a, !.interest = lent[l].interest + i,
                    !.charges = lent[l].charges + (IF i > 0 THEN 1 ELSE 0),
                    !.status = IF F!Closes(l, a) /\ lent[l].status = "active" THEN "repaid" ELSE lent[l].status]

\* A repayment leaves the loan its cooperative and what was lent, and charges once.
LEMMA LoanRepaid ==
    ASSUME FederationInv, NEW l \in One, NEW a \in Nat, a > 0, lent[l].out > 0,
           lent[l].status \in {"active", "repaid", "defaulted"}, NEW i \in Nat,
           i > 0 => F!Closes(l, a), NEW row, row = AfterRepayment(l, a, i)
    PROVE  /\ row \in FederationLoan /\ row.by = lent[l].by /\ row.out = lent[l].out
           /\ row.interest = lent[l].interest + i
           /\ row.status \in {"active", "repaid", "defaulted"}
<1>0. lent[l] \in FederationLoan BY DEF FederationInv, FederationTypes
<1>1. /\ lent[l].repaid \in Nat /\ lent[l].interest \in Nat /\ lent[l].charges \in Nat
      /\ lent[l].principal \in Nat /\ lent[l].out \in Nat /\ lent[l].out = lent[l].principal
      /\ lent[l].by \in Coops
  BY <1>0 DEF FederationLoan
<1>p. PICK p \in Nat : p = lent[l].repaid + a BY <1>1
<1>q. PICK q \in Nat : q = lent[l].interest + i BY <1>1
<1>r. PICK r \in Nat : r = lent[l].charges + (IF i > 0 THEN 1 ELSE 0) BY <1>1
<1>s. PICK s \in {"active", "repaid", "defaulted"} :
        s = IF F!Closes(l, a) /\ lent[l].status = "active" THEN "repaid" ELSE lent[l].status
  OBVIOUS
<1>2. row = [lent[l] EXCEPT !.repaid = p, !.interest = q, !.charges = r, !.status = s]
  BY <1>p, <1>q, <1>r, <1>s DEF AfterRepayment
<1>3. /\ row.status = s /\ row.by = lent[l].by /\ row.out = lent[l].out /\ row.principal = lent[l].principal
      /\ row.repaid = p /\ row.charges = r /\ row.interest = q
      /\ row \in [status : {"none", "pending", "active", "repaid", "defaulted"}, by : Coops \cup {NoOne},
                  lender : Coops \cup {NoOne}, principal : Nat, repaid : Nat, out : Nat, charges : Nat,
                  interest : Nat]
  BY <1>0, <1>2 DEF FederationLoan
<1>4. s = "repaid" => p >= lent[l].principal
  <2>1. F!Closes(l, a) => p >= lent[l].principal BY <1>p DEF F!Closes
  <2>2. lent[l].status = "repaid" => lent[l].repaid >= lent[l].principal BY <1>0 DEF FederationLoan
  <2> QED BY <1>1, <1>p, <1>s, <2>1, <2>2
<1>5. r <= 1 /\ (r = 1 => p >= lent[l].principal) /\ (s = "active" => r = 0)
  <2>1. CASE i > 0
    <3>1. lent[l].status = "active" /\ p >= lent[l].principal BY <1>p, <2>1 DEF F!Closes
    <3>2. lent[l].charges = 0 BY <1>0, <3>1 DEF FederationLoan
    <3>3. s = "repaid" BY <1>s, <2>1, <3>1
    <3> QED BY <1>r, <2>1, <3>1, <3>2, <3>3
  <2>2. CASE ~(i > 0)
    <3>1. r = lent[l].charges BY <1>1, <1>r, <2>2
    <3>2. lent[l].charges <= 1 /\ (lent[l].charges = 1 => lent[l].repaid >= lent[l].principal)
          /\ (lent[l].status = "active" => lent[l].charges = 0)
      BY <1>0 DEF FederationLoan
    <3>3. s = "active" => lent[l].status = "active" BY <1>s
    <3> QED BY <1>1, <1>p, <3>1, <3>2, <3>3
  <2> QED BY <2>1, <2>2
<1>6. row \in FederationLoan BY <1>1, <1>3, <1>4, <1>5 DEF FederationLoan
<1> QED BY <1>3, <1>6, <1>q

LEMMA Repays == ASSUME FederationInv, NEW h \in Hands, F!Repay(h) PROVE FederationInv'
<1>0. /\ lent \in [One -> FederationLoan] /\ treasurer[h] \in TreasurerRow /\ pool \in Int
      /\ TreasurerKnows(h) /\ treasurer[h].pc = "repay"
  BY DEF FederationInv, FederationTypes, F!Repay
<1>l. PICK l \in One : treasurer[h].loan = l BY <1>0 DEF TreasurerKnows
<1>c. PICK c \in Coops : treasurer[h].by = c BY <1>0 DEF TreasurerKnows
<1>a. PICK a \in Nat : treasurer[h].amount = a /\ a > 0 BY <1>0 DEF TreasurerRow, TreasurerKnows
<1>b. PICK b \in Nat : b = F!Base(c, a) /\ (c \notin Others => b = a) BY InBase
<1>1. /\ lent[l] \in FederationLoan /\ lent[l].status \in {"active", "repaid", "defaulted"} /\ lent[l].by = c
      /\ lent[l].out > 0
  BY <1>0, <1>l, <1>c DEF TreasurerKnows
<1>d. F!Done(h) BY DEF F!Repay
<1>k. \A k \in Hands : treasurer[k].pc = "approve" => treasurer[k].loan # l BY <1>l DEF F!RowLocked, F!Repay
<1>2. CASE coop[c].fund < a /\ UNCHANGED <<coop, ledger, pool, lent>>
  BY <1>2, <1>d, TreasurerGivesUp
<1>3. CASE /\ coop[c].fund >= a /\ F!Base(c, a) = 0
           /\ coop' = [coop EXCEPT ![c].fund = @ - a, ![c].payable = @ - a]
           /\ UNCHANGED <<ledger, pool, lent>>
  <2> DEFINE row == [coop[c] EXCEPT !.fund = coop[c].fund - a, !.payable = coop[c].payable - a]
  <2>1. coop[c].fund - a \in Nat /\ coop[c].payable - a \in Int
    <3>1. coop[c].fund \in Nat /\ coop[c].payable \in Int BY FederationRows
    <3> QED BY <1>3, <3>1
  <2>2. row \in CoopRow BY <2>1, FederationRows DEF CoopRow
  <2>3. coop' = [coop EXCEPT ![c] = row] BY <1>3, FederationRows
  <2> HIDE DEF row
  <2>4. ledger' = [ledger EXCEPT ![c] = ledger[c]] /\ pool' \in Int /\ ledger[c] \in PositionRow
    BY <1>3, FederationRows
  <2>5. c \in Others BY <1>3, <1>a, <1>b
  <2>6. UNCHANGED lent BY <1>3
  <2>7. /\ treasurer' \in [Hands -> TreasurerRow] /\ (\A k \in Hands : TreasurerKnows(k)') /\ ApprovesAlone'
    BY ONLY FederationInv, h \in Hands, <1>d, <2>6, TreasurersKept
  <2> QED BY ONLY FederationInv, c \in Coops, <2>2, <2>3, <2>4, <2>5, <2>6, <2>7, CoopMoves
<1>4. CASE /\ coop[c].fund >= a /\ F!Base(c, a) > 0
           /\ \E lateFee \in IF F!Closes(l, a) THEN 0..1 ELSE {0} :
                 LET i == F!Min({lateFee, coop[c].fund - a})
                 IN  /\ coop' = [coop EXCEPT ![c].fund = @ - a - i, ![c].payable = @ - a - i]
                     /\ ledger' = [ledger EXCEPT ![c].owed = @ - F!Base(c, a)]
                     /\ pool' = pool + F!Base(c, a) + F!Base(c, i)
                     /\ lent' = [lent EXCEPT ![l].repaid = @ + a, ![l].interest = @ + i,
                           ![l].charges = @ + (IF i > 0 THEN 1 ELSE 0),
                           ![l].status = IF F!Closes(l, a) /\ @ = "active" THEN "repaid" ELSE @]
  <2>1. PICK lateFee \in IF F!Closes(l, a) THEN 0..1 ELSE {0} :
                 LET i == F!Min({lateFee, coop[c].fund - a})
                 IN  /\ coop' = [coop EXCEPT ![c].fund = @ - a - i, ![c].payable = @ - a - i]
                     /\ ledger' = [ledger EXCEPT ![c].owed = @ - F!Base(c, a)]
                     /\ pool' = pool + F!Base(c, a) + F!Base(c, i)
                     /\ lent' = [lent EXCEPT ![l].repaid = @ + a, ![l].interest = @ + i,
                           ![l].charges = @ + (IF i > 0 THEN 1 ELSE 0),
                           ![l].status = IF F!Closes(l, a) /\ @ = "active" THEN "repaid" ELSE @]
    BY <1>4
  <2>2. lateFee \in Nat /\ (lateFee > 0 => F!Closes(l, a)) OBVIOUS
  <2>3. PICK left \in Nat : left = coop[c].fund - a BY <1>4, FederationRows
  <2>4. PICK i \in Nat : i = F!Min({lateFee, left}) /\ i <= lateFee /\ i <= left
    <3>1. /\ F!Min({lateFee, left}) \in {lateFee, left} /\ F!Min({lateFee, left}) <= lateFee
          /\ F!Min({lateFee, left}) <= left
      <4>1. lateFee \in Int /\ left \in Int BY <2>2
      <4> QED BY ONLY <4>1, LesserOfTwo
    <3> QED BY <2>2, <3>1
  <2>5. i > 0 => F!Closes(l, a) BY <2>2, <2>4
  <2>6. PICK row : row = [coop[c] EXCEPT !.fund = coop[c].fund - a - i, !.payable = coop[c].payable - a - i]
    OBVIOUS
  <2>7. PICK pos : pos = [ledger[c] EXCEPT !.owed = ledger[c].owed - b] OBVIOUS
  <2>8. PICK lrow : lrow = AfterRepayment(l, a, i)
    OBVIOUS
  <2>9. /\ row \in CoopRow /\ row.receivable = coop[c].receivable /\ row.payable = coop[c].payable - a - i
        /\ pos \in PositionRow /\ pos.stake = ledger[c].stake /\ pos.owed = ledger[c].owed - b
    <3>1. /\ coop[c].fund - a - i \in Nat /\ coop[c].payable - a - i \in Int /\ ledger[c].owed - b \in Int
      BY <2>3, <2>4, FederationRows
    <3> QED BY <2>6, <2>7, <3>1, FederationRows DEF CoopRow, PositionRow
  <2>10. /\ lrow \in FederationLoan /\ lrow.by = c /\ lrow.out > 0 /\ lrow.interest = lent[l].interest + i
         /\ lrow.status \in {"active", "repaid", "defaulted"}
    <3>1. /\ lrow \in FederationLoan /\ lrow.by = lent[l].by /\ lrow.out = lent[l].out
          /\ lrow.interest = lent[l].interest + i
          /\ lrow.status \in {"active", "repaid", "defaulted"}
      BY ONLY FederationInv, l \in One, a \in Nat, i \in Nat, <1>1, <1>a, <2>5, <2>8, LoanRepaid
    <3> QED BY <1>1, <3>1
  <2>11. coop' = [coop EXCEPT ![c] = row] BY <2>1, <2>3, <2>4, <2>6, FederationRows
  <2>12. ledger' = [ledger EXCEPT ![c] = pos] BY <2>1, <1>b, <2>7, FederationRows
  <2>13. pool' \in Int
    <3>1. F!Base(c, i) \in Nat BY InBase
    <3> QED BY <1>0, <1>b, <2>1, <2>3, <2>4, <3>1
  <2>14. lent' = [lent EXCEPT ![l] = lrow] BY <1>0, <2>1, <2>3, <2>4, <2>8 DEF AfterRepayment
  <2>15. /\ treasurer' \in [Hands -> TreasurerRow] /\ (\A k \in Hands : TreasurerKnows(k)') /\ ApprovesAlone'
    <3>1. F!Idle \in TreasurerRow /\ F!Idle.pc = "idle" BY DEF F!Idle, TreasurerRow
    <3>2. /\ treasurer' \in [Hands -> TreasurerRow] /\ treasurer'[h].pc = "idle"
          /\ \A k \in Hands : k # h => treasurer'[k] = treasurer[k]
      BY <1>d, <3>1 DEF FederationInv, FederationTypes, F!Done
    <3>3. lent'[l] = lrow /\ \A x \in One : x # l => lent'[x] = lent[x] BY <1>0, <2>14
    <3>4. ASSUME NEW k \in Hands PROVE TreasurerKnows(k)'
      <4>1. CASE k = h BY <3>2, <4>1 DEF TreasurerKnows
      <4>2. CASE k # h
        <5>1. treasurer'[k] = treasurer[k] /\ TreasurerKnows(k) BY <3>2, <4>2 DEF FederationInv
        <5> QED BY <5>1, <1>1, <1>k, <2>10, <3>3 DEF TreasurerKnows
      <4> QED BY <4>1, <4>2
    <3>5. ApprovesAlone' BY <3>2 DEF FederationInv, ApprovesAlone
    <3> QED BY <3>2, <3>4, <3>5
  <2>16. c \notin Others => /\ pos.stake = ledger[c].stake /\ row.receivable = coop[c].receivable
                            /\ pos.owed - ledger[c].owed
                                 = (row.payable - coop[c].payable) + (lrow.interest - lent[l].interest)
    <3>1. PICK n \in Int : n = lent[l].interest BY <1>1 DEF FederationLoan
    <3>2. coop[c].payable \in Int /\ ledger[c].owed \in Int BY FederationRows
    <3>3. row.payable = coop[c].payable - a - i /\ pos.owed = ledger[c].owed - b /\ lrow.interest = n + i
      BY <2>9, <2>10, <3>1
    <3>4. b = a => pos.owed - ledger[c].owed = (row.payable - coop[c].payable) + (lrow.interest - n)
      BY ONLY <3>2, <3>3, a \in Nat, b \in Nat, i \in Nat, n \in Int
    <3> QED BY <1>b, <2>9, <3>1, <3>4
  <2> QED BY ONLY FederationInv, l \in One, c \in Coops, <1>1, <2>9, <2>10, <2>11, <2>12, <2>13, <2>14, <2>15,
             <2>16, LoanMoves
<1> QED BY <1>2, <1>3, <1>4, <1>l, <1>c, <1>a DEF F!Repay

-----------------------------------------------------------------------------
LEMMA FederationStep == ASSUME FederationInv, F!Next PROVE FederationInv'
<1>1. CASE \E c \in Buyers \cup Others, a \in 1..2 : F!FundFederation(c, a) \/ F!Contribute(c, a)
  BY <1>1, Funded, Contributed DEF Coops
<1>2. CASE \E h \in Hands : F!ApproveLoan(h) \/ F!Repay(h) \/ F!RollBack(h) \/ F!AllocateReserve(h)
  BY <1>2, Approves, Repays, TransferRolledBack, Allocated
<1>3. CASE \E h \in Hands, c \in Buyers \cup Others : F!AllocateRead(h, c)
  BY <1>3, AllocationIsRead DEF Coops
<1>4. CASE \E c \in Buyers \cup Others : F!GetFundBalances(c) BY <1>4, BalancesRepaired DEF Coops
<1>5. CASE \E h \in Hands, c \in Buyers \cup Others, k \in Buyers \cup Others \cup {NoOne}, a \in 1..2 :
              F!BorrowRead(h, c, k, a)
  BY <1>5, BorrowIsRead DEF Coops
<1>6. CASE \E h \in Hands, l \in One : F!Borrow(h, l) \/ F!ApproveRead(h, l)
  BY <1>6, Borrows, ApprovalIsRead
<1>7. CASE \E h \in Hands, l \in One, a \in 1..2 : F!RepayRead(h, l, a) BY <1>7, RepaymentIsRead
<1>8. CASE \E l \in One : F!MarkDefaulted(l) BY <1>8, Defaults
<1> QED BY <1>1, <1>2, <1>3, <1>4, <1>5, <1>6, <1>7, <1>8 DEF F!Next

LEMMA FederationHolds == FederationInv => F!TypeOK /\ F!FederationAddsUp
<1> SUFFICES ASSUME FederationInv PROVE F!TypeOK /\ F!FederationAddsUp OBVIOUS
<1>1. F!TypeOK BY DEF F!TypeOK, FederationInv, FederationTypes, Coops, CoopRow, FederationLoan, TreasurerRow
<1>2. F!LentOnce
  <2> SUFFICES ASSUME NEW l \in One
               PROVE  /\ lent[l].out \in {0, lent[l].principal}
                      /\ lent[l].status \in {"active", "repaid"} => lent[l].out = lent[l].principal
                      /\ lent[l].repaid > 0 => lent[l].out > 0
                      /\ lent[l].status = "repaid" => lent[l].repaid >= lent[l].principal
                      /\ lent[l].charges <= 1
                      /\ lent[l].charges = 1 => lent[l].repaid >= lent[l].principal
    BY DEF F!LentOnce
  <2>1. lent[l] \in FederationLoan BY DEF FederationInv, FederationTypes
  <2> QED BY <2>1 DEF FederationLoan
<1>3. F!BooksAgree
  <2> SUFFICES ASSUME NEW c \in (Buyers \cup Others) \ Others
               PROVE  /\ ledger[c].stake = coop[c].receivable
                      /\ ledger[c].owed = coop[c].payable
                            + F!SumFunction([l \in One |-> IF lent[l].by = c THEN lent[l].interest ELSE 0])
    BY DEF F!BooksAgree
  <2>1. BothBooks(c) BY DEF FederationInv
  <2> DEFINE f == [l \in One |-> IF lent[l].by = c THEN lent[l].interest ELSE 0]
  <2>2. f = InterestOf(c) BY DEF InterestOf, Charged
  <2>3. DOMAIN f = One OBVIOUS
  <2>4. F!SumFunction(f) = SumFunctionOnSet(f, DOMAIN f)
    BY DEF F!SumFunction, F!SumFunctionOnSet, F!FoldFunctionOnSet, F!MapThenFoldSet, SumFunctionOnSet,
           FoldFunctionOnSet, MapThenFoldSet
  <2> HIDE DEF f
  <2>5. ledger[c].owed = coop[c].payable + F!SumFunction(f) BY <2>1, <2>2, <2>3, <2>4 DEF BothBooks
  <2> QED BY <2>1, <2>5 DEF BothBooks, f
<1> QED BY <1>1, <1>2, <1>3 DEF F!FederationAddsUp

LEMMA FederationAlways == Spec => []FederationInv
<1>1. Init => FederationInv BY FederationStart DEF Init
<1>2. FederationInv /\ [Next]_vars => FederationInv'
  <2> SUFFICES ASSUME FederationInv, [Next]_vars PROVE FederationInv' OBVIOUS
  <2>1. F!Next \/ UNCHANGED federationVars BY Zenon DEF Next, vars, counterVars
  <2>2. CASE UNCHANGED federationVars
    <3>1. \A c \in Coops : InterestOf(c)' = InterestOf(c) BY <2>2, InterestKept DEF federationVars
    <3> QED BY <2>2, <3>1 DEF federationVars, FederationInv, FederationTypes, TreasurerKnows, ApprovesAlone,
                BothBooks, Coops
  <2> QED BY <2>1, <2>2, FederationStep
<1> QED BY <1>1, <1>2, PTL DEF Spec

-----------------------------------------------------------------------------
(* Insurance: what the journal knows of every charge, refund and claim. *)

PolicyRow == [status : {"none", "active", "cancelled"}, by : Buyers \cup {NoOne}, paid : BOOLEAN]
ClaimRow == [status : {"none", "pending", "approved", "rejected", "paid"}, by : Buyers \cup {NoOne},
             amount : Nat, credited : Nat]

InsuranceTypes ==
    /\ insured \in [Buyers -> Nat] /\ payable \in Int
    /\ policy \in [Rows -> PolicyRow] /\ claim \in [One -> ClaimRow]
    /\ insuree \in [Buyers -> -1..Cardinality(Rows)]
    /\ adjuster \in [Hands -> One \cup {NoRow}]

PolicyLawful(p) == policy[p].status # "none" => policy[p].by \in Buyers

ClaimLawful(z) ==
    /\ claim[z].credited = (IF I!Payout(z) \in entries THEN 1 ELSE 0)
    /\ claim[z].status = "paid" => claim[z].credited = 1
    /\ claim[z].status = "none" => claim[z].credited = 0
    /\ claim[z].status # "none" => claim[z].by \in Buyers

RefundsAreOfCharges ==
    \A m \in Buyers : \A n \in Int : I!Refund(m, n) \in entries => I!Charge(m, n) \in entries

PremiumsKept == payable + SumFunctionOnSet(insured, Buyers) = Kobo * Cardinality(Buyers)

InsuranceInv ==
    /\ InsuranceTypes
    /\ \A p \in Rows : PolicyLawful(p)
    /\ \A z \in One : ClaimLawful(z)
    /\ \A h \in Hands : adjuster[h] # NoRow => claim[adjuster[h]].status # "none"
    /\ RefundsAreOfCharges
    /\ PremiumsKept

LEMMA InsuranceRefs ==
    /\ \A x, y : I!Payout(x) = I!Payout(y) => x = y
    /\ \A x, m, n : I!Payout(x) # I!Charge(m, n) /\ I!Payout(x) # I!Refund(m, n)
    /\ \A l, k, m, n : I!Charge(l, k) # I!Refund(m, n)
    /\ \A l, k, m, n : I!Refund(l, k) = I!Refund(m, n) => l = m /\ k = n
<1>1. \A x, m, n : I!Payout(x)[1] # I!Charge(m, n)[1] /\ I!Payout(x)[1] # I!Refund(m, n)[1]
  BY DEF I!Payout, I!Charge, I!Refund
<1>2. \A x, m, n : I!Payout(x) # I!Charge(m, n) /\ I!Payout(x) # I!Refund(m, n) BY <1>1
<1>3. \A l, k, m, n : I!Charge(l, k)[1] # I!Refund(m, n)[1] BY DEF I!Charge, I!Refund
<1>4. \A l, k, m, n : I!Charge(l, k) # I!Refund(m, n) BY <1>3
<1>5. \A x, y : I!Payout(x) = I!Payout(y) => x = y BY DEF I!Payout
<1>6. \A l, k, m, n : I!Refund(l, k) = I!Refund(m, n) => l = m /\ k = n BY DEF I!Refund
<1> QED BY <1>2, <1>4, <1>5, <1>6

LEMMA InsuranceFacts ==
    /\ Kobo \in Nat /\ Premium \in Nat /\ Premium > 0 /\ IsFiniteSet(Buyers) /\ Cardinality(Buyers) \in Nat
    /\ Cardinality(Rows) \in Nat
    /\ \A U \in SUBSET Rows : I!Cardinality(U) \in 0..Cardinality(Rows)
    /\ I!Cardinality(Buyers) = Cardinality(Buyers) /\ I!Cardinality(Rows) = Cardinality(Rows)
<1>1. \A U : I!Cardinality(U) = Cardinality(U) BY DEF I!Cardinality, Cardinality
<1>2. ASSUME NEW U \in SUBSET Rows PROVE Cardinality(U) \in 0..Cardinality(Rows)
  BY FrontdeskAssumption, FS_Subset, FS_CardinalityType
<1> QED BY <1>1, <1>2, FrontdeskAssumption, FS_CardinalityType

LEMMA InsuranceStart == I!Init => InsuranceInv
<1> SUFFICES ASSUME I!Init PROVE InsuranceInv OBVIOUS
<1> USE DEF I!Init
<1>1. I!NoPolicy \in PolicyRow /\ I!NoPolicy.status = "none" BY DEF I!NoPolicy, PolicyRow
<1>2. I!Unclaimed \in ClaimRow /\ I!Unclaimed.status = "none" /\ I!Unclaimed.credited = 0
  BY DEF I!Unclaimed, ClaimRow
<1>3. InsuranceTypes BY <1>1, <1>2, InsuranceFacts DEF InsuranceTypes
<1>4. SumFunctionOnSet(insured, Buyers) = Kobo * Cardinality(Buyers)
  <2>1. \A m \in Buyers : insured[m] = Kobo OBVIOUS
  <2>2. Kobo \in Int BY InsuranceFacts
  <2> QED BY <2>1, <2>2, InsuranceFacts, SumConstant
<1>5. PremiumsKept
  <2> DEFINE k == Kobo * Cardinality(Buyers)
  <2>1. k \in Int BY InsuranceFacts
  <2>2. payable = 0 OBVIOUS
  <2> HIDE DEF k
  <2>3. SumFunctionOnSet(insured, Buyers) = k BY <1>4 DEF k
  <2>4. payable + SumFunctionOnSet(insured, Buyers) = k BY <2>1, <2>2, <2>3
  <2> QED BY <2>4 DEF PremiumsKept, k
<1> QED BY <1>1, <1>2, <1>3, <1>5 DEF InsuranceInv, PolicyLawful, ClaimLawful, RefundsAreOfCharges

\* A wallet moves against the account of the insurer.
LEMMA PremiumMoves ==
    ASSUME InsuranceInv, NEW m \in Buyers, NEW d \in Int, insured[m] + d \in Nat,
           insured' = [insured EXCEPT ![m] = @ + d], payable' = payable - d
    PROVE  insured' \in [Buyers -> Nat] /\ payable' \in Int /\ PremiumsKept'
<1>1. insured \in [Buyers -> Nat] /\ payable \in Int BY DEF InsuranceInv, InsuranceTypes
<1>2. insured' \in [Buyers -> Nat] /\ payable' \in Int BY <1>1
<1>3. \A x \in Buyers : /\ insured[x] \in Int /\ insured'[x] \in Int
                        /\ x # m => insured'[x] = insured[x]
  BY <1>1, <1>2
<1>4. insured'[m] = insured[m] + d BY <1>1
<1>5. SumFunctionOnSet(insured', Buyers) = SumFunctionOnSet(insured, Buyers) - insured[m] + insured'[m]
  <2>1. IsFiniteSet(Buyers) BY InsuranceFacts
  <2>2. PICK f, g : f = insured /\ g = insured' OBVIOUS
  <2>3. \A y \in Buyers : f[y] \in Int /\ g[y] \in Int /\ (y # m => g[y] = f[y])
    BY <1>3, <2>2
  <2>4. SumFunctionOnSet(g, Buyers) = SumFunctionOnSet(f, Buyers) - f[m] + g[m]
    BY <2>1, <2>3, SumMoves
  <2> QED BY <2>2, <2>4
<1>6. SumFunctionOnSet(insured, Buyers) \in Int BY <1>3, InsuranceFacts, SumInt
<1>7. payable' + SumFunctionOnSet(insured', Buyers) = payable + SumFunctionOnSet(insured, Buyers)
  BY <1>1, <1>3, <1>4, <1>5, <1>6
<1> QED BY <1>2, <1>7 DEF InsuranceInv, PremiumsKept

\* The rows of claims do not move, but for what the journal gets.
LEMMA ClaimsKept ==
    ASSUME InsuranceInv, UNCHANGED <<claim, adjuster>>,
           \A z \in One : I!Payout(z) \in entries' <=> I!Payout(z) \in entries
    PROVE  /\ \A z \in One : ClaimLawful(z)'
           /\ \A h \in Hands : adjuster'[h] # NoRow => claim'[adjuster'[h]].status # "none"
BY DEF InsuranceInv, ClaimLawful

LEMMA BuyerReadsPolicies == ASSUME InsuranceInv, NEW m \in Buyers, I!PurchaseRead(m) PROVE InsuranceInv'
<1> USE DEF I!PurchaseRead
<1>1. insuree' \in [Buyers -> -1..Cardinality(Rows)]
  <2> DEFINE U == {p \in Rows : policy[p].by = m}
  <2>1. U \in SUBSET Rows OBVIOUS
  <2>2. I!Cardinality(U) \in 0..Cardinality(Rows) BY <2>1, InsuranceFacts
  <2>3. insuree' = [insuree EXCEPT ![m] = I!Cardinality(U)] OBVIOUS
  <2> HIDE DEF U
  <2> QED BY <2>2, <2>3, InsuranceFacts DEF InsuranceInv, InsuranceTypes
<1>2. InsuranceTypes' BY <1>1 DEF InsuranceInv, InsuranceTypes
<1>3. (\A p \in Rows : PolicyLawful(p)') /\ RefundsAreOfCharges' /\ PremiumsKept'
  BY DEF InsuranceInv, PolicyLawful, RefundsAreOfCharges, PremiumsKept
<1> QED BY <1>2, <1>3, ClaimsKept DEF InsuranceInv

LEMMA NotBuyingAny ==
    ASSUME InsuranceInv, NEW m \in Buyers, I!Bought(m) PROVE insuree' \in [Buyers -> -1..Cardinality(Rows)]
BY InsuranceFacts DEF I!Bought, InsuranceInv, InsuranceTypes

LEMMA BuysPolicy ==
    ASSUME InsuranceInv, NEW m \in Buyers, NEW p \in Rows, I!PurchasePlan(m, p) PROVE InsuranceInv'
<1> USE DEF I!PurchasePlan
<1> DEFINE charged == I!Due(m)
<1>0. insured[m] \in Nat /\ insured[m] >= Premium BY DEF InsuranceInv, InsuranceTypes
<1>1. charged \in {0, Premium} BY DEF I!Due
<1>2. charged \in Int /\ 0 - charged \in Int /\ insured[m] + (0 - charged) \in Nat BY <1>0, <1>1, InsuranceFacts
<1>3. insured' = [insured EXCEPT ![m] = @ - charged] /\ payable' = payable + charged OBVIOUS
<1>p. policy' = [policy EXCEPT ![p] = [status |-> "active", by |-> m, paid |-> charged > 0]] OBVIOUS
<1> HIDE DEF charged
<1>a. insured[m] - charged = insured[m] + (0 - charged) /\ payable + charged = payable - (0 - charged)
  BY <1>0, <1>2 DEF InsuranceInv, InsuranceTypes
<1>4. insured' = [insured EXCEPT ![m] = @ + (0 - charged)] /\ payable' = payable - (0 - charged)
  BY <1>3, <1>a
<1>5. insured' \in [Buyers -> Nat] /\ payable' \in Int /\ PremiumsKept' BY <1>2, <1>4, PremiumMoves
<1>6. (charged > 0) \in BOOLEAN OBVIOUS
<1>7. [status |-> "active", by |-> m, paid |-> charged > 0] \in PolicyRow BY <1>6 DEF PolicyRow
<1>8. policy' \in [Rows -> PolicyRow] /\ \A x \in Rows : PolicyLawful(x)'
  BY <1>7, <1>p DEF InsuranceInv, InsuranceTypes, PolicyLawful
<1>9. InsuranceTypes' BY <1>5, <1>8, NotBuyingAny DEF InsuranceInv, InsuranceTypes
<1>10. \A z \in One : I!Payout(z) \in entries' <=> I!Payout(z) \in entries BY InsuranceRefs
<1>11. RefundsAreOfCharges' BY InsuranceRefs DEF InsuranceInv, RefundsAreOfCharges
<1> QED BY <1>5, <1>8, <1>9, <1>10, <1>11, ClaimsKept DEF InsuranceInv

LEMMA PurchaseIsRefunded == ASSUME InsuranceInv, NEW m \in Buyers, I!PurchaseFails(m) PROVE InsuranceInv'
<1> USE DEF I!PurchaseFails
<1> DEFINE charged == I!Due(m)
           d == Premium - charged
<1>0. insured[m] \in Nat BY DEF InsuranceInv, InsuranceTypes
<1>1. charged \in {0, Premium} BY DEF I!Due
<1>2. charged \in Int /\ d \in Int /\ d >= 0 /\ insured[m] + d \in Nat BY <1>0, <1>1, InsuranceFacts
<1>3. insured' = [insured EXCEPT ![m] = @ - charged + Premium] /\ payable' = payable + charged - Premium OBVIOUS
<1> HIDE DEF charged
<1>a. insured[m] - charged + Premium = insured[m] + d /\ payable + charged - Premium = payable - d
  BY <1>0, <1>2, InsuranceFacts DEF InsuranceInv, InsuranceTypes
<1>4. insured' = [insured EXCEPT ![m] = @ + d] /\ payable' = payable - d
  <2> HIDE DEF d
  <2> QED BY <1>3, <1>a
<1>5. insured' \in [Buyers -> Nat] /\ payable' \in Int /\ PremiumsKept'
  <2> HIDE DEF d
  <2> QED BY <1>2, <1>4, PremiumMoves
<1>8. \A x \in Rows : PolicyLawful(x)' BY DEF InsuranceInv, PolicyLawful
<1>9. InsuranceTypes' BY <1>5, NotBuyingAny DEF InsuranceInv, InsuranceTypes
<1>10. \A z \in One : I!Payout(z) \in entries' <=> I!Payout(z) \in entries BY InsuranceRefs
<1>11. RefundsAreOfCharges' BY InsuranceRefs DEF InsuranceInv, RefundsAreOfCharges
<1> QED BY <1>5, <1>8, <1>9, <1>10, <1>11, ClaimsKept DEF InsuranceInv

LEMMA PurchaseUndone == ASSUME InsuranceInv, NEW m \in Buyers, I!PurchaseRollsBack(m) PROVE InsuranceInv'
<1> USE DEF I!PurchaseRollsBack
<1>2. InsuranceTypes' BY NotBuyingAny DEF InsuranceInv, InsuranceTypes
<1>3. (\A p \in Rows : PolicyLawful(p)') /\ RefundsAreOfCharges' /\ PremiumsKept'
  BY DEF InsuranceInv, PolicyLawful, RefundsAreOfCharges, PremiumsKept
<1> QED BY <1>2, <1>3, ClaimsKept DEF InsuranceInv

LEMMA Renews == ASSUME InsuranceInv, NEW p \in Rows, I!RenewPolicy(p) PROVE InsuranceInv'
<1> USE DEF I!RenewPolicy
<1>1. PICK m \in Buyers : policy[p].by = m BY DEF InsuranceInv, PolicyLawful
<1>0. insured[m] \in Nat /\ insured[m] >= Premium BY <1>1 DEF InsuranceInv, InsuranceTypes
<1> DEFINE d == 0 - Premium
<1>2. d \in Int /\ insured[m] + d \in Nat BY <1>0, InsuranceFacts
<1>3. insured' = [insured EXCEPT ![m] = @ - Premium] /\ payable' = payable + Premium BY <1>1
<1>a. insured[m] - Premium = insured[m] + d /\ payable + Premium = payable - d
  BY <1>0, InsuranceFacts DEF InsuranceInv, InsuranceTypes
<1> HIDE DEF d
<1>4. insured' = [insured EXCEPT ![m] = @ + d] /\ payable' = payable - d BY <1>3, <1>a
<1>5. insured' \in [Buyers -> Nat] /\ payable' \in Int /\ PremiumsKept' BY <1>2, <1>4, PremiumMoves
<1>8. policy' \in [Rows -> PolicyRow] /\ \A x \in Rows : PolicyLawful(x)'
  BY <1>1 DEF InsuranceInv, InsuranceTypes, PolicyLawful, PolicyRow
<1>9. InsuranceTypes' BY <1>5, <1>8 DEF InsuranceInv, InsuranceTypes
<1>11. RefundsAreOfCharges' BY DEF InsuranceInv, RefundsAreOfCharges
<1> QED BY <1>5, <1>8, <1>9, <1>11, ClaimsKept DEF InsuranceInv

LEMMA PolicyIsMoved == ASSUME InsuranceInv, NEW p \in Rows, I!PolicyMoves(p) PROVE InsuranceInv'
<1> USE DEF I!PolicyMoves
<1>8. policy' \in [Rows -> PolicyRow] /\ \A x \in Rows : PolicyLawful(x)'
  BY DEF InsuranceInv, InsuranceTypes, PolicyLawful, PolicyRow
<1>9. InsuranceTypes' BY <1>8 DEF InsuranceInv, InsuranceTypes
<1>11. RefundsAreOfCharges' /\ PremiumsKept' BY DEF InsuranceInv, RefundsAreOfCharges, PremiumsKept
<1> QED BY <1>8, <1>9, <1>11, ClaimsKept DEF InsuranceInv

\* One claim's row moves, and the journal does not.
LEMMA ClaimRowMoves ==
    ASSUME InsuranceInv, UNCHANGED <<insured, payable, entries, policy, insuree, adjuster>>,
           NEW z \in One, NEW row \in ClaimRow, claim' = [claim EXCEPT ![z] = row],
           row.status \notin {"none", "paid"}, row.credited = claim[z].credited, row.by \in Buyers
    PROVE  InsuranceInv'
<1>1. claim' \in [One -> ClaimRow] /\ claim'[z] = row /\ \A x \in One : x # z => claim'[x] = claim[x]
  BY DEF InsuranceInv, InsuranceTypes
<1>2. InsuranceTypes' BY <1>1 DEF InsuranceInv, InsuranceTypes
<1>3. \A x \in One : ClaimLawful(x)' BY <1>1 DEF InsuranceInv, ClaimLawful
<1>4. \A h \in Hands : adjuster'[h] # NoRow => claim'[adjuster'[h]].status # "none"
  BY <1>1 DEF InsuranceInv, InsuranceTypes
<1>5. (\A p \in Rows : PolicyLawful(p)') /\ RefundsAreOfCharges' /\ PremiumsKept'
  BY DEF InsuranceInv, PolicyLawful, RefundsAreOfCharges, PremiumsKept
<1> QED BY <1>2, <1>3, <1>4, <1>5 DEF InsuranceInv

LEMMA Claims == ASSUME InsuranceInv, NEW z \in One, NEW p \in Rows, I!SubmitClaim(z, p) PROVE InsuranceInv'
<1> USE DEF I!SubmitClaim
<1>1. PICK a \in 1..1 : claim' = [claim EXCEPT ![z] = [status |-> "pending", by |-> policy[p].by,
                                                       amount |-> a, credited |-> 0]]
  OBVIOUS
<1> DEFINE row == [status |-> "pending", by |-> policy[p].by, amount |-> a, credited |-> 0]
<1>2. policy[p].by \in Buyers BY DEF InsuranceInv, PolicyLawful
<1>3. row \in ClaimRow BY <1>2 DEF ClaimRow
<1>4. claim[z].credited = 0 BY DEF InsuranceInv, ClaimLawful
<1>5. row.status = "pending" /\ row.credited = claim[z].credited /\ row.by \in Buyers BY <1>2, <1>4
<1>6. claim' = [claim EXCEPT ![z] = row] BY <1>1
<1> HIDE DEF row
<1> QED BY <1>3, <1>5, <1>6, ClaimRowMoves

LEMMA ClaimIsMoved == ASSUME InsuranceInv, NEW z \in One, I!ClaimMoves(z) PROVE InsuranceInv'
<1> USE DEF I!ClaimMoves
<1>1. PICK s \in {"approved", "rejected"} : claim' = [claim EXCEPT ![z].status = s] OBVIOUS
<1> DEFINE row == [claim[z] EXCEPT !.status = s]
<1>2. claim[z] \in ClaimRow /\ claim[z].by \in Buyers BY DEF InsuranceInv, InsuranceTypes, ClaimLawful
<1>3. row \in ClaimRow /\ row.status = s /\ row.credited = claim[z].credited /\ row.by \in Buyers
  BY <1>2 DEF ClaimRow
<1>4. claim' = [claim EXCEPT ![z] = row] BY <1>1 DEF InsuranceInv, InsuranceTypes
<1> HIDE DEF row
<1> QED BY <1>3, <1>4, ClaimRowMoves

LEMMA AdjusterReads == ASSUME InsuranceInv, NEW h \in Hands, NEW z \in One, I!PayRead(h, z) PROVE InsuranceInv'
<1> USE DEF I!PayRead
<1>1. InsuranceTypes' BY DEF InsuranceInv, InsuranceTypes
<1>2. \A k \in Hands : adjuster'[k] # NoRow => claim'[adjuster'[k]].status # "none"
  BY DEF InsuranceInv, InsuranceTypes
<1>3. (\A p \in Rows : PolicyLawful(p)') /\ RefundsAreOfCharges' /\ PremiumsKept'
  BY DEF InsuranceInv, PolicyLawful, RefundsAreOfCharges, PremiumsKept
<1>4. \A x \in One : ClaimLawful(x)' BY DEF InsuranceInv, ClaimLawful
<1> QED BY <1>1, <1>2, <1>3, <1>4 DEF InsuranceInv

LEMMA PayoutUndone == ASSUME InsuranceInv, NEW h \in Hands, I!PayoutRollsBack(h) PROVE InsuranceInv'
<1> USE DEF I!PayoutRollsBack
<1>1. InsuranceTypes' BY DEF InsuranceInv, InsuranceTypes
<1>2. \A k \in Hands : adjuster'[k] # NoRow => claim'[adjuster'[k]].status # "none"
  BY DEF InsuranceInv, InsuranceTypes
<1>3. (\A p \in Rows : PolicyLawful(p)') /\ RefundsAreOfCharges' /\ PremiumsKept'
  BY DEF InsuranceInv, PolicyLawful, RefundsAreOfCharges, PremiumsKept
<1>4. \A x \in One : ClaimLawful(x)' BY DEF InsuranceInv, ClaimLawful
<1> QED BY <1>1, <1>2, <1>3, <1>4 DEF InsuranceInv

LEMMA ClaimIsPaid == ASSUME InsuranceInv, NEW h \in Hands, I!PayoutInsuranceClaim(h) PROVE InsuranceInv'
<1> USE DEF I!PayoutInsuranceClaim
<1>1. PICK z \in One : adjuster[h] = z BY DEF InsuranceInv, InsuranceTypes
<1>2. claim[z] \in ClaimRow /\ claim[z].status # "none" /\ ClaimLawful(z)
  BY <1>1 DEF InsuranceInv, InsuranceTypes
<1>3. PICK m \in Buyers : claim[z].by = m BY <1>2 DEF ClaimLawful
<1>4. PICK d \in Nat : claim[z].amount = d BY <1>2 DEF ClaimRow
<1>5. /\ insured' = [insured EXCEPT ![m] = @ + d] /\ payable' = payable - d
      /\ entries' = entries \cup {I!Payout(z)} /\ I!Payout(z) \notin entries
      /\ claim' = [claim EXCEPT ![z].status = "paid", ![z].credited = @ + 1]
  BY <1>1, <1>3, <1>4 DEF I!Unposted
<1>6. d \in Int /\ insured[m] + d \in Nat BY DEF InsuranceInv, InsuranceTypes
<1>7. insured' \in [Buyers -> Nat] /\ payable' \in Int /\ PremiumsKept' BY <1>5, <1>6, PremiumMoves
<1>11. claim[z].credited = 0 BY <1>2, <1>5 DEF ClaimLawful
<1> DEFINE row == [claim[z] EXCEPT !.status = "paid", !.credited = @ + 1]
<1>r. row = [claim[z] EXCEPT !.status = "paid", !.credited = 1] BY <1>11
<1>8. row \in ClaimRow /\ row.status = "paid" /\ row.credited = 1 /\ row.by = m
  <2> HIDE DEF row
  <2> QED BY <1>2, <1>3, <1>r DEF ClaimRow
<1>9. claim' = [claim EXCEPT ![z] = row] BY <1>5 DEF InsuranceInv, InsuranceTypes
<1> HIDE DEF row
<1>10. claim' \in [One -> ClaimRow] /\ claim'[z] = row /\ \A x \in One : x # z => claim'[x] = claim[x]
  BY <1>8, <1>9 DEF InsuranceInv, InsuranceTypes
<1>12. \A x \in One : x # z => (I!Payout(x) \in entries' <=> I!Payout(x) \in entries)
  BY <1>5, InsuranceRefs
<1>13. \A x \in One : ClaimLawful(x)'
  BY <1>5, <1>8, <1>10, <1>11, <1>12 DEF InsuranceInv, ClaimLawful
<1>14. InsuranceTypes' BY <1>7, <1>10 DEF InsuranceInv, InsuranceTypes
<1>15. RefundsAreOfCharges' BY <1>5, InsuranceRefs DEF InsuranceInv, RefundsAreOfCharges
<1>16. \A k \in Hands : adjuster'[k] # NoRow => claim'[adjuster'[k]].status # "none"
  <2>1. \A k \in Hands : adjuster'[k] # NoRow => adjuster'[k] = adjuster[k] /\ adjuster[k] \in One
    BY DEF InsuranceInv, InsuranceTypes
  <2> QED BY <2>1, <1>8, <1>10 DEF InsuranceInv
<1>17. \A p \in Rows : PolicyLawful(p)' BY DEF InsuranceInv, PolicyLawful
<1> QED BY <1>7, <1>13, <1>14, <1>15, <1>16, <1>17 DEF InsuranceInv

LEMMA InsuranceStep == ASSUME InsuranceInv, I!Next PROVE InsuranceInv'
BY BuyerReadsPolicies, BuysPolicy, PurchaseIsRefunded, PurchaseUndone, Renews, PolicyIsMoved, Claims,
   ClaimIsMoved, AdjusterReads, PayoutUndone, ClaimIsPaid DEF I!Next

LEMMA InsuranceHolds == InsuranceInv => I!TypeOK /\ I!ClaimsAddUp
<1> SUFFICES ASSUME InsuranceInv PROVE I!TypeOK /\ I!ClaimsAddUp OBVIOUS
<1>1. I!TypeOK BY InsuranceFacts DEF InsuranceInv, InsuranceTypes, PolicyRow, ClaimRow, I!TypeOK
<1>2. I!SumFunction(insured) = SumFunctionOnSet(insured, Buyers)
  <2>1. DOMAIN insured = Buyers BY DEF InsuranceInv, InsuranceTypes
  <2> QED BY <2>1 DEF I!SumFunction, I!SumFunctionOnSet, I!FoldFunctionOnSet, I!MapThenFoldSet,
         SumFunctionOnSet, FoldFunctionOnSet, MapThenFoldSet
<1>3. payable + I!SumFunction(insured) = Kobo * I!Cardinality(Buyers)
  BY <1>2, InsuranceFacts DEF InsuranceInv, PremiumsKept
<1>4. \A m \in Buyers, n \in 0..I!Cardinality(Rows) : I!Refund(m, n) \in entries => I!Charge(m, n) \in entries
  BY InsuranceFacts DEF InsuranceInv, RefundsAreOfCharges
<1>5. \A z \in One : /\ claim[z].credited = (IF I!Payout(z) \in entries THEN 1 ELSE 0)
                     /\ claim[z].status = "paid" => claim[z].credited = 1
  BY DEF InsuranceInv, ClaimLawful
<1> QED BY <1>1, <1>3, <1>4, <1>5 DEF I!ClaimsAddUp

LEMMA InsuranceAlways == Spec => []InsuranceInv
<1>1. Init => InsuranceInv BY InsuranceStart DEF Init
<1>2. InsuranceInv /\ [Next]_vars => InsuranceInv'
  <2> SUFFICES ASSUME InsuranceInv, [Next]_vars PROVE InsuranceInv' OBVIOUS
  <2>1. I!Next \/ UNCHANGED insuranceVars BY Zenon DEF Next, vars, counterVars
  <2>2. CASE UNCHANGED insuranceVars
    BY <2>2 DEF insuranceVars, InsuranceInv, InsuranceTypes, PolicyLawful, ClaimLawful,
                RefundsAreOfCharges, PremiumsKept
  <2> QED BY <2>1, <2>2, InsuranceStep
<1> QED BY <1>1, <1>2, PTL DEF Spec

-----------------------------------------------------------------------------
(* The books: every handler moves the journal with what it is the book of. *)

Accounts == {"bank", "wallets", "portfolio", "income", "capital", "loss", "provision"}
DebtRow == {r \in [status : {"none", "disbursed", "paid"}, balance : Nat, bucket : 0..2] :
                r.status = "none" => r.balance = 0}
TellerRow == [pc : {"idle", "buy", "provision", "bank", "loans"}, who : Buyers \cup {NoOne},
              month : Int, sum : Int]

BookTypes ==
    /\ balance \in [Buyers -> 0..2] /\ shares \in [Buyers -> Nat]
    /\ journal \in [Accounts -> Int] /\ cash \in Int
    /\ debt \in [One -> DebtRow] /\ month \in {1, 2} /\ run \in [{1, 2} -> Int] /\ allowance \in Int
    /\ teller \in [Hands -> TellerRow] /\ report \in {"none", "ok", "discrepancy"}

TellerKnows(h) ==
    /\ teller[h].pc = "buy" => teller[h].who \in Buyers
    /\ teller[h].pc = "provision" => teller[h].month \in {1, 2} /\ teller[h].sum \in Nat

Provided(p) == IF run[p] > 0 THEN run[p] ELSE 0
ProvisionBooked ==
    /\ allowance = Provided(1) + Provided(2)
    /\ allowance = journal["provision"] /\ journal["loss"] = journal["provision"]

SharesBooked == journal["capital"] = SumFunctionOnSet(shares, Buyers)

Lent == [l \in One |-> debt[l].balance]
NoKoboLost ==
    SumFunctionOnSet(balance, Buyers) + journal["capital"]
        = journal["bank"] + cash + SumFunctionOnSet(Lent, One)

BookInv ==
    /\ BookTypes
    /\ \A h \in Hands : TellerKnows(h)
    /\ ProvisionBooked
    /\ SharesBooked
    /\ NoKoboLost

LEMMA BookSets ==
    /\ IsFiniteSet(Buyers) /\ IsFiniteSet(One) /\ NoOne \notin Buyers
    /\ \A U : K!Cardinality(U) = Cardinality(U)
BY FrontdeskAssumption DEF K!Cardinality, Cardinality

LEMMA GreaterOfTwo ==
    ASSUME NEW a \in Int, NEW b \in Int
    PROVE  K!Max({a, b}) = IF a >= b THEN a ELSE b
<1>1. \E x \in {a, b} : \A y \in {a, b} : x >= y OBVIOUS
<1>2. K!Max({a, b}) \in {a, b} /\ \A y \in {a, b} : K!Max({a, b}) >= y BY <1>1 DEF K!Max
<1> QED BY <1>2

LEMMA BookStart == K!Init => BookInv
<1> SUFFICES ASSUME K!Init PROVE BookInv OBVIOUS
<1> USE DEF K!Init
<1>1. K!Idle \in TellerRow /\ K!Idle.pc = "idle" BY DEF K!Idle, TellerRow
<1>2. K!NoLoan \in DebtRow /\ K!NoLoan.balance = 0 BY DEF K!NoLoan, DebtRow
<1>3. journal \in [Accounts -> Int] /\ \A a \in Accounts : journal[a] = 0 BY DEF Accounts
<1>4. BookTypes BY <1>1, <1>2, <1>3 DEF BookTypes
<1>5. \A h \in Hands : TellerKnows(h) BY <1>1 DEF TellerKnows
<1>6. ProvisionBooked BY <1>3 DEF ProvisionBooked, Provided, Accounts
<1>7. \A U : IsFiniteSet(U) => SumFunctionOnSet([x \in U |-> 0], U) = 0
  <2> SUFFICES ASSUME NEW U, IsFiniteSet(U) PROVE SumFunctionOnSet([x \in U |-> 0], U) = 0 OBVIOUS
  <2> DEFINE z == [x \in U |-> 0]
  <2>1. \A x \in U : z[x] \in Int /\ z[x] = 0 OBVIOUS
  <2>2. {} \in SUBSET U OBVIOUS
  <2> HIDE DEF z
  <2>3. SumFunctionOnSet(z, U) = 0 BY <2>1, <2>2, SumSupport, SumEmpty
  <2> QED BY <2>3 DEF z
<1>8. SumFunctionOnSet(balance, Buyers) = 0 /\ SumFunctionOnSet(shares, Buyers) = 0
  BY <1>7, BookSets
<1>9. Lent = [l \in One |-> 0] BY <1>2 DEF Lent
<1>10. SumFunctionOnSet(Lent, One) = 0 BY <1>7, <1>9, BookSets
<1>11. SharesBooked /\ NoKoboLost BY <1>3, <1>8, <1>10 DEF SharesBooked, NoKoboLost, Accounts
<1> QED BY <1>4, <1>5, <1>6, <1>11 DEF BookInv

-----------------------------------------------------------------------------
(* The sums *)

LEMMA BalanceMoves ==
    ASSUME balance \in [Buyers -> 0..2], NEW m \in Buyers, NEW d \in Int, balance[m] + d \in 0..2,
           balance' = [balance EXCEPT ![m] = balance[m] + d]
    PROVE  /\ balance' \in [Buyers -> 0..2] /\ SumFunctionOnSet(balance, Buyers) \in Int
           /\ SumFunctionOnSet(balance', Buyers) = SumFunctionOnSet(balance, Buyers) + d
<1>1. balance' \in [Buyers -> 0..2] OBVIOUS
<1>2. PICK p, q : p = balance[m] /\ q = balance'[m] OBVIOUS
<1>3. Shifts(balance, balance', Buyers, m, p, q) BY <1>2 DEF Shifts
<1>4. /\ SumFunctionOnSet(balance, Buyers) \in Int
      /\ SumFunctionOnSet(balance', Buyers) = (SumFunctionOnSet(balance, Buyers) - p) + q
  BY ONLY <1>3, SumShift, BookSets
<1>5. q = p + d /\ p \in Int BY <1>2
<1> QED BY <1>1, <1>4, <1>5

LEMMA SharesMove ==
    ASSUME shares \in [Buyers -> Nat], NEW m \in Buyers, shares' = [shares EXCEPT ![m] = shares[m] + 1]
    PROVE  /\ shares' \in [Buyers -> Nat] /\ SumFunctionOnSet(shares, Buyers) \in Int
           /\ SumFunctionOnSet(shares', Buyers) = SumFunctionOnSet(shares, Buyers) + 1
<1>1. shares' \in [Buyers -> Nat] OBVIOUS
<1>2. PICK p, q : p = shares[m] /\ q = shares'[m] OBVIOUS
<1>3. Shifts(shares, shares', Buyers, m, p, q) BY <1>2 DEF Shifts
<1>4. /\ SumFunctionOnSet(shares, Buyers) \in Int
      /\ SumFunctionOnSet(shares', Buyers) = (SumFunctionOnSet(shares, Buyers) - p) + q
  BY ONLY <1>3, SumShift, BookSets
<1>5. q = p + 1 /\ p \in Int BY <1>2
<1> QED BY <1>1, <1>4, <1>5

LEMMA LentMoves ==
    ASSUME debt \in [One -> DebtRow], NEW l \in One, NEW row \in DebtRow, debt' = [debt EXCEPT ![l] = row]
    PROVE  /\ debt' \in [One -> DebtRow] /\ SumFunctionOnSet(Lent, One) \in Int
           /\ SumFunctionOnSet(Lent', One) = (SumFunctionOnSet(Lent, One) - debt[l].balance) + row.balance
<1>0. \A y \in One : debt[y].balance \in Nat /\ row.balance \in Nat BY DEF DebtRow
<1>1. debt' \in [One -> DebtRow] OBVIOUS
<1>2. PICK p, q : p = debt[l].balance /\ q = row.balance OBVIOUS
<1>3. Shifts(Lent, Lent', One, l, p, q) BY <1>0, <1>2 DEF Shifts, Lent
<1>4. /\ SumFunctionOnSet(Lent, One) \in Int
      /\ SumFunctionOnSet(Lent', One) = (SumFunctionOnSet(Lent, One) - p) + q
  BY ONLY <1>3, SumShift, BookSets
<1> QED BY <1>1, <1>2, <1>4

LEMMA BookSums ==
    BookInv => /\ SumFunctionOnSet(balance, Buyers) \in Int /\ SumFunctionOnSet(shares, Buyers) \in Int
               /\ SumFunctionOnSet(Lent, One) \in Int
<1> SUFFICES ASSUME BookInv
             PROVE  /\ SumFunctionOnSet(balance, Buyers) \in Int /\ SumFunctionOnSet(shares, Buyers) \in Int
                    /\ SumFunctionOnSet(Lent, One) \in Int
  OBVIOUS
<1>1. \A y \in Buyers : balance[y] \in Int /\ shares[y] \in Int BY DEF BookInv, BookTypes
<1>2. \A y \in One : Lent[y] \in Int BY DEF BookInv, BookTypes, DebtRow, Lent
<1>3. SumFunctionOnSet(balance, Buyers) \in Int BY <1>1, BookSets, SumInt
<1>4. SumFunctionOnSet(shares, Buyers) \in Int BY <1>1, BookSets, SumInt
<1>5. SumFunctionOnSet(Lent, One) \in Int BY <1>2, BookSets, SumInt
<1> QED BY <1>3, <1>4, <1>5

\* Two legs, on two accounts.
LEMMA Posted ==
    ASSUME BookInv, NEW d \in Accounts, NEW c \in Accounts, NEW n \in Int, d # c, K!PostJournal(d, c, n)
    PROVE  /\ journal' \in [Accounts -> Int]
           /\ journal'[d] = IF d \in K!Assets THEN journal[d] + n ELSE journal[d] - n
           /\ journal'[c] = IF c \in K!Assets THEN journal[c] - n ELSE journal[c] + n
           /\ \A a \in Accounts : a \notin {c, d} => journal'[a] = journal[a]
<1>1. journal \in [Accounts -> Int] BY DEF BookInv, BookTypes
<1> DEFINE dn == IF d \in K!Assets THEN journal[d] + n ELSE journal[d] - n
           cn == IF c \in K!Assets THEN journal[c] - n ELSE journal[c] + n
<1>2. dn \in Int /\ cn \in Int BY <1>1
<1>3. journal' = [journal EXCEPT ![d] = dn, ![c] = cn] BY <1>1 DEF K!PostJournal
<1> HIDE DEF dn, cn
<1>4. journal' \in [Accounts -> Int] /\ journal'[d] = dn /\ journal'[c] = cn
      /\ \A a \in Accounts : a \notin {c, d} => journal'[a] = journal[a]
  BY <1>1, <1>2, <1>3
<1> QED BY <1>4 DEF dn, cn

\* A handler is done, or has not moved.
LEMMA TellerDone ==
    ASSUME BookInv, NEW h \in Hands, K!Done(h)
    PROVE  teller' \in [Hands -> TellerRow] /\ \A k \in Hands : TellerKnows(k)'
<1>1. K!Idle \in TellerRow /\ K!Idle.pc = "idle" BY DEF K!Idle, TellerRow
<1> QED BY <1>1 DEF BookInv, BookTypes, K!Done, TellerKnows

LEMMA TellersKept ==
    ASSUME BookInv, UNCHANGED teller
    PROVE  teller' \in [Hands -> TellerRow] /\ \A k \in Hands : TellerKnows(k)'
BY DEF BookInv, BookTypes, TellerKnows

LEMMA ProvisionKept ==
    ASSUME BookInv, UNCHANGED <<run, allowance>>,
           journal'["loss"] = journal["loss"], journal'["provision"] = journal["provision"]
    PROVE  run' \in [{1, 2} -> Int] /\ allowance' \in Int /\ ProvisionBooked'
BY DEF BookInv, BookTypes, ProvisionBooked, Provided

LEMMA DepositBooked == ASSUME BookInv, NEW m \in Buyers, K!TopUp(m) PROVE BookInv'
<1> USE DEF K!TopUp
<1>0. BookTypes BY DEF BookInv
<1>1. K!PostJournal("bank", "wallets", 1) OBVIOUS
<1>2. /\ journal' \in [Accounts -> Int] /\ journal'["bank"] = journal["bank"] + 1
      /\ \A a \in Accounts \ {"bank", "wallets"} : journal'[a] = journal[a]
  BY <1>1, Posted DEF K!Assets, Accounts
<1>e. PICK d \in Int : d = 1 OBVIOUS
<1>3. balance[m] + d \in 0..2 /\ balance' = [balance EXCEPT ![m] = balance[m] + d]
  BY <1>0, <1>e DEF BookTypes
<1>4. /\ balance' \in [Buyers -> 0..2]
      /\ SumFunctionOnSet(balance', Buyers) = SumFunctionOnSet(balance, Buyers) + d
  BY <1>0, <1>3, BalanceMoves DEF BookTypes
<1>5. run' \in [{1, 2} -> Int] /\ allowance' \in Int /\ ProvisionBooked'
  BY <1>2, ProvisionKept DEF Accounts
<1>6. SharesBooked' BY <1>2 DEF BookInv, SharesBooked, Accounts
<1>7. NoKoboLost'
  <2>1. journal'["capital"] = journal["capital"] /\ journal["capital"] \in Int /\ journal["bank"] \in Int /\ cash \in Int
    BY <1>0, <1>2 DEF BookTypes, Accounts
  <2>2. Lent' = Lent /\ cash' = cash BY DEF Lent
  <2> QED BY <1>2, <1>4, <1>e, <2>1, <2>2, BookSums DEF BookInv, NoKoboLost
<1>8. BookTypes' BY <1>0, <1>2, <1>4, <1>5 DEF BookTypes
<1> QED BY <1>5, <1>6, <1>7, <1>8, TellersKept DEF BookInv

LEMMA CashBooked == ASSUME BookInv, NEW m \in Buyers, K!CollectCashDeposit(m) PROVE BookInv'
<1> USE DEF K!CollectCashDeposit
<1>0. BookTypes BY DEF BookInv
<1>1. K!PostJournal("wallets", "income", 1) BY DEF K!RecordIncome
<1>2. /\ journal' \in [Accounts -> Int]
      /\ \A a \in Accounts \ {"wallets", "income"} : journal'[a] = journal[a]
  BY <1>1, Posted DEF K!Assets, Accounts
<1>e. PICK d \in Int : d = 1 OBVIOUS
<1>3. balance[m] + d \in 0..2 /\ balance' = [balance EXCEPT ![m] = balance[m] + d]
  BY <1>0, <1>e DEF BookTypes
<1>4. /\ balance' \in [Buyers -> 0..2]
      /\ SumFunctionOnSet(balance', Buyers) = SumFunctionOnSet(balance, Buyers) + d
  BY <1>0, <1>3, BalanceMoves DEF BookTypes
<1>5. run' \in [{1, 2} -> Int] /\ allowance' \in Int /\ ProvisionBooked'
  BY <1>2, ProvisionKept DEF Accounts
<1>6. SharesBooked' BY <1>2 DEF BookInv, SharesBooked, Accounts
<1>7. NoKoboLost'
  <2>1. /\ journal'["capital"] = journal["capital"] /\ journal'["bank"] = journal["bank"]
        /\ journal["capital"] \in Int /\ journal["bank"] \in Int /\ cash \in Int /\ cash' = cash + 1
    BY <1>0, <1>2 DEF BookTypes, Accounts
  <2>2. Lent' = Lent BY DEF Lent
  <2>3. SumFunctionOnSet(balance, Buyers) + journal["capital"]
          = journal["bank"] + cash + SumFunctionOnSet(Lent, One)
    BY DEF BookInv, NoKoboLost
  <2>4. SumFunctionOnSet(balance', Buyers) + journal'["capital"]
          = journal'["bank"] + cash' + SumFunctionOnSet(Lent', One)
    <3>1. SumFunctionOnSet(balance, Buyers) \in Int /\ SumFunctionOnSet(Lent, One) \in Int BY BookSums
    <3> QED BY ONLY <1>4, <1>e, <2>1, <2>2, <2>3, <3>1
  <2> QED BY <2>4 DEF NoKoboLost
<1>8. BookTypes' BY <1>0, <1>2, <1>4, <1>5 DEF BookTypes
<1> QED BY <1>5, <1>6, <1>7, <1>8, TellersKept DEF BookInv

\* A handler reads.
LEMMA TellerReads ==
    ASSUME BookInv, NEW h \in Hands, NEW pc \in {"buy", "provision", "bank"}, NEW m \in Buyers \cup {NoOne},
           NEW p \in Int, NEW n \in Int, K!Take(h, pc, m, p, n), pc = "buy" => m \in Buyers,
           pc = "provision" => p \in {1, 2} /\ n \in Nat
    PROVE  BookInv'
<1> USE DEF K!Take
<1> DEFINE row == [pc |-> pc, who |-> m, month |-> p, sum |-> n]
<1>1. row \in TellerRow /\ row.pc = pc /\ row.who = m /\ row.month = p /\ row.sum = n BY DEF TellerRow
<1>2. teller' = [teller EXCEPT ![h] = row] OBVIOUS
<1> HIDE DEF row
<1>3. teller' \in [Hands -> TellerRow] /\ teller'[h] = row /\ \A k \in Hands : k # h => teller'[k] = teller[k]
  BY <1>1, <1>2 DEF BookInv, BookTypes
<1>4. \A k \in Hands : TellerKnows(k)'
  <2>1. TellerKnows(h)' BY <1>1, <1>3 DEF TellerKnows
  <2>2. ASSUME NEW k \in Hands, k # h PROVE TellerKnows(k)' BY <2>2, <1>3 DEF BookInv, TellerKnows
  <2> QED BY <2>1, <2>2
<1>5. BookTypes' BY <1>3 DEF BookInv, BookTypes
<1>6. ProvisionBooked' /\ SharesBooked' /\ NoKoboLost'
  <2>1. Lent' = Lent BY DEF Lent
  <2> QED BY <2>1 DEF BookInv, ProvisionBooked, Provided, SharesBooked, NoKoboLost
<1> QED BY <1>4, <1>5, <1>6 DEF BookInv

LEMMA ShareBooked == ASSUME BookInv, NEW h \in Hands, K!BuyShares(h) PROVE BookInv'
<1> USE DEF K!BuyShares
<1>0. BookTypes BY DEF BookInv
<1>1. PICK m \in Buyers : teller[h].who = m BY DEF BookInv, TellerKnows
<1>d. teller' \in [Hands -> TellerRow] /\ \A k \in Hands : TellerKnows(k)' BY TellerDone
<1>2. CASE ~(balance[m] > 0)
  <2>1. UNCHANGED <<balance, shares, journal, cash, debt, month, run, allowance, report>> BY <1>1, <1>2
  <2>2. BookTypes' BY <1>0, <1>d, <2>1 DEF BookTypes
  <2>3. ProvisionBooked' /\ SharesBooked' /\ NoKoboLost'
    <3>1. Lent' = Lent BY <2>1 DEF Lent
    <3> QED BY <3>1, <2>1 DEF BookInv, ProvisionBooked, Provided, SharesBooked, NoKoboLost
  <2> QED BY <1>d, <2>2, <2>3 DEF BookInv
<1>3. CASE balance[m] > 0
  <2>1. /\ K!PostJournal("wallets", "capital", 1)
        /\ balance' = [balance EXCEPT ![m] = balance[m] - 1]
        /\ shares' = [shares EXCEPT ![m] = shares[m] + 1]
    BY <1>0, <1>1, <1>3 DEF BookTypes
  <2>2. /\ journal' \in [Accounts -> Int] /\ journal'["capital"] = journal["capital"] + 1
        /\ \A a \in Accounts \ {"wallets", "capital"} : journal'[a] = journal[a]
    BY <2>1, Posted DEF K!Assets, Accounts
  <2> DEFINE d == 0 - 1
  <2>3. balance[m] - 1 = balance[m] + d /\ balance[m] + d \in 0..2 /\ d \in Int BY <1>0, <1>3 DEF BookTypes
  <2>e. d = 0 - 1 OBVIOUS
  <2> HIDE DEF d
  <2>4. balance' = [balance EXCEPT ![m] = balance[m] + d] BY <2>1, <2>3
  <2>5. /\ balance' \in [Buyers -> 0..2]
        /\ SumFunctionOnSet(balance', Buyers) = SumFunctionOnSet(balance, Buyers) + d
    BY <1>0, <2>3, <2>4, BalanceMoves DEF BookTypes
  <2>6. /\ shares' \in [Buyers -> Nat]
        /\ SumFunctionOnSet(shares', Buyers) = SumFunctionOnSet(shares, Buyers) + 1
    BY <1>0, <2>1, SharesMove DEF BookTypes
  <2>7. run' \in [{1, 2} -> Int] /\ allowance' \in Int /\ ProvisionBooked'
    BY <2>2, ProvisionKept DEF Accounts
  <2>8. SharesBooked' BY <2>2, <2>6 DEF BookInv, SharesBooked
  <2>9. NoKoboLost'
    <3>1. /\ journal'["bank"] = journal["bank"] /\ journal["capital"] \in Int /\ journal["bank"] \in Int
          /\ cash \in Int /\ cash' = cash
      BY <1>0, <2>2 DEF BookTypes, Accounts
    <3>2. Lent' = Lent BY DEF Lent
    <3> QED BY <2>2, <2>5, <2>e, <3>1, <3>2, BookSums DEF BookInv, NoKoboLost
  <2>10. BookTypes' BY <1>0, <1>d, <2>2, <2>5, <2>6, <2>7 DEF BookTypes
  <2> QED BY <1>d, <2>7, <2>8, <2>9, <2>10 DEF BookInv
<1> QED BY <1>2, <1>3

LEMMA LoanBooked == ASSUME BookInv, NEW l \in One, K!PayOutLoan(l) PROVE BookInv'
<1> USE DEF K!PayOutLoan
<1>0. BookTypes /\ debt[l] \in DebtRow BY DEF BookInv, BookTypes
<1>1. K!PostJournal("portfolio", "bank", 2) BY DEF K!RecordMovement
<1>2. /\ journal' \in [Accounts -> Int] /\ journal'["bank"] = journal["bank"] - 2
      /\ \A a \in Accounts \ {"portfolio", "bank"} : journal'[a] = journal[a]
  BY <1>1, Posted DEF K!Assets, Accounts
<1> DEFINE row == [status |-> "disbursed", balance |-> 2, bucket |-> 0]
<1>3. row \in DebtRow /\ row.balance = 2 /\ debt[l].balance = 0 BY <1>0 DEF DebtRow
<1>4. debt' = [debt EXCEPT ![l] = row] OBVIOUS
<1> HIDE DEF row
<1>a. /\ debt' \in [One -> DebtRow]
      /\ SumFunctionOnSet(Lent', One) = (SumFunctionOnSet(Lent, One) - debt[l].balance) + row.balance
  BY <1>0, <1>3, <1>4, LentMoves DEF BookTypes
<1>5. SumFunctionOnSet(Lent', One) = SumFunctionOnSet(Lent, One) + 2 BY <1>a, <1>3, BookSums
<1>6. run' \in [{1, 2} -> Int] /\ allowance' \in Int /\ ProvisionBooked'
  BY <1>2, ProvisionKept DEF Accounts
<1>7. SharesBooked' BY <1>2 DEF BookInv, SharesBooked, Accounts
<1>8. NoKoboLost'
  <2>1. /\ journal'["capital"] = journal["capital"] /\ journal["capital"] \in Int /\ journal["bank"] \in Int
        /\ cash \in Int /\ cash' = cash /\ balance' = balance
    BY <1>0, <1>2 DEF BookTypes, Accounts
  <2> QED BY <1>2, <1>5, <2>1, BookSums DEF BookInv, NoKoboLost
<1>9. BookTypes' BY <1>0, <1>2, <1>a, <1>6 DEF BookTypes
<1> QED BY <1>6, <1>7, <1>8, <1>9, TellersKept DEF BookInv

LEMMA RepaymentBooked == ASSUME BookInv, NEW m \in Buyers, NEW l \in One, K!RepayLoan(m, l) PROVE BookInv'
<1> USE DEF K!RepayLoan
<1>0. BookTypes /\ debt[l] \in DebtRow BY DEF BookInv, BookTypes
<1>1. K!PostJournal("portfolio", "wallets", 1) BY DEF K!RecordMovement
<1>2. /\ journal' \in [Accounts -> Int]
      /\ \A a \in Accounts \ {"portfolio", "wallets"} : journal'[a] = journal[a]
  BY <1>1, Posted DEF K!Assets, Accounts
<1> DEFINE d == 0 - 1
<1>3. balance[m] - 1 = balance[m] + d /\ balance[m] + d \in 0..2 /\ d \in Int /\ d = 0 - 1
  BY <1>0 DEF BookTypes
<1>b. balance' = [balance EXCEPT ![m] = balance[m] - 1] BY <1>0 DEF BookTypes
<1> HIDE DEF d
<1>4. balance' = [balance EXCEPT ![m] = balance[m] + d] BY <1>3, <1>b
<1>5. /\ balance' \in [Buyers -> 0..2]
      /\ SumFunctionOnSet(balance', Buyers) = SumFunctionOnSet(balance, Buyers) + d
  BY <1>0, <1>3, <1>4, BalanceMoves DEF BookTypes
<1>6. debt[l].bucket \in 0..2 /\ debt[l].balance \in Nat /\ debt[l].balance > 0 /\ debt[l].status # "none"
      /\ debt[l].status \in {"none", "disbursed", "paid"}
  BY <1>0 DEF DebtRow
<1>7. PICK b : b = K!Max({debt[l].bucket - 1, 0}) OBVIOUS
<1>8. b \in 0..2
  <2>1. debt[l].bucket - 1 \in Int /\ 0 \in Int BY <1>6
  <2>2. b = IF debt[l].bucket - 1 >= 0 THEN debt[l].bucket - 1 ELSE 0 BY <1>7, <2>1, GreaterOfTwo
  <2> QED BY <1>6, <2>2
<1>9. PICK s : s = IF debt[l].balance = 1 THEN "paid" ELSE debt[l].status OBVIOUS
<1>10. s \in {"disbursed", "paid"} BY <1>6, <1>9
<1> DEFINE row == [debt[l] EXCEPT !.balance = debt[l].balance - 1, !.bucket = b, !.status = s]
<1>11. row \in DebtRow /\ row.balance = debt[l].balance - 1
  <2>1. PICK n \in Nat : n = debt[l].balance - 1 BY <1>6
  <2>2. row = [debt[l] EXCEPT !.balance = n, !.bucket = b, !.status = s] BY <2>1
  <2>3. debt[l] \in [status : {"none", "disbursed", "paid"}, balance : Nat, bucket : 0..2]
    BY <1>0 DEF DebtRow
  <2> HIDE DEF row
  <2>4. /\ row \in [status : {"none", "disbursed", "paid"}, balance : Nat, bucket : 0..2]
        /\ row.balance = n /\ row.status = s
    BY <1>8, <1>10, <2>1, <2>2, <2>3
  <2> QED BY <1>10, <2>1, <2>4 DEF DebtRow
<1>12. debt' = [debt EXCEPT ![l] = row] BY <1>0, <1>7, <1>9 DEF BookTypes
<1> HIDE DEF row
<1>13. debt' \in [One -> DebtRow]
       /\ SumFunctionOnSet(Lent', One) = (SumFunctionOnSet(Lent, One) - debt[l].balance) + row.balance
  BY <1>0, <1>11, <1>12, LentMoves DEF BookTypes
<1>14. run' \in [{1, 2} -> Int] /\ allowance' \in Int /\ ProvisionBooked'
  BY <1>2, ProvisionKept DEF Accounts
<1>15. SharesBooked' BY <1>2 DEF BookInv, SharesBooked, Accounts
<1>16. NoKoboLost'
  <2>1. /\ journal'["capital"] = journal["capital"] /\ journal'["bank"] = journal["bank"]
        /\ journal["capital"] \in Int /\ journal["bank"] \in Int /\ cash \in Int /\ cash' = cash
    BY <1>0, <1>2 DEF BookTypes, Accounts
  <2> QED BY <1>3, <1>5, <1>6, <1>11, <1>13, <2>1, BookSums DEF BookInv, NoKoboLost
<1>17. BookTypes' BY <1>0, <1>2, <1>5, <1>13, <1>14 DEF BookTypes
<1> QED BY <1>14, <1>15, <1>16, <1>17, TellersKept DEF BookInv

LEMMA MonthPasses == ASSUME BookInv, K!NextMonth PROVE BookInv'
<1> USE DEF K!NextMonth
<1>0. BookTypes BY DEF BookInv
<1>1. ASSUME NEW l \in One
      PROVE  debt'[l] \in DebtRow /\ debt'[l].balance = debt[l].balance
  <2>1. debt[l] \in DebtRow BY <1>0 DEF BookTypes
  <2>2. CASE ~(debt[l].balance > 0 /\ debt[l].bucket < 2) BY <2>1, <2>2
  <2>3. CASE debt[l].balance > 0 /\ debt[l].bucket < 2
    <3>1. debt'[l] = [debt[l] EXCEPT !.bucket = debt[l].bucket + 1] BY <2>1, <2>3
    <3>2. debt[l].bucket + 1 \in 0..2 BY <2>1, <2>3 DEF DebtRow
    <3> QED BY <2>1, <3>1, <3>2 DEF DebtRow
  <2> QED BY <2>2, <2>3
<1>2. debt' \in [One -> DebtRow]
  <2>1. debt' = [l \in One |-> debt'[l]] OBVIOUS
  <2> QED BY <1>1, <2>1
<1>3. Lent' = Lent BY <1>1 DEF Lent
<1>4. ProvisionBooked' /\ SharesBooked' /\ NoKoboLost'
  BY <1>3 DEF BookInv, ProvisionBooked, Provided, SharesBooked, NoKoboLost
<1>5. month' \in {1, 2} OBVIOUS
<1>6. BookTypes' BY <1>0, <1>2, <1>5 DEF BookTypes
<1> QED BY <1>4, <1>6, TellersKept DEF BookInv

\* What a loan loses is no less than nothing.
LEMMA ProvisionIsRead == ASSUME BookInv, NEW h \in Hands, K!ProvisionRead(h) PROVE BookInv'
<1> USE DEF K!ProvisionRead
<1> DEFINE f == [l \in One |-> K!Loss(l)]
<1>1. ASSUME NEW l \in One PROVE K!Loss(l) \in Nat
  <2>1. debt[l].bucket \in 0..2 /\ debt[l].balance \in Nat BY DEF BookInv, BookTypes, DebtRow
  <2>2. \A x \in Nat : x \div 2 \in Nat OBVIOUS
  <2>3. debt[l].balance \div 2 \in Nat BY <2>1, <2>2
  <2>4. CASE debt[l].bucket = 0 BY <2>4 DEF K!Loss
  <2>5. CASE debt[l].bucket = 1 BY <2>5, <2>3 DEF K!Loss
  <2>6. CASE debt[l].bucket = 2 BY <2>6, <2>1 DEF K!Loss
  <2> QED BY <2>1, <2>4, <2>5, <2>6
<1>2. \A l \in One : f[l] \in Nat BY <1>1
<1>3. DOMAIN f = One OBVIOUS
<1>4. K!ComputeProvision = K!SumFunction(f) BY DEF K!ComputeProvision
<1> HIDE DEF f
<1>5. K!SumFunction(f) = SumFunctionOnSet(f, One)
  BY <1>3 DEF K!SumFunction, K!SumFunctionOnSet, K!FoldFunctionOnSet, K!MapThenFoldSet,
      SumFunctionOnSet, FoldFunctionOnSet, MapThenFoldSet
<1>6. SumFunctionOnSet(f, One) \in Nat BY <1>2, BookSets, SumNat
<1>7. PICK n \in Nat : K!Take(h, "provision", NoOne, month, n) BY <1>4, <1>5, <1>6
<1>8. month \in {1, 2} /\ month \in Int /\ n \in Int BY DEF BookInv, BookTypes
<1> QED BY <1>7, <1>8, TellerReads

LEMMA ProvisionIsBooked == ASSUME BookInv, NEW h \in Hands, K!RunProvision(h) PROVE BookInv'
<1> USE DEF K!RunProvision
<1>0. BookTypes BY DEF BookInv
<1>1. PICK p \in {1, 2} : teller[h].month = p BY DEF BookInv, TellerKnows
<1>2. PICK n \in Nat : teller[h].sum = n BY DEF BookInv, TellerKnows
<1>d. teller' \in [Hands -> TellerRow] /\ \A k \in Hands : TellerKnows(k)' BY TellerDone
<1>l. Lent' = Lent BY DEF Lent
<1>3. CASE run[p] # -1
  <2>1. UNCHANGED <<run, journal, allowance>> BY <1>1, <1>3 DEF K!NotRun
  <2>2. BookTypes' BY <1>0, <1>d, <2>1 DEF BookTypes
  <2>3. ProvisionBooked' /\ SharesBooked' /\ NoKoboLost'
    BY <1>l, <2>1 DEF BookInv, ProvisionBooked, Provided, SharesBooked, NoKoboLost
  <2> QED BY <1>d, <2>2, <2>3 DEF BookInv
<1>4. CASE run[p] = -1
  <2>1. run' = [run EXCEPT ![p] = n] /\ K!PostJournal("loss", "provision", n) /\ allowance' = allowance + n
    BY <1>1, <1>2, <1>4 DEF K!NotRun
  <2>2. /\ journal' \in [Accounts -> Int] /\ journal'["loss"] = journal["loss"] + n
        /\ journal'["provision"] = journal["provision"] + n
        /\ \A a \in Accounts \ {"loss", "provision"} : journal'[a] = journal[a]
    BY <2>1, Posted DEF K!Assets, Accounts
  <2>3. run' \in [{1, 2} -> Int] /\ allowance' \in Int BY <1>0, <2>1 DEF BookTypes
  <2>4. ProvisionBooked'
    <3>1. Provided(p) = 0 BY <1>4 DEF Provided
    <3>2. run'[p] = n /\ \A x \in {1, 2} : x # p => run'[x] = run[x] BY <1>0, <2>1 DEF BookTypes
    <3>3. Provided(p)' = n BY <3>2 DEF Provided
    <3>4. \A x \in {1, 2} : x # p => Provided(x)' = Provided(x) BY <3>2 DEF Provided
    <3>5. \A x \in {1, 2} : Provided(x) \in Int BY <1>0 DEF BookTypes, Provided
    <3>6. Provided(1)' + Provided(2)' = (Provided(1) + Provided(2)) + n
      <4>1. CASE p = 1 BY <4>1, <3>1, <3>3, <3>4, <3>5
      <4>2. CASE p = 2 BY <4>2, <3>1, <3>3, <3>4, <3>5
      <4> QED BY <4>1, <4>2
    <3>7. /\ allowance = Provided(1) + Provided(2) /\ allowance = journal["provision"]
          /\ journal["loss"] = journal["provision"]
      BY DEF BookInv, ProvisionBooked
    <3> QED BY <2>1, <2>2, <3>6, <3>7 DEF ProvisionBooked
  <2>5. SharesBooked' BY <2>2 DEF BookInv, SharesBooked, Accounts
  <2>6. NoKoboLost'
    <3>1. journal'["capital"] = journal["capital"] /\ journal'["bank"] = journal["bank"] BY <2>2 DEF Accounts
    <3> QED BY <1>l, <3>1 DEF BookInv, NoKoboLost
  <2>7. BookTypes' BY <1>0, <1>d, <2>2, <2>3 DEF BookTypes
  <2> QED BY <1>d, <2>4, <2>5, <2>6, <2>7 DEF BookInv
<1> QED BY <1>3, <1>4

LEMMA WalletsAreRead == ASSUME BookInv, NEW h \in Hands, K!ReconcileWallets(h) PROVE BookInv'
<1>1. K!SumFunction(balance) = SumFunctionOnSet(balance, Buyers)
  <2>1. DOMAIN balance = Buyers BY DEF BookInv, BookTypes
  <2> QED BY <2>1 DEF K!SumFunction, K!SumFunctionOnSet, K!FoldFunctionOnSet, K!MapThenFoldSet,
      SumFunctionOnSet, FoldFunctionOnSet, MapThenFoldSet
<1>2. PICK n \in Int : n = K!SumFunction(balance) BY <1>1, BookSums
<1>3. K!Take(h, "bank", NoOne, 0, n) BY <1>2 DEF K!ReconcileWallets
<1> QED BY <1>3, TellerReads

LEMMA BankIsRead == ASSUME BookInv, NEW h \in Hands, K!ReconcileBank(h) PROVE BookInv'
<1> USE DEF K!ReconcileBank
<1>0. BookTypes /\ teller[h] \in TellerRow BY DEF BookInv, BookTypes
<1> DEFINE row == [teller[h] EXCEPT !.pc = "loans", !.sum = journal.bank - teller[h].sum]
<1>1. journal.bank - teller[h].sum \in Int BY <1>0 DEF BookTypes, TellerRow, Accounts
<1>2. row \in TellerRow /\ row.pc = "loans" BY <1>0, <1>1 DEF TellerRow
<1>3. teller' = [teller EXCEPT ![h] = row] BY <1>0 DEF BookTypes
<1> HIDE DEF row
<1>4. teller' \in [Hands -> TellerRow] /\ \A k \in Hands : TellerKnows(k)'
  BY <1>0, <1>2, <1>3 DEF BookInv, BookTypes, TellerKnows
<1>5. Lent' = Lent BY DEF Lent
<1>6. ProvisionBooked' /\ SharesBooked' /\ NoKoboLost'
  BY <1>5 DEF BookInv, ProvisionBooked, Provided, SharesBooked, NoKoboLost
<1>7. BookTypes' BY <1>0, <1>4 DEF BookTypes
<1> QED BY <1>4, <1>6, <1>7 DEF BookInv

LEMMA Reconciled == ASSUME BookInv, NEW h \in Hands, K!Reconcile(h) PROVE BookInv'
<1> USE DEF K!Reconcile
<1>1. teller' \in [Hands -> TellerRow] /\ \A k \in Hands : TellerKnows(k)' BY TellerDone
<1>2. report' \in {"none", "ok", "discrepancy"} OBVIOUS
<1>3. BookTypes' BY <1>1, <1>2 DEF BookInv, BookTypes
<1>4. Lent' = Lent BY DEF Lent
<1>5. ProvisionBooked' /\ SharesBooked' /\ NoKoboLost'
  BY <1>4 DEF BookInv, ProvisionBooked, Provided, SharesBooked, NoKoboLost
<1> QED BY <1>1, <1>3, <1>5 DEF BookInv

LEMMA BookStep == ASSUME BookInv, K!Next PROVE BookInv'
<1>1. ASSUME NEW h \in Hands, NEW m \in Buyers, K!BuyRead(h, m) PROVE BookInv'
  <2>1. 0 \in Int /\ 1 \in Int OBVIOUS
  <2> QED BY <1>1, <2>1, TellerReads DEF K!BuyRead
<1> QED BY <1>1, DepositBooked, CashBooked, ShareBooked, LoanBooked, RepaymentBooked, MonthPasses,
           ProvisionIsRead, ProvisionIsBooked, WalletsAreRead, BankIsRead, Reconciled DEF K!Next

LEMMA BookHolds == BookInv => K!TypeOK /\ K!BooksAddUp
<1> SUFFICES ASSUME BookInv PROVE K!TypeOK /\ K!BooksAddUp OBVIOUS
<1>0. BookTypes BY DEF BookInv
<1>1. K!TypeOK BY <1>0 DEF BookTypes, DebtRow, TellerRow, K!TypeOK
<1>2. \A f, U : DOMAIN f = U => K!SumFunction(f) = SumFunctionOnSet(f, U)
  BY DEF K!SumFunction, K!SumFunctionOnSet, K!FoldFunctionOnSet, K!MapThenFoldSet,
      SumFunctionOnSet, FoldFunctionOnSet, MapThenFoldSet
<1> DEFINE runsOf == [p \in {1, 2} |-> K!Max({run[p], 0})]
<1>3. allowance = K!SumFunction(runsOf)
  <2>1. ASSUME NEW p \in {1, 2} PROVE runsOf[p] = Provided(p) /\ runsOf[p] \in Int
    <3>1. run[p] \in Int /\ 0 \in Int BY <1>0 DEF BookTypes
    <3>2. K!Max({run[p], 0}) = IF run[p] >= 0 THEN run[p] ELSE 0 BY <3>1, GreaterOfTwo
    <3> QED BY <3>1, <3>2 DEF Provided
  <2>2. DOMAIN runsOf = {1, 2} OBVIOUS
  <2> HIDE DEF runsOf
  <2>3. K!SumFunction(runsOf) = SumFunctionOnSet(runsOf, {1, 2}) BY <1>2, <2>2
  <2>4. IsFiniteSet({1, 2}) /\ IsFiniteSet({2}) /\ {1, 2} \ {1} = {2} /\ {2} \ {2} = {}
    BY FS_Singleton, FS_AddElement, FS_EmptySet
  <2>5. SumFunctionOnSet(runsOf, {1, 2}) = runsOf[1] + SumFunctionOnSet(runsOf, {2})
    <3>1. \A x \in {1, 2} : runsOf[x] \in Int BY <2>1
    <3>2. SumFunctionOnSet(runsOf, {1, 2}) = runsOf[1] + SumFunctionOnSet(runsOf, {1, 2} \ {1})
      BY <3>1, <2>4, SumRemove
    <3> QED BY <3>2, <2>4
  <2>6. SumFunctionOnSet(runsOf, {2}) = runsOf[2] + SumFunctionOnSet(runsOf, {})
    <3>1. \A x \in {2} : runsOf[x] \in Int BY <2>1
    <3>2. SumFunctionOnSet(runsOf, {2}) = runsOf[2] + SumFunctionOnSet(runsOf, {2} \ {2})
      BY <3>1, <2>4, SumRemove
    <3> QED BY <3>2, <2>4
  <2>7. SumFunctionOnSet(runsOf, {}) = 0 BY SumEmpty
  <2>8. runsOf[1] \in Int /\ runsOf[2] \in Int /\ runsOf[1] = Provided(1) /\ runsOf[2] = Provided(2) BY <2>1
  <2>9. SumFunctionOnSet(runsOf, {1, 2}) = Provided(1) + Provided(2) BY <2>5, <2>6, <2>7, <2>8
  <2> QED BY <2>3, <2>9 DEF BookInv, ProvisionBooked
<1>4. K!SumFunction(shares) = SumFunctionOnSet(shares, Buyers)
      /\ K!SumFunction(balance) = SumFunctionOnSet(balance, Buyers)
      /\ K!SumFunction([l \in One |-> debt[l].balance]) = SumFunctionOnSet(Lent, One)
  BY <1>0, <1>2 DEF BookTypes, Lent
<1> DEFINE lentOut == K!Cardinality({l \in One : debt[l].status # "none"}) * 2
<1>5. lentOut \in Int
  <2> DEFINE U == {l \in One : debt[l].status # "none"}
  <2>1. U \in SUBSET One OBVIOUS
  <2> HIDE DEF U
  <2>2. K!Cardinality(U) \in Nat BY <2>1, BookSets, FS_Subset, FS_CardinalityType
  <2> QED BY <2>2 DEF U
<1> HIDE DEF lentOut
<1>6. /\ journal.capital \in Int /\ journal.bank \in Int /\ cash \in Int
  BY <1>0 DEF BookTypes, Accounts
<1>7. SumFunctionOnSet(balance, Buyers) + journal.capital + (lentOut - SumFunctionOnSet(Lent, One))
        = (journal.bank + lentOut) + cash
  BY <1>5, <1>6, BookSums DEF BookInv, NoKoboLost
<1>8. K!SumFunction(balance) + journal.capital + (lentOut - K!SumFunction([l \in One |-> debt[l].balance]))
        = (journal.bank + lentOut) + cash
  BY <1>4, <1>7
<1>9. allowance = journal.provision /\ journal.loss = journal.provision
      /\ journal.capital = K!SumFunction(shares)
  BY <1>4 DEF BookInv, ProvisionBooked, SharesBooked
<1> QED BY <1>1, <1>3, <1>8, <1>9 DEF K!BooksAddUp, lentOut

LEMMA BookAlways == Spec => []BookInv
<1>1. Init => BookInv BY BookStart DEF Init
<1>2. BookInv /\ [Next]_vars => BookInv'
  <2> SUFFICES ASSUME BookInv, [Next]_vars PROVE BookInv' OBVIOUS
  <2>1. K!Next \/ UNCHANGED booksVars BY Zenon DEF Next, vars, counterVars
  <2>2. CASE UNCHANGED booksVars
    <3>1. Lent' = Lent BY <2>2 DEF Lent, booksVars
    <3> QED BY <2>2, <3>1 DEF booksVars, BookInv, BookTypes, TellerKnows, ProvisionBooked, Provided,
                SharesBooked, NoKoboLost
  <2> QED BY <2>1, <2>2, BookStep
<1> QED BY <1>1, <1>2, PTL DEF Spec

-----------------------------------------------------------------------------
(* The screening of a member's money: X are the rows, A their amounts, and there may be
   n reports of a type. *)

ReportTypes == {"CTR", "STR"}
ReportsOf(n) == ReportTypes \X (1..n)
StageRow == {"none", "held", "now", "day"}
AskedRow == {"now", "day", "old"}
\* A report that is not made is of no day.
FilingRow == {r \in [status : {"none", "pending", "filed"}, age : {"today", "past", "due", "alerted"}] :
                r.status = "none" => r.age = "past"}
\* Only a screening makes reports, only the job has alerts.
CheckerRow(n, X) ==
    {r \in [pc : {"idle", "commit", "alert"}, x : X \cup {NoRow}, checked : BOOLEAN, hold : BOOLEAN,
            made : SUBSET ReportsOf(n), due : SUBSET ReportsOf(n), told : SUBSET ReportsOf(n)] :
        /\ r.made # {} => r.checked
        /\ r.checked => r.pc = "commit"
        /\ r.pc # "alert" => r.due = {} /\ r.told = {}}

AmlTypes(n, X) ==
    /\ stage \in [X -> StageRow] /\ asked \in [X -> AskedRow] /\ screened \subseteq X
    /\ filing \in [ReportsOf(n) -> FilingRow] /\ accepted \subseteq ReportsOf(n)
    /\ checker \in [Hands -> CheckerRow(n, X)] /\ overlapped \in BOOLEAN
    /\ due \in [ReportsOf(n) -> Int]

CtrMade(n) == \E r \in ReportsOf(n) : r[1] = "CTR" /\ filing[r].status # "none"

\* A report is in one handler until it has its row.
MadeOnce ==
    /\ \A h \in Hands : \A r \in checker[h].made : filing[r].status = "none"
    /\ \A h, k \in Hands : h # k => checker[h].made \cap checker[k].made = {}
CtrFollows(n, A) ==
    \A h \in Hands : checker[h].checked /\ checker[h].x # NoRow /\ A[checker[h].x] >= 4 =>
        CtrMade(n) \/ \E r \in checker[h].made : r[1] = "CTR"
\* While no two screenings overlap, the day has no report of what is being made.
OneScreens(n) ==
    ~overlapped =>
        /\ \A h, k \in Hands : checker[h].checked /\ checker[k].checked => h = k
        /\ \A h \in Hands : \A q, r \in checker[h].made : q[1] = r[1] => q = r
        /\ \A h \in Hands : \A r \in checker[h].made : \A q \in ReportsOf(n) :
                q[1] = r[1] => filing[q].age # "today"
        /\ \A q, r \in ReportsOf(n) :
                filing[q].age = "today" /\ filing[r].age = "today" /\ q[1] = r[1] => q = r
FiledTaken(n) == \A r \in ReportsOf(n) : filing[r].status = "filed" => r \in accepted
ScreenedTold(n) == screened # {} => CtrMade(n)

\* An alert is sent by one job, for what is due.
Teller(r) == \E h \in Hands : r \in checker[h].told
AlertsDue(n) ==
    /\ \A h \in Hands : \A r \in checker[h].due : filing[r].age \in {"due", "alerted"}
    /\ \A h \in Hands : \A r \in checker[h].told : filing[r].age = "due"
    /\ \A h, k \in Hands : h # k => checker[h].told \cap checker[k].told = {}
    /\ \A r \in ReportsOf(n) : due[r] >= 0 /\ (filing[r].age = "due" /\ ~Teller(r) => due[r] >= 1)

ReportsKnown(n, A) == MadeOnce /\ CtrFollows(n, A) /\ OneScreens(n) /\ FiledTaken(n) /\ ScreenedTold(n)
AmlInv(n, X, A) == AmlTypes(n, X) /\ ReportsKnown(n, A) /\ AlertsDue(n)

NoneInHand == [pc |-> "idle", x |-> NoRow, checked |-> FALSE, hold |-> FALSE, made |-> {},
               due |-> {}, told |-> {}]

LEMMA NoneIsRow ==
    ASSUME NEW n, NEW X
    PROVE  NoneInHand \in CheckerRow(n, X) /\ NoneInHand.pc = "idle" /\ ~NoneInHand.checked
           /\ NoneInHand.made = {} /\ NoneInHand.due = {} /\ NoneInHand.told = {}
BY DEF NoneInHand, CheckerRow

LEMMA AmlStart ==
    ASSUME NEW n, NEW X, NEW A,
           stage = [x \in X |-> "none"], asked = [x \in X |-> "old"], screened = {},
           filing = [r \in ReportsOf(n) |-> [status |-> "none", age |-> "past"]], accepted = {},
           checker = [h \in Hands |-> NoneInHand], overlapped = FALSE, due = [r \in ReportsOf(n) |-> 0]
    PROVE  AmlInv(n, X, A)
<1>1. AmlTypes(n, X)
  <2>1. stage \in [X -> StageRow] /\ asked \in [X -> AskedRow] BY DEF StageRow, AskedRow
  <2>2. filing \in [ReportsOf(n) -> FilingRow] BY DEF FilingRow
  <2>3. checker \in [Hands -> CheckerRow(n, X)] BY NoneIsRow
  <2>4. overlapped \in BOOLEAN BY Zenon
  <2>5. screened \subseteq X /\ accepted \subseteq ReportsOf(n) /\ due \in [ReportsOf(n) -> Int] OBVIOUS
  <2> QED BY <2>1, <2>2, <2>3, <2>4, <2>5 DEF AmlTypes
<1>2. \A h \in Hands : /\ checker[h].made = {} /\ checker[h].due = {} /\ checker[h].told = {}
                       /\ ~checker[h].checked
  BY NoneIsRow
<1>3. \A r \in ReportsOf(n) : filing[r].status = "none" /\ filing[r].age = "past" /\ due[r] = 0 OBVIOUS
<1>4. ReportsKnown(n, A)
  BY <1>2, <1>3 DEF ReportsKnown, MadeOnce, CtrFollows, OneScreens, FiledTaken, ScreenedTold
<1>5. AlertsDue(n) BY <1>2, <1>3 DEF AlertsDue
<1> QED BY <1>1, <1>4, <1>5 DEF AmlInv

\* A handler starts on a row, or on none: h has made nothing and has nothing to tell.
LEMMA CheckerIdle ==
    ASSUME NEW n, NEW X, NEW A, AmlInv(n, X, A), NEW h \in Hands
    PROVE  /\ checker[h] \in CheckerRow(n, X)
           /\ checker[h].pc # "commit" => checker[h].made = {} /\ ~checker[h].checked
           /\ checker[h].pc # "alert" => checker[h].due = {} /\ checker[h].told = {}
           /\ checker[h].made # {} => checker[h].checked
           /\ checker[h].made \subseteq ReportsOf(n) /\ checker[h].due \subseteq ReportsOf(n)
           /\ checker[h].told \subseteq ReportsOf(n) /\ checker[h].x \in X \cup {NoRow}
BY DEF AmlInv, AmlTypes, CheckerRow

\* Alerts do not move when the reports that are due do not, and their jobs stay.
LEMMA AlertsStay ==
    ASSUME NEW n, AlertsDue(n),
           \A h \in Hands : checker'[h].due = checker[h].due /\ checker'[h].told = checker[h].told,
           \A r \in ReportsOf(n) : \/ filing'[r] = filing[r]
                                   \/ filing[r].age \notin {"due", "alerted"} /\ filing'[r].age # "due",
           \A h \in Hands : checker[h].due \subseteq ReportsOf(n) /\ checker[h].told \subseteq ReportsOf(n),
           UNCHANGED due
    PROVE  AlertsDue(n)'
<1>1. \A r : Teller(r)' <=> Teller(r) BY DEF Teller
<1>2. \A h \in Hands : \A r \in checker'[h].due : filing'[r].age \in {"due", "alerted"} BY DEF AlertsDue
<1>3. \A h \in Hands : \A r \in checker'[h].told : filing'[r].age = "due" BY DEF AlertsDue
<1>4. \A h, k \in Hands : h # k => checker'[h].told \cap checker'[k].told = {} BY DEF AlertsDue
<1>5. \A r \in ReportsOf(n) : due'[r] >= 0 /\ (filing'[r].age = "due" /\ ~Teller(r)' => due'[r] >= 1)
  BY <1>1 DEF AlertsDue
<1> QED BY <1>2, <1>3, <1>4, <1>5 DEF AlertsDue

-----------------------------------------------------------------------------
(* Screenings *)

ScreeningRow(x, hold0, made0) ==
    [NoneInHand EXCEPT !.pc = "commit", !.x = x, !.checked = TRUE, !.made = made0, !.hold = hold0]

LEMMA Screens ==
    ASSUME NEW n, NEW X, NEW A, AmlInv(n, X, A), NEW h \in Hands, NEW x \in X \cup {NoRow},
           NEW hold0 \in BOOLEAN, NEW made0 \in SUBSET ReportsOf(n), NEW taken \in SUBSET made0,
           checker[h].pc = "idle",
           checker' = [checker EXCEPT ![h] = ScreeningRow(x, hold0, made0)],
           \A r \in made0 : filing[r].status = "none" /\ \A k \in Hands : r \notin checker[k].made,
           \A r \in made0 : \A q \in ReportsOf(n) : q[1] = r[1] => filing[q].age # "today",
           \A q, r \in made0 : q[1] = r[1] => q = r,
           x # NoRow /\ A[x] >= 4 => CtrMade(n) \/ \E r \in made0 : r[1] = "CTR",
           accepted' = accepted \cup taken,
           overlapped' = (overlapped \/ \E k \in Hands : checker[k].checked),
           UNCHANGED <<stage, asked, screened, filing, due>>
    PROVE  AmlInv(n, X, A)'
<1> DEFINE row == ScreeningRow(x, hold0, made0)
<1>1. /\ row \in CheckerRow(n, X) /\ row.checked /\ row.made = made0 /\ row.due = {} /\ row.told = {}
      /\ row.x = x
  BY DEF CheckerRow, ScreeningRow, NoneInHand
<1>2. checker' = [checker EXCEPT ![h] = row] OBVIOUS
<1> HIDE DEF row
<1>3. /\ checker' \in [Hands -> CheckerRow(n, X)] /\ checker'[h] = row
      /\ \A k \in Hands : k # h => checker'[k] = checker[k]
  BY <1>1, <1>2 DEF AmlInv, AmlTypes
<1>4. AmlTypes(n, X)'
  <2>1. overlapped' \in BOOLEAN OBVIOUS
  <2>2. accepted' \subseteq ReportsOf(n) BY DEF AmlInv, AmlTypes
  <2> QED BY <1>3, <2>1, <2>2 DEF AmlInv, AmlTypes
<1>5. MadeOnce' BY <1>1, <1>3 DEF AmlInv, ReportsKnown, MadeOnce
<1>6. CtrFollows(n, A)'
  <2>1. CtrMade(n)' <=> CtrMade(n) BY DEF CtrMade
  <2> QED BY <1>1, <1>3, <2>1 DEF AmlInv, ReportsKnown, CtrFollows
<1>7. OneScreens(n)'
  <2> SUFFICES ASSUME ~overlapped' PROVE OneScreens(n)' BY DEF OneScreens
  <2>1. ~overlapped /\ \A k \in Hands : ~checker[k].checked OBVIOUS
  <2>2. \A k \in Hands : checker[k].made = {} BY <2>1, CheckerIdle
  <2>3. \A k \in Hands : k # h => ~checker'[k].checked /\ checker'[k].made = {} BY <1>3, <2>1, <2>2
  <2>4. \A q, r \in ReportsOf(n) :
            filing'[q].age = "today" /\ filing'[r].age = "today" /\ q[1] = r[1] => q = r
    BY <2>1 DEF AmlInv, ReportsKnown, OneScreens
  <2>5. \A k \in Hands : \A q, r \in checker'[k].made : q[1] = r[1] => q = r BY <1>1, <1>3, <2>3
  <2>6. \A k \in Hands : \A r \in checker'[k].made : \A q \in ReportsOf(n) :
            q[1] = r[1] => filing'[q].age # "today"
    BY <1>1, <1>3, <2>3
  <2>7. \A k, l \in Hands : checker'[k].checked /\ checker'[l].checked => k = l BY <2>3
  <2> QED BY <2>4, <2>5, <2>6, <2>7 DEF OneScreens
<1>8. FiledTaken(n)' /\ ScreenedTold(n)'
  BY DEF AmlInv, ReportsKnown, FiledTaken, ScreenedTold, CtrMade
<1>9. AlertsDue(n)'
  <2>1. checker[h].due = {} /\ checker[h].told = {} BY CheckerIdle
  <2>2. \A k \in Hands : checker'[k].due = checker[k].due /\ checker'[k].told = checker[k].told
    BY <1>1, <1>3, <2>1
  <2>3. \A k \in Hands : checker[k].due \subseteq ReportsOf(n) /\ checker[k].told \subseteq ReportsOf(n)
    BY CheckerIdle
  <2> QED BY <2>2, <2>3, AlertsStay DEF AmlInv
<1> QED BY <1>4, <1>5, <1>6, <1>7, <1>8, <1>9 DEF AmlInv, ReportsKnown

\* A row is booked without a check.
LEMMA StartsUnscreened ==
    ASSUME NEW n, NEW X, NEW A, AmlInv(n, X, A), NEW h \in Hands, NEW x \in X, checker[h].pc = "idle",
           checker' = [checker EXCEPT ![h] = [NoneInHand EXCEPT !.pc = "commit", !.x = x]],
           UNCHANGED <<stage, asked, screened, filing, accepted, overlapped, due>>
    PROVE  AmlInv(n, X, A)'
<1> DEFINE row == [NoneInHand EXCEPT !.pc = "commit", !.x = x]
<1>1. /\ row \in CheckerRow(n, X) /\ ~row.checked /\ row.made = {} /\ row.due = {} /\ row.told = {}
  BY DEF CheckerRow, NoneInHand
<1>2. checker' = [checker EXCEPT ![h] = row] OBVIOUS
<1> HIDE DEF row
<1>3. /\ checker' \in [Hands -> CheckerRow(n, X)] /\ checker'[h] = row
      /\ \A k \in Hands : k # h => checker'[k] = checker[k]
  BY <1>1, <1>2 DEF AmlInv, AmlTypes
<1>4. checker[h].due = {} /\ checker[h].told = {} BY CheckerIdle
<1>5. \A k \in Hands : checker'[k].due = checker[k].due /\ checker'[k].told = checker[k].told
  BY <1>1, <1>3, <1>4
<1>6. AlertsDue(n)'
  <2>1. \A k \in Hands : checker[k].due \subseteq ReportsOf(n) /\ checker[k].told \subseteq ReportsOf(n)
    BY CheckerIdle
  <2> QED BY <1>5, <2>1, AlertsStay DEF AmlInv
<1>7. AmlTypes(n, X)' BY <1>3 DEF AmlInv, AmlTypes
<1>8. ReportsKnown(n, A)'
  <2>1. MadeOnce' BY <1>1, <1>3 DEF AmlInv, ReportsKnown, MadeOnce
  <2>2. CtrFollows(n, A)' BY <1>1, <1>3 DEF AmlInv, ReportsKnown, CtrFollows, CtrMade
  <2>3. OneScreens(n)'
    <3> SUFFICES ASSUME ~overlapped PROVE OneScreens(n)' BY DEF OneScreens
    <3>1. \A k, l \in Hands : checker'[k].checked /\ checker'[l].checked => k = l
      BY <1>1, <1>3 DEF AmlInv, ReportsKnown, OneScreens
    <3>2. \A k \in Hands : \A q, r \in checker'[k].made : q[1] = r[1] => q = r
      BY <1>1, <1>3 DEF AmlInv, ReportsKnown, OneScreens
    <3>3. \A k \in Hands : \A r \in checker'[k].made : \A q \in ReportsOf(n) :
              q[1] = r[1] => filing'[q].age # "today"
      <4> SUFFICES ASSUME NEW k \in Hands, NEW r \in checker'[k].made, NEW q \in ReportsOf(n), q[1] = r[1]
                   PROVE  filing'[q].age # "today"
        OBVIOUS
      <4>1. k # h /\ r \in checker[k].made BY <1>1, <1>3
      <4>2. filing[q].age # "today" BY <4>1 DEF AmlInv, ReportsKnown, OneScreens
      <4> QED BY <4>2
    <3>4. \A q, r \in ReportsOf(n) :
              filing'[q].age = "today" /\ filing'[r].age = "today" /\ q[1] = r[1] => q = r
      BY DEF AmlInv, ReportsKnown, OneScreens
    <3> QED BY <3>1, <3>2, <3>3, <3>4 DEF OneScreens
  <2>4. FiledTaken(n)' /\ ScreenedTold(n)'
    BY DEF AmlInv, ReportsKnown, FiledTaken, ScreenedTold, CtrMade
  <2> QED BY <2>1, <2>2, <2>3, <2>4 DEF ReportsKnown
<1> QED BY <1>6, <1>7, <1>8 DEF AmlInv

\* The screening is committed: its reports get their rows.
LEMMA Commits ==
    ASSUME NEW n, NEW X, NEW A, AmlInv(n, X, A), NEW h \in Hands, checker[h].pc = "commit",
           checker' = [checker EXCEPT ![h] = NoneInHand],
           filing' \in [ReportsOf(n) -> FilingRow],
           \A r \in ReportsOf(n) : IF r \in checker[h].made
                                   THEN /\ filing'[r].age = "today" /\ filing'[r].status # "none"
                                        /\ filing'[r].status = "filed" => r \in accepted
                                   ELSE filing'[r] = filing[r],
           stage' \in [X -> StageRow], asked' \in [X -> AskedRow], screened' \subseteq X,
           screened' # {} => \/ screened # {}
                             \/ checker[h].checked /\ checker[h].x # NoRow /\ A[checker[h].x] >= 4,
           UNCHANGED <<accepted, overlapped, due>>
    PROVE  AmlInv(n, X, A)'
<1> DEFINE rows == checker[h].made
<1>1. rows \subseteq ReportsOf(n) /\ (rows # {} => checker[h].checked) BY CheckerIdle
<1>2. \A r \in rows : filing[r].status = "none" /\ filing[r].age = "past"
  BY <1>1 DEF AmlInv, AmlTypes, ReportsKnown, MadeOnce, FilingRow
<1>3. /\ checker' \in [Hands -> CheckerRow(n, X)] /\ checker'[h] = NoneInHand
      /\ \A k \in Hands : k # h => checker'[k] = checker[k]
  BY NoneIsRow DEF AmlInv, AmlTypes
<1>4. /\ ~checker'[h].checked /\ checker'[h].made = {} /\ checker'[h].due = {} /\ checker'[h].told = {}
  BY <1>3, NoneIsRow
<1>5. AmlTypes(n, X)' BY <1>3 DEF AmlInv, AmlTypes
<1>6. MadeOnce'
  <2>1. \A k \in Hands : \A r \in checker'[k].made : filing'[r].status = "none"
    <3> SUFFICES ASSUME NEW k \in Hands, NEW r \in checker'[k].made PROVE filing'[r].status = "none"
      OBVIOUS
    <3>1. k # h /\ r \in checker[k].made BY <1>3, <1>4
    <3>2. r \in ReportsOf(n) BY <3>1, CheckerIdle
    <3>3. r \notin rows /\ filing[r].status = "none" BY <3>1 DEF AmlInv, ReportsKnown, MadeOnce
    <3> QED BY <3>2, <3>3
  <2>2. \A k, l \in Hands : k # l => checker'[k].made \cap checker'[l].made = {}
    BY <1>3, <1>4 DEF AmlInv, ReportsKnown, MadeOnce
  <2> QED BY <2>1, <2>2 DEF MadeOnce
<1>7. CtrMade(n) => CtrMade(n)'
  <2> SUFFICES ASSUME NEW r \in ReportsOf(n), r[1] = "CTR", filing[r].status # "none"
               PROVE  filing'[r].status # "none"
    BY DEF CtrMade
  <2> QED BY <1>2
<1>8. (\E r \in rows : r[1] = "CTR") => CtrMade(n)' BY <1>1 DEF CtrMade
<1>9. CtrFollows(n, A)' BY <1>3, <1>4, <1>7 DEF AmlInv, ReportsKnown, CtrFollows
<1>10. ScreenedTold(n)' BY <1>7, <1>8 DEF AmlInv, ReportsKnown, CtrFollows, ScreenedTold
<1>11. FiledTaken(n)' BY DEF AmlInv, ReportsKnown, FiledTaken
<1>12. OneScreens(n)'
  <2> SUFFICES ASSUME ~overlapped PROVE OneScreens(n)' BY DEF OneScreens
  <2>1. \A k, l \in Hands : checker'[k].checked /\ checker'[l].checked => k = l
    BY <1>3, <1>4 DEF AmlInv, ReportsKnown, OneScreens
  <2>2. \A k \in Hands : \A q, r \in checker'[k].made : q[1] = r[1] => q = r
    BY <1>3, <1>4 DEF AmlInv, ReportsKnown, OneScreens
  <2>3. \A k \in Hands : \A r \in checker'[k].made : \A q \in ReportsOf(n) :
            q[1] = r[1] => filing'[q].age # "today"
    <3> SUFFICES ASSUME NEW k \in Hands, NEW r \in checker'[k].made, NEW q \in ReportsOf(n), q[1] = r[1]
                 PROVE  filing'[q].age # "today"
      OBVIOUS
    <3>1. k # h /\ r \in checker[k].made BY <1>3, <1>4
    <3>2. checker[k].checked BY <3>1, CheckerIdle
    <3>3. rows = {} BY <1>1, <3>1, <3>2 DEF AmlInv, ReportsKnown, OneScreens
    <3>4. filing'[q] = filing[q] BY <3>3
    <3>5. filing[q].age # "today" BY <3>1 DEF AmlInv, ReportsKnown, OneScreens
    <3> QED BY <3>4, <3>5
  <2>4. \A q, r \in ReportsOf(n) :
            filing'[q].age = "today" /\ filing'[r].age = "today" /\ q[1] = r[1] => q = r
    <3> SUFFICES ASSUME NEW q \in ReportsOf(n), NEW r \in ReportsOf(n), q[1] = r[1],
                        filing'[q].age = "today", filing'[r].age = "today"
                 PROVE  q = r
      OBVIOUS
    <3>1. CASE q \in rows /\ r \in rows BY <3>1 DEF AmlInv, ReportsKnown, OneScreens
    <3>2. CASE q \in rows /\ r \notin rows
      <4>1. filing[r].age # "today" BY <3>2 DEF AmlInv, ReportsKnown, OneScreens
      <4> QED BY <3>2, <4>1
    <3>3. CASE q \notin rows /\ r \in rows
      <4>1. filing[q].age # "today" BY <3>3 DEF AmlInv, ReportsKnown, OneScreens
      <4> QED BY <3>3, <4>1
    <3>4. CASE q \notin rows /\ r \notin rows BY <3>4 DEF AmlInv, ReportsKnown, OneScreens
    <3> QED BY <3>1, <3>2, <3>3, <3>4
  <2> QED BY <2>1, <2>2, <2>3, <2>4 DEF OneScreens
<1>13. AlertsDue(n)'
  <2>1. checker[h].due = {} /\ checker[h].told = {} BY CheckerIdle
  <2>2. \A k \in Hands : checker'[k].due = checker[k].due /\ checker'[k].told = checker[k].told
    BY <1>3, <1>4, <2>1
  <2>3. \A k \in Hands : checker[k].due \subseteq ReportsOf(n) /\ checker[k].told \subseteq ReportsOf(n)
    BY CheckerIdle
  <2>4. \A r \in ReportsOf(n) : \/ filing'[r] = filing[r]
                                \/ filing[r].age \notin {"due", "alerted"} /\ filing'[r].age # "due"
    BY <1>2
  <2> QED BY <2>2, <2>3, <2>4, AlertsStay DEF AmlInv
<1> QED BY <1>5, <1>6, <1>9, <1>10, <1>11, <1>12, <1>13 DEF AmlInv, ReportsKnown

\* A transaction is rolled back: its reports have no row, and its alerts are due again.
LEMMA RolledBack ==
    ASSUME NEW n, NEW X, NEW A, AmlInv(n, X, A), NEW h \in Hands,
           checker' = [checker EXCEPT ![h] = NoneInHand],
           accepted' = accepted \ checker[h].made,
           due' = [r \in ReportsOf(n) |-> IF r \in checker[h].told THEN due[r] + 1 ELSE due[r]],
           UNCHANGED <<stage, asked, screened, filing, overlapped>>
    PROVE  AmlInv(n, X, A)'
<1>1. /\ checker' \in [Hands -> CheckerRow(n, X)] /\ checker'[h] = NoneInHand
      /\ \A k \in Hands : k # h => checker'[k] = checker[k]
  BY NoneIsRow DEF AmlInv, AmlTypes
<1>2. /\ ~checker'[h].checked /\ checker'[h].made = {} /\ checker'[h].due = {} /\ checker'[h].told = {}
  BY <1>1, NoneIsRow
<1>3. AmlTypes(n, X)'
  <2>1. due' \in [ReportsOf(n) -> Int] BY DEF AmlInv, AmlTypes
  <2>2. accepted' \subseteq ReportsOf(n) BY DEF AmlInv, AmlTypes
  <2> QED BY <1>1, <2>1, <2>2 DEF AmlInv, AmlTypes
<1>4. MadeOnce' BY <1>1, <1>2 DEF AmlInv, ReportsKnown, MadeOnce
<1>5. CtrMade(n)' <=> CtrMade(n) BY DEF CtrMade
<1>6. CtrFollows(n, A)' BY <1>1, <1>2, <1>5 DEF AmlInv, ReportsKnown, CtrFollows
<1>7. OneScreens(n)'
  <2> SUFFICES ASSUME ~overlapped PROVE OneScreens(n)' BY DEF OneScreens
  <2>1. \A k, l \in Hands : checker'[k].checked /\ checker'[l].checked => k = l
    BY <1>1, <1>2 DEF AmlInv, ReportsKnown, OneScreens
  <2>2. \A k \in Hands : \A q, r \in checker'[k].made : q[1] = r[1] => q = r
    BY <1>1, <1>2 DEF AmlInv, ReportsKnown, OneScreens
  <2>3. \A k \in Hands : \A r \in checker'[k].made : \A q \in ReportsOf(n) :
            q[1] = r[1] => filing'[q].age # "today"
    BY <1>1, <1>2 DEF AmlInv, ReportsKnown, OneScreens
  <2>4. \A q, r \in ReportsOf(n) :
            filing'[q].age = "today" /\ filing'[r].age = "today" /\ q[1] = r[1] => q = r
    BY DEF AmlInv, ReportsKnown, OneScreens
  <2> QED BY <2>1, <2>2, <2>3, <2>4 DEF OneScreens
<1>8. FiledTaken(n)'
  <2> SUFFICES ASSUME NEW r \in ReportsOf(n), filing[r].status = "filed" PROVE r \in accepted'
    BY DEF FiledTaken
  <2>1. r \in accepted /\ r \notin checker[h].made BY DEF AmlInv, ReportsKnown, FiledTaken, MadeOnce
  <2> QED BY <2>1
<1>9. ScreenedTold(n)' BY <1>5 DEF AmlInv, ReportsKnown, ScreenedTold
<1>10. AlertsDue(n)'
  <2>1. \A k \in Hands : \A r \in checker'[k].due : filing'[r].age \in {"due", "alerted"}
    BY <1>1, <1>2 DEF AmlInv, AlertsDue
  <2>2. \A k \in Hands : \A r \in checker'[k].told : filing'[r].age = "due"
    BY <1>1, <1>2 DEF AmlInv, AlertsDue
  <2>3. \A k, l \in Hands : k # l => checker'[k].told \cap checker'[l].told = {}
    BY <1>1, <1>2 DEF AmlInv, AlertsDue
  <2>4. ASSUME NEW r \in ReportsOf(n)
        PROVE  due'[r] >= 0 /\ (filing'[r].age = "due" /\ ~Teller(r)' => due'[r] >= 1)
    <3>1. due[r] \in Int /\ due[r] >= 0 BY DEF AmlInv, AmlTypes, AlertsDue
    <3>2. CASE r \in checker[h].told BY <3>1, <3>2
    <3>3. CASE r \notin checker[h].told
      <4>1. Teller(r) => Teller(r)' BY <1>1, <3>3 DEF Teller
      <4>2. due'[r] = due[r] BY <3>3
      <4> QED BY <3>1, <4>1, <4>2 DEF AmlInv, AlertsDue
    <3> QED BY <3>2, <3>3
  <2> QED BY <2>1, <2>2, <2>3, <2>4 DEF AlertsDue
<1> QED BY <1>3, <1>4, <1>6, <1>7, <1>8, <1>9, <1>10 DEF AmlInv, ReportsKnown

\* Rows change their stage, and none is screened by it.
LEMMA RowsMove ==
    ASSUME NEW n, NEW X, NEW A, AmlInv(n, X, A),
           stage' \in [X -> StageRow], asked' \in [X -> AskedRow], screened' \subseteq screened,
           UNCHANGED <<filing, accepted, checker, overlapped, due>>
    PROVE  AmlInv(n, X, A)'
<1>1. AmlTypes(n, X)' BY DEF AmlInv, AmlTypes
<1>2. MadeOnce' /\ CtrFollows(n, A)' BY DEF AmlInv, ReportsKnown, MadeOnce, CtrFollows, CtrMade
<1>3. OneScreens(n)' BY DEF AmlInv, ReportsKnown, OneScreens
<1>4. FiledTaken(n)' /\ ScreenedTold(n)' BY DEF AmlInv, ReportsKnown, FiledTaken, ScreenedTold, CtrMade
<1>5. AlertsDue(n)' BY DEF AmlInv, AlertsDue, Teller
<1> QED BY <1>1, <1>2, <1>3, <1>4, <1>5 DEF AmlInv, ReportsKnown

-----------------------------------------------------------------------------
(* The job that alerts *)

\* The screenings go on when a handler without one changes the alerts in hand.
LEMMA ScreeningsStay ==
    ASSUME NEW n, NEW X, NEW A, AmlInv(n, X, A),
           \A k \in Hands : /\ checker'[k].made = checker[k].made
                            /\ checker'[k].checked => checker[k].checked
                            /\ checker'[k].x = checker[k].x \/ ~checker'[k].checked,
           \A r \in ReportsOf(n) : /\ filing'[r].status = filing[r].status
                                   /\ filing'[r].age = "today" => filing[r].age = "today",
           UNCHANGED <<accepted, screened, overlapped>>
    PROVE  ReportsKnown(n, A)'
<1>1. \A k \in Hands : checker[k].made \subseteq ReportsOf(n) BY CheckerIdle
<1>2. MadeOnce'
  <2>1. \A h \in Hands : \A r \in checker'[h].made : filing'[r].status = "none"
    BY <1>1 DEF AmlInv, ReportsKnown, MadeOnce
  <2>2. \A h, k \in Hands : h # k => checker'[h].made \cap checker'[k].made = {}
    BY DEF AmlInv, ReportsKnown, MadeOnce
  <2> QED BY <2>1, <2>2 DEF MadeOnce
<1>3. CtrMade(n)' <=> CtrMade(n) BY DEF CtrMade
<1>4. CtrFollows(n, A)' BY <1>3 DEF AmlInv, ReportsKnown, CtrFollows
<1>5. OneScreens(n)'
  <2> SUFFICES ASSUME ~overlapped PROVE OneScreens(n)' BY DEF OneScreens
  <2>1. \A k, l \in Hands : checker'[k].checked /\ checker'[l].checked => k = l
    BY DEF AmlInv, ReportsKnown, OneScreens
  <2>2. \A k \in Hands : \A q, r \in checker'[k].made : q[1] = r[1] => q = r
    BY DEF AmlInv, ReportsKnown, OneScreens
  <2>3. \A k \in Hands : \A r \in checker'[k].made : \A q \in ReportsOf(n) :
            q[1] = r[1] => filing'[q].age # "today"
    <3> SUFFICES ASSUME NEW k \in Hands, NEW r \in checker'[k].made, NEW q \in ReportsOf(n), q[1] = r[1]
                 PROVE  filing'[q].age # "today"
      OBVIOUS
    <3>1. filing[q].age # "today" BY DEF AmlInv, ReportsKnown, OneScreens
    <3> QED BY <3>1
  <2>4. \A q, r \in ReportsOf(n) :
            filing'[q].age = "today" /\ filing'[r].age = "today" /\ q[1] = r[1] => q = r
    BY DEF AmlInv, ReportsKnown, OneScreens
  <2> QED BY <2>1, <2>2, <2>3, <2>4 DEF OneScreens
<1>6. FiledTaken(n)' BY DEF AmlInv, ReportsKnown, FiledTaken
<1>7. ScreenedTold(n)' BY <1>3 DEF AmlInv, ReportsKnown, ScreenedTold
<1> QED BY <1>2, <1>4, <1>5, <1>6, <1>7 DEF ReportsKnown

LEMMA ReadsOverdue ==
    ASSUME NEW n, NEW X, NEW A, AmlInv(n, X, A), NEW h \in Hands, checker[h].pc = "idle",
           NEW rows \in SUBSET ReportsOf(n), \A r \in rows : filing[r].age = "due",
           checker' = [checker EXCEPT ![h] = [NoneInHand EXCEPT !.pc = "alert", !.due = rows]],
           UNCHANGED <<stage, asked, screened, filing, accepted, overlapped, due>>
    PROVE  AmlInv(n, X, A)'
<1> DEFINE row == [NoneInHand EXCEPT !.pc = "alert", !.due = rows]
<1>1. /\ row \in CheckerRow(n, X) /\ ~row.checked /\ row.made = {} /\ row.due = rows /\ row.told = {}
  BY DEF CheckerRow, NoneInHand
<1>2. checker' = [checker EXCEPT ![h] = row] OBVIOUS
<1> HIDE DEF row
<1>3. /\ checker' \in [Hands -> CheckerRow(n, X)] /\ checker'[h] = row
      /\ \A k \in Hands : k # h => checker'[k] = checker[k]
  BY <1>1, <1>2 DEF AmlInv, AmlTypes
<1>4. /\ checker[h].made = {} /\ ~checker[h].checked /\ checker[h].due = {} /\ checker[h].told = {}
  BY CheckerIdle
<1>5. AmlTypes(n, X)' BY <1>3 DEF AmlInv, AmlTypes
<1>6. ReportsKnown(n, A)'
  <2>1. \A k \in Hands : /\ checker'[k].made = checker[k].made
                         /\ checker'[k].checked => checker[k].checked
                         /\ checker'[k].x = checker[k].x \/ ~checker'[k].checked
    BY <1>1, <1>3, <1>4
  <2> QED BY <2>1, ScreeningsStay
<1>7. AlertsDue(n)'
  <2>1. \A k \in Hands : checker'[k].told = checker[k].told BY <1>1, <1>3, <1>4
  <2>2. \A r : Teller(r)' <=> Teller(r) BY <2>1 DEF Teller
  <2>3. \A k \in Hands : \A r \in checker'[k].due : filing'[r].age \in {"due", "alerted"}
    BY <1>1, <1>3 DEF AmlInv, AlertsDue
  <2>4. \A k \in Hands : \A r \in checker'[k].told : filing'[r].age = "due"
    BY <2>1 DEF AmlInv, AlertsDue
  <2>5. \A k, l \in Hands : k # l => checker'[k].told \cap checker'[l].told = {}
    BY <2>1 DEF AmlInv, AlertsDue
  <2>6. \A r \in ReportsOf(n) : due'[r] >= 0 /\ (filing'[r].age = "due" /\ ~Teller(r)' => due'[r] >= 1)
    BY <2>2 DEF AmlInv, AlertsDue
  <2> QED BY <2>3, <2>4, <2>5, <2>6 DEF AlertsDue
<1> QED BY <1>5, <1>6, <1>7 DEF AmlInv

\* A report that is not alerted yet is claimed.
LEMMA ClaimsAlert ==
    ASSUME NEW n, NEW X, NEW A, AmlInv(n, X, A), NEW h \in Hands, NEW r0 \in checker[h].due,
           \A k \in Hands : r0 \notin checker[k].told,
           NEW told0, told0 = IF filing[r0].age # "alerted" THEN checker[h].told \cup {r0} ELSE checker[h].told,
           checker' = [checker EXCEPT ![h].due = checker[h].due \ {r0}, ![h].told = told0],
           due' = IF filing[r0].age # "alerted" THEN [due EXCEPT ![r0] = due[r0] - 1] ELSE due,
           UNCHANGED <<stage, asked, screened, filing, accepted, overlapped>>
    PROVE  AmlInv(n, X, A)'
<1> DEFINE old == checker[h]
           row == [old EXCEPT !.due = old.due \ {r0}, !.told = told0]
<1>1. /\ old \in CheckerRow(n, X) /\ old.pc = "alert" /\ r0 \in ReportsOf(n)
      /\ old.made = {} /\ ~old.checked
  BY CheckerIdle DEF CheckerRow
<1>2. told0 \subseteq ReportsOf(n) BY <1>1 DEF CheckerRow
<1>3. /\ row \in CheckerRow(n, X) /\ row.made = {} /\ ~row.checked /\ row.told = told0
      /\ row.due \subseteq old.due
  BY <1>1, <1>2 DEF CheckerRow
<1>4. checker' = [checker EXCEPT ![h] = row] BY DEF AmlInv, AmlTypes
<1> HIDE DEF row
<1>5. /\ checker' \in [Hands -> CheckerRow(n, X)] /\ checker'[h] = row
      /\ \A k \in Hands : k # h => checker'[k] = checker[k]
  BY <1>3, <1>4 DEF AmlInv, AmlTypes
<1>6. AmlTypes(n, X)'
  <2>1. due' \in [ReportsOf(n) -> Int] BY <1>1 DEF AmlInv, AmlTypes
  <2> QED BY <1>5, <2>1 DEF AmlInv, AmlTypes
<1>7. ReportsKnown(n, A)'
  <2>1. \A k \in Hands : /\ checker'[k].made = checker[k].made
                         /\ checker'[k].checked => checker[k].checked
                         /\ checker'[k].x = checker[k].x \/ ~checker'[k].checked
    BY <1>1, <1>3, <1>5
  <2> QED BY <2>1, ScreeningsStay
<1>8. \A k \in Hands : \A r \in checker'[k].due : filing'[r].age \in {"due", "alerted"}
  BY <1>3, <1>5 DEF AmlInv, AlertsDue
<1>9. filing[r0].age \in {"due", "alerted"} BY DEF AmlInv, AlertsDue
<1>10. CASE filing[r0].age = "alerted"
  <2>1. \A k \in Hands : checker'[k].told = checker[k].told BY <1>3, <1>5, <1>10
  <2>2. \A r : Teller(r)' <=> Teller(r) BY <2>1 DEF Teller
  <2>3. due' = due BY <1>10
  <2>4. \A k \in Hands : \A r \in checker'[k].told : filing'[r].age = "due"
    BY <2>1 DEF AmlInv, AlertsDue
  <2>5. \A k, l \in Hands : k # l => checker'[k].told \cap checker'[l].told = {}
    BY <2>1 DEF AmlInv, AlertsDue
  <2>6. \A r \in ReportsOf(n) : due'[r] >= 0 /\ (filing'[r].age = "due" /\ ~Teller(r)' => due'[r] >= 1)
    BY <2>2, <2>3 DEF AmlInv, AlertsDue
  <2> QED BY <1>6, <1>7, <1>8, <2>4, <2>5, <2>6 DEF AmlInv, AlertsDue
<1>11. CASE filing[r0].age = "due"
  <2>1. /\ checker'[h].told = checker[h].told \cup {r0}
        /\ \A k \in Hands : k # h => checker'[k].told = checker[k].told
    BY <1>3, <1>5, <1>11
  <2>2. \A k \in Hands : \A r \in checker'[k].told : filing'[r].age = "due"
    BY <1>11, <2>1 DEF AmlInv, AlertsDue
  <2>3. \A k, l \in Hands : k # l => checker'[k].told \cap checker'[l].told = {}
    <3> SUFFICES ASSUME NEW k \in Hands, NEW l \in Hands, k # l
                 PROVE  checker'[k].told \cap checker'[l].told = {}
      OBVIOUS
    <3>1. checker[k].told \cap checker[l].told = {} BY DEF AmlInv, AlertsDue
    <3>2. ASSUME NEW m \in Hands
          PROVE  /\ checker'[m].told \subseteq checker[m].told \cup {r0}
                 /\ m # h => checker'[m].told = checker[m].told
      <4>1. CASE m = h BY <2>1, <4>1
      <4>2. CASE m # h BY <2>1, <4>2
      <4> QED BY <4>1, <4>2
    <3>3. r0 \notin checker[k].told /\ r0 \notin checker[l].told OBVIOUS
    <3> QED BY <3>1, <3>2, <3>3
  <2>4. due[r0] \in Int /\ due[r0] >= 1 BY <1>1, <1>11 DEF AmlInv, AmlTypes, AlertsDue, Teller
  <2>5. due'[r0] = due[r0] - 1 /\ \A r \in ReportsOf(n) : r # r0 => due'[r] = due[r]
    BY <1>1, <1>11 DEF AmlInv, AmlTypes
  <2>6. ASSUME NEW r PROVE (Teller(r) \/ r = r0) <=> Teller(r)'
    <3>1. \A k \in Hands : r \in checker[k].told => r \in checker'[k].told BY <2>1
    <3>2. r0 \in checker'[h].told BY <2>1
    <3>3. ASSUME NEW k \in Hands, r \in checker'[k].told PROVE r \in checker[k].told \/ r = r0
      <4>1. CASE k = h BY <2>1, <3>3, <4>1
      <4>2. CASE k # h BY <2>1, <3>3, <4>2
      <4> QED BY <4>1, <4>2
    <3> QED BY <3>1, <3>2, <3>3 DEF Teller
  <2>7. ASSUME NEW r \in ReportsOf(n)
        PROVE  due'[r] >= 0 /\ (filing'[r].age = "due" /\ ~Teller(r)' => due'[r] >= 1)
    <3>1. CASE r = r0 BY <2>4, <2>5, <2>6, <3>1
    <3>2. CASE r # r0 BY <2>5, <2>6, <3>2 DEF AmlInv, AlertsDue
    <3> QED BY <3>1, <3>2
  <2> QED BY <1>6, <1>7, <1>8, <2>2, <2>3, <2>7 DEF AmlInv, AlertsDue
<1> QED BY <1>9, <1>10, <1>11

\* The job's transaction is committed.
LEMMA EndsAlerts ==
    ASSUME NEW n, NEW X, NEW A, AmlInv(n, X, A), NEW h \in Hands, checker[h].pc = "alert",
           filing' = [r \in ReportsOf(n) |-> IF r \in checker[h].told THEN [filing[r] EXCEPT !.age = "alerted"]
                                             ELSE filing[r]],
           checker' = [checker EXCEPT ![h] = NoneInHand],
           UNCHANGED <<stage, asked, screened, accepted, overlapped, due>>
    PROVE  AmlInv(n, X, A)'
<1>1. /\ checker' \in [Hands -> CheckerRow(n, X)] /\ checker'[h] = NoneInHand
      /\ \A k \in Hands : k # h => checker'[k] = checker[k]
  BY NoneIsRow DEF AmlInv, AmlTypes
<1>2. /\ ~checker'[h].checked /\ checker'[h].made = {} /\ checker'[h].due = {} /\ checker'[h].told = {}
  BY <1>1, NoneIsRow
<1>3. checker[h].made = {} /\ checker[h].told \subseteq ReportsOf(n) BY CheckerIdle
<1>4. \A r \in ReportsOf(n) : filing[r] \in FilingRow BY DEF AmlInv, AmlTypes
<1>5. ASSUME NEW r \in ReportsOf(n)
      PROVE  /\ filing'[r] \in FilingRow /\ filing'[r].status = filing[r].status
             /\ r \in checker[h].told => filing'[r].age = "alerted"
             /\ r \notin checker[h].told => filing'[r] = filing[r]
  <2>1. CASE r \in checker[h].told
    <3>1. filing[r].age = "due" BY <2>1 DEF AmlInv, AlertsDue
    <3>2. filing'[r] = [filing[r] EXCEPT !.age = "alerted"] BY <2>1
    <3> QED BY <1>4, <2>1, <3>1, <3>2 DEF FilingRow
  <2>2. CASE r \notin checker[h].told BY <1>4, <2>2
  <2> QED BY <2>1, <2>2
<1>6. AmlTypes(n, X)'
  <2>1. filing' \in [ReportsOf(n) -> FilingRow] BY <1>5
  <2> QED BY <1>1, <2>1 DEF AmlInv, AmlTypes
<1>7. ReportsKnown(n, A)'
  <2>1. \A k \in Hands : /\ checker'[k].made = checker[k].made
                         /\ checker'[k].checked => checker[k].checked
                         /\ checker'[k].x = checker[k].x \/ ~checker'[k].checked
    BY <1>1, <1>2, <1>3
  <2>2. \A r \in ReportsOf(n) : /\ filing'[r].status = filing[r].status
                                /\ filing'[r].age = "today" => filing[r].age = "today"
    BY <1>5
  <2> QED BY <2>1, <2>2, ScreeningsStay
<1>8. AlertsDue(n)'
  <2>1. \A k \in Hands : \A r \in checker'[k].due : filing'[r].age \in {"due", "alerted"}
    <3> SUFFICES ASSUME NEW k \in Hands, NEW r \in checker'[k].due
                 PROVE  filing'[r].age \in {"due", "alerted"}
      OBVIOUS
    <3>1. r \in checker[k].due BY <1>1, <1>2
    <3>2. r \in ReportsOf(n) BY <3>1, CheckerIdle
    <3>3. filing[r].age \in {"due", "alerted"} BY <3>1 DEF AmlInv, AlertsDue
    <3> QED BY <1>5, <3>2, <3>3
  <2>2. \A k \in Hands : \A r \in checker'[k].told : filing'[r].age = "due"
    <3> SUFFICES ASSUME NEW k \in Hands, NEW r \in checker'[k].told PROVE filing'[r].age = "due"
      OBVIOUS
    <3>1. k # h /\ r \in checker[k].told BY <1>1, <1>2
    <3>2. r \in ReportsOf(n) BY <3>1, CheckerIdle
    <3>3. filing[r].age = "due" /\ r \notin checker[h].told BY <3>1 DEF AmlInv, AlertsDue
    <3> QED BY <1>5, <3>2, <3>3
  <2>3. \A k, l \in Hands : k # l => checker'[k].told \cap checker'[l].told = {}
    BY <1>1, <1>2 DEF AmlInv, AlertsDue
  <2>4. ASSUME NEW r \in ReportsOf(n)
        PROVE  due'[r] >= 0 /\ (filing'[r].age = "due" /\ ~Teller(r)' => due'[r] >= 1)
    <3>1. CASE r \in checker[h].told BY <1>5, <3>1 DEF AmlInv, AlertsDue
    <3>2. CASE r \notin checker[h].told
      <4>1. Teller(r) => Teller(r)' BY <1>1, <3>2 DEF Teller
      <4> QED BY <1>5, <3>2, <4>1 DEF AmlInv, AlertsDue
    <3> QED BY <3>1, <3>2
  <2> QED BY <2>1, <2>2, <2>3, <2>4 DEF AlertsDue
<1> QED BY <1>6, <1>7, <1>8 DEF AmlInv

\* Time passes for the reports: a day ends, or an alert is due.
LEMMA DayEnds ==
    ASSUME NEW n, NEW X, NEW A, AmlInv(n, X, A), \A h \in Hands : checker[h].made = {},
           filing' = [r \in ReportsOf(n) |->
                        [filing[r] EXCEPT !.age = IF filing[r].age = "today" THEN "past" ELSE filing[r].age]],
           UNCHANGED <<stage, asked, screened, accepted, checker, overlapped, due>>
    PROVE  AmlInv(n, X, A)'
<1>1. ASSUME NEW r \in ReportsOf(n)
      PROVE  /\ filing'[r] \in FilingRow /\ filing'[r].status = filing[r].status
             /\ filing'[r].age = IF filing[r].age = "today" THEN "past" ELSE filing[r].age
  BY DEF AmlInv, AmlTypes, FilingRow
<1>2. AmlTypes(n, X)'
  <2>1. filing' \in [ReportsOf(n) -> FilingRow] BY <1>1
  <2> QED BY <2>1 DEF AmlInv, AmlTypes
<1>3. ReportsKnown(n, A)'
  <2>1. \A r \in ReportsOf(n) : /\ filing'[r].status = filing[r].status
                                /\ filing'[r].age = "today" => filing[r].age = "today"
    BY <1>1
  <2> QED BY <2>1, ScreeningsStay
<1>4. AlertsDue(n)'
  <2>1. \A h \in Hands : \A r \in checker[h].due \cup checker[h].told : r \in ReportsOf(n) BY CheckerIdle
  <2>2. \A h \in Hands : \A r \in checker'[h].due : filing'[r].age \in {"due", "alerted"}
    BY <1>1, <2>1 DEF AmlInv, AlertsDue
  <2>3. \A h \in Hands : \A r \in checker'[h].told : filing'[r].age = "due"
    BY <1>1, <2>1 DEF AmlInv, AlertsDue
  <2>4. \A r : Teller(r)' <=> Teller(r) BY DEF Teller
  <2>5. \A r \in ReportsOf(n) : due'[r] >= 0 /\ (filing'[r].age = "due" /\ ~Teller(r)' => due'[r] >= 1)
    BY <1>1, <2>4 DEF AmlInv, AlertsDue
  <2>6. \A h, k \in Hands : h # k => checker'[h].told \cap checker'[k].told = {} BY DEF AmlInv, AlertsDue
  <2> QED BY <2>2, <2>3, <2>5, <2>6 DEF AlertsDue
<1> QED BY <1>2, <1>3, <1>4 DEF AmlInv

LEMMA AlertComesDue ==
    ASSUME NEW n, NEW X, NEW A, AmlInv(n, X, A), NEW r0 \in ReportsOf(n),
           filing[r0].status = "pending",
           filing' = [filing EXCEPT ![r0].age = "due"],
           due' = [due EXCEPT ![r0] = due[r0] + 1],
           UNCHANGED <<stage, asked, screened, accepted, checker, overlapped>>
    PROVE  AmlInv(n, X, A)'
<1>1. ASSUME NEW r \in ReportsOf(n)
      PROVE  /\ filing'[r] \in FilingRow /\ filing'[r].status = filing[r].status
             /\ filing'[r].age = IF r = r0 THEN "due" ELSE filing[r].age
  BY DEF AmlInv, AmlTypes, FilingRow
<1>2. due[r0] \in Int /\ due[r0] >= 0 BY DEF AmlInv, AmlTypes, AlertsDue
<1>3. due'[r0] = due[r0] + 1 /\ \A r \in ReportsOf(n) : r # r0 => due'[r] = due[r]
  BY DEF AmlInv, AmlTypes
<1>4. AmlTypes(n, X)'
  <2>1. filing' \in [ReportsOf(n) -> FilingRow] BY <1>1 DEF AmlInv, AmlTypes
  <2>2. due' \in [ReportsOf(n) -> Int] BY <1>2 DEF AmlInv, AmlTypes
  <2> QED BY <2>1, <2>2 DEF AmlInv, AmlTypes
<1>5. ReportsKnown(n, A)'
  <2>1. \A r \in ReportsOf(n) : /\ filing'[r].status = filing[r].status
                                /\ filing'[r].age = "today" => filing[r].age = "today"
    BY <1>1
  <2> QED BY <2>1, ScreeningsStay
<1>6. AlertsDue(n)'
  <2>1. \A h \in Hands : \A r \in checker[h].due \cup checker[h].told : r \in ReportsOf(n) BY CheckerIdle
  <2>2. \A h \in Hands : \A r \in checker'[h].due : filing'[r].age \in {"due", "alerted"}
    BY <1>1, <2>1 DEF AmlInv, AlertsDue
  <2>3. \A h \in Hands : \A r \in checker'[h].told : filing'[r].age = "due"
    BY <1>1, <2>1 DEF AmlInv, AlertsDue
  <2>4. \A r : Teller(r)' <=> Teller(r) BY DEF Teller
  <2>5. ASSUME NEW r \in ReportsOf(n)
        PROVE  due'[r] >= 0 /\ (filing'[r].age = "due" /\ ~Teller(r)' => due'[r] >= 1)
    <3>1. CASE r = r0 BY <1>2, <1>3, <3>1
    <3>2. CASE r # r0 BY <1>1, <1>3, <2>4, <3>2 DEF AmlInv, AlertsDue
    <3> QED BY <3>1, <3>2
  <2>6. \A h, k \in Hands : h # k => checker'[h].told \cap checker'[k].told = {} BY DEF AmlInv, AlertsDue
  <2> QED BY <2>2, <2>3, <2>5, <2>6 DEF AlertsDue
<1> QED BY <1>4, <1>5, <1>6 DEF AmlInv

-----------------------------------------------------------------------------
(* The steps of the module, of any rows. *)

LEMMA StartedRow ==
    ASSUME NEW x, NEW b, NEW rows
    PROVE  [NoneInHand EXCEPT !.pc = "commit", !.x = x, !.checked = TRUE, !.made = rows, !.hold = b]
             = ScreeningRow(x, b, rows)
BY DEF ScreeningRow

UnusedReport(r) == filing[r].status = "none" /\ \A h \in Hands : r \notin checker[h].made
NextReport(n, t) == {r \in ReportsOf(n) : r[1] = t /\ UnusedReport(r)
                                          /\ \A i \in 1..(r[2] - 1) : ~UnusedReport(<<t, i>>)}
MadeToday(n, t) == \E r \in ReportsOf(n) : r[1] = t /\ filing[r].age = "today"

LEMMA NextIsOne ==
    ASSUME NEW n \in Nat, NEW t, NEW q \in NextReport(n, t), NEW r \in NextReport(n, t)
    PROVE  q = r
<1>1. q[2] \in 1..n /\ r[2] \in 1..n /\ q = <<t, q[2]>> /\ r = <<t, r[2]>> BY DEF NextReport, ReportsOf
<1>2. UnusedReport(q) /\ UnusedReport(r) BY DEF NextReport
<1>3. ~(q[2] < r[2])
  <2> SUFFICES ASSUME q[2] < r[2] PROVE FALSE OBVIOUS
  <2>1. q[2] \in 1..(r[2] - 1) BY <1>1
  <2>2. ~UnusedReport(<<t, q[2]>>) BY <2>1 DEF NextReport
  <2> QED BY <1>1, <1>2, <2>2
<1>4. ~(r[2] < q[2])
  <2> SUFFICES ASSUME r[2] < q[2] PROVE FALSE OBVIOUS
  <2>1. r[2] \in 1..(q[2] - 1) BY <1>1
  <2>2. ~UnusedReport(<<t, r[2]>>) BY <2>1 DEF NextReport
  <2> QED BY <1>1, <1>2, <2>2
<1>5. q[2] = r[2] BY <1>1, <1>3, <1>4
<1> QED BY <1>1, <1>5

\* As many reports as types: each type has one.
LEMMA TypesAreMade ==
    ASSUME NEW n \in Nat, NEW types \in SUBSET ReportTypes, "CTR" \in types,
           NEW rows, rows = UNION {NextReport(n, t) : t \in types}, Cardinality(rows) = Cardinality(types)
    PROVE  \E r \in rows : r[1] = "CTR"
<1> SUFFICES ASSUME \A r \in rows : r[1] # "CTR" PROVE FALSE OBVIOUS
<1>1. \A r \in rows : r \in NextReport(n, "STR") /\ "STR" \in types BY DEF ReportTypes, NextReport
<1>2. \A q, r \in rows : q = r BY <1>1, NextIsOne
<1>3. CASE types = {"CTR"}
  <2>1. rows = {} BY <1>1, <1>3
  <2>2. Cardinality(rows) = 0 BY <2>1, FS_EmptySet
  <2>3. Cardinality(types) = 1 BY <1>3, FS_Singleton
  <2> QED BY ONLY <2>2, <2>3, Cardinality(rows) = Cardinality(types)
<1>4. CASE types = {"CTR", "STR"}
  <2>1. Cardinality(types) = 2
    <3>1. PICK c, s : c = "CTR" /\ s = "STR" OBVIOUS
    <3>2. IsFiniteSet({s}) /\ Cardinality({s}) = 1 BY FS_Singleton
    <3>3. types = {s} \cup {c} /\ c \notin {s} BY <1>4, <3>1
    <3>4. Cardinality({s} \cup {c}) = Cardinality({s}) + 1 BY <3>2, <3>3, FS_AddElement
    <3>5. Cardinality(types) = Cardinality({s} \cup {c}) BY <3>3
    <3> QED BY ONLY <3>2, <3>4, <3>5
  <2>2. CASE rows = {}
    <3>1. Cardinality(rows) = 0 BY <2>2, FS_EmptySet
    <3> QED BY <2>1, <3>1
  <2>3. CASE rows # {}
    <3>1. PICK r : r \in rows BY <2>3
    <3>2. rows = {r} BY <1>2, <3>1
    <3>3. Cardinality({r}) = 1 BY FS_Singleton
    <3> QED BY <2>1, <3>2, <3>3
  <2> QED BY <2>2, <2>3
<1> QED BY <1>3, <1>4 DEF ReportTypes

LEMMA ScreenSteps ==
    ASSUME NEW n \in Nat, NEW X, NEW A, AmlInv(n, X, A), NEW h \in Hands, NEW x \in X \cup {NoRow},
           NEW flagged \in SUBSET ReportTypes, x # NoRow /\ A[x] >= 4 => "CTR" \in flagged,
           NEW types, types = {t \in flagged : ~MadeToday(n, t)},
           NEW made0, made0 = UNION {NextReport(n, t) : t \in types},
           Cardinality(made0) = Cardinality(types),
           NEW hold0 \in BOOLEAN, NEW taken \in SUBSET made0,
           checker[h].pc = "idle",
           checker' = [checker EXCEPT ![h] = ScreeningRow(x, hold0, made0)],
           accepted' = accepted \cup taken,
           overlapped' = (overlapped \/ \E k \in Hands : checker[k].checked),
           UNCHANGED <<stage, asked, screened, filing, due>>
    PROVE  AmlInv(n, X, A)'
<1>1. \A r \in made0 : r \in NextReport(n, r[1]) /\ r[1] \in types BY DEF NextReport
<1>2. made0 \in SUBSET ReportsOf(n) BY <1>1 DEF NextReport
<1>3. \A r \in made0 : filing[r].status = "none" /\ \A k \in Hands : r \notin checker[k].made
  BY <1>1 DEF NextReport, UnusedReport
<1>4. \A r \in made0 : \A q \in ReportsOf(n) : q[1] = r[1] => filing[q].age # "today"
  BY <1>1 DEF MadeToday
<1>5. \A q, r \in made0 : q[1] = r[1] => q = r BY <1>1, NextIsOne
<1>6. x # NoRow /\ A[x] >= 4 => CtrMade(n) \/ \E r \in made0 : r[1] = "CTR"
  <2> SUFFICES ASSUME "CTR" \in flagged PROVE CtrMade(n) \/ \E r \in made0 : r[1] = "CTR" OBVIOUS
  <2>1. CASE MadeToday(n, "CTR")
    <3>1. PICK r \in ReportsOf(n) : r[1] = "CTR" /\ filing[r].age = "today" BY <2>1 DEF MadeToday
    <3>2. filing[r].status # "none" BY <3>1 DEF AmlInv, AmlTypes, FilingRow
    <3> QED BY <3>1, <3>2 DEF CtrMade
  <2>2. CASE ~MadeToday(n, "CTR")
    <3>1. "CTR" \in types /\ types \in SUBSET ReportTypes BY <2>2
    <3> QED BY <3>1, TypesAreMade
  <2> QED BY <2>1, <2>2
<1>7. /\ AmlInv(n, X, A) /\ checker[h].pc = "idle"
      /\ accepted' = accepted \cup taken
      /\ overlapped' = (overlapped \/ \E k \in Hands : checker[k].checked)
      /\ UNCHANGED <<stage, asked, screened, filing, due>>
      /\ checker' = [checker EXCEPT ![h] = ScreeningRow(x, hold0, made0)]
  OBVIOUS
<1> QED
  BY ONLY h \in Hands, x \in X \cup {NoRow}, hold0 \in BOOLEAN, taken \in SUBSET made0,
          <1>2, <1>3, <1>4, <1>5, <1>6, <1>7, Screens

LEMMA CommitSteps ==
    ASSUME NEW n, NEW X, NEW A, AmlInv(n, X, A), NEW h \in Hands, checker[h].pc = "commit",
           NEW status \in [checker[h].made -> {"pending", "filed"}],
           \A r \in checker[h].made : status[r] = "filed" => r \in accepted,
           filing' = [r \in ReportsOf(n) |-> IF r \in checker[h].made
                                             THEN [status |-> status[r], age |-> "today"] ELSE filing[r]],
           NEW x, x = checker[h].x, NEW to \in StageRow, NEW age \in AskedRow,
           stage' = IF x = NoRow THEN stage ELSE [stage EXCEPT ![x] = to],
           asked' = asked \/ asked' = [asked EXCEPT ![x] = age],
           screened' = screened \cup {y \in {x} \ {NoRow} : checker[h].checked /\ A[y] >= 4},
           checker' = [checker EXCEPT ![h] = NoneInHand],
           UNCHANGED <<accepted, overlapped, due>>
    PROVE  AmlInv(n, X, A)'
<1>1. x \in X \cup {NoRow} BY CheckerIdle
<1>2. /\ \A r \in ReportsOf(n) : filing[r] \in FilingRow
      /\ stage \in [X -> StageRow] /\ asked \in [X -> AskedRow] /\ screened \subseteq X
  BY DEF AmlInv, AmlTypes
<1>3. ASSUME NEW r \in ReportsOf(n)
      PROVE  /\ filing'[r] \in FilingRow
             /\ IF r \in checker[h].made
                THEN /\ filing'[r].age = "today" /\ filing'[r].status # "none"
                     /\ filing'[r].status = "filed" => r \in accepted
                ELSE filing'[r] = filing[r]
  <2>1. CASE r \in checker[h].made
    <3>1. filing'[r] = [status |-> status[r], age |-> "today"] BY <2>1
    <3>2. status[r] \in {"pending", "filed"} BY <2>1
    <3> QED BY <2>1, <3>1, <3>2 DEF FilingRow
  <2>2. CASE r \notin checker[h].made BY <1>2, <2>2
  <2> QED BY <2>1, <2>2
<1>4. filing' \in [ReportsOf(n) -> FilingRow] BY <1>3
<1>5. stage' \in [X -> StageRow] /\ asked' \in [X -> AskedRow] BY <1>1, <1>2
<1>6. screened' \subseteq X BY <1>1, <1>2
<1>7. screened' # {} => \/ screened # {}
                        \/ checker[h].checked /\ checker[h].x # NoRow /\ A[checker[h].x] >= 4
  OBVIOUS
<1> QED BY <1>3, <1>4, <1>5, <1>6, <1>7, Commits

-----------------------------------------------------------------------------
(* A withdrawal and a payment to an outsider, with a report of each type. *)

OutflowRows == {"w", "e"}
OutflowAmounts == [w |-> 1, e |-> 4]
OutflowKind == [w |-> "withdrawal", e |-> "external"]
OutflowInv == AmlInv(1, OutflowRows, OutflowAmounts)

LEMMA OutflowNames ==
    /\ O!Reports = ReportsOf(1) /\ O!Types = ReportTypes /\ O!IdleHand = NoneInHand
    /\ O!NoReport = [status |-> "none", age |-> "past"]
    /\ \A t : O!NextOf(t) = NextReport(1, t) /\ (O!Reported(t) <=> MadeToday(1, t))
    /\ \A U : O!Cardinality(U) = Cardinality(U)
<1>1. O!Reports = ReportsOf(1) /\ O!Types = ReportTypes
  BY DEF O!Reports, O!Types, ReportsOf, ReportTypes
<1>2. O!IdleHand = NoneInHand BY DEF O!IdleHand, NoneInHand
<1>3. O!NoReport = [status |-> "none", age |-> "past"] BY DEF O!NoReport
<1>4. \A t : O!NextOf(t) = NextReport(1, t)
  BY <1>1 DEF O!NextOf, O!Unused, NextReport, UnusedReport
<1>5. \A t : O!Reported(t) <=> MadeToday(1, t) BY <1>1 DEF O!Reported, MadeToday
<1>6. \A U : O!Cardinality(U) = Cardinality(U) BY DEF O!Cardinality, Cardinality
<1> QED BY <1>1, <1>2, <1>3, <1>4, <1>5, <1>6

LEMMA OutflowStart == O!Init => OutflowInv
<1> SUFFICES ASSUME O!Init PROVE OutflowInv OBVIOUS
<1>1. stage = [x \in OutflowRows |-> "none"] BY DEF O!Init, OutflowRows
<1>2. asked = [x \in OutflowRows |-> "old"] BY DEF O!Init, OutflowRows
<1>3. screened = {} /\ accepted = {} BY DEF O!Init
<1>4. overlapped = FALSE BY Zenon DEF O!Init
<1>5. filing = [r \in ReportsOf(1) |-> [status |-> "none", age |-> "past"]] BY OutflowNames DEF O!Init
<1>6. checker = [h \in Hands |-> NoneInHand] BY OutflowNames DEF O!Init
<1>7. due = [r \in ReportsOf(1) |-> 0] BY OutflowNames DEF O!Init
<1> QED BY <1>1, <1>2, <1>3, <1>4, <1>5, <1>6, <1>7, AmlStart DEF OutflowInv

LEMMA OutflowScreens ==
    ASSUME OutflowInv, NEW h \in Hands, NEW x \in OutflowRows \cup {NoRow}, NEW amount,
           x # NoRow => amount = OutflowAmounts[x], O!Screen(h, x, amount)
    PROVE  OutflowInv'
<1> DEFINE flagged == O!Flagged(x, amount)
           types == {t \in flagged : ~MadeToday(1, t)}
           made0 == UNION {NextReport(1, t) : t \in types}
           held == x # NoRow /\ OutflowKind[x] = "withdrawal" /\ O!Suspicious(x)
<1>1. flagged \in SUBSET ReportTypes BY OutflowNames DEF O!Flagged
<1>2. x # NoRow /\ OutflowAmounts[x] >= 4 => "CTR" \in flagged
  BY OutflowNames DEF O!Flagged, ReportTypes
<1>3. types = {t \in O!Flagged(x, amount) : ~O!Reported(t)} BY OutflowNames
<1>4. made0 = UNION {O!NextOf(t) : t \in types} BY OutflowNames
<1>5. held \in BOOLEAN OBVIOUS
<1>6. /\ checker[h].pc = "idle" /\ Cardinality(made0) = Cardinality(types)
      /\ \E taken \in SUBSET made0 : accepted' = accepted \cup taken
      /\ checker' = [checker EXCEPT ![h] = [NoneInHand EXCEPT
            !.pc = "commit", !.x = x, !.checked = TRUE, !.made = made0, !.hold = held]]
      /\ overlapped' = (overlapped \/ \E k \in Hands : checker[k].checked)
      /\ UNCHANGED <<stage, asked, screened, filing, due>>
  <2> HIDE DEF types, made0, flagged
  <2> QED BY <1>3, <1>4, OutflowNames DEF O!Screen, OutflowKind
<1>7. PICK taken \in SUBSET made0 : accepted' = accepted \cup taken BY <1>6
<1> HIDE DEF flagged, types, made0, held
<1>8. PICK b \in BOOLEAN : b = held BY <1>5
<1>9. checker' = [checker EXCEPT ![h] = ScreeningRow(x, b, made0)] BY <1>6, <1>8, StartedRow
<1>10. PICK n \in Nat : n = 1 OBVIOUS
<1>11. /\ types = {t \in flagged : ~MadeToday(n, t)} /\ made0 = UNION {NextReport(n, t) : t \in types}
       /\ AmlInv(n, OutflowRows, OutflowAmounts)
  BY <1>10 DEF types, made0, OutflowInv
<1>12. AmlInv(n, OutflowRows, OutflowAmounts)'
  <2>1. checker[h].pc = "idle" /\ Cardinality(made0) = Cardinality(types) BY <1>6
  <2>2. overlapped' = (overlapped \/ \E k \in Hands : checker[k].checked) BY <1>6
  <2>3. UNCHANGED <<stage, asked, screened, filing, due>> BY <1>6
  <2> QED
    BY ONLY h \in Hands, x \in OutflowRows \cup {NoRow}, b \in BOOLEAN, taken \in SUBSET made0, n \in Nat,
            <1>1, <1>2, <1>7, <1>9, <1>11, <2>1, <2>2, <2>3, ScreenSteps
<1> QED BY <1>10, <1>12 DEF OutflowInv

LEMMA OutflowCommits ==
    ASSUME OutflowInv, NEW h \in Hands, O!Commit(h)
    PROVE  OutflowInv'
<1> DEFINE x == checker[h].x
<1>1. PICK status \in [checker[h].made -> {"pending", "filed"}] :
        /\ \A r \in checker[h].made : status[r] \in O!Answers(r)
        /\ filing' = [r \in O!Reports |-> IF r \in checker[h].made
                                          THEN [status |-> status[r], age |-> "today"] ELSE filing[r]]
  BY DEF O!Commit
<1>2. \A r \in checker[h].made : status[r] = "filed" => r \in accepted BY <1>1 DEF O!Answers
<1>3. filing' = [r \in ReportsOf(1) |-> IF r \in checker[h].made
                                        THEN [status |-> status[r], age |-> "today"] ELSE filing[r]]
  BY <1>1, OutflowNames
<1>4. PICK to \in StageRow : stage' = IF x = NoRow THEN stage ELSE [stage EXCEPT ![x] = to]
  <2>1. PICK place : place = IF checker[h].hold THEN "held" ELSE "now" OBVIOUS
  <2>2. place \in StageRow BY <2>1 DEF StageRow
  <2>3. stage' = IF x = NoRow THEN stage ELSE [stage EXCEPT ![x] = place] BY <2>1 DEF O!Commit
  <2> QED BY <2>2, <2>3
<1>5. PICK old \in AskedRow : asked' = asked \/ asked' = [asked EXCEPT ![x] = old]
  <2>1. CASE x = NoRow \/ checker[h].hold
    <3>1. asked' = asked BY <2>1 DEF O!Commit
    <3> QED BY <3>1 DEF AskedRow
  <2>2. CASE ~(x = NoRow \/ checker[h].hold)
    <3>1. PICK old \in IF OutflowKind[x] = "withdrawal" THEN {"now", "day", "old"} ELSE {"old"} :
            asked' = [asked EXCEPT ![x] = old]
      BY <2>2 DEF O!Commit, OutflowKind
    <3>2. old \in AskedRow BY <3>1 DEF AskedRow
    <3> QED BY <3>1, <3>2
  <2> QED BY <2>1, <2>2
<1>6. /\ screened' = screened \cup {y \in {x} \ {NoRow} : checker[h].checked /\ OutflowAmounts[y] >= 4}
      /\ checker' = [checker EXCEPT ![h] = NoneInHand] /\ checker[h].pc = "commit"
      /\ UNCHANGED <<accepted, overlapped, due>>
  BY OutflowNames DEF O!Commit, OutflowAmounts
<1>7. x = checker[h].x /\ AmlInv(1, OutflowRows, OutflowAmounts) BY DEF OutflowInv
<1> HIDE DEF x
<1>8. AmlInv(1, OutflowRows, OutflowAmounts)'
  BY ONLY h \in Hands, to \in StageRow, old \in AskedRow, <1>1, <1>2, <1>3, <1>4, <1>5, <1>6, <1>7,
          status \in [checker[h].made -> {"pending", "filed"}], CommitSteps
<1> QED BY <1>8 DEF OutflowInv

LEMMA OutflowSteps == OutflowInv /\ O!Next => OutflowInv'
<1> SUFFICES ASSUME OutflowInv, O!Next PROVE OutflowInv' OBVIOUS
<1>1. AmlInv(1, OutflowRows, OutflowAmounts) BY DEF OutflowInv
<1>2. /\ stage \in [OutflowRows -> StageRow] /\ asked \in [OutflowRows -> AskedRow]
      /\ checker \in [Hands -> CheckerRow(1, OutflowRows)]
  BY <1>1 DEF AmlInv, AmlTypes
<1>3. ASSUME NEW h \in Hands, NEW x \in OutflowRows, O!Begin(h, x) PROVE OutflowInv'
  <2>1. O!Screen(h, x, OutflowAmounts[x]) BY <1>3 DEF O!Begin, OutflowAmounts
  <2> QED BY <2>1, OutflowScreens
<1>4. ASSUME NEW h \in Hands, NEW x \in OutflowRows, O!GenerateSTR(h, x) PROVE OutflowInv'
  <2>1. O!Screen(h, NoRow, OutflowAmounts[x]) BY <1>4 DEF O!GenerateSTR, OutflowAmounts
  <2> QED BY <2>1, OutflowScreens
<1>5. ASSUME NEW h \in Hands, NEW x \in OutflowRows, O!BeginUnscreened(h, x) PROVE OutflowInv'
  <2>1. /\ checker[h].pc = "idle"
        /\ checker' = [checker EXCEPT ![h] = [NoneInHand EXCEPT !.pc = "commit", !.x = x]]
        /\ UNCHANGED <<stage, asked, screened, filing, accepted, overlapped, due>>
    BY <1>5, OutflowNames DEF O!BeginUnscreened
  <2> QED BY <1>1, <2>1, StartsUnscreened DEF OutflowInv
<1>6. ASSUME NEW h \in Hands, O!RollBack(h) PROVE OutflowInv'
  <2>1. /\ checker' = [checker EXCEPT ![h] = NoneInHand]
        /\ accepted' = accepted \ checker[h].made
        /\ due' = [r \in ReportsOf(1) |-> IF r \in checker[h].told THEN due[r] + 1 ELSE due[r]]
        /\ UNCHANGED <<stage, asked, screened, filing, overlapped>>
    BY <1>6, OutflowNames DEF O!RollBack
  <2> QED BY <1>1, <2>1, RolledBack DEF OutflowInv
<1>7. ASSUME NEW h \in Hands, O!ReadOverdue(h) PROVE OutflowInv'
  <2> DEFINE rows == {r \in O!Reports : O!Overdue(r)}
  <2>1. rows \in SUBSET ReportsOf(1) /\ \A r \in rows : filing[r].age = "due"
    BY OutflowNames DEF O!Overdue
  <2>2. /\ checker[h].pc = "idle"
        /\ checker' = [checker EXCEPT ![h] = [NoneInHand EXCEPT !.pc = "alert", !.due = rows]]
        /\ UNCHANGED <<stage, asked, screened, filing, accepted, overlapped, due>>
    BY <1>7, OutflowNames DEF O!ReadOverdue
  <2> HIDE DEF rows
  <2> QED BY <1>1, <2>1, <2>2, ReadsOverdue DEF OutflowInv
<1>8. ASSUME NEW h \in Hands, O!EndAlerts(h) PROVE OutflowInv'
  <2>1. /\ checker[h].pc = "alert"
        /\ filing' = [r \in ReportsOf(1) |-> IF r \in checker[h].told
                                             THEN [filing[r] EXCEPT !.age = "alerted"] ELSE filing[r]]
        /\ checker' = [checker EXCEPT ![h] = NoneInHand]
        /\ UNCHANGED <<stage, asked, screened, accepted, overlapped, due>>
    BY <1>8, OutflowNames DEF O!EndAlerts
  <2> QED BY <1>1, <2>1, EndsAlerts DEF OutflowInv
<1>9. ASSUME NEW h \in Hands, NEW r \in O!Reports, O!ClaimAlert(h, r) PROVE OutflowInv'
  <2>1. PICK told0 : told0 = IF filing[r].age # "alerted" THEN checker[h].told \cup {r} ELSE checker[h].told
    OBVIOUS
  <2>2. /\ r \in checker[h].due /\ \A k \in Hands : r \notin checker[k].told
        /\ due' = IF filing[r].age # "alerted" THEN [due EXCEPT ![r] = due[r] - 1] ELSE due
        /\ UNCHANGED <<stage, asked, screened, filing, accepted, overlapped>>
    BY <1>9 DEF O!ClaimAlert, O!Claimable
  <2>3. checker' = [checker EXCEPT ![h].due = checker[h].due \ {r}, ![h].told = told0]
    BY <1>2, <1>9, <2>1 DEF O!ClaimAlert, O!Claimable
  <2>4. AmlInv(1, OutflowRows, OutflowAmounts)'
    BY ONLY h \in Hands, <1>1, <2>1, <2>2, <2>3, ClaimsAlert
  <2> QED BY <2>4 DEF OutflowInv
<1>10. ASSUME NEW x \in OutflowRows, O!Reject(x) PROVE OutflowInv'
  <2>1. /\ stage' \in [OutflowRows -> StageRow] /\ asked' \in [OutflowRows -> AskedRow]
        /\ screened' \subseteq screened
        /\ UNCHANGED <<filing, accepted, checker, overlapped, due>>
    BY <1>2, <1>10 DEF O!Reject, StageRow
  <2> QED BY <1>1, <2>1, RowsMove DEF OutflowInv
<1>11. ASSUME O!TenMinutes PROVE OutflowInv'
  <2>1. stage' \in [OutflowRows -> StageRow] /\ asked' \in [OutflowRows -> AskedRow]
    BY <1>2, <1>11 DEF O!TenMinutes, StageRow, AskedRow, OutflowRows
  <2>2. screened' \subseteq screened /\ UNCHANGED <<filing, accepted, checker, overlapped, due>>
    BY <1>11 DEF O!TenMinutes
  <2> QED BY <1>1, <2>1, <2>2, RowsMove DEF OutflowInv
<1>12. ASSUME O!OneDay PROVE OutflowInv'
  <2>1. stage' \in [OutflowRows -> StageRow] /\ asked' \in [OutflowRows -> AskedRow]
    BY <1>2, <1>12 DEF O!OneDay, StageRow, AskedRow, OutflowRows
  <2>2. screened' \subseteq screened /\ UNCHANGED <<filing, accepted, checker, overlapped, due>>
    BY <1>12 DEF O!OneDay
  <2> QED BY <1>1, <2>1, <2>2, RowsMove DEF OutflowInv
<1>13. ASSUME O!Midnight PROVE OutflowInv'
  <2>1. /\ \A h \in Hands : checker[h].made = {}
        /\ filing' = [r \in ReportsOf(1) |->
              [filing[r] EXCEPT !.age = IF filing[r].age = "today" THEN "past" ELSE filing[r].age]]
        /\ UNCHANGED <<stage, asked, screened, accepted, checker, overlapped, due>>
    BY <1>13, OutflowNames DEF O!Midnight
  <2> QED BY <1>1, <2>1, DayEnds DEF OutflowInv
<1>14. ASSUME NEW r \in O!Reports, O!AlertIsDue(r) PROVE OutflowInv'
  <2>1. r \in ReportsOf(1) BY OutflowNames
  <2>2. /\ filing[r].status = "pending" /\ filing' = [filing EXCEPT ![r].age = "due"]
        /\ due' = [due EXCEPT ![r] = due[r] + 1]
        /\ UNCHANGED <<stage, asked, screened, accepted, checker, overlapped>>
    BY <1>14 DEF O!AlertIsDue
  <2> QED BY <1>1, <2>1, <2>2, AlertComesDue DEF OutflowInv
<1> QED
  BY <1>3, <1>4, <1>5, <1>6, <1>7, <1>8, <1>9, <1>10, <1>11, <1>12, <1>13, <1>14, OutflowCommits
  DEF O!Next, OutflowRows

LEMMA OutflowHolds == OutflowInv => O!TypeOK /\ O!ReportsAddUp
<1> SUFFICES ASSUME OutflowInv PROVE O!TypeOK /\ O!ReportsAddUp OBVIOUS
<1>1. AmlTypes(1, OutflowRows) /\ ReportsKnown(1, OutflowAmounts) /\ AlertsDue(1) BY DEF OutflowInv, AmlInv
<1>2. \A r \in ReportsOf(1) : filing[r] \in FilingRow BY <1>1 DEF AmlTypes
<1>3. O!TypeOK
  <2>1. filing \in [O!Reports -> [status : {"none", "pending", "filed"},
                                  age : {"today", "past", "due", "alerted"}]]
    BY <1>1, OutflowNames DEF AmlTypes, FilingRow
  <2>2. \A h \in Hands : checker[h].pc \in {"idle", "commit", "alert"}
    BY <1>1 DEF AmlTypes, CheckerRow
  <2> QED BY <1>1, <2>1, <2>2, OutflowNames DEF O!TypeOK, AmlTypes, StageRow, AskedRow, OutflowRows
<1>4. O!ReportsAddUp
  <2>1. \A r \in O!Reports : filing[r].status = "filed" => r \in accepted
    BY <1>1, OutflowNames DEF ReportsKnown, FiledTaken
  <2>2. screened # {} => \E r \in O!Reports : r[1] = "CTR" /\ filing[r].status # "none"
    BY <1>1, OutflowNames DEF ReportsKnown, ScreenedTold, CtrMade
  <2>3. ~overlapped => \A q, r \in O!Reports :
            filing[q].age = "today" /\ filing[r].age = "today" /\ q[1] = r[1] => q = r
    BY <1>1, OutflowNames DEF ReportsKnown, OneScreens
  <2>4. \A r \in O!Reports : due[r] >= 0 BY <1>1, OutflowNames DEF AlertsDue
  <2> QED BY <2>1, <2>2, <2>3, <2>4 DEF O!ReportsAddUp
<1> QED BY <1>3, <1>4

-----------------------------------------------------------------------------
(* A loan and two deposits, with two reports of each type. *)

InflowRows == {"l", "d", "c"}
InflowAmounts == [l |-> 3, d |-> 3, c |-> 3]
InflowKind == [l |-> "loan", d |-> "deposit", c |-> "deposit"]
InflowInv == AmlInv(2, InflowRows, InflowAmounts)

LEMMA InflowNames ==
    /\ D!Reports = ReportsOf(2) /\ D!Types = ReportTypes /\ D!IdleHand = NoneInHand
    /\ D!NoReport = [status |-> "none", age |-> "past"]
    /\ \A t : D!NextOf(t) = NextReport(2, t) /\ (D!Reported(t) <=> MadeToday(2, t))
    /\ \A U : D!Cardinality(U) = Cardinality(U)
<1>1. D!Reports = ReportsOf(2) /\ D!Types = ReportTypes
  BY DEF D!Reports, D!Types, ReportsOf, ReportTypes
<1>2. D!IdleHand = NoneInHand BY DEF D!IdleHand, NoneInHand
<1>3. D!NoReport = [status |-> "none", age |-> "past"] BY DEF D!NoReport
<1>4. \A t : D!NextOf(t) = NextReport(2, t)
  BY <1>1 DEF D!NextOf, D!Unused, NextReport, UnusedReport
<1>5. \A t : D!Reported(t) <=> MadeToday(2, t) BY <1>1 DEF D!Reported, MadeToday
<1>6. \A U : D!Cardinality(U) = Cardinality(U) BY DEF D!Cardinality, Cardinality
<1> QED BY <1>1, <1>2, <1>3, <1>4, <1>5, <1>6

LEMMA InflowStart == D!Init => InflowInv
<1> SUFFICES ASSUME D!Init PROVE InflowInv OBVIOUS
<1>1. stage = [x \in InflowRows |-> "none"] BY DEF D!Init, InflowRows
<1>2. asked = [x \in InflowRows |-> "old"] BY DEF D!Init, InflowRows
<1>3. screened = {} /\ accepted = {} BY DEF D!Init
<1>4. overlapped = FALSE BY Zenon DEF D!Init
<1>5. filing = [r \in ReportsOf(2) |-> [status |-> "none", age |-> "past"]] BY InflowNames DEF D!Init
<1>6. checker = [h \in Hands |-> NoneInHand] BY InflowNames DEF D!Init
<1>7. due = [r \in ReportsOf(2) |-> 0] BY InflowNames DEF D!Init
<1> QED BY <1>1, <1>2, <1>3, <1>4, <1>5, <1>6, <1>7, AmlStart DEF InflowInv

LEMMA InflowScreens ==
    ASSUME InflowInv, NEW h \in Hands, NEW x \in InflowRows \cup {NoRow}, NEW amount,
           x # NoRow => amount = InflowAmounts[x], D!Screen(h, x, amount)
    PROVE  InflowInv'
<1> DEFINE flagged == D!Flagged(x, amount)
           types == {t \in flagged : ~MadeToday(2, t)}
           made0 == UNION {NextReport(2, t) : t \in types}
           held == x # NoRow /\ InflowKind[x] = "withdrawal" /\ D!Suspicious(x)
<1>1. flagged \in SUBSET ReportTypes BY InflowNames DEF D!Flagged
<1>2. x # NoRow /\ InflowAmounts[x] >= 4 => "CTR" \in flagged
  BY InflowNames DEF D!Flagged, ReportTypes
<1>3. types = {t \in D!Flagged(x, amount) : ~D!Reported(t)} BY InflowNames
<1>4. made0 = UNION {D!NextOf(t) : t \in types} BY InflowNames
<1>5. held \in BOOLEAN OBVIOUS
<1>6. /\ checker[h].pc = "idle" /\ Cardinality(made0) = Cardinality(types)
      /\ \E taken \in SUBSET made0 : accepted' = accepted \cup taken
      /\ checker' = [checker EXCEPT ![h] = [NoneInHand EXCEPT
            !.pc = "commit", !.x = x, !.checked = TRUE, !.made = made0, !.hold = held]]
      /\ overlapped' = (overlapped \/ \E k \in Hands : checker[k].checked)
      /\ UNCHANGED <<stage, asked, screened, filing, due>>
  <2> HIDE DEF types, made0, flagged
  <2> QED BY <1>3, <1>4, InflowNames DEF D!Screen, InflowKind
<1>7. PICK taken \in SUBSET made0 : accepted' = accepted \cup taken BY <1>6
<1> HIDE DEF flagged, types, made0, held
<1>8. PICK b \in BOOLEAN : b = held BY <1>5
<1>9. checker' = [checker EXCEPT ![h] = ScreeningRow(x, b, made0)] BY <1>6, <1>8, StartedRow
<1>10. PICK n \in Nat : n = 2 OBVIOUS
<1>11. /\ types = {t \in flagged : ~MadeToday(n, t)} /\ made0 = UNION {NextReport(n, t) : t \in types}
       /\ AmlInv(n, InflowRows, InflowAmounts)
  BY <1>10 DEF types, made0, InflowInv
<1>12. AmlInv(n, InflowRows, InflowAmounts)'
  <2>1. checker[h].pc = "idle" /\ Cardinality(made0) = Cardinality(types) BY <1>6
  <2>2. overlapped' = (overlapped \/ \E k \in Hands : checker[k].checked) BY <1>6
  <2>3. UNCHANGED <<stage, asked, screened, filing, due>> BY <1>6
  <2> QED
    BY ONLY h \in Hands, x \in InflowRows \cup {NoRow}, b \in BOOLEAN, taken \in SUBSET made0, n \in Nat,
            <1>1, <1>2, <1>7, <1>9, <1>11, <2>1, <2>2, <2>3, ScreenSteps
<1> QED BY <1>10, <1>12 DEF InflowInv

LEMMA InflowCommits ==
    ASSUME InflowInv, NEW h \in Hands, D!Commit(h)
    PROVE  InflowInv'
<1> DEFINE x == checker[h].x
<1>1. PICK status \in [checker[h].made -> {"pending", "filed"}] :
        /\ \A r \in checker[h].made : status[r] \in D!Answers(r)
        /\ filing' = [r \in D!Reports |-> IF r \in checker[h].made
                                          THEN [status |-> status[r], age |-> "today"] ELSE filing[r]]
  BY DEF D!Commit
<1>2. \A r \in checker[h].made : status[r] = "filed" => r \in accepted BY <1>1 DEF D!Answers
<1>3. filing' = [r \in ReportsOf(2) |-> IF r \in checker[h].made
                                        THEN [status |-> status[r], age |-> "today"] ELSE filing[r]]
  BY <1>1, InflowNames
<1>4. PICK to \in StageRow : stage' = IF x = NoRow THEN stage ELSE [stage EXCEPT ![x] = to]
  <2>1. PICK place : place = IF checker[h].hold THEN "held" ELSE "now" OBVIOUS
  <2>2. place \in StageRow BY <2>1 DEF StageRow
  <2>3. stage' = IF x = NoRow THEN stage ELSE [stage EXCEPT ![x] = place] BY <2>1 DEF D!Commit
  <2> QED BY <2>2, <2>3
<1>5. PICK old \in AskedRow : asked' = asked \/ asked' = [asked EXCEPT ![x] = old]
  <2>1. CASE x = NoRow \/ checker[h].hold
    <3>1. asked' = asked BY <2>1 DEF D!Commit
    <3> QED BY <3>1 DEF AskedRow
  <2>2. CASE ~(x = NoRow \/ checker[h].hold)
    <3>1. PICK old \in IF InflowKind[x] = "withdrawal" THEN {"now", "day", "old"} ELSE {"old"} :
            asked' = [asked EXCEPT ![x] = old]
      BY <2>2 DEF D!Commit, InflowKind
    <3>2. old \in AskedRow BY <3>1 DEF AskedRow
    <3> QED BY <3>1, <3>2
  <2> QED BY <2>1, <2>2
<1>6. /\ screened' = screened \cup {y \in {x} \ {NoRow} : checker[h].checked /\ InflowAmounts[y] >= 4}
      /\ checker' = [checker EXCEPT ![h] = NoneInHand] /\ checker[h].pc = "commit"
      /\ UNCHANGED <<accepted, overlapped, due>>
  BY InflowNames DEF D!Commit, InflowAmounts
<1>7. x = checker[h].x /\ AmlInv(2, InflowRows, InflowAmounts) BY DEF InflowInv
<1> HIDE DEF x
<1>8. AmlInv(2, InflowRows, InflowAmounts)'
  BY ONLY h \in Hands, to \in StageRow, old \in AskedRow, <1>1, <1>2, <1>3, <1>4, <1>5, <1>6, <1>7,
          status \in [checker[h].made -> {"pending", "filed"}], CommitSteps
<1> QED BY <1>8 DEF InflowInv

LEMMA InflowSteps == InflowInv /\ D!Next => InflowInv'
<1> SUFFICES ASSUME InflowInv, D!Next PROVE InflowInv' OBVIOUS
<1>1. AmlInv(2, InflowRows, InflowAmounts) BY DEF InflowInv
<1>2. /\ stage \in [InflowRows -> StageRow] /\ asked \in [InflowRows -> AskedRow]
      /\ checker \in [Hands -> CheckerRow(2, InflowRows)]
  BY <1>1 DEF AmlInv, AmlTypes
<1>3. ASSUME NEW h \in Hands, NEW x \in InflowRows, D!Begin(h, x) PROVE InflowInv'
  <2>1. D!Screen(h, x, InflowAmounts[x]) BY <1>3 DEF D!Begin, InflowAmounts
  <2> QED BY <2>1, InflowScreens
<1>4. ASSUME NEW h \in Hands, NEW x \in InflowRows, D!GenerateSTR(h, x) PROVE InflowInv'
  <2>1. D!Screen(h, NoRow, InflowAmounts[x]) BY <1>4 DEF D!GenerateSTR, InflowAmounts
  <2> QED BY <2>1, InflowScreens
<1>5. ASSUME NEW h \in Hands, NEW x \in InflowRows, D!BeginUnscreened(h, x) PROVE InflowInv'
  <2>1. /\ checker[h].pc = "idle"
        /\ checker' = [checker EXCEPT ![h] = [NoneInHand EXCEPT !.pc = "commit", !.x = x]]
        /\ UNCHANGED <<stage, asked, screened, filing, accepted, overlapped, due>>
    BY <1>5, InflowNames DEF D!BeginUnscreened
  <2> QED BY <1>1, <2>1, StartsUnscreened DEF InflowInv
<1>6. ASSUME NEW h \in Hands, D!RollBack(h) PROVE InflowInv'
  <2>1. /\ checker' = [checker EXCEPT ![h] = NoneInHand]
        /\ accepted' = accepted \ checker[h].made
        /\ due' = [r \in ReportsOf(2) |-> IF r \in checker[h].told THEN due[r] + 1 ELSE due[r]]
        /\ UNCHANGED <<stage, asked, screened, filing, overlapped>>
    BY <1>6, InflowNames DEF D!RollBack
  <2> QED BY <1>1, <2>1, RolledBack DEF InflowInv
<1>7. ASSUME NEW h \in Hands, D!ReadOverdue(h) PROVE InflowInv'
  <2> DEFINE rows == {r \in D!Reports : D!Overdue(r)}
  <2>1. rows \in SUBSET ReportsOf(2) /\ \A r \in rows : filing[r].age = "due"
    BY InflowNames DEF D!Overdue
  <2>2. /\ checker[h].pc = "idle"
        /\ checker' = [checker EXCEPT ![h] = [NoneInHand EXCEPT !.pc = "alert", !.due = rows]]
        /\ UNCHANGED <<stage, asked, screened, filing, accepted, overlapped, due>>
    BY <1>7, InflowNames DEF D!ReadOverdue
  <2> HIDE DEF rows
  <2> QED BY <1>1, <2>1, <2>2, ReadsOverdue DEF InflowInv
<1>8. ASSUME NEW h \in Hands, D!EndAlerts(h) PROVE InflowInv'
  <2>1. /\ checker[h].pc = "alert"
        /\ filing' = [r \in ReportsOf(2) |-> IF r \in checker[h].told
                                             THEN [filing[r] EXCEPT !.age = "alerted"] ELSE filing[r]]
        /\ checker' = [checker EXCEPT ![h] = NoneInHand]
        /\ UNCHANGED <<stage, asked, screened, accepted, overlapped, due>>
    BY <1>8, InflowNames DEF D!EndAlerts
  <2> QED BY <1>1, <2>1, EndsAlerts DEF InflowInv
<1>9. ASSUME NEW h \in Hands, NEW r \in D!Reports, D!ClaimAlert(h, r) PROVE InflowInv'
  <2>1. PICK told0 : told0 = IF filing[r].age # "alerted" THEN checker[h].told \cup {r} ELSE checker[h].told
    OBVIOUS
  <2>2. /\ r \in checker[h].due /\ \A k \in Hands : r \notin checker[k].told
        /\ due' = IF filing[r].age # "alerted" THEN [due EXCEPT ![r] = due[r] - 1] ELSE due
        /\ UNCHANGED <<stage, asked, screened, filing, accepted, overlapped>>
    BY <1>9 DEF D!ClaimAlert, D!Claimable
  <2>3. checker' = [checker EXCEPT ![h].due = checker[h].due \ {r}, ![h].told = told0]
    BY <1>2, <1>9, <2>1 DEF D!ClaimAlert, D!Claimable
  <2>4. AmlInv(2, InflowRows, InflowAmounts)'
    BY ONLY h \in Hands, <1>1, <2>1, <2>2, <2>3, ClaimsAlert
  <2> QED BY <2>4 DEF InflowInv
<1>10. ASSUME NEW x \in InflowRows, D!Reject(x) PROVE InflowInv'
  <2>1. /\ stage' \in [InflowRows -> StageRow] /\ asked' \in [InflowRows -> AskedRow]
        /\ screened' \subseteq screened
        /\ UNCHANGED <<filing, accepted, checker, overlapped, due>>
    BY <1>2, <1>10 DEF D!Reject, StageRow
  <2> QED BY <1>1, <2>1, RowsMove DEF InflowInv
<1>11. ASSUME D!TenMinutes PROVE InflowInv'
  <2>1. stage' \in [InflowRows -> StageRow] /\ asked' \in [InflowRows -> AskedRow]
    BY <1>2, <1>11 DEF D!TenMinutes, StageRow, AskedRow, InflowRows
  <2>2. screened' \subseteq screened /\ UNCHANGED <<filing, accepted, checker, overlapped, due>>
    BY <1>11 DEF D!TenMinutes
  <2> QED BY <1>1, <2>1, <2>2, RowsMove DEF InflowInv
<1>12. ASSUME D!OneDay PROVE InflowInv'
  <2>1. stage' \in [InflowRows -> StageRow] /\ asked' \in [InflowRows -> AskedRow]
    BY <1>2, <1>12 DEF D!OneDay, StageRow, AskedRow, InflowRows
  <2>2. screened' \subseteq screened /\ UNCHANGED <<filing, accepted, checker, overlapped, due>>
    BY <1>12 DEF D!OneDay
  <2> QED BY <1>1, <2>1, <2>2, RowsMove DEF InflowInv
<1>13. ASSUME D!Midnight PROVE InflowInv'
  <2>1. /\ \A h \in Hands : checker[h].made = {}
        /\ filing' = [r \in ReportsOf(2) |->
              [filing[r] EXCEPT !.age = IF filing[r].age = "today" THEN "past" ELSE filing[r].age]]
        /\ UNCHANGED <<stage, asked, screened, accepted, checker, overlapped, due>>
    BY <1>13, InflowNames DEF D!Midnight
  <2> QED BY <1>1, <2>1, DayEnds DEF InflowInv
<1>14. ASSUME NEW r \in D!Reports, D!AlertIsDue(r) PROVE InflowInv'
  <2>1. r \in ReportsOf(2) BY InflowNames
  <2>2. /\ filing[r].status = "pending" /\ filing' = [filing EXCEPT ![r].age = "due"]
        /\ due' = [due EXCEPT ![r] = due[r] + 1]
        /\ UNCHANGED <<stage, asked, screened, accepted, checker, overlapped>>
    BY <1>14 DEF D!AlertIsDue
  <2> QED BY <1>1, <2>1, <2>2, AlertComesDue DEF InflowInv
<1> QED
  BY <1>3, <1>4, <1>5, <1>6, <1>7, <1>8, <1>9, <1>10, <1>11, <1>12, <1>13, <1>14, InflowCommits
  DEF D!Next, InflowRows

LEMMA InflowHolds == InflowInv => D!TypeOK /\ D!ReportsAddUp
<1> SUFFICES ASSUME InflowInv PROVE D!TypeOK /\ D!ReportsAddUp OBVIOUS
<1>1. AmlTypes(2, InflowRows) /\ ReportsKnown(2, InflowAmounts) /\ AlertsDue(2) BY DEF InflowInv, AmlInv
<1>2. \A r \in ReportsOf(2) : filing[r] \in FilingRow BY <1>1 DEF AmlTypes
<1>3. D!TypeOK
  <2>1. filing \in [D!Reports -> [status : {"none", "pending", "filed"},
                                  age : {"today", "past", "due", "alerted"}]]
    BY <1>1, InflowNames DEF AmlTypes, FilingRow
  <2>2. \A h \in Hands : checker[h].pc \in {"idle", "commit", "alert"}
    BY <1>1 DEF AmlTypes, CheckerRow
  <2> QED BY <1>1, <2>1, <2>2, InflowNames DEF D!TypeOK, AmlTypes, StageRow, AskedRow, InflowRows
<1>4. D!ReportsAddUp
  <2>1. \A r \in D!Reports : filing[r].status = "filed" => r \in accepted
    BY <1>1, InflowNames DEF ReportsKnown, FiledTaken
  <2>2. screened # {} => \E r \in D!Reports : r[1] = "CTR" /\ filing[r].status # "none"
    BY <1>1, InflowNames DEF ReportsKnown, ScreenedTold, CtrMade
  <2>3. ~overlapped => \A q, r \in D!Reports :
            filing[q].age = "today" /\ filing[r].age = "today" /\ q[1] = r[1] => q = r
    BY <1>1, InflowNames DEF ReportsKnown, OneScreens
  <2>4. \A r \in D!Reports : due[r] >= 0 BY <1>1, InflowNames DEF AlertsDue
  <2> QED BY <2>1, <2>2, <2>3, <2>4 DEF D!ReportsAddUp
<1> QED BY <1>3, <1>4

-----------------------------------------------------------------------------
\* The variables of the screening are those of one part or of the other.
ScreeningInv == IF part = "outflow" THEN OutflowInv ELSE InflowInv

LEMMA ScreeningAlways == Spec => []ScreeningInv
<1>1. Init => ScreeningInv BY OutflowStart, InflowStart DEF Init, ScreeningInv
<1>2. ScreeningInv /\ [Next]_vars => ScreeningInv'
  <2> SUFFICES ASSUME ScreeningInv, [Next]_vars PROVE ScreeningInv' OBVIOUS
  <2>1. part' = part BY DEF Next, vars
  <2>2. \/ part = "outflow" /\ O!Next
        \/ part = "inflow" /\ D!Next
        \/ UNCHANGED amlVars
    BY Zenon DEF Next, vars, counterVars
  <2>3. CASE part = "outflow" /\ O!Next BY <2>1, <2>3, OutflowSteps DEF ScreeningInv
  <2>4. CASE part = "inflow" /\ D!Next BY <2>1, <2>4, InflowSteps DEF ScreeningInv
  <2>5. CASE UNCHANGED amlVars
    <3>1. OutflowInv => OutflowInv'
      BY <2>5 DEF amlVars, OutflowInv, AmlInv, AmlTypes, ReportsKnown, MadeOnce, CtrFollows, CtrMade,
                  OneScreens, FiledTaken, ScreenedTold, AlertsDue, Teller
    <3>2. InflowInv => InflowInv'
      BY <2>5 DEF amlVars, InflowInv, AmlInv, AmlTypes, ReportsKnown, MadeOnce, CtrFollows, CtrMade,
                  OneScreens, FiledTaken, ScreenedTold, AlertsDue, Teller
    <3> QED BY <2>1, <3>1, <3>2 DEF ScreeningInv
  <2> QED BY <2>2, <2>3, <2>4, <2>5
<1> QED BY <1>1, <1>2, PTL DEF Spec

LEMMA ScreeningHolds ==
    ScreeningInv => /\ part = "outflow" => O!TypeOK /\ O!ReportsAddUp
                    /\ part = "inflow" => D!TypeOK /\ D!ReportsAddUp
BY OutflowHolds, InflowHolds DEF ScreeningInv

-----------------------------------------------------------------------------
(* What every part keeps. *)

\* referrals.ts, groups.ts, savings-products.ts, shop.ts, commodity-schemes.ts,
\* federation/index.ts, insurance/index.ts, ledger.ts, provisioning.ts and aml.ts: the
\* books, rows and wallets of each part match whatever the order in which its handlers
\* and its jobs read, write and are rolled back.
THEOREM BooksAlwaysMatch == Spec => []BooksMatch
<1>1. /\ ReferralInv /\ GroupInv /\ ProductInv /\ ShopInv /\ CommodityInv
      /\ FederationInv /\ InsuranceInv /\ BookInv /\ ScreeningInv
      => BooksMatch
  <2> SUFFICES ASSUME ReferralInv, GroupInv, ProductInv, ShopInv, CommodityInv,
                      FederationInv, InsuranceInv, BookInv, ScreeningInv
               PROVE  BooksMatch
    OBVIOUS
  <2>1. /\ R!TypeOK /\ R!BonusAddsUp
        /\ G!TypeOK /\ G!PotAddsUp
        /\ P!TypeOK /\ P!ProductsAddUp
        /\ B!TypeOK /\ B!GoodsMatchLoans
        /\ C!TypeOK /\ C!HandedOverOnDebt
    BY ReferralHolds, GroupHolds, ProductHolds, ShopHolds, CommodityHolds
  <2>2. /\ F!TypeOK /\ F!FederationAddsUp
        /\ I!TypeOK /\ I!ClaimsAddUp
        /\ K!TypeOK /\ K!BooksAddUp
    BY FederationHolds, InsuranceHolds, BookHolds
  <2>3. /\ part = "outflow" => O!TypeOK /\ O!ReportsAddUp
        /\ part = "inflow" => D!TypeOK /\ D!ReportsAddUp
    BY ScreeningHolds
  <2> QED BY <2>1, <2>2, <2>3 DEF BooksMatch
<1> QED
  BY <1>1, ReferralAlways, GroupAlways, ProductAlways, ShopAlways, CommodityAlways, FederationAlways,
     InsuranceAlways, BookAlways, ScreeningAlways, PTL
=============================================================================
