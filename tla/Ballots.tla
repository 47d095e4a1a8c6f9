------------------------------ MODULE Ballots ------------------------------
(* What members decide by ballot: unit and executive elections (services/votes.ts),
   buying polls (services/buypoll.ts) and the motions of a general meeting
   (services/meetings.ts). All close the same way: a tally is read, and the
   outcome is written over the row. A chat handler is a transaction: a step that
   reads and a step that commits. *)
EXTENDS Integers, FiniteSets

CONSTANTS
    Members,
    InUnit,       \* members of the unit that elects
    Suspended,    \* members who do not count for a quorum
    Questions,    \* Vote, PurchasePoll or Motion rows that may come to exist
    Options,      \* candidates, goods, or yes and no
    Yes, No,      \* of the options of a motion, those that are compared
    UnitOptions,  \* candidates who belong to the unit
    Quorum,       \* percent of the active members
    Closers,      \* concurrent handlers of admins
    NoOne, NoQuestion

VARIABLES
    meeting,      \* Meeting.status
    seat,         \* MeetingAttendance: present, and the holder of the proxy
    question,     \* status, what may be chosen, winnerId or outcome
    ballots,      \* the ballots of a question, as pairs of voter and option
    voter,        \* a member's handler before its commit
    closer,       \* an admin's handler before its commit
    admins,       \* candidates who were made admin of the unit
    payments      \* pay-anyone requests raised for a poll

vars == <<meeting, seat, question, ballots, voter, closer, admins, payments>>

Kinds == {"unit", "exec", "poll", "motion"}
Absent == [present |-> FALSE, holder |-> NoOne]
Unasked == [kind |-> "none", status |-> "none", options |-> {}, outcome |-> NoOne]
Idle == [pc |-> "idle", on |-> NoQuestion, option |-> NoOne, quorum |-> FALSE]
Waiting == [pc |-> "idle", on |-> NoQuestion, option |-> NoOne, for |-> NoOne, here |-> FALSE]

Init ==
    /\ meeting = "scheduled"
    /\ seat = [m \in Members |-> Absent]
    /\ question = [q \in Questions |-> Unasked]
    /\ ballots = [q \in Questions |-> {}]
    /\ voter = [m \in Members |-> Waiting]
    /\ closer = [c \in Closers |-> Idle]
    /\ admins = {}
    /\ payments = [q \in Questions |-> 0]

Active(S) == S \ Suspended
Required(S) == (Cardinality(Active(S)) * Quorum + 99) \div 100
Votes(q, o) == Cardinality({b \in ballots[q] : b[2] = o})

-----------------------------------------------------------------------------
(* The meeting *)

\* startMeeting leaves it "scheduled". The row is written whatever it has become
\* since it was read: a late "openmeeting" opens a closed one again.
ChairReads(c, pc, status) ==
    /\ closer[c] = Idle /\ meeting = status
    /\ closer' = [closer EXCEPT ![c] = [Idle EXCEPT !.pc = pc]]
    /\ UNCHANGED <<meeting, seat, question, ballots, voter, admins, payments>>

ChairWrites(c, pc, status) ==
    /\ closer[c].pc = pc
    /\ meeting' = status
    /\ closer' = [closer EXCEPT ![c] = Idle]
    /\ UNCHANGED <<seat, question, ballots, voter, admins, payments>>

OpenMeeting(c) == ChairReads(c, "open", "scheduled") \/ ChairWrites(c, "open", "open")
CloseMeeting(c) == ChairReads(c, "shut", "open") \/ ChairWrites(c, "shut", "closed")

Attends(m, pc, absent) ==
    /\ voter[m] = Waiting /\ meeting = "open"
    /\ voter' = [voter EXCEPT ![m] = [Waiting EXCEPT !.pc = pc, !.for = absent, !.here = seat[m].present]]
    /\ UNCHANGED <<meeting, seat, question, ballots, closer, admins, payments>>

AttendRead(m) == m \notin Suspended /\ ~seat[m].present /\ Attends(m, "attend", m)

\* Whoever writes first represents the absent member; nobody asks the member.
ProxyRead(m, absent) == absent # m /\ ~seat[absent].present /\ Attends(m, "proxy", absent)

\* A proxy makes two rows unless the holder has his. The row of a meeting and a
\* member is unique: a second one rolls all back.
TakeSeat(m) ==
    /\ voter[m].pc \in {"attend", "proxy"}
    /\ LET x == voter[m].for
       IN  seat' = IF seat[x].present \/ (~voter[m].here /\ seat[m].present) THEN seat
                   ELSE [y \in Members |->
                           IF y = x THEN [present |-> TRUE, holder |-> IF x = m THEN NoOne ELSE m]
                           ELSE IF y = m THEN [seat[y] EXCEPT !.present = TRUE]
                           ELSE seat[y]]
    /\ voter' = [voter EXCEPT ![m] = Waiting]
    /\ UNCHANGED <<meeting, question, ballots, closer, admins, payments>>

-----------------------------------------------------------------------------
(* Questions and what may be chosen *)

Ask(q, kind, options) ==
    /\ question[q].status = "none"
    /\ question' = [question EXCEPT ![q] = [kind |-> kind, status |-> "open", outcome |-> NoOne,
                                            options |-> options]]
    /\ UNCHANGED <<meeting, seat, ballots, voter, closer, admins, payments>>

\* No second election of a unit, or poll, is opened while one is read open.
OpenOne(kind) == \E q \in Questions : question[q].kind = kind /\ question[q].status = "open"
StartVote(q) == \E kind \in {"unit", "exec"} : ~OpenOne(kind) /\ Ask(q, kind, {})
StartBuyPoll(q) == ~OpenOne("poll") /\ Ask(q, "poll", {})
AddMotion(q) == meeting = "open" /\ Ask(q, "motion", Options)

AddOption(q, o) ==
    /\ question[q].status = "open" /\ o \notin question[q].options
    /\ question' = [question EXCEPT ![q].options = @ \cup {o}]
    /\ UNCHANGED <<meeting, seat, ballots, voter, closer, admins, payments>>

AddCandidate(q, o) ==
    \/ question[q].kind = "exec" /\ AddOption(q, o)
    \/ question[q].kind = "unit" /\ o \in UnitOptions /\ AddOption(q, o)
AddPollOption(q, o) == question[q].kind = "poll" /\ AddOption(q, o)

-----------------------------------------------------------------------------
(* Ballots *)

CastRead(m, q, o) ==
    /\ voter[m] = Waiting
    /\ question[q].status = "open" /\ o \in question[q].options
    /\ voter' = [voter EXCEPT ![m] = [Waiting EXCEPT !.pc = "cast", !.on = q, !.option = o]]
    /\ UNCHANGED <<meeting, seat, question, ballots, closer, admins, payments>>

CastVote(m, q, o) ==
    \/ question[q].kind = "exec" /\ CastRead(m, q, o)
    \/ question[q].kind = "unit" /\ m \in InUnit /\ CastRead(m, q, o)
CastBuyVote(m, q, o) == question[q].kind = "poll" /\ CastRead(m, q, o)
CastMotionVote(m, q, o) ==
    question[q].kind = "motion" /\ meeting = "open" /\ seat[m].present /\ CastRead(m, q, o)

\* Mutant: no unique key on the question and the voter.
VotedAny(m, q) == FALSE

\* @@unique of VoteBallot, PollBallot and MotionVote.
Voted(m, q) == \E b \in ballots[q] : b[1] = m

\* The question may have been closed since the read.
PutBallot(m) ==
    /\ voter[m].pc = "cast"
    /\ LET q == voter[m].on
       IN  ballots' = IF Voted(m, q) THEN ballots
                      ELSE [ballots EXCEPT ![q] = @ \cup {<<m, voter[m].option>>}]
    /\ voter' = [voter EXCEPT ![m] = Waiting]
    /\ UNCHANGED <<meeting, seat, question, closer, admins, payments>>

-----------------------------------------------------------------------------
(* Closing *)

Represented == {m \in Members : seat[m].present} \cup ({seat[m].holder : m \in Members} \ {NoOne})

QuorumMet ==
    /\ Active(Members) # {}
    /\ Cardinality(Active(Represented)) >= Required(Members)

Leaders(q) == {o \in question[q].options : \A p \in question[q].options : Votes(q, o) >= Votes(q, p)}

CloseRead(c, q, kinds, outcome, quorum) ==
    /\ closer[c] = Idle
    /\ question[q].kind \in kinds /\ question[q].status = "open"
    /\ closer' = [closer EXCEPT ![c] = [pc |-> "close", on |-> q, option |-> outcome, quorum |-> quorum]]
    /\ UNCHANGED <<meeting, seat, question, ballots, voter, admins, payments>>

\* An election's tie, like an election without candidates, has no winner.
TallyVote(c, q) ==
    CloseRead(c, q, {"unit", "exec"},
              IF Cardinality(Leaders(q)) = 1 THEN CHOOSE o \in Leaders(q) : TRUE ELSE NoOne,
              Cardinality(ballots[q]) >= Required(IF question[q].kind = "unit" THEN InUnit ELSE Members))

\* A poll needs no quorum; its tie goes to the option that was read first.
TallyPoll(c, q) == \E o \in Leaders(q) : CloseRead(c, q, {"poll"}, o, TRUE)

TallyMotion(c, q) ==
    CloseRead(c, q, {"motion"}, IF QuorumMet /\ Votes(q, Yes) > Votes(q, No) THEN Yes ELSE NoOne, QuorumMet)

Closes(c, q, kinds) ==
    /\ closer[c].pc = "close" /\ closer[c].on = q /\ question[q].kind \in kinds
    /\ question' = [question EXCEPT ![q].status = "closed", ![q].outcome = closer[c].option]
    /\ closer' = [closer EXCEPT ![c] = Idle]
    /\ UNCHANGED <<meeting, seat, ballots, voter>>

\* The winner of a unit becomes its admin.
CloseVote(c, q) ==
    /\ Closes(c, q, {"unit", "exec"})
    /\ LET o == closer[c].option
       IN  admins' = IF question[q].kind = "unit" /\ o # NoOne /\ closer[c].quorum
                     THEN admins \cup {<<q, o>>} ELSE admins
    /\ UNCHANGED payments

\* A request to pay the vendor of the winner is raised by every close.
CloseBuyPoll(c, q) ==
    Closes(c, q, {"poll"}) /\ payments' = [payments EXCEPT ![q] = @ + 1] /\ UNCHANGED admins

CloseMotion(c, q) == Closes(c, q, {"motion"}) /\ UNCHANGED <<admins, payments>>

Next ==
    \/ \E m \in Members :
          \/ AttendRead(m) \/ TakeSeat(m) \/ PutBallot(m)
          \/ \E x \in Members : ProxyRead(m, x)
          \/ \E q \in Questions, o \in Options :
                CastVote(m, q, o) \/ CastBuyVote(m, q, o) \/ CastMotionVote(m, q, o)
    \/ \E q \in Questions :
          \/ StartVote(q) \/ StartBuyPoll(q) \/ AddMotion(q)
          \/ \E o \in Options : AddCandidate(q, o) \/ AddPollOption(q, o)
    \/ \E c \in Closers :
          \/ OpenMeeting(c) \/ CloseMeeting(c)
          \/ \E q \in Questions :
                \/ TallyVote(c, q) \/ TallyPoll(c, q) \/ TallyMotion(c, q)
                \/ CloseVote(c, q) \/ CloseBuyPoll(c, q) \/ CloseMotion(c, q)

Spec == Init /\ [][Next]_vars

-----------------------------------------------------------------------------
(* Properties *)

\* The records keep to the columns of the schema.
TypeOK ==
    /\ meeting \in {"scheduled", "open", "closed"}
    /\ \A q \in Questions : /\ question[q].kind \in Kinds \cup {"none"}
                            /\ question[q].status \in {"none", "open", "closed"}
                            /\ question[q].options \subseteq Options
                            /\ ballots[q] \subseteq Members \X Options

(* README "Elections", "General meetings": one ballot per member, of a unit's
   members in a unit's election, of those present on a motion; a motion carries
   and a unit gets its admin only on a quorum. Ballots that come in after a tally
   and admins who close at the same time do not make more of them: an office or a
   motion rests on a quorum of different voters or seats, and on a ballot for it.
   (A unit without an active member needs no voter at all: closeVote makes its only
   candidate the admin without a ballot.) *)
BallotsDecide ==
    /\ \A q \in Questions : Cardinality({b[1] : b \in ballots[q]}) = Cardinality(ballots[q])
    /\ \A q \in Questions : \A b \in ballots[q] :
          /\ b[2] \in question[q].options
          /\ question[q].kind = "unit" => b[1] \in InUnit
          /\ question[q].kind = "motion" => seat[b[1]].present
    /\ \A a \in admins : /\ Cardinality({b[1] : b \in ballots[a[1]]}) >= Required(InUnit)
                         /\ Required(InUnit) > 0 => Votes(a[1], a[2]) > 0
                         /\ a[2] \in UnitOptions
    /\ \A q \in Questions : question[q].kind = "motion" /\ question[q].outcome = Yes =>
          Cardinality(Active(Represented)) >= Required(Members) /\ Votes(q, Yes) > 0

(* README "General meetings": a motion passes only when yes exceeds no. A ballot
   that commits between the tally and its writing is recorded and not counted. *)
CarriedByMajority ==
    \A q \in Questions : question[q].kind = "motion" /\ question[q].outcome = Yes =>
        Votes(q, Yes) > Votes(q, No)
=============================================================================
