-------------------------------- MODULE Aml --------------------------------
(* Screening of one member's money (services/aml.ts). A row is held against the rules in
   the transaction of its handler: a suspicious pattern makes an STR and holds a
   withdrawal, a threshold makes a CTR. The CBN's webhook gets a report before the row
   of that report is committed. A job alerts about the reports that stay pending. *)
EXTENDS Integers, FiniteSetsExt

CONSTANTS
    Rows,                \* withdrawals, payments out, loans and deposits of the member
    Kind, Amount,        \* of each row
    Round, Near,         \* multiples of 1000, and amounts just below the threshold
    ReportingThreshold,  \* of the cooperative's configuration, and
    Threshold,           \* REPORTING_THRESHOLD, for single transactions
    Hands,               \* concurrent handlers and jobs
    MaxReports,          \* bounds the reports of a type
    NoRow

VARIABLES
    stage,      \* of a row: none, held, or paid: now (10 minutes), day
    asked,      \* how old the request of a paid withdrawal is: now, day, old
    screened,   \* history: held and paid rows at or above the threshold that were screened
    report,     \* STR by type and number: status; of today, past, due for an alert, alerted
    accepted,   \* external: reports the CBN has taken
    hand,       \* what a handler's transaction has read and not committed
    overlapped, \* history: two screenings were under way at a time
    owed        \* history: alerts due, and those of a job that was rolled back, less those sent

vars == <<stage, asked, screened, report, accepted, hand, overlapped, owed>>

Types == {"CTR", "STR"}
Reports == Types \X (1..MaxReports)
NoReport == [status |-> "none", age |-> "past"]
IdleHand == [pc |-> "idle", x |-> NoRow, checked |-> FALSE, hold |-> FALSE, made |-> {},
             due |-> {}, told |-> {}]

Init ==
    /\ stage = [x \in Rows |-> "none"]
    /\ asked = [x \in Rows |-> "old"]
    /\ screened = {}
    /\ report = [r \in Reports |-> NoReport]
    /\ accepted = {}
    /\ hand = [h \in Hands |-> IdleHand]
    /\ overlapped = FALSE
    /\ owed = [r \in Reports |-> 0]

-----------------------------------------------------------------------------
(* The rules. Each adds up WithdrawalRequest and Payout: a paid withdrawal is in both. *)

Today == {"now", "day"}
Paid(x) == Kind[x] # "deposit" /\ stage[x] \in Today
Outflow(ages) == ({"payout"} \X {x \in Rows : Paid(x) /\ stage[x] \in ages})
                     \cup ({"request"} \X {x \in Rows : Paid(x) /\ asked[x] \in ages})

(* A payment to an outsider is in the books when it is screened, a withdrawal or a loan
   not yet; "screened" is that row, or none. *)
Own(x) == IF x # NoRow /\ Kind[x] = "external" THEN {<<"payout", x>>} ELSE {}

CheckRapidSequence(x) == Cardinality(Outflow({"now"}) \cup Own(x)) >= 3
Several(x, amounts) ==
    Cardinality({e \in Outflow(Today) \cup Own(x) : Amount[e[2]] \in amounts}) >= 2
CheckRoundNumberPattern(x) == Several(x, Round)
CheckStructuring(x) == Several(x, Near)
CheckAggregateThreshold(x) ==
    MapThenSumSet(LAMBDA e : Amount[e[2]], Outflow(Today) \cup Own(x)) >= ReportingThreshold

CheckDepositStructuring(x) ==
    Cardinality({y \in Rows : /\ Kind[y] = "deposit" /\ Amount[y] \in Near
                              /\ y = x \/ stage[y] \in Today}) >= 2

MoneyIn(x) == x # NoRow /\ Kind[x] = "deposit"

Suspicious(x) ==
    IF MoneyIn(x) THEN CheckDepositStructuring(x)
    ELSE CheckRapidSequence(x) \/ CheckRoundNumberPattern(x) \/ CheckStructuring(x)

\* flagTransaction: what is to be reported of row x, or of an amount in the books.
Flagged(x, amount) ==
    {t \in Types : IF t = "STR" THEN Suspicious(x)
                   ELSE amount >= Threshold \/ (~MoneyIn(x) /\ CheckAggregateThreshold(x))}

\* Mutant: a report of the day stands for those of the other type.
ReportedAnyType(type) == \E r \in Reports : report[r].age = "today"

\* autoFileReport: there is a report of that type for the day.
Reported(type) == \E r \in Reports : r[1] = type /\ report[r].age = "today"

-----------------------------------------------------------------------------
(* Handlers *)

InHand(x) == \E h \in Hands : hand[h].x = x
Unused(r) == report[r].status = "none" /\ \A h \in Hands : r \notin hand[h].made
NextOf(type) == {r \in Reports : r[1] = type /\ Unused(r)
                                /\ \A i \in 1..(r[2] - 1) : ~Unused(<<type, i>>)}

(* The reports get their rows, and are sent to the webhook if there is one: any part of
   them may be accepted. *)
Screen(h, x, amount) ==
    LET types == {t \in Flagged(x, amount) : ~Reported(t)}
        made == UNION {NextOf(t) : t \in types} IN
    /\ hand[h].pc = "idle"
    /\ Cardinality(made) = Cardinality(types)
    /\ \E taken \in SUBSET made : accepted' = accepted \cup taken
    /\ hand' = [hand EXCEPT ![h] = [IdleHand EXCEPT
            !.pc = "commit", !.x = x, !.checked = TRUE, !.made = made,
            !.hold = x # NoRow /\ Kind[x] = "withdrawal" /\ Suspicious(x)]]
    /\ overlapped' = (overlapped \/ \E k \in Hands : hand[k].checked)
    /\ UNCHANGED <<stage, asked, screened, report, owed>>

Begin(h, x) == stage[x] = "none" /\ ~InHand(x) /\ Screen(h, x, Amount[x])

\* The check throws, but for a loan; or "finalize ... override": booked without one.
BeginUnscreened(h, x) ==
    /\ hand[h].pc = "idle" /\ ~InHand(x)
    /\ stage[x] = "held" \/ (stage[x] = "none" /\ Kind[x] # "loan")
    /\ hand' = [hand EXCEPT ![h] = [IdleHand EXCEPT !.pc = "commit", !.x = x]]
    /\ UNCHANGED <<stage, asked, screened, report, accepted, overlapped, owed>>

(* generateSTR, the command "str": flagTransaction makes and sends reports here too, for
   the amount of the last row of a week, whose time may be over here. *)
GenerateSTR(h, x) ==
    /\ Kind[x] # "deposit"
    /\ Screen(h, NoRow, Amount[x])

\* Mutant: a report is filed whatever the webhook answers.
AnswersAny(r) == {"pending", "filed"}

\* Filed if the webhook took it and the answer arrived.
Answers(r) == IF r \in accepted THEN {"pending", "filed"} ELSE {"pending"}

Commit(h) ==
    /\ hand[h].pc = "commit"
    /\ LET made == hand[h].made
           x == hand[h].x IN
        /\ \E status \in [made -> {"pending", "filed"}] :
            /\ \A r \in made : status[r] \in Answers(r)
            /\ report' = [r \in Reports |-> IF r \in made THEN [status |-> status[r], age |-> "today"]
                                            ELSE report[r]]
        /\ stage' = IF x = NoRow THEN stage
                    ELSE [stage EXCEPT ![x] = IF hand[h].hold THEN "held" ELSE "now"]
        /\ IF x = NoRow \/ hand[h].hold THEN UNCHANGED asked
           ELSE \E age \in IF Kind[x] = "withdrawal" THEN {"now", "day", "old"} ELSE {"old"} :
                    asked' = [asked EXCEPT ![x] = age]
        /\ screened' = screened \cup {y \in {x} \ {NoRow} : hand[h].checked /\ Amount[y] >= Threshold}
    /\ hand' = [hand EXCEPT ![h] = IdleHand]
    /\ UNCHANGED <<accepted, overlapped, owed>>

(* The transaction is rolled back, with the rows of the reports that were sent: the CBN
   may have one that nobody here knows of. *)
RollBack(h) ==
    /\ hand[h].pc # "idle"
    /\ hand' = [hand EXCEPT ![h] = IdleHand]
    /\ accepted' = accepted \ hand[h].made
    /\ owed' = [r \in Reports |-> IF r \in hand[h].told THEN owed[r] + 1 ELSE owed[r]]
    /\ UNCHANGED <<stage, asked, screened, report, overlapped>>

Reject(x) ==
    /\ stage[x] = "held" /\ ~InHand(x)
    /\ stage' = [stage EXCEPT ![x] = "none"]
    /\ screened' = screened \ {x}
    /\ UNCHANGED <<asked, report, accepted, hand, overlapped, owed>>

-----------------------------------------------------------------------------
(* escalateOverdueSTRs *)

\* Mutant: the claim is not compared with the last alert.
ClaimableAny(r) == TRUE

Claimable(r) == report[r].age # "alerted"

Overdue(r) == report[r] = [status |-> "pending", age |-> "due"]

ReadOverdue(h) ==
    /\ hand[h].pc = "idle"
    /\ \E r \in Reports : Overdue(r)
    /\ hand' = [hand EXCEPT ![h] = [IdleHand EXCEPT !.pc = "alert",
                                                    !.due = {r \in Reports : Overdue(r)}]]
    /\ UNCHANGED <<stage, asked, screened, report, accepted, overlapped, owed>>

\* The update waits for another job's transaction, and finds what that one left.
ClaimAlert(h, r) ==
    /\ r \in hand[h].due
    /\ \A k \in Hands : r \notin hand[k].told
    /\ hand' = [hand EXCEPT ![h].due = @ \ {r},
                            ![h].told = IF Claimable(r) THEN @ \cup {r} ELSE @]
    /\ owed' = IF Claimable(r) THEN [owed EXCEPT ![r] = @ - 1] ELSE owed
    /\ UNCHANGED <<stage, asked, screened, report, accepted, overlapped>>

EndAlerts(h) ==
    /\ hand[h].pc = "alert" /\ hand[h].due = {}
    /\ report' = [r \in Reports |-> IF r \in hand[h].told THEN [report[r] EXCEPT !.age = "alerted"]
                                    ELSE report[r]]
    /\ hand' = [hand EXCEPT ![h] = IdleHand]
    /\ UNCHANGED <<stage, asked, screened, accepted, overlapped, owed>>

-----------------------------------------------------------------------------
(* Time *)

TenMinutes ==
    /\ \E x \in Rows : stage[x] = "now"
    /\ stage' = [x \in Rows |-> IF stage[x] = "now" THEN "day" ELSE stage[x]]
    /\ asked' = [x \in Rows |-> IF asked[x] = "now" THEN "day" ELSE asked[x]]
    /\ UNCHANGED <<screened, report, accepted, hand, overlapped, owed>>

(* After a midnight, the day's rows are out of every window; their place is free for
   others. *)
OneDay ==
    /\ \A r \in Reports : report[r].age # "today"
    /\ \E x \in Rows : stage[x] \in Today
    /\ stage' = [x \in Rows |-> IF stage[x] \in Today THEN "none" ELSE stage[x]]
    /\ asked' = [x \in Rows |-> "old"]
    /\ screened' = {x \in screened : stage[x] = "held"}
    /\ UNCHANGED <<report, accepted, hand, overlapped, owed>>

\* A bound: no transaction with a report in it runs over midnight.
Midnight ==
    /\ \E r \in Reports : report[r].age = "today"
    /\ \A h \in Hands : hand[h].made = {}
    /\ report' = [r \in Reports |-> [report[r] EXCEPT !.age = IF @ = "today" THEN "past" ELSE @]]
    /\ UNCHANGED <<stage, asked, screened, accepted, hand, overlapped, owed>>

\* 72 hours after a report was made, or 24 after its last alert.
AlertIsDue(r) ==
    /\ report[r].status = "pending" /\ report[r].age \in {"past", "alerted"}
    /\ report' = [report EXCEPT ![r].age = "due"]
    /\ owed' = [owed EXCEPT ![r] = @ + 1]
    /\ UNCHANGED <<stage, asked, screened, accepted, hand, overlapped>>

Next ==
    \/ \E h \in Hands, x \in Rows : Begin(h, x) \/ BeginUnscreened(h, x) \/ GenerateSTR(h, x)
    \/ \E h \in Hands : Commit(h) \/ RollBack(h) \/ ReadOverdue(h) \/ EndAlerts(h)
    \/ \E h \in Hands, r \in Reports : ClaimAlert(h, r)
    \/ \E x \in Rows : Reject(x)
    \/ \E r \in Reports : AlertIsDue(r)
    \/ TenMinutes \/ OneDay \/ Midnight

Spec == Init /\ [][Next]_vars

-----------------------------------------------------------------------------
(* Properties *)

TypeOK ==
    /\ stage \in [Rows -> {"none", "held", "now", "day"}]
    /\ asked \in [Rows -> {"now", "day", "old"}]
    /\ report \in [Reports -> [status : {"none", "pending", "filed"},
                               age : {"today", "past", "due", "alerted"}]]
    /\ screened \subseteq Rows /\ accepted \subseteq Reports /\ overlapped \in BOOLEAN
    /\ owed \in [Reports -> Int]
    /\ \A h \in Hands : hand[h].pc \in {"idle", "commit", "alert"}

(* aml.ts: a report is marked as filed only if the CBN has it; a row at or above the
   threshold that was screened is in a CTR, also if another type was filed on that
   day; a day has one report of a type unless two screenings overlapped; and nobody is
   alerted twice within a day but by a job that was rolled back. *)
ReportsAddUp ==
    /\ \A r \in Reports : report[r].status = "filed" => r \in accepted
    /\ screened # {} => \E r \in Reports : r[1] = "CTR" /\ report[r].status # "none"
    /\ ~overlapped => \A q, r \in Reports :
            report[q].age = "today" /\ report[r].age = "today" /\ q[1] = r[1] => q = r
    /\ \A r \in Reports : owed[r] >= 0
=============================================================================
