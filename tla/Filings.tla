------------------------------ MODULE Filings ------------------------------
(* The returns a cooperative files with its regulator (services/regulator-reporting.ts),
   and the job of the tick that makes them and reminds of them (services/scheduler.ts).

   A pack is made in three phases: its data are read in one transaction, its files are
   built, stored and mailed, and its row is written in another; by chat the three are in
   the transaction of the handler, which does not show in what others read before its
   end. Filing and configuring read a row and write it without looking again. *)
EXTENDS Naturals, Sequences, FiniteSets

CONSTANTS
    Packs,       \* a period, its type and the kind of pack
    Scheduled,   \* the packs of the last closed month and quarter that the job makes
    Clerks,      \* concurrent handlers of admins
    Jobs,        \* processes that run the tick
    Dues,        \* due days a regulator may set, as the days on which reminders begin
    DefaultDue,
    MaxDay,      \* bound: the days of a run, from 1
    Profile,     \* the regulator's configuration, as something to work on
    NoPack

VARIABLES
    today,
    regulator,   \* active RegulatorProfile rows, the newest last: their due days
    pack,        \* RegulatorReport; asOf is the day on which its data were read
    clerk,       \* a handler, with what it has read
    job,         \* a run of the job, with what it has read
    claimed,     \* claimOnce("regulator-reminder", pack:day)
    reminded,    \* history: how often the admins were reminded of a pack on a day
    crossed,     \* history: what two of them were busy with at the same time
    mishaps      \* history: what went wrong with what

vars == <<today, regulator, pack, clerk, job, claimed, reminded, crossed, mishaps>>

Days == 1..MaxDay
Items == Packs \cup {Profile}
Unmade == [status |-> "none", asOf |-> 0, due |-> 0, filedAt |-> 0]
IdleClerk == [pc |-> "idle", on |-> NoPack, asOf |-> 0, due |-> 0, filedAt |-> 0, filed |-> FALSE, row |-> 0]
IdleJob == [pc |-> "idle", left |-> {}, on |-> NoPack, asOf |-> 0, due |-> 0, day |-> 0,
            list |-> {}, mine |-> {}]

Init ==
    /\ today = 1
    /\ regulator = <<>>
    /\ pack = [p \in Packs |-> Unmade]
    /\ clerk = [k \in Clerks |-> IdleClerk]
    /\ job = [j \in Jobs |-> IdleJob]
    /\ claimed = {}
    /\ reminded = [c \in Packs \X Days |-> 0]
    /\ crossed = {} /\ mishaps = {}

\* Something that is read by one who is to write it.
Busy(i) ==
    \/ \E k \in Clerks : clerk[k].pc # "idle" /\ clerk[k].on = i
    \/ \E j \in Jobs : i \in job[j].left

Crosses(set) == crossed' = crossed \cup {i \in set : Busy(i)}
Mishap(on, what, happens) ==
    mishaps' = IF happens THEN mishaps \cup {<<on, what>>} ELSE mishaps

\* dueProfile: of the newest active profile.
DueProfile == IF regulator = <<>> THEN DefaultDue ELSE regulator[Len(regulator)]

DayPasses ==
    /\ today < MaxDay /\ today' = today + 1
    /\ UNCHANGED <<regulator, pack, clerk, job, claimed, reminded, crossed, mishaps>>

-----------------------------------------------------------------------------
(* By hand *)

Opens(k, i, row) ==
    /\ clerk[k].pc = "idle"
    /\ clerk' = [clerk EXCEPT ![k] = row]
    /\ Crosses({i})
    /\ UNCHANGED <<today, regulator, pack, job, claimed, reminded, mishaps>>

Closes(k) ==
    /\ clerk' = [clerk EXCEPT ![k] = IdleClerk]
    /\ UNCHANGED <<today, job, claimed, reminded, crossed>>

\* An error, a time-out or a kill: nothing is written.
ClerkFails(k) ==
    /\ clerk[k].pc # "idle"
    /\ Closes(k)
    /\ UNCHANGED <<regulator, pack, mishaps>>

\* setRegulatorProfile looks for the newest active profile...
ReadProfile(k) ==
    Opens(k, Profile, [IdleClerk EXCEPT !.pc = "configure", !.on = Profile, !.row = Len(regulator)])

\* ... and writes that one, or the first.
SetProfile(k, d) ==
    /\ clerk[k].pc = "configure"
    /\ regulator' = IF clerk[k].row = 0 THEN Append(regulator, d)
                    ELSE [regulator EXCEPT ![clerk[k].row] = d]
    /\ Mishap(Profile, "doubled", clerk[k].row = 0 /\ regulator # <<>>)
    /\ Closes(k)
    /\ UNCHANGED pack

\* generateReport, phases 1 and 2.
GatherReport(k, p) ==
    Opens(k, p, [IdleClerk EXCEPT !.pc = "make", !.on = p, !.asOf = today, !.due = DueProfile])

\* Mutant: a pack that is made again is no longer filed.
UpsertAnew(row, asOf, due) ==
    [status |-> "generated", asOf |-> asOf, due |-> due, filedAt |-> 0]

\* The upsert: a row that exists keeps status and filedAt.
Upsert(row, asOf, due) ==
    [status |-> IF row.status = "none" THEN "generated" ELSE row.status,
     asOf |-> asOf, due |-> due, filedAt |-> row.filedAt]

GenerateReport(k) ==
    /\ clerk[k].pc = "make"
    /\ LET p == clerk[k].on IN
        /\ pack' = [pack EXCEPT ![p] = Upsert(pack[p], clerk[k].asOf, clerk[k].due)]
        /\ Mishap(p, "older", clerk[k].asOf < pack[p].asOf)
    /\ Closes(k)
    /\ UNCHANGED regulator

\* markFiled looks for the row...
ReadToFile(k, p) ==
    /\ pack[p].status # "none"
    /\ Opens(k, p, [IdleClerk EXCEPT !.pc = "file", !.on = p, !.filedAt = pack[p].filedAt,
                        !.filed = (pack[p].status = "filed")])

\* Mutant: a receipt that comes later moves the day of the filing.
FiledOnNow(seen, now) == now

\* The day of the first filing, if there was one.
FiledOn(seen, now) == IF seen = 0 THEN now ELSE seen

\* ... and writes it: a first filing, or another receipt or note.
MarkFiled(k) ==
    /\ clerk[k].pc = "file"
    /\ LET p == clerk[k].on
           day == FiledOn(clerk[k].filedAt, today)
       IN /\ pack' = [pack EXCEPT ![p].status = "filed", ![p].filedAt = day]
          /\ Mishap(p, "refiled", pack[p].status = "filed" /\ (~clerk[k].filed \/ day # pack[p].filedAt))
    /\ Closes(k)
    /\ UNCHANGED regulator

-----------------------------------------------------------------------------
(* runRegulatorReports *)

Runs(j, row) == job' = [job EXCEPT ![j] = row]

\* Mutant: what exists is not looked up.
ExistingNone == {}

\* The packs that exist.
Existing == {p \in Packs : pack[p].status # "none"}

\* A cooperative with a regulator and with its reports switched on.
ReadExisting(j) ==
    /\ job[j].pc = "idle" /\ regulator # <<>>
    /\ Runs(j, [IdleJob EXCEPT !.pc = "next", !.left = Scheduled \ Existing, !.day = today])
    /\ Crosses(Scheduled \ Existing)
    /\ UNCHANGED <<today, regulator, pack, clerk, claimed, reminded, mishaps>>

GatherScheduled(j, p) ==
    /\ job[j].pc = "next" /\ p \in job[j].left
    /\ Runs(j, [job[j] EXCEPT !.pc = "make", !.on = p, !.asOf = today, !.due = DueProfile])
    /\ UNCHANGED <<today, regulator, pack, clerk, claimed, reminded, crossed, mishaps>>

GenerateScheduled(j) ==
    /\ job[j].pc = "make"
    /\ LET p == job[j].on IN
        /\ pack' = [pack EXCEPT ![p] = Upsert(pack[p], job[j].asOf, job[j].due)]
        /\ Mishap(p, "remade", pack[p].status # "none")
        /\ Runs(j, [IdleJob EXCEPT !.pc = "next", !.left = job[j].left \ {p}, !.day = job[j].day])
    /\ UNCHANGED <<today, regulator, clerk, claimed, reminded, crossed>>

\* remindRegulatorFilings, one transaction: what is due and not filed...
ReadDueFilings(j) ==
    /\ job[j].pc = "next" /\ job[j].left = {}
    /\ Runs(j, [job[j] EXCEPT !.pc = "claim",
                    !.list = {p \in Packs : pack[p].status = "generated" /\ pack[p].due <= job[j].day}])
    /\ UNCHANGED <<today, regulator, pack, clerk, claimed, reminded, crossed, mishaps>>

\* Mutant: a claim that exists is claimed again.
ClaimableAlways(c) == TRUE

Claimable(c) == c \notin claimed

\* ... is claimed for the day on which the tick began...
ClaimReminder(j, p) ==
    /\ job[j].pc = "claim" /\ p \in job[j].list
    /\ LET c == <<p, job[j].day>> IN
        /\ claimed' = claimed \cup {c}
        /\ Runs(j, [job[j] EXCEPT !.list = @ \ {p},
                                  !.mine = IF Claimable(c) THEN @ \cup {p} ELSE @])
    /\ UNCHANGED <<today, regulator, pack, clerk, reminded, crossed, mishaps>>

\* ... and the messages go out after the transaction.
Remind(j) ==
    /\ job[j].pc = "claim" /\ job[j].list = {}
    /\ reminded' = [c \in Packs \X Days |->
                      IF c[1] \in job[j].mine /\ c[2] = job[j].day THEN reminded[c] + 1 ELSE reminded[c]]
    /\ Runs(j, IdleJob)
    /\ UNCHANGED <<today, regulator, pack, clerk, claimed, crossed, mishaps>>

\* An error or a kill: the cooperative is left for the next tick.
JobFails(j) ==
    /\ job[j].pc # "idle"
    /\ Runs(j, IdleJob)
    /\ UNCHANGED <<today, regulator, pack, clerk, claimed, reminded, crossed, mishaps>>

Next ==
    \/ DayPasses
    \/ \E k \in Clerks :
        \/ ClerkFails(k) \/ ReadProfile(k) \/ GenerateReport(k) \/ MarkFiled(k)
        \/ \E d \in Dues : SetProfile(k, d)
        \/ \E p \in Packs : GatherReport(k, p) \/ ReadToFile(k, p)
    \/ \E j \in Jobs :
        \/ ReadExisting(j) \/ GenerateScheduled(j) \/ ReadDueFilings(j) \/ Remind(j) \/ JobFails(j)
        \/ \E p \in Packs : GatherScheduled(j, p) \/ ClaimReminder(j, p)

Spec == Init /\ [][Next]_vars

-----------------------------------------------------------------------------
(* Properties *)

DueDays == Dues \cup {DefaultDue, 0}

TypeOK ==
    /\ today \in Days
    /\ regulator \in Seq(Dues)
    /\ pack \in [Packs -> [status : {"none", "generated", "filed"}, asOf : 0..MaxDay,
                           due : DueDays, filedAt : 0..MaxDay]]
    /\ clerk \in [Clerks -> [pc : {"idle", "configure", "make", "file"}, on : Items \cup {NoPack},
                             asOf : 0..MaxDay, due : DueDays, filedAt : 0..MaxDay,
                             filed : BOOLEAN, row : Nat]]
    /\ job \in [Jobs -> [pc : {"idle", "next", "make", "claim"}, left : SUBSET Packs,
                         on : Packs \cup {NoPack}, asOf : 0..MaxDay, due : DueDays,
                         day : 0..MaxDay, list : SUBSET Packs, mine : SUBSET Packs]]
    /\ claimed \subseteq Packs \X Days
    /\ reminded \in [Packs \X Days -> Nat]
    /\ crossed \subseteq Items
    /\ mishaps \subseteq Items \X {"doubled", "older", "remade", "refiled"}

(* A pack is filed exactly when the day of its filing is known. Only what two handlers
   or jobs were busy with at the same time has two profiles, goes back to older data, is
   made by the job although it exists, or is filed twice. The admins are reminded of a
   pack once a day at most, and only of one that was made. *)
FilingsStand ==
    /\ \A p \in Packs :
        /\ pack[p].status = "filed" <=> pack[p].filedAt # 0
        /\ pack[p].status = "none" <=> pack[p].asOf = 0
    /\ \A m \in mishaps : m[1] \in crossed
    /\ \A c \in Packs \X Days :
        /\ reminded[c] <= 1
        /\ reminded[c] = 1 => c \in claimed /\ pack[c[1]].status # "none"
=============================================================================
