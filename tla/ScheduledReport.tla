-------------------------- MODULE ScheduledReport --------------------------
(***************************************************************************)
(* Scheduled SQL reports: users save a query with a cron expression; once  *)
(* a minute the scheduler lists the reports that are due, claims each one  *)
(* by moving its next_run_at a day ahead, and starts a goroutine that runs *)
(* the query, sends the result and writes the next time.  Users edit and   *)
(* delete reports at any moment, and the server may stop at any step.      *)
(*                                                                         *)
(* Time is counted in minutes.  Calendar(t) gives the fields of minute t   *)
(* in the report's time zone; a cron field is a list of parts, each a      *)
(* range (or star) with a step.                                            *)
(***************************************************************************)
EXTENDS Integers, Sequences, FiniteSets, SequencesExt

CONSTANTS
    Reports,            \* report ids
    Inputs,             \* the bodies users save, indexed
    Limits,             \* the lowest and highest value of each cron field
    Calendar(_),        \* the local fields of a minute
    Day,                \* minutes of the claim's placeholder, 24 hours
    Year,               \* minutes searched for a match, one year
    MaxRuns             \* bound: goroutines ever started

VARIABLES
    report,     \* scheduled_sql_reports
    saves,      \* the requests between bindAndValidate and their write
    due,        \* the copies RunDueReports has listed and not yet claimed
    run,        \* the goroutines of RunReport and their run rows
    clock,      \* minutes
    policy,     \* whether the creator may read the tables, and which are sensitive
    serving,    \* the server process runs
    budget      \* bounds: edits, policy changes, crashes, faults, minutes

reportVars == <<report, saves, due, run, clock, policy, serving, budget>>

Never == -1
\* History, for the properties: rev counts the saves, by is the revision whose schedule
\* next_run_at follows, asof when the last save computed it.
NoReport == [exists |-> FALSE, on |-> FALSE, input |-> 0, rev |-> 0, next |-> Never, by |-> 0, asof |-> 0]
NoRun == [pc |-> "none", id |-> 0, copy |-> NoReport, row |-> "none", ok |-> FALSE, claimed |-> 0, at |-> 0]
RunIds == 1 .. MaxRuns

(***************************************************************************)
(* Cron expressions.                                                       *)
(***************************************************************************)
Star == [star |-> TRUE, lo |-> 0, hi |-> 0, step |-> 1]
Part(lo, hi, step) == [star |-> FALSE, lo |-> lo, hi |-> hi, step |-> step]
CronFields == {"minute", "hour", "monthDay", "month", "weekday"}

Low(f, p) == IF p.star THEN Limits[f].lo ELSE p.lo
High(f, p) == IF p.star THEN Limits[f].hi ELSE p.hi

ValidPart(f, p) ==
    /\ p.step > 0
    /\ Low(f, p) >= Limits[f].lo /\ High(f, p) <= Limits[f].hi /\ Low(f, p) <= High(f, p)

FieldValues(f, parts) ==
    UNION {{v \in Low(f, p) .. High(f, p) : (v - Low(f, p)) % p.step = 0} : p \in parts}

AnyValue(parts) == \E p \in parts : p.star

\* the highest weekday stands for Sunday as well as 0 does
Weekdays(parts) ==
    LET V == FieldValues("weekday", parts)
        top == Limits["weekday"].hi
    IN IF top \in V THEN (V \ {top}) \cup {0} ELSE V

ValidCron(cron) == \A f \in CronFields : cron[f] # {} /\ \A p \in cron[f] : ValidPart(f, p)

Matches(cron, t) ==
    LET at == Calendar(t)
        dayOK == at.monthDay \in FieldValues("monthDay", cron["monthDay"])
        weekdayOK == at.weekday \in Weekdays(cron["weekday"])
    IN /\ \A f \in {"minute", "hour", "month"} : at[f] \in FieldValues(f, cron[f])
       /\ IF AnyValue(cron["monthDay"]) \/ AnyValue(cron["weekday"])
          THEN dayOK /\ weekdayOK
          ELSE dayOK \/ weekdayOK

\* the first matching minute after t, at most a year away
NextCronTime(cron, t) ==
    LET S == {c \in t + 1 .. t + 1 + Year : Matches(cron, c)} IN IF S = {} THEN Never ELSE Min(S)

(***************************************************************************)
(* Saving, editing and deleting a report.  bindAndValidate computes the    *)
(* first next_run_at and checks the SQL, the scope, the query access and   *)
(* that no sensitive column is read; the row is written later, with that   *)
(* next_run_at.                                                            *)
(***************************************************************************)
ValidateReportSQL(i) == Inputs[i].verb \in {"SELECT", "WITH", "SHOW"} /\ Inputs[i].readOnly

Accepted(i) ==
    /\ ValidCron(Inputs[i].cron)
    /\ NextCronTime(Inputs[i].cron, clock) # Never
    /\ Inputs[i].db \in {"mysql", "postgres", "postgresql"}
    /\ ValidateReportSQL(i)
    /\ policy.scope /\ policy.access /\ ~policy.sensitive

Edit(field) == budget[field] > 0 /\ budget' = [budget EXCEPT ![field] = @ - 1]

InsertRow(s) ==
    [exists |-> TRUE, on |-> Inputs[s.input].on, input |-> s.input, rev |-> 1, next |-> s.next,
     by |-> 1, asof |-> s.asof]

UpdateRow(row, s) ==
    [row EXCEPT !.on = Inputs[s.input].on, !.input = s.input, !.rev = @ + 1, !.next = s.next,
                !.by = row.rev + 1, !.asof = s.asof]

\* the request of a new report, or of an edit
bindAndValidate(id, i) ==
    /\ serving
    /\ \/ report[id].rev = 0 /\ (\A s \in saves : s.id # id) /\ UNCHANGED budget
       \/ report[id].exists /\ Edit("edit")
    /\ Accepted(i)
    /\ saves' = saves \cup {[id |-> id, input |-> i, asof |-> clock,
                             next |-> NextCronTime(Inputs[i].cron, clock)]}
    /\ UNCHANGED <<report, due, run, clock, policy, serving>>

CreateReport(s) ==
    /\ serving /\ report[s.id].rev = 0
    /\ saves' = saves \ {s}
    /\ report' = [report EXCEPT ![s.id] = InsertRow(s)]
    /\ UNCHANGED <<due, run, clock, policy, serving, budget>>

\* a row deleted meanwhile is not found
UpdateReport(s) ==
    /\ serving /\ report[s.id].rev > 0
    /\ saves' = saves \ {s}
    /\ report' = IF report[s.id].exists THEN [report EXCEPT ![s.id] = UpdateRow(@, s)] ELSE report
    /\ UNCHANGED <<due, run, clock, policy, serving, budget>>

DeleteReport(id) ==
    /\ serving /\ report[id].exists
    /\ Edit("edit")
    /\ report' = [report EXCEPT ![id] = [NoReport EXCEPT !.rev = report[id].rev]]
    /\ UNCHANGED <<saves, due, run, clock, policy, serving>>

ChangePolicy ==
    /\ Edit("policy")
    /\ \E f \in {"scope", "access", "sensitive"} : policy' = [policy EXCEPT ![f] = ~@]
    /\ UNCHANGED <<saves, report, due, run, clock, serving>>

(***************************************************************************)
(* The scheduler.                                                          *)
(***************************************************************************)
IsDue(r) == r.exists /\ r.on /\ r.next # Never /\ r.next <= clock

\* RunDueReports reads the due reports, the longest overdue first
ListDue ==
    /\ serving /\ due = <<>>
    /\ \E id \in Reports : IsDue(report[id])
    /\ LET earlier(a, b) == report[a].next < report[b].next \/ (report[a].next = report[b].next /\ a < b)
           ids == SetToSortSeq({id \in Reports : IsDue(report[id])}, earlier)
       IN due' = [n \in DOMAIN ids |-> [id |-> ids[n], copy |-> report[ids[n]]]]
    /\ UNCHANGED <<saves, report, run, clock, policy, serving, budget>>

\* the UPDATE of ClaimDue finds the row only as it was listed
ClaimableIfActive(d) == report[d.id].exists /\ report[d.id].on

Claimable(d) == report[d.id].exists /\ report[d.id].on /\ report[d.id].next = d.copy.next

StartRun(d) ==
    \E n \in RunIds :
        /\ run[n].pc = "none"
        /\ \A m \in RunIds : m < n => run[m].pc # "none"
        /\ run' = [run EXCEPT ![n] = [NoRun EXCEPT !.pc = "created", !.id = d.id, !.copy = d.copy,
                                                  !.claimed = clock]]

ClaimDue ==
    /\ serving /\ due # <<>>
    /\ due' = Tail(due)
    /\ LET d == Head(due) IN
       \/ /\ Claimable(d)
          /\ report' = [report EXCEPT ![d.id].next = clock + Day, ![d.id].by = d.copy.rev]
          /\ StartRun(d)
          /\ UNCHANGED budget
       \/ ~Claimable(d) /\ UNCHANGED <<report, run, budget>>
       \/ Edit("fault") /\ UNCHANGED <<report, run>>
    /\ UNCHANGED <<saves, clock, policy, serving>>

(***************************************************************************)
(* RunReport, on the copy of the report that was listed.                   *)
(***************************************************************************)
\* without a run row the goroutine ends, and the placeholder stays
CreateRun(n) ==
    /\ serving /\ run[n].pc = "created"
    /\ \/ /\ run' = [run EXCEPT ![n].pc = "executing", ![n].row = "running"]
          /\ UNCHANGED budget
       \/ Edit("fault") /\ run' = [run EXCEPT ![n].pc = "ended"]
    /\ UNCHANGED <<saves, report, due, clock, policy, serving>>

\* the creator's query access is checked again, sensitive columns are masked
ExecuteReport(n) ==
    /\ serving /\ run[n].pc = "executing"
    /\ \/ policy.access /\ run' = [run EXCEPT ![n].pc = "delivering"]
       \/ run' = [run EXCEPT ![n].pc = "finishing", ![n].at = clock]
    /\ UNCHANGED <<saves, report, due, clock, policy, serving, budget>>

\* the file goes to the recipients, or the dispatcher is missing, fails or skips
Deliver(n) ==
    /\ serving /\ run[n].pc = "delivering"
    /\ \E sent \in BOOLEAN : run' = [run EXCEPT ![n].pc = "finishing", ![n].ok = sent, ![n].at = clock]
    /\ UNCHANGED <<saves, report, due, clock, policy, serving, budget>>

\* an error of either final update is only logged
FinishRun(n) ==
    /\ serving /\ run[n].pc = "finishing"
    /\ \/ /\ run' = [run EXCEPT ![n].pc = "rescheduling",
                                ![n].row = IF run[n].ok THEN "success" ELSE "failed"]
          /\ UNCHANGED budget
       \/ Edit("fault") /\ run' = [run EXCEPT ![n].pc = "rescheduling"]
    /\ UNCHANGED <<saves, report, due, clock, policy, serving>>

NextRunSameMinute(copy, after) == NextCronTime(Inputs[copy.input].cron, after - 1)

NextRun(copy, after) == NextCronTime(Inputs[copy.input].cron, after)

\* the next time of the copy is written over whatever the row holds now
UpdateRunState(n) ==
    /\ serving /\ run[n].pc = "rescheduling"
    /\ run' = [run EXCEPT ![n].pc = "ended"]
    /\ \/ /\ report' = [id \in Reports |->
                IF id = run[n].id /\ report[id].exists
                THEN [report[id] EXCEPT !.next = NextRun(run[n].copy, run[n].at), !.by = run[n].copy.rev]
                ELSE report[id]]
          /\ UNCHANGED budget
       \/ Edit("fault") /\ UNCHANGED report
    /\ UNCHANGED <<saves, due, clock, policy, serving>>

RunStep(n) == CreateRun(n) \/ ExecuteReport(n) \/ Deliver(n) \/ FinishRun(n) \/ UpdateRunState(n)

InFlight(n) == run[n].pc \notin {"none", "ended"}

StopServer ==
    /\ serving
    /\ Edit("crash")
    /\ serving' = FALSE /\ due' = <<>> /\ saves' = {}
    /\ run' = [n \in RunIds |-> IF InFlight(n) THEN [run[n] EXCEPT !.pc = "ended"] ELSE run[n]]
    /\ UNCHANGED <<report, clock, policy>>

StartServer ==
    /\ ~serving
    /\ serving' = TRUE
    /\ UNCHANGED <<saves, report, due, run, clock, policy, budget>>

\* a run ends within a day: the query has its timeout and so has the delivery
Minute ==
    /\ Edit("minute")
    /\ \A n \in RunIds : InFlight(n) => clock + 1 < run[n].claimed + Day
    /\ clock' = clock + 1
    /\ UNCHANGED <<saves, report, due, run, policy, serving>>

(***************************************************************************)
(* The specification.  No report exists at first (some may have been       *)
(* deleted); policy, clock and budget begin as the instance says.          *)
(***************************************************************************)
ReportInit ==
    /\ \A id \in Reports : ~report[id].exists
    /\ saves = {} /\ due = <<>>
    /\ run = [n \in RunIds |-> NoRun]
    /\ serving = TRUE

ReportNext ==
    \/ \E id \in Reports : DeleteReport(id) \/ (\E i \in DOMAIN Inputs : bindAndValidate(id, i))
    \/ \E s \in saves : CreateReport(s) \/ UpdateReport(s)
    \/ \E n \in RunIds : RunStep(n)
    \/ ListDue \/ ClaimDue \/ ChangePolicy \/ StopServer \/ StartServer \/ Minute

(***************************************************************************)
(* Properties.                                                             *)
(***************************************************************************)
\* A run starts with the report as it is saved at that moment, never with the copy of an
\* earlier listing that a user has edited, switched off or deleted since, although ClaimDue
\* compares nothing but next_run_at: every edit renews it, to a time later than its own
\* clock.  Two things can bring the listed time back, and then a superseded copy is run
\* once: an edit that was validated before the listed time came and written after the
\* listing, and the end of an earlier run, whose UpdateRunState writes the next time of the
\* revision it ran over that of the edit.
ClaimedAsSaved ==
    [][\A n \in RunIds :
         run[n].pc = "none" /\ run'[n].pc = "created" =>
            LET copy == run'[n].copy
                saved == report[run'[n].id]
            IN  copy.rev = saved.rev \/ (saved.exists /\ saved.on /\ (saved.by # saved.rev \/ saved.asof < copy.next))]_reportVars

\* While nobody edits a report, no due time of it starts two runs, whatever the order of
\* claims, run ends, crashes and failed updates (ClaimDue, UpdateRunState, NextCronTime).
DueTimesOnce ==
    \A m, n \in RunIds :
        /\ m # n /\ run[m].pc # "none" /\ run[n].pc # "none"
        /\ run[m].id = run[n].id /\ run[m].copy.next = run[n].copy.next
        => \E k \in RunIds : run[k].id = run[n].id /\ run[k].copy.rev # run[n].copy.rev
=============================================================================
