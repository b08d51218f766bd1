------------------------------- MODULE MCJobs -------------------------------
(***************************************************************************)
(* The three background job systems on small instances.  They share        *)
(* nothing, so each behaviour exercises one, chosen by its first state.    *)
(***************************************************************************)
EXTENDS BinlogExport, ScheduledReport, SessionLoop

VARIABLE scenario

mcVars == <<exportVars, reportVars, loopVars, scenario>>

At(f, p) == [file |-> f, pos |-> p]

TimeRequest(c, filtered, ack, start, stop) ==
    [conn |-> c, mode |-> "time", filtered |-> filtered, acknowledged |-> ack,
     start |-> start, stop |-> stop, from |-> At(0, 0), to |-> At(0, 0)]

PositionRequest(c, filtered, ack, from, to) ==
    [conn |-> c, mode |-> "position", filtered |-> filtered, acknowledged |-> ack,
     start |-> 0, stop |-> 0, from |-> from, to |-> to]

\* 1-3 one job per connection; 4-7 ranges of c1's log; 8-12 are refused
MCRequests ==
    <<PositionRequest("c1", TRUE, FALSE, At(1, 4), At(1, 5)),
      PositionRequest("c2", TRUE, FALSE, At(1, 4), At(1, 5)),
      PositionRequest("c3", FALSE, TRUE, At(1, 4), At(1, 5)),
      TimeRequest("c1", TRUE, FALSE, 0, 2),
      TimeRequest("c1", FALSE, TRUE, 1, 2),
      PositionRequest("c1", TRUE, FALSE, At(1, 5), At(2, 5)),
      PositionRequest("c1", TRUE, FALSE, At(2, 4), At(3, 5)),
      TimeRequest("c1", FALSE, FALSE, 1, 2),
      TimeRequest("c1", FALSE, TRUE, 0, 2),
      TimeRequest("c1", TRUE, FALSE, 1, 3),
      PositionRequest("c1", FALSE, TRUE, At(1, 4), At(2, 5)),
      PositionRequest("c1", TRUE, FALSE, At(1, 4), At(3, 5))>>

MCConns == {"c1", "c2", "c3"}

Event(f, ts) == [file |-> f, ts |-> ts]

StartLog == [c \in Conns |->
    IF c = "c1" THEN [events |-> <<Event(1, 1), Event(1, 2), Event(2, 2)>>, first |-> 1, file |-> 2]
    ELSE [events |-> <<Event(1, 1)>>, first |-> 1, file |-> 1]]

\* the calendar: two minutes an hour, two hours a day, two days a month, two
\* months a year; weekdays 0 to 2, 3 being Sunday again
MCCalendar(t) ==
    [minute |-> t % 2, hour |-> (t \div 2) % 2, monthDay |-> 1 + ((t \div 4) % 2),
     month |-> 1 + ((t \div 8) % 2), weekday |-> (t \div 4) % 3]

MCLimits ==
    [minute |-> [lo |-> 0, hi |-> 1], hour |-> [lo |-> 0, hi |-> 1],
     monthDay |-> [lo |-> 1, hi |-> 3], month |-> [lo |-> 1, hi |-> 2],
     weekday |-> [lo |-> 0, hi |-> 3]]

Cron(minute, hour, monthDay, month, weekday) ==
    [minute |-> minute, hour |-> hour, monthDay |-> monthDay, month |-> month, weekday |-> weekday]

EveryMinute == Cron({Star}, {Star}, {Star}, {Star}, {Star})
SundayOrFirst == Cron({Part(0, 0, 1), Part(1, 1, 1)}, {Part(0, 1, 2)}, {Part(1, 1, 1)}, {Star}, {Part(3, 3, 1)})
Hourly == Cron({Part(1, 1, 1)}, {Star}, {Star}, {Part(1, 2, 1)}, {Star})
NoSuchDay == Cron({Star}, {Star}, {Part(3, 3, 1)}, {Star}, {Star})
BadStep == Cron({Part(0, 1, 0)}, {Star}, {Star}, {Star}, {Star})
BadRange == Cron({Part(0, 2, 1)}, {Star}, {Star}, {Star}, {Star})

Input(cron, on, db, verb, readOnly) ==
    [cron |-> cron, on |-> on, db |-> db, verb |-> verb, readOnly |-> readOnly]

MCInputs ==
    <<Input(EveryMinute, TRUE, "mysql", "SELECT", TRUE), Input(Hourly, TRUE, "postgres", "WITH", TRUE),
      Input(SundayOrFirst, TRUE, "mysql", "SELECT", TRUE), Input(EveryMinute, FALSE, "mysql", "SELECT", TRUE),
      Input(NoSuchDay, TRUE, "mysql", "SELECT", TRUE), Input(BadStep, TRUE, "mysql", "SELECT", TRUE),
      Input(BadRange, TRUE, "mysql", "SELECT", TRUE), Input(EveryMinute, TRUE, "redis", "SELECT", TRUE),
      Input(EveryMinute, TRUE, "mysql", "WITH", FALSE), Input(EveryMinute, TRUE, "mysql", "DELETE", FALSE)>>

Calm == [log |-> 0, fault |-> MaxFaults, crash |-> 0, age |-> 0]
Still == [edit |-> 0, policy |-> 0, crash |-> 0, fault |-> 0, minute |-> 0]
Lenient == [scope |-> TRUE, access |-> TRUE, sensitive |-> FALSE]

\* queue: jobs that are queued at first; create: the requests users may send;
\* jobs: rows ever created; faults: calls may fail
Scenario(queue, create, jobs, faults, budgets) ==
    [queue |-> queue, create |-> create, jobs |-> jobs, faults |-> faults, left |-> budgets]

Scenarios ==
    [slots   |-> Scenario(<<1, 2, 3>>, {}, 3, FALSE, Calm),
     shared  |-> Scenario(<<1, 1>>, {}, 3, FALSE, Calm),
     faults  |-> Scenario(<<1>>, {}, 2, TRUE, [Calm EXCEPT !.crash = 1, !.age = 2]),
     ranges  |-> Scenario(<<>>, 4 .. 12, 1, FALSE, [Calm EXCEPT !.log = 3]),
     edits   |-> Scenario(<<>>, {}, 0, FALSE, Calm),
     twice   |-> Scenario(<<>>, {}, 0, FALSE, Calm),
     outages |-> Scenario(<<>>, {}, 0, FALSE, Calm),
     pair    |-> Scenario(<<>>, {}, 0, FALSE, Calm),
     kills   |-> Scenario(<<>>, {}, 0, FALSE, Calm)]

ReportScenarios == {"edits", "twice", "outages", "pair"}

This == Scenarios[scenario]

MCInit ==
    /\ scenario \in DOMAIN Scenarios
    /\ left = This.left
    /\ log = StartLog
    /\ now = 2
    /\ clock = 3
    /\ policy = Lenient
    /\ report = [id \in Reports |-> IF id = 2 /\ scenario # "pair" THEN [NoReport EXCEPT !.rev = 1] ELSE NoReport]
    /\ budget = CASE scenario = "edits" -> [Still EXCEPT !.edit = 1, !.policy = 1, !.minute = 2]
                  [] scenario = "twice" -> [Still EXCEPT !.edit = 2, !.minute = 2]
                  [] scenario = "outages" -> [Still EXCEPT !.crash = 1, !.fault = 1, !.minute = 5]
                  [] scenario = "pair" -> [Still EXCEPT !.minute = 2]
                  [] OTHER -> Still
    /\ job = [j \in JobIds |->
                IF j <= Len(This.queue)
                THEN [NoJob EXCEPT !.st = "queued", !.req = This.queue[j],
                                   !.end = Snapshot(Requests[This.queue[j]])]
                ELSE NoJob]
    /\ ExportInit
    /\ ReportInit
    /\ LoopInit

Allowed ==
    /\ \A c \in Conns \ {"c1"} : log'[c] = log[c]
    /\ \A j \in JobIds : job[j].st = "none" /\ job'[j].st # "none" =>
          j <= This.jobs /\ job'[j].req \in This.create \cup {job[k].req : k \in JobIds}
    /\ left'.fault = left.fault \/ This.faults
    /\ \A j \in JobIds : job'[j].byUser => scenario # "ranges" /\ (scenario = "slots" => j = 1)

\* edits and outages concern one report, the pair has plain schedules; two edits keep it
AllowedReports ==
    /\ scenario = "pair" => \A s \in saves' : s.input = s.id
    /\ scenario = "twice" => \A s \in saves' : s.input = 1

MCNext ==
    /\ UNCHANGED scenario
    /\ \/ /\ scenario \notin ReportScenarios \cup {"kills"}
          /\ ExportNext
          /\ Allowed
          /\ UNCHANGED <<reportVars, loopVars>>
       \/ /\ scenario \in ReportScenarios
          /\ ReportNext
          /\ AllowedReports
          /\ UNCHANGED <<exportVars, loopVars>>
       \/ /\ scenario = "kills"
          /\ LoopNext
          /\ UNCHANGED <<exportVars, reportVars>>

\* The goroutines and the dispatcher loop are scheduled, and the server is
\* started again after it stopped.
MCSpec ==
    /\ MCInit /\ [][MCNext]_mcVars
    /\ \A j \in JobIds : WF_exportVars(WorkerStep(j))
    /\ WF_exportVars(Start)
    /\ LoopFairness
=============================================================================
