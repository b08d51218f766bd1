----------------------------- MODULE SessionLoop -----------------------------
(***************************************************************************)
(* The bounded loop kill: a job lists the sessions of a database node at   *)
(* an interval and cancels those that match a prefix, until its duration   *)
(* or its kill limit is used up, it fails three times in a row, or it is   *)
(* stopped.  Modelled are the job rows, the worker that claims them, one   *)
(* goroutine per claimed job, Stop requests, crash and restart.            *)
(***************************************************************************)
EXTENDS Naturals, FiniteSets

CONSTANTS
    MaxLoops,     \* bound: jobs created
    MaxPreviews,  \* bound: prefix previews issued
    Users,        \* the users who ask for previews
    Keys,         \* target keys a request can name
    MaxKills,     \* the job's kill limit
    MaxMatches,   \* bound: sessions that match in one iteration
    MaxErrors,    \* bound: failing Meta DB calls of the worker and its goroutines
    MaxDoubts,    \* bound: cancels of a job that took effect although their call failed
    MaxStops,     \* bound: Stop requests
    MaxCrashes    \* bound: process exits

ASSUME LoopAssumption ==
    /\ {MaxLoops, MaxKills, MaxPreviews} \subseteq Nat \ {0}
    /\ {MaxMatches, MaxErrors, MaxDoubts, MaxStops, MaxCrashes} \subseteq Nat

VARIABLES
    loop, expired,       \* Meta DB: the job rows; whether a row's expires_at has passed
    looping, go, alive,  \* process memory: the worker's active map and the goroutines
    preview,             \* process memory: the preview store, and requests that used a token
    signals,             \* the target: queries cancelled on behalf of each job, and
    doubts,              \* those of them whose call returned an error all the same
    errors, stops, crashes

loopBounds == <<errors, stops, crashes>>
target == <<signals, doubts>>
loopVars == <<loop, expired, looping, go, alive, preview, target, loopBounds>>

-----------------------------------------------------------------------------
Jobs == 1..MaxLoops
Tokens == 1..MaxPreviews
NoKey == "none"
ErrorLimit == 3

Status == {"none", "pending", "running", "stopped", "expired", "limit_reached", "failed",
           "interrupted"}
Open     == {"pending", "running"}
Terminal == Status \ (Open \cup {"none"})

NoLoop == [st |-> "none", key |-> NoKey, for |-> NoKey, token |-> 0,
           prefix |-> FALSE, kills |-> 0, errs |-> 0]
NoPreview == [st |-> "none", user |-> NoKey, key |-> NoKey]
NoGo  == [at |-> "none", left |-> 0, room |-> 0, killed |-> 0, bad |-> FALSE, end |-> "none"]

Goes(j, g) == go' = [go EXCEPT ![j] = g]
Ends(j)    == Goes(j, NoGo) /\ looping' = looping \ {j}

LoopInit ==
    /\ loop = [j \in Jobs |-> NoLoop] /\ expired = {}
    /\ looping = {} /\ go = [j \in Jobs |-> NoGo] /\ alive = TRUE
    /\ signals = [j \in Jobs |-> 0] /\ doubts = [j \in Jobs |-> 0]
    /\ preview = [t \in Tokens |-> NoPreview]
    /\ errors = 0 /\ stops = 0 /\ crashes = 0

-----------------------------------------------------------------------------
(* Requests.                                                               *)

Least(S) == CHOOSE n \in S : \A m \in S : n <= m
Unused == {t \in Tokens : preview[t].st = "none"}

\* PreviewStore.Create: a new preview replaces the user's previous one for the target.
StorePreview(u, k) ==
    LET new == [st |-> "live", user |-> u, key |-> k]
    IN  preview' = [t \in Tokens |-> IF t = Least(Unused) THEN new
                                     ELSE IF preview[t] = new THEN [new EXCEPT !.st = "gone"]
                                     ELSE preview[t]]

PreviewPrefix(u, k) ==
    /\ alive /\ Unused # {} /\ StorePreview(u, k)
    /\ UNCHANGED <<loop, expired, looping, go, alive, target, loopBounds>>

\* A preview expires, or is evicted because the store is full.
DropPreview(t) ==
    /\ alive /\ preview[t].st = "live"
    /\ preview' = [preview EXCEPT ![t].st = "gone"]
    /\ UNCHANGED <<loop, expired, looping, go, alive, target, loopBounds>>

\* PreviewStore.Consume by the matching user and target; a mismatch changes nothing.
Consume(t, use) == preview[t].st = "live" /\ preview' = [preview EXCEPT ![t].st = use]

\* CreateLoopJob takes the token, validates the target (which may refuse), and inserts.
CreateLoopJob(t) ==
    /\ alive /\ Consume(t, "creating")
    /\ UNCHANGED <<loop, expired, looping, go, alive, target, loopBounds>>

\* The unique active_target_key refuses a second open job for the same key.
InsertJob(t) ==
    LET k == preview[t].key
        free == {j \in Jobs : loop[j] = NoLoop}
    IN  /\ alive /\ preview[t].st = "creating"
        /\ preview' = [preview EXCEPT ![t].st = "used"]
        /\ \/ /\ free # {} /\ \A j \in Jobs : loop[j].key # k
              /\ loop' = [loop EXCEPT ![Least(free)] =
                            [NoLoop EXCEPT !.st = "pending", !.key = k, !.for = k,
                                          !.token = t, !.prefix = TRUE]]
           \/ loop' = loop
        /\ UNCHANGED <<expired, looping, go, alive, target, loopBounds>>

\* CancelPrefix uses the token for one round of cancels of its own.
CancelPrefix(t) ==
    /\ alive /\ Consume(t, "cancelled")
    /\ UNCHANGED <<loop, expired, looping, go, alive, target, loopBounds>>

\* finish: only an open job changes; the key and the prefix go with it.
Finish(j, st) ==
    IF loop[j].st \notin Open THEN loop
    ELSE [loop EXCEPT ![j].st = st, ![j].key = NoKey, ![j].prefix = FALSE]

StopLoopJob(j) ==
    /\ alive /\ stops < MaxStops /\ loop[j].st # "none"
    /\ loop' = Finish(j, "stopped")
    /\ stops' = stops + 1
    /\ UNCHANGED <<expired, looping, go, alive, preview, target, errors, crashes>>

-----------------------------------------------------------------------------
(* The worker and its goroutines.                                          *)

\* dispatch: a listed job that no goroutine of this process works on.
DispatchLoop(j) ==
    /\ alive /\ loop[j].st = "pending" /\ j \notin looping
    /\ looping' = looping \cup {j}
    /\ Goes(j, [NoGo EXCEPT !.at = "claim"])
    /\ UNCHANGED <<loop, expired, alive, preview, target, loopBounds>>

ClaimLoop(j) ==
    /\ alive /\ go[j].at = "claim"
    /\ \/ /\ loop[j].st = "pending"
          /\ loop' = [loop EXCEPT ![j].st = "running"]
          /\ Goes(j, [NoGo EXCEPT !.at = "load"]) /\ looping' = looping
       \/ /\ loop[j].st # "pending"
          /\ loop' = loop /\ Ends(j)
    /\ UNCHANGED <<expired, alive, preview, target, loopBounds>>

\* execute begins: the prefix is gone when the job was stopped, or cannot be decrypted.
LoadPrefix(j) ==
    /\ alive /\ go[j].at = "load"
    /\ \/ /\ loop[j].prefix
          /\ Goes(j, [NoGo EXCEPT !.at = "check"]) /\ UNCHANGED <<loop, looping>>
       \/ loop' = Finish(j, "failed") /\ Ends(j)
    /\ UNCHANGED <<expired, alive, preview, target, loopBounds>>

\* Mutant: every iteration may use the whole limit.
CheckFullRoom(j) ==
    /\ alive /\ go[j].at = "check"
    /\ IF loop[j].st # "running" THEN Ends(j)
       ELSE /\ looping' = looping
            /\ Goes(j, IF j \in expired THEN [NoGo EXCEPT !.at = "finish", !.end = "expired"]
                       ELSE [NoGo EXCEPT !.at = "list", !.room = MaxKills])
    /\ UNCHANGED <<loop, expired, alive, preview, target, loopBounds>>

\* The top of the loop: the job is read again.
CheckJob(j) ==
    LET end == IF j \in expired THEN "expired"
               ELSE IF loop[j].kills >= MaxKills THEN "limit_reached" ELSE "none"
    IN  /\ alive /\ go[j].at = "check"
        /\ IF loop[j].st # "running" THEN Ends(j)
           ELSE /\ Goes(j, IF end # "none" THEN [NoGo EXCEPT !.at = "finish", !.end = end]
                           ELSE [NoGo EXCEPT !.at = "list", !.room = MaxKills - loop[j].kills])
                /\ looping' = looping
        /\ UNCHANGED <<loop, expired, alive, preview, target, loopBounds>>

\* runIteration up to the list of matching sessions; any error on the way ends it.
ListMatches(j) ==
    /\ alive /\ go[j].at = "list"
    /\ \/ \E n \in 0..MaxMatches : Goes(j, [go[j] EXCEPT !.at = "signal", !.left = n])
       \/ Goes(j, [go[j] EXCEPT !.at = "record", !.bad = TRUE])
    /\ UNCHANGED <<loop, expired, looping, alive, preview, target, loopBounds>>

\* One SignalSession of the iteration; a failure is remembered and the loop goes on.  The
\* error may come after the server took the KILL (a lost answer, a cancelled context).
SignalSession(j) ==
    LET g == go[j]
    IN  /\ alive /\ g.at = "signal"
        /\ IF g.left = 0 \/ g.killed >= g.room
           THEN Goes(j, [g EXCEPT !.at = "record"]) /\ UNCHANGED target
           ELSE \/ /\ Goes(j, [g EXCEPT !.left = @ - 1, !.killed = @ + 1])
                   /\ signals' = [signals EXCEPT ![j] = @ + 1] /\ UNCHANGED doubts
                \/ /\ Goes(j, [g EXCEPT !.left = @ - 1, !.bad = TRUE])
                   /\ \/ UNCHANGED target
                      \/ /\ doubts[j] < MaxDoubts
                         /\ signals' = [signals EXCEPT ![j] = @ + 1]
                         /\ doubts' = [doubts EXCEPT ![j] = @ + 1]
        /\ UNCHANGED <<loop, expired, looping, alive, preview, loopBounds>>

\* AddKills or RecordError, which count only while the job runs, and the decision on the
\* row read back.
RecordIteration(j) ==
    LET g == go[j]
        counted == IF loop[j].st # "running" THEN loop[j]
                   ELSE [loop[j] EXCEPT !.kills = @ + g.killed,
                                       !.errs = IF g.bad THEN @ + 1 ELSE 0]
    IN  /\ alive /\ g.at = "record"
        /\ loop' = [loop EXCEPT ![j] = counted]
        /\ Goes(j, IF g.bad /\ counted.errs >= ErrorLimit
                   THEN [NoGo EXCEPT !.at = "finish", !.end = "failed"]
                   ELSE IF ~g.bad /\ counted.kills >= MaxKills
                   THEN [NoGo EXCEPT !.at = "finish", !.end = "limit_reached"]
                   ELSE [NoGo EXCEPT !.at = "wait"])
        /\ UNCHANGED <<expired, looping, alive, preview, target, loopBounds>>

FinishJob(j) ==
    /\ alive /\ go[j].at = "finish"
    /\ loop' = Finish(j, go[j].end) /\ Ends(j)
    /\ UNCHANGED <<expired, alive, preview, target, loopBounds>>

\* wait: the interval passes, or a poll finds the job no longer running.
Wait(j) ==
    /\ alive /\ go[j].at = "wait"
    /\ \/ Goes(j, [NoGo EXCEPT !.at = "check"]) /\ looping' = looping
       \/ loop[j].st # "running" /\ Ends(j)
    /\ UNCHANGED <<loop, expired, alive, preview, target, loopBounds>>

\* A Meta DB call fails: the goroutine tries to fail the job and ignores an error of that
\* too; in the poll of wait, and when Finish itself fails, it just returns.
MetaError(j) ==
    /\ alive /\ errors < MaxErrors
    /\ \/ /\ go[j].at \in {"load", "check", "record"}
          /\ \/ loop' = Finish(j, "failed") /\ errors' = errors + 1
             \/ loop' = loop /\ errors' = errors + 2 /\ errors' <= MaxErrors
       \/ /\ go[j].at \in {"claim", "finish", "wait"}
          /\ loop' = loop /\ errors' = errors + 1
    /\ Ends(j)
    /\ UNCHANGED <<expired, alive, preview, target, stops, crashes>>

\* A panic in the iteration: what it cancelled is not added to the job.
WorkerPanic(j) ==
    /\ alive /\ go[j].at \in {"list", "signal"}
    /\ loop' = Finish(j, "failed") /\ Ends(j)
    /\ UNCHANGED <<expired, alive, preview, target, loopBounds>>

-----------------------------------------------------------------------------
(* Time and the process.                                                   *)

Expire(j) ==
    /\ loop[j].st = "running" /\ j \notin expired
    /\ expired' = expired \cup {j}
    /\ UNCHANGED <<loop, looping, go, alive, preview, target, loopBounds>>

ProcessExit ==
    /\ alive /\ crashes < MaxCrashes
    /\ alive' = FALSE /\ crashes' = crashes + 1
    /\ looping' = {} /\ go' = [j \in Jobs |-> NoGo]
    /\ preview' = [t \in Tokens |-> IF preview[t].st \in {"live", "creating"}
                                    THEN [preview[t] EXCEPT !.st = "gone"] ELSE preview[t]]
    /\ UNCHANGED <<loop, expired, target, errors, stops>>

\* Mutant: nothing is interrupted at startup.
InterruptNothing ==
    /\ ~alive /\ alive' = TRUE
    /\ UNCHANGED <<loop, expired, looping, go, preview, target, loopBounds>>

\* Startup; a pending job survives.  A failing update is only logged: the worker starts
\* with the rows as they are.
InterruptRunning ==
    /\ ~alive /\ alive' = TRUE
    /\ \/ /\ loop' = [j \in Jobs |-> IF loop[j].st # "running" THEN loop[j]
                                    ELSE [loop[j] EXCEPT !.st = "interrupted", !.key = NoKey,
                                                        !.prefix = FALSE]]
          /\ UNCHANGED errors
       \/ /\ errors < MaxErrors /\ errors' = errors + 1
          /\ UNCHANGED loop
    /\ UNCHANGED <<expired, looping, go, preview, target, stops, crashes>>

-----------------------------------------------------------------------------
Goroutine(j) ==
    \/ ClaimLoop(j) \/ LoadPrefix(j) \/ CheckJob(j) \/ ListMatches(j) \/ SignalSession(j)
    \/ RecordIteration(j) \/ FinishJob(j) \/ Wait(j)

LoopNext ==
    \/ \E u \in Users, k \in Keys : PreviewPrefix(u, k)
    \/ \E t \in Tokens : DropPreview(t) \/ CreateLoopJob(t) \/ InsertJob(t) \/ CancelPrefix(t)
    \/ \E j \in Jobs : \/ StopLoopJob(j) \/ DispatchLoop(j) \/ Goroutine(j)
                       \/ MetaError(j) \/ WorkerPanic(j) \/ Expire(j)
    \/ ProcessExit \/ InterruptRunning

\* The worker polls, goroutines run and their calls return, time passes, and a dead server
\* is restarted.
LoopFairness ==
    /\ \A j \in Jobs : WF_loopVars(DispatchLoop(j)) /\ WF_loopVars(Goroutine(j)) /\ WF_loopVars(Expire(j))
    /\ WF_loopVars(InterruptRunning)

-----------------------------------------------------------------------------
(* Properties.                                                             *)

\* A job cancels no more queries than its limit, over all of its iterations, failed ones
\* included (runIteration, AddKills, RecordError).  A cancel that took effect although its
\* call returned an error is not counted by the code, and exceeds the limit by one each:
\* the limit is on the cancels that the server confirmed.
KillLimit == \A j \in Jobs : signals[j] <= MaxKills + doubts[j]

\* A running job ends as long as the Meta DB answers (execute, FinishJob and
\* InterruptRunning), whatever happens to its goroutine.
LoopEnds ==
    \A j \in Jobs : loop[j].st = "running" ~> loop[j].st # "running" \/ errors > 0
=============================================================================
