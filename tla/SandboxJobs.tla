----------------------------- MODULE SandboxJobs -----------------------------
(* The background jobs of a session's sandbox: bash starts them and job_output and job_kill     *)
(* settle them (sandbox-job.service.ts, job.tools.ts), and a watcher that ticks every two       *)
(* seconds tells the agent when one has finished, by a notice in the queue of pending inputs or *)
(* by a run of its own (sandbox-job-watcher.service.ts). Work of a session on its sandbox is    *)
(* queued; a tick that takes longer than the interval overlaps the next one.                    *)
EXTENDS Naturals, FiniteSets

CONSTANTS Jobs, Ticks,
          MaxWakes,       \* jobMaxConsecutiveWakes
          MaxUserRuns,    \* bound: runs the user starts
          MaxTickErrors   \* bound: ticks that end with an error
ASSUME SandboxBounds ==
  /\ {MaxWakes, MaxUserRuns, MaxTickErrors} \subseteq Nat
  /\ MaxUserRuns > 0   \* the run of the initial state is the user's

VARIABLES starting,       \* how far bash is with the start of a job
          meta,           \* status in the job's meta.json
          running,        \* jobs whose command has not ended
          reported,       \* completionReported: written, or queued to be written, into meta.json
          told,           \* jobs whose end the agent was told of
          wakeups,        \* jobs a run was created for
          ticks,          \* the progress of each tick
          budget,         \* wakeBudget
          active,         \* the session has an active run
          userRuns, tickErrors

jobVars == <<starting, meta, running, reported, told, wakeups, ticks, budget, active, userRuns, tickErrors>>
sandbox == <<starting, meta, running>>
watcher == <<ticks, budget, wakeups, tickErrors>>
session == <<active, userRuns>>

Rest == [pc |-> "rest", todo |-> {}, job |-> "none", budget |-> 0]

JobInit ==
  /\ starting = [j \in Jobs |-> "no"] /\ meta = [j \in Jobs |-> "absent"] /\ running = {}
  /\ reported = [j \in Jobs |-> "no"] /\ told = {} /\ wakeups = {}
  /\ ticks = [t \in Ticks |-> Rest] /\ budget = 0 /\ tickErrors = 0
  /\ active = TRUE /\ userRuns = 1

\* No work of the session is under way on its sandbox.
QueueFree == \A j \in Jobs : starting[j] # "launched"
Settled(j) == meta[j] \in {"finished", "killed"}

------------------------------------------------------------------------------
\* One command writes meta.json and starts the job; meta.json is then uploaded once more.
StartBackground(j) ==
  /\ active /\ starting[j] = "no" /\ QueueFree
  /\ starting' = [starting EXCEPT ![j] = "launched"] /\ meta' = [meta EXCEPT ![j] = "running"]
  /\ running' = running \cup {j}
  /\ UNCHANGED <<reported, told, watcher, session>>

UploadMeta(j) ==
  /\ starting[j] = "launched"
  /\ starting' = [starting EXCEPT ![j] = "started"] /\ meta' = [meta EXCEPT ![j] = "running"]
  /\ UNCHANGED <<running, reported, told, watcher, session>>

\* The command of the job ends; its shell writes the status into meta.json.
Exit(j) ==
  /\ j \in running
  /\ running' = running \ {j} /\ meta' = [meta EXCEPT ![j] = "finished"]
  /\ UNCHANGED <<starting, reported, told, watcher, session>>

\* markCompletionReported() queues its write and is not awaited.
QueuesMark(j) == reported' = [reported EXCEPT ![j] = IF @ = "no" THEN "queued" ELSE @]

MarkReported(j) ==
  /\ reported[j] = "queued" /\ QueueFree /\ reported' = [reported EXCEPT ![j] = "yes"]
  /\ UNCHANGED <<sandbox, told, watcher, session>>

JobOutput(j) ==
  /\ active /\ QueueFree /\ Settled(j) /\ QueuesMark(j) /\ told' = told \cup {j}
  /\ UNCHANGED <<sandbox, watcher, session>>

KillJob(j) ==
  /\ active /\ QueueFree /\ starting[j] = "started"
  /\ meta' = [meta EXCEPT ![j] = "killed"] /\ running' = running \ {j}
  /\ QueuesMark(j) /\ told' = told \cup {j}
  /\ UNCHANGED <<starting, watcher, session>>

------------------------------------------------------------------------------
Unreported(j) == Settled(j) /\ reported[j] # "yes"

ListJobs(t) ==
  /\ ticks[t].pc = "rest" /\ QueueFree
  /\ \E j \in Jobs : Unreported(j)
  /\ ticks' = [ticks EXCEPT ![t] = [Rest EXCEPT !.pc = "deliver", !.todo = {j \in Jobs : Unreported(j)}]]
  /\ UNCHANGED <<sandbox, reported, told, wakeups, budget, tickErrors, session>>

\* The tick goes on to its next job, or ends.
After(t, j) ==
  LET rest == ticks[t].todo \ {j}
  IN  ticks' = [ticks EXCEPT ![t] = IF rest = {} THEN Rest ELSE [Rest EXCEPT !.pc = "deliver", !.todo = rest]]

\* A busy session gets a notice, and so does one that was woken often enough. A notice that the
\* full queue drops counts as told: the watcher does not learn of it.
Notify(t, j) ==
  /\ ticks[t].pc = "deliver" /\ j \in ticks[t].todo /\ (active \/ budget >= MaxWakes)
  /\ told' = told \cup {j} /\ QueuesMark(j) /\ After(t, j)
  /\ UNCHANGED <<sandbox, wakeups, budget, tickErrors, session>>

\* An idle one is woken; the budget read here is the one written back.
DecideToWake(t, j) ==
  /\ ticks[t].pc = "deliver" /\ j \in ticks[t].todo /\ ~active /\ budget < MaxWakes
  /\ ticks' = [ticks EXCEPT ![t].pc = "wake", ![t].job = j, ![t].budget = budget]
  /\ UNCHANGED <<sandbox, reported, told, wakeups, budget, tickErrors, session>>

\* Mutant: a completion is marked though the run was refused.
MarksAnyway(j, created) == QueuesMark(j)
MarksIfCreated(j, created) == IF created THEN QueuesMark(j) ELSE UNCHANGED reported

\* The run has the job's key: one created before is found again, a session busy by now refuses.
CreateRun(t) ==
  /\ ticks[t].pc = "wake"
  /\ LET j == ticks[t].job
         created == j \in wakeups \/ ~active
     IN /\ \/ /\ created /\ told' = told \cup {j} /\ wakeups' = wakeups \cup {j}
              /\ active' = (active \/ j \notin wakeups) /\ budget' = ticks[t].budget + 1
           \/ ~created /\ UNCHANGED <<told, wakeups, active, budget>>
        /\ MarksIfCreated(j, created) /\ After(t, j)
  /\ UNCHANGED <<sandbox, tickErrors, userRuns>>

\* An error of the database ends the tick; nothing catches it, the next one starts over.
TickFails(t) ==
  /\ ticks[t].pc = "deliver" /\ tickErrors < MaxTickErrors
  /\ ticks' = [ticks EXCEPT ![t] = Rest] /\ tickErrors' = tickErrors + 1
  /\ UNCHANGED <<sandbox, reported, told, wakeups, budget, session>>

------------------------------------------------------------------------------
\* A run the user starts resets the budget.
UserRun ==
  /\ ~active /\ userRuns < MaxUserRuns
  /\ active' = TRUE /\ userRuns' = userRuns + 1 /\ budget' = 0
  /\ UNCHANGED <<sandbox, reported, told, ticks, wakeups, tickErrors>>

RunEnds ==
  /\ active /\ QueueFree /\ active' = FALSE
  /\ UNCHANGED <<sandbox, reported, told, watcher, userRuns>>

TickStep(t) == ListJobs(t) \/ CreateRun(t) \/ \E j \in Jobs : Notify(t, j) \/ DecideToWake(t, j)

JobNext ==
  \/ \E j \in Jobs : \/ StartBackground(j) \/ UploadMeta(j) \/ Exit(j) \/ MarkReported(j)
                     \/ JobOutput(j) \/ KillJob(j)
  \/ \E t \in Ticks : TickStep(t) \/ TickFails(t)
  \/ UserRun \/ RunEnds

JobSpec == JobInit /\ [][JobNext]_jobVars

------------------------------------------------------------------------------
JobTypeOK ==
  /\ \A j \in Jobs :
       /\ starting[j] \in {"no", "launched", "started"}
       /\ meta[j] \in {"absent", "running", "finished", "killed"}
       /\ reported[j] \in {"no", "queued", "yes"}
  /\ UNION {running, told, wakeups} \subseteq Jobs
  /\ budget \in Nat /\ active \in BOOLEAN
  /\ userRuns \in 0..MaxUserRuns /\ tickErrors \in 0..MaxTickErrors

\* The mark hides a job from all later ticks, so it is set, or queued to be set, only of a job that was
\* started and whose end was told, by a notice, by a run or by the tool that shows it
\* (sandbox-job-watcher.service.ts deliverCompletion, job.tools.ts), though ticks overlap, runs come and
\* go between the check and the wake-up, and a refused run leaves the job to a later tick.
MarkedWasTold ==
  /\ \A j \in Jobs : reported[j] # "no" => j \in told /\ starting[j] # "no"
  /\ wakeups \subseteq told

\* A job whose meta.json keeps saying that it finished is told of (sandbox-job-watcher.service.ts
\* tick, deliverCompletion): a run is created for it, a notice handed to the queue, or the agent
\* reads it, though runs come and go between the check and the wake-up. It may not be marked as
\* reported before that, or no later tick would find it (job.tools.ts marks what it shows). The upload
\* that follows the start may erase the status of a job that ended at once: that one is never told.
CompletionIsTold == []<>(\A j \in Jobs : meta[j] = "finished" => j \in told)
==============================================================================
