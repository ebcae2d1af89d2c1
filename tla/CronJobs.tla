------------------------------ MODULE CronJobs ------------------------------
(***************************************************************************)
(* Timed jobs: their definitions in CronJobManager and TaskStore           *)
(* (core/tasks/manager.py, store.py) and the CronJobScheduler that starts  *)
(* their runs (core/tasks/scheduler.py).                                   *)
(*                                                                         *)
(* The definitions live in memory and are written to a file as a whole     *)
(* under the store's lock; the scheduler and a user's command change them  *)
(* and wait for the write, and only in those waits the other one moves.  A *)
(* list of jobs holds the job objects, so a loop over it goes on with jobs *)
(* that were deleted meanwhile.  The file survives a restart, nothing else *)
(* does.                                                                   *)
(***************************************************************************)
EXTENDS Naturals, FiniteSets

CONSTANTS
  Jobs,        \* ids of jobs, each created at most once
  OneShot,     \* the jobs with a time of their own (at), the others recur
  CatchUp,     \* the jobs with catch_up
  MaxElapsed,  \* bound of the model: times of a job that are reached
  MaxBoots     \* bound of the model: restarts

ASSUME CronAssumption ==
  /\ OneShot \subseteq Jobs /\ CatchUp \subseteq Jobs
  /\ MaxElapsed \in Nat \ {0} /\ MaxBoots \in Nat

VARIABLES
  jobs,     \* the definitions in memory
  next,     \* next_run_at of each job object
  file,     \* cron_jobs.json
  write,    \* the write that holds the store's lock
  poller,   \* the loops of the scheduler
  command,  \* the command a user waits for
  created,  \* the jobs ever created
  queued,   \* trigger tasks that wait for the semaphore
  elapsed,  \* history: the times of each job that were reached
  begun,    \* history: the runs of each job that began
  boots

cronVars == <<jobs, next, file, write, poller, command, created, queued,
              elapsed, begun, boots>>

\* A time is none, still to come, or reached.
Times == {"none", "future", "due"}
JobTable == [listed : SUBSET Jobs, enabled : SUBSET Jobs]
JobsFile == [listed : SUBSET Jobs, enabled : SUBSET Jobs, next : [Jobs -> Times]]
NoWrite == [by |-> "nobody", data |-> {}]
NoCommand == [job |-> {}, change |-> "none", stage |-> "none"]
Polling(loop, visits, missed) ==
  [loop |-> loop, todo |-> visits, missed |-> missed, job |-> {}, change |-> "none",
   stage |-> "none", run |-> FALSE]

CronTypeOK ==
  /\ jobs \in JobTable /\ next \in [Jobs -> Times] /\ file \in JobsFile
  /\ write.by \in {"nobody", "poller", "command"} /\ write.data \subseteq JobsFile
  /\ poller \in [loop : {"recover", "rearm", "catch_up", "sleep", "tick"},
                 todo : SUBSET Jobs, missed : SUBSET Jobs, job : SUBSET Jobs,
                 change : {"none", "put", "drop"},
                 stage : {"none", "waits", "writes"}, run : BOOLEAN]
  /\ command \in [job : SUBSET Jobs, change : {"none", "put", "drop"},
                  stage : {"none", "waits", "writes"}]
  /\ created \subseteq Jobs
  /\ queued \in [Jobs -> Nat] /\ begun \in [Jobs -> Nat]
  /\ elapsed \in [Jobs -> 0 .. MaxElapsed]
  /\ boots \in 0 .. MaxBoots

CronInit ==
  /\ jobs = [listed |-> {}, enabled |-> {}]
  /\ next = [j \in Jobs |-> "none"]
  /\ file = [listed |-> {}, enabled |-> {}, next |-> [j \in Jobs |-> "none"]]
  /\ write = NoWrite
  /\ poller = Polling("sleep", {}, {})
  /\ command = NoCommand
  /\ created = {} /\ boots = 0
  /\ queued = [j \in Jobs |-> 0]
  /\ elapsed = [j \in Jobs |-> 0] /\ begun = [j \in Jobs |-> 0]

(***************************************************************************)
(* Time.                                                                   *)
(***************************************************************************)
Reached(times, j) == IF times[j] = "future" THEN [times EXCEPT ![j] = "due"] ELSE times

\* The next time of a job comes, wherever it is written down.
Elapse(j) ==
  /\ elapsed[j] < IF j \in OneShot THEN 1 ELSE MaxElapsed
  /\ next[j] = "future" \/ file.next[j] = "future"
  /\ elapsed' = [elapsed EXCEPT ![j] = @ + 1]
  /\ next' = Reached(next, j)
  /\ file' = [file EXCEPT !.next = Reached(@, j)]
  /\ write' = [write EXCEPT !.data = {[d EXCEPT !.next = Reached(@, j)] : d \in @}]
  /\ UNCHANGED <<jobs, poller, command, created, queued, begun, boots>>

\* recalculate_next_run: the time of a one-shot job stays what it was.
Recalculated(j) == IF j \in OneShot /\ elapsed[j] > 0 THEN "due" ELSE "future"

(***************************************************************************)
(* The store: add_job, update_job, delete_job.  The caller waits for the   *)
(* lock, changes the table, and has the whole of it written.               *)
(***************************************************************************)
Changed(j, change) ==
  [jobs EXCEPT !.listed = IF change = "put" THEN @ \cup {j} ELSE @ \ {j}]

\* The caller waits for the lock unless it is free.  A job that is not in the
\* table, before or after the wait, is not dropped and nothing is written.
StageOf(j, change) ==
  IF change = "drop" /\ j \notin jobs.listed THEN "none"
  ELSE IF write # NoWrite THEN "waits" ELSE "writes"

LocksAndWrites(p, table, times, stage) ==
  write' = IF stage = "writes"
           THEN [by |-> p, data |-> {[listed |-> table.listed, enabled |-> table.enabled,
                                      next |-> times]}]
           ELSE write

(***************************************************************************)
(* Commands: create_job, delete_job, enable_job, disable_job.              *)
(***************************************************************************)
\* The fields of the object change first, then the store is called.
Commands(j, change, enabled, times) ==
  LET stage == StageOf(j, change)
      table == [(IF stage = "writes" THEN Changed(j, change) ELSE jobs)
                  EXCEPT !.enabled = enabled]
  IN
  /\ command = NoCommand
  /\ command' = IF stage = "none" THEN NoCommand
                ELSE [job |-> {j}, change |-> change, stage |-> stage]
  /\ jobs' = table
  /\ next' = times
  /\ LocksAndWrites("command", table, times, stage)
  /\ UNCHANGED <<file, poller, queued, elapsed, begun, boots>>

CreateJob(j) ==
  /\ j \notin created
  /\ created' = created \cup {j}
  /\ Commands(j, "put", jobs.enabled \cup {j}, [next EXCEPT ![j] = "future"])

DeleteJob(j) ==
  /\ j \in jobs.listed
  /\ Commands(j, "drop", jobs.enabled, next)
  /\ UNCHANGED created

EnableJob(j) ==
  /\ j \in jobs.listed
  /\ Commands(j, "put", jobs.enabled \cup {j}, [next EXCEPT ![j] = Recalculated(j)])
  /\ UNCHANGED created

\* Mutant of DisableJob: the change is not written.
DisableJobUnsaved(j) ==
  /\ j \in jobs.listed
  /\ jobs' = [jobs EXCEPT !.enabled = @ \ {j}]
  /\ UNCHANGED <<next, file, write, poller, command, created, queued, elapsed, begun, boots>>

DisableJob(j) ==
  /\ j \in jobs.listed
  /\ Commands(j, "put", jobs.enabled \ {j}, next)
  /\ UNCHANGED created

CommandLocks ==
  /\ command.stage = "waits" /\ write = NoWrite
  /\ \E j \in command.job :
       LET stage == StageOf(j, command.change)
           table == Changed(j, command.change) IN
       /\ jobs' = table
       /\ command' = IF stage = "none" THEN NoCommand ELSE [command EXCEPT !.stage = stage]
       /\ LocksAndWrites("command", table, next, stage)
  /\ UNCHANGED <<next, file, poller, created, queued, elapsed, begun, boots>>

Written == file' \in write.data /\ write' = NoWrite

CommandEnds ==
  /\ command.stage = "writes"
  /\ Written
  /\ command' = NoCommand
  /\ UNCHANGED <<jobs, next, poller, created, queued, elapsed, begun, boots>>

(***************************************************************************)
(* The scheduler: _recover_missed_jobs, _poll_loop, _tick.                 *)
(***************************************************************************)
IsDue(j) == j \in jobs.enabled /\ next[j] = "due"

\* Job j of the list is looked at and not changed.
Skips(j) ==
  /\ poller' = [poller EXCEPT !.todo = @ \ {j}]
  /\ UNCHANGED <<jobs, next, write>>

\* Its next time is set and the store is called; run says that a run is
\* started when the store has answered.
Updates(j, time, change, run) ==
  LET stage == StageOf(j, change)
      table == IF stage = "writes" THEN Changed(j, change) ELSE jobs
      times == [next EXCEPT ![j] = time]
  IN
  /\ poller' = [poller EXCEPT !.todo = @ \ {j}, !.job = {j}, !.change = change,
                              !.stage = stage, !.run = run]
  /\ jobs' = table
  /\ next' = times
  /\ LocksAndWrites("poller", table, times, stage)

Visits(j) == poller.stage = "none" /\ poller.job = {} /\ j \in poller.todo

\* Missed while the process was down, by a second at least: within the window
\* it is caught up, beyond it the next time is set.
RecoverJob(j) ==
  /\ poller.loop = "recover" /\ Visits(j)
  /\ \/ Skips(j)
     \/ /\ IsDue(j) /\ j \in CatchUp
        /\ poller' = [poller EXCEPT !.todo = @ \ {j}, !.missed = @ \cup {j}]
        /\ UNCHANGED <<jobs, next, write>>
     \/ IsDue(j) /\ j \in CatchUp /\ Updates(j, Recalculated(j), "put", FALSE)
  /\ UNCHANGED <<file, command, created, queued, elapsed, begun, boots>>

RearmJob(j) ==
  /\ poller.loop = "rearm" /\ Visits(j)
  /\ Updates(j, Recalculated(j), "put", FALSE)
  /\ UNCHANGED <<file, command, created, queued, elapsed, begun, boots>>

\* The run of a missed job is started before its new time is written.
CatchUpJob(j) ==
  /\ poller.loop = "catch_up" /\ Visits(j)
  /\ queued' = [queued EXCEPT ![j] = @ + 1]
  /\ Updates(j, IF j \in OneShot THEN "none" ELSE Recalculated(j), "put", FALSE)
  /\ UNCHANGED <<file, command, created, elapsed, begun, boots>>

\* Mutant of TickJob: the run starts, and the new time is left to the next.
TickJobUnwritten(j) ==
  /\ poller.loop = "tick" /\ Visits(j)
  /\ IF IsDue(j) THEN queued' = [queued EXCEPT ![j] = @ + 1] ELSE UNCHANGED queued
  /\ Skips(j)
  /\ UNCHANGED <<file, command, created, elapsed, begun, boots>>

\* A due job has its new time written first, or is deleted, and then runs.
TickJob(j) ==
  /\ poller.loop = "tick" /\ Visits(j)
  /\ \/ ~IsDue(j) /\ Skips(j)
     \/ IsDue(j) /\ j \in OneShot /\ Updates(j, next[j], "drop", TRUE)
     \/ IsDue(j) /\ j \notin OneShot /\ Updates(j, Recalculated(j), "put", TRUE)
  /\ UNCHANGED <<file, command, created, queued, elapsed, begun, boots>>

PollerLocks ==
  /\ poller.stage = "waits" /\ write = NoWrite
  /\ \E j \in poller.job :
       LET stage == StageOf(j, poller.change)
           table == Changed(j, poller.change) IN
       /\ jobs' = table
       /\ poller' = [poller EXCEPT !.stage = stage]
       /\ LocksAndWrites("poller", table, next, stage)
  /\ UNCHANGED <<next, file, command, created, queued, elapsed, begun, boots>>

PollerWrites ==
  /\ poller.stage = "writes"
  /\ Written
  /\ poller' = [poller EXCEPT !.stage = "none"]
  /\ UNCHANGED <<jobs, next, command, created, queued, elapsed, begun, boots>>

\* The store has answered: _schedule_trigger, and on to the next job.
PollerGoesOn ==
  /\ poller.stage = "none" /\ poller.job # {}
  /\ poller' = [poller EXCEPT !.job = {}, !.change = "none", !.run = FALSE]
  /\ queued' = [j \in Jobs |-> IF poller.run /\ j \in poller.job
                               THEN queued[j] + 1 ELSE queued[j]]
  /\ UNCHANGED <<jobs, next, file, write, command, created, elapsed, begun, boots>>

\* One loop over the list ends and the next begins.
PollerLoops ==
  /\ poller.stage = "none" /\ poller.job = {} /\ poller.todo = {}
  /\ poller' = CASE poller.loop = "recover" ->
                      Polling("rearm", jobs.listed \ poller.missed, poller.missed)
                 [] poller.loop = "rearm" ->
                      Polling("catch_up", jobs.listed \cap poller.missed, {})
                 [] poller.loop = "sleep" -> Polling("tick", jobs.listed, {})
                 [] OTHER -> Polling("sleep", {}, {})
  /\ UNCHANGED <<jobs, next, file, write, command, created, queued, elapsed, begun, boots>>

\* A trigger task gets the semaphore: run_cron_job.
BeginRun(j) ==
  /\ queued[j] > 0
  /\ queued' = [queued EXCEPT ![j] = @ - 1]
  /\ begun' = [begun EXCEPT ![j] = @ + 1]
  /\ UNCHANGED <<jobs, next, file, write, poller, command, created, elapsed, boots>>

\* The process ends, in order or not, and starts again from the file.
Reboot ==
  /\ boots < MaxBoots
  /\ boots' = boots + 1
  /\ jobs' = [listed |-> file.listed, enabled |-> file.enabled]
  /\ next' = file.next
  /\ write' = NoWrite /\ command' = NoCommand
  /\ poller' = Polling("recover", file.listed, {})
  /\ queued' = [j \in Jobs |-> 0]
  /\ UNCHANGED <<file, created, elapsed, begun>>

PollerMoves(j) == RecoverJob(j) \/ RearmJob(j) \/ CatchUpJob(j) \/ TickJob(j)

CronNext ==
  \/ \E j \in Jobs : \/ Elapse(j) \/ PollerMoves(j) \/ BeginRun(j)
                     \/ CreateJob(j) \/ DeleteJob(j) \/ EnableJob(j) \/ DisableJob(j)
  \/ CommandLocks \/ CommandEnds
  \/ PollerLocks \/ PollerWrites \/ PollerGoesOn \/ PollerLoops
  \/ Reboot

CronSpec == CronInit /\ [][CronNext]_cronVars

(***************************************************************************)
(* Properties.                                                             *)
(***************************************************************************)
\* What memory says is in the file once nobody is about to write it: an
\* answered command and a time that was used up survive a restart.
FileIsCurrent ==
  write = NoWrite /\ command.stage = "none" /\ poller.stage = "none" =>
    file = [listed |-> jobs.listed, enabled |-> jobs.enabled, next |-> next]

\* A recurring job runs once for each of its times, whatever the poller, the
\* commands and the restarts do; each restart can cost one more, when the
\* process ends between the run of a missed job and the write of its time.
RunsAreDue ==
  \A j \in Jobs \ OneShot : begun[j] + queued[j] <= elapsed[j] + boots

\* Both: whatever meets at the awaits of the two writers, the file keeps what
\* was decided and the times are used up once.
JobsKeepTime == FileIsCurrent /\ RunsAreDue

\* A job with a time of its own runs once: when it has run, and both memory
\* and the file have it marked as triggered, only a user arms it again.
OneShotStaysDone ==
  [][\A j \in OneShot :
       begun[j] > 0 /\ next[j] = "none" /\ file.next[j] = "none" /\ command' = command
       => next'[j] = "none"]_cronVars
=============================================================================
