------------------------------ MODULE WorkPlans ------------------------------
(***************************************************************************)
(* A work plan of a chat and its background tasks:                         *)
(* core/orchestration/work_plan_store.py, work_plan_service.py and         *)
(* background_task_runner.py, with the consumer of results in              *)
(* core/tasks/wake_runner.py.                                              *)
(*                                                                         *)
(* Tasks are rows of a database and run in asyncio tasks of the process.   *)
(* The result of a task is put in the plan's inbox, a wake asks for a turn *)
(* of the model that leases the inbox, and rows are deleted when that turn *)
(* acknowledged them.  The database survives a restart; asyncio tasks,     *)
(* wakes and turns do not, and leases only run out.                        *)
(*                                                                         *)
(* Every call of the store is one step (its lock is never waited for).  A  *)
(* caller's revision that is stale changes nothing and is left out.        *)
(***************************************************************************)
EXTENDS Naturals, FiniteSets, QueueFilter

CONSTANTS
  MaxTasks,         \* bound of the model: tasks ever created, in this order
  Steps, StepDeps,  \* steps of the plan; StepDeps[s]: those s depends on
  TaskKinds,        \* the pairs of allow_parallel and required to choose from
  MaxRunning,       \* max_running_background_per_plan
  MaxPending,       \* max_pending_events_per_plan
  InboxLimit,       \* limit of claim_inbox
  LongTurns,        \* whether a consumer's turn may outlive its lease
  MaxPlanRestarts   \* bound of the model

ASSUME PlansAssumption ==
  /\ MaxTasks \in Nat /\ MaxPlanRestarts \in Nat
  /\ MaxRunning \in Nat \ {0} /\ MaxPending \in Nat \ {0} /\ InboxLimit \in Nat \ {0}
  /\ StepDeps \in [Steps -> SUBSET Steps]
  /\ TaskKinds \subseteq [parallel : BOOLEAN, required : BOOLEAN]
  /\ LongTurns \in BOOLEAN

Tasks == 1 .. MaxTasks

VARIABLES
  plan,      \* work_plans.status
  task,      \* background_tasks and background_task_dependencies
  step,      \* plan_steps
  results,   \* work_plan_inbox, by created_at
  unnotified,\* background_task_notifications not delivered
  local,     \* the runner's asyncio tasks, _active_by_task_id
  taskWake,  \* a wake of the plan is pending in the coalescer
  consumer,  \* the wake turn that leased the inbox
  planner,   \* planner_leases
  planRestarts,
  started,   \* history: tasks the executor was called for
  again,     \* history: tasks the executor was called for twice
  owed       \* history: results no consumer has acknowledged that saw them

plansVars == <<plan, task, step, results, unnotified, local, taskWake, consumer,
               planner, planRestarts, started, again, owed>>

rows == <<plan, task, step, results, unnotified, owed>>
turnVars == <<consumer, planner>>
seen == <<started, again>>

PlanEnds == {"completed", "cancelled"}
TaskEnds == {"completed", "failed", "needs_input", "cancelled", "interrupted"}
NoTask == [status |-> "none", deps |-> {}, parallel |-> FALSE, required |-> FALSE]
NoConsumer == [on |-> FALSE, saw |-> {}, evidence |-> FALSE]

PlansTypeOK ==
  /\ plan \in PlanEnds \cup {"queued", "active", "waiting_user", "waiting_background",
                             "paused"}
  /\ task \in [Tasks -> [status : TaskEnds \cup {"none", "queued", "running"},
                         deps : SUBSET Tasks, parallel : BOOLEAN, required : BOOLEAN]]
  /\ step \in [Steps -> [status : {"pending", "active", "blocked", "done", "skipped"},
                         by : Tasks \cup {0}]]
  /\ results \in Seq([holds : SUBSET Tasks, lease : {"none", "held", "late", "left"}])
  /\ unnotified \subseteq Tasks /\ started \subseteq Tasks /\ again \subseteq Tasks
  /\ owed \subseteq Tasks
  /\ local \in [Tasks -> {"none", "started", "executing", "stopping", "settled", "done"}]
  /\ taskWake \in BOOLEAN
  /\ consumer \in [on : BOOLEAN, saw : SUBSET Tasks, evidence : BOOLEAN]
  /\ planner \in {"none", "held", "left"}
  /\ planRestarts \in 0 .. MaxPlanRestarts

PlansInit ==
  /\ plan = "active"
  /\ task = [k \in Tasks |-> NoTask]
  /\ step = [s \in Steps |-> [status |-> "pending", by |-> 0]]
  /\ results = <<>> /\ unnotified = {} /\ owed = {}
  /\ local = [k \in Tasks |-> "none"]
  /\ taskWake = FALSE /\ consumer = NoConsumer /\ planner = "none"
  /\ planRestarts = 0 /\ started = {} /\ again = {}

(***************************************************************************)
(* Tasks.                                                                  *)
(***************************************************************************)
Created == {k \in Tasks : task[k].status # "none"}
WithStatus(S) == {k \in Tasks : task[k].status \in S}
Unfinished == WithStatus({"queued", "running"})
Ready(D) == D \subseteq WithStatus({"completed"})

\* list_runnable_background_tasks
Runnable == {k \in WithStatus({"queued"}) : Ready(task[k].deps)}

New(k) == k \notin Created /\ \A j \in Tasks : j < k => j \in Created

StepReady(s) == \A r \in StepDeps[s] : step[r].status \in {"done", "skipped"}

\* The step of a new task, when it has one, is active and carried out by it.
GivesStep(k) ==
  \/ UNCHANGED step
  \/ \E s \in Steps : /\ step[s].status = "pending" /\ StepReady(s)
                      /\ step' = [step EXCEPT ![s] = [status |-> "active", by |-> k]]

\* delegate_background, and runner.start of the tool.
Delegate(k, D, kind) ==
  LET busy == WithStatus({"running"}) \cup Runnable IN
  /\ New(k) /\ D \subseteq Created
  /\ D \cap WithStatus({"failed", "cancelled", "needs_input"}) = {}
  /\ Ready(D) => Cardinality(busy) < (IF kind.parallel THEN MaxRunning ELSE 1)
  /\ GivesStep(k)
  /\ plan' = "waiting_background"
  /\ task' = [task EXCEPT ![k] = [status |-> "queued", deps |-> D,
       parallel |-> kind.parallel, required |-> kind.required]]
  /\ local' = [local EXCEPT ![k] = "started"]
  /\ UNCHANGED <<results, unnotified, taskWake, turnVars, planRestarts, seen, owed>>

\* retry_background: a new task for the same step; dependencies are dropped.
Retry(k, previous) ==
  /\ New(k) /\ task[previous].status \in {"failed", "needs_input", "interrupted"}
  /\ Unfinished = {}
  /\ plan' = "waiting_background"
  /\ task' = [task EXCEPT ![k] = [task[previous] EXCEPT !.status = "queued", !.deps = {}]]
  /\ step' = [s \in Steps |-> IF step[s].by = previous
                              THEN [status |-> "active", by |-> k] ELSE step[s]]
  /\ local' = [local EXCEPT ![k] = "started"]
  /\ UNCHANGED <<results, unnotified, taskWake, turnVars, planRestarts, seen, owed>>

\* The same call once more finds the intent: only runner.start is repeated.
RepeatCall(k) ==
  /\ k \in Created /\ local[k] \in {"none", "done"}
  /\ local' = [local EXCEPT ![k] = "started"]
  /\ UNCHANGED <<rows, taskWake, turnVars, planRestarts, seen>>

Claimable(k) ==
  LET running == WithStatus({"running"}) IN
  /\ k \in Runnable
  /\ IF task[k].parallel THEN Cardinality(running) < MaxRunning ELSE running = {}

\* run() begins: claim_background_task, and the executor is called.
ClaimTask(k) ==
  /\ local[k] = "started"
  /\ \/ /\ Claimable(k)
        /\ task' = [task EXCEPT ![k].status = "running"]
        /\ local' = [local EXCEPT ![k] = "executing"]
        /\ started' = started \cup {k}
        /\ again' = again \cup (started \cap {k})
     \/ /\ ~Claimable(k)
        /\ local' = [local EXCEPT ![k] = "done"]
        /\ UNCHANGED <<task, seen>>
  /\ UNCHANGED <<plan, step, results, unnotified, owed, taskWake, turnVars, planRestarts>>

(***************************************************************************)
(* Results: settle_background_task.                                        *)
(***************************************************************************)
\* Rows a consumer does not hold, or whose lease ran out, may be merged into.
Mergeable == {i \in DOMAIN results : results[i].lease \in {"none", "late"}}
Oldest(I) == CHOOSE i \in I : \A j \in I : i <= j
WithoutRow(i) == SubSeq(results, 1, i - 1) \o SubSeq(results, i + 1, Len(results))

\* A merged row is the newest one, and keeps its lease.
Enqueued(k) ==
  IF Len(results) < MaxPending \/ Mergeable = {}
  THEN Append(results, [holds |-> {k}, lease |-> "none"])
  ELSE LET i == Oldest(Mergeable) IN
       Append(WithoutRow(i), [holds |-> results[i].holds \cup {k}, lease |-> results[i].lease])

\* Mutant of StepEnd: the status of the task is written to its step.
StepEndOutcome == [o \in {"completed", "failed", "needs_input"} |-> o]

\* The step of an ended task, if it is still active, ends with it.
StepEnd == [completed |-> "done", failed |-> "blocked", needs_input |-> "blocked"]

\* Only queued tasks that depend on it directly are cancelled with it.
Blocked(k, outcome) ==
  IF outcome = "completed" THEN {} ELSE {c \in WithStatus({"queued"}) : k \in task[c].deps}

\* Mutant of Current: the result is written whatever became of the task.
CurrentAlways(k) == TRUE

Current(k) == task[k].status = "running"

TaskSettles(k, outcome) ==
  LET blocked == Blocked(k, outcome) IN
  /\ task' = [c \in Tasks |-> IF c = k THEN [task[c] EXCEPT !.status = outcome]
                              ELSE IF c \in blocked THEN [task[c] EXCEPT !.status = "cancelled"]
                              ELSE task[c]]
  /\ step' = [s \in Steps |->
       IF step[s].status # "active" THEN step[s]
       ELSE IF step[s].by = k THEN [step[s] EXCEPT !.status = StepEnd[outcome]]
       ELSE IF step[s].by \in blocked THEN [step[s] EXCEPT !.status = "skipped"]
       ELSE step[s]]
  /\ plan' = IF plan \in PlanEnds \/ outcome = "completed" THEN plan
             ELSE IF outcome = "needs_input" THEN "waiting_user" ELSE "paused"
  /\ results' = Enqueued(k)
  /\ owed' = owed \cup {k}
  /\ unnotified' = unnotified \cup {k}
  /\ local' = [local EXCEPT ![k] = "settled"]

\* The executor returns, fails, or was cut off and returns all the same.
SettleTask(k, outcome) ==
  /\ local[k] \in {"executing", "stopping"}
  /\ \/ Current(k) /\ TaskSettles(k, outcome)
     \/ /\ ~Current(k)
        /\ local' = [local EXCEPT ![k] = "done"]
        /\ UNCHANGED rows
  /\ UNCHANGED <<taskWake, turnVars, planRestarts, seen>>

CutOff(k) ==
  /\ local[k] = "stopping"
  /\ local' = [local EXCEPT ![k] = "done"]
  /\ UNCHANGED <<rows, taskWake, turnVars, planRestarts, seen>>

\* _notify_result and _start_newly_runnable.  An asyncio task that has ended
\* is in _active_by_task_id until its callback has run.
Notify(k, accepted) ==
  /\ local[k] = "settled"
  /\ IF accepted THEN taskWake' = TRUE /\ unnotified' = unnotified \ {k}
                 ELSE UNCHANGED <<taskWake, unnotified>>
  /\ local' = [c \in Tasks |-> IF c = k THEN "done"
                               ELSE IF c \in Runnable /\ local[c] = "none" THEN "started"
                               ELSE local[c]]
  /\ UNCHANGED <<plan, task, step, results, owed, turnVars, planRestarts, seen>>

Forget(k) ==
  /\ local[k] = "done"
  /\ local' = [local EXCEPT ![k] = "none"]
  /\ UNCHANGED <<rows, taskWake, turnVars, planRestarts, seen>>

(***************************************************************************)
(* The plan: transition, cancel_plan, reopen; its steps: update_step.      *)
(***************************************************************************)
MovesTo(status) ==
  /\ plan' = status
  /\ UNCHANGED <<task, step, results, unnotified, local, owed, taskWake, turnVars, planRestarts, seen>>

Pause == plan \in {"active", "waiting_user", "waiting_background"} /\ MovesTo("paused")
Activate == plan \in {"queued", "waiting_user", "waiting_background", "paused"} /\ MovesTo("active")
Reopen == plan \in PlanEnds /\ MovesTo("queued")

\* required_tasks_complete and tasks_settled_for_completion
MayComplete ==
  /\ \A k \in Tasks : task[k].required => task[k].status \in {"completed", "cancelled"}
  /\ Unfinished = {}

CompletePlan == plan = "active" /\ MayComplete /\ MovesTo("completed")

\* cancel_plan of the store, and then of the runner.
CancelPlan ==
  /\ plan \notin PlanEnds
  /\ plan' = "cancelled"
  /\ task' = [k \in Tasks |-> IF k \in Unfinished THEN [task[k] EXCEPT !.status = "cancelled"]
                              ELSE task[k]]
  /\ step' = [s \in Steps |-> IF step[s].status = "done" THEN step[s]
                              ELSE [step[s] EXCEPT !.status = "skipped"]]
  /\ local' = [k \in Tasks |-> IF local[k] = "started" THEN "done"
                               ELSE IF local[k] = "executing" THEN "stopping"
                               ELSE local[k]]
  /\ UNCHANGED <<results, unnotified, owed, taskWake, turnVars, planRestarts, seen>>

StepMoves ==
  [pending |-> {"active", "blocked", "done", "skipped"},
   active |-> {"blocked", "done", "skipped"},
   blocked |-> {"active", "skipped"},
   done |-> {}, skipped |-> {}]

MayMark(s, to) ==
  /\ to \in {"active", "done"} => StepReady(s)
  /\ to = "done" /\ step[s].by # 0 => task[step[s].by].status = "completed"

UpdateStep(s, to) ==
  /\ to \in StepMoves[step[s].status]
  /\ MayMark(s, to)
  /\ step' = [step EXCEPT ![s].status = to]
  /\ UNCHANGED <<plan, task, results, unnotified, local, owed, taskWake, turnVars, planRestarts, seen>>

(***************************************************************************)
(* The consumer of results: a wake turn (wake_runner.py).                *)
(***************************************************************************)
\* claim_wake_inbox: the oldest rows that nobody leases.  A planner lease
\* that an earlier process left behind, or an empty inbox, drops the wake.
ToClaim ==
  LET free == {i \in DOMAIN results : results[i].lease = "none"} IN
  {i \in free : Cardinality({j \in free : j < i}) < InboxLimit}

Claims ==
  /\ planner = "none" /\ ToClaim # {}
  /\ results' = [i \in DOMAIN results |-> IF i \in ToClaim THEN [results[i] EXCEPT !.lease = "held"]
                                      ELSE results[i]]
  /\ consumer' = [on |-> TRUE, saw |-> UNION {results[i].holds : i \in ToClaim},
                  evidence |-> FALSE]
  /\ planner' = "held"

ClaimWakeInbox ==
  /\ taskWake /\ ~consumer.on
  /\ taskWake' = FALSE
  /\ \/ Claims
     \/ (planner # "none" \/ ToClaim = {}) /\ UNCHANGED <<results, turnVars>>
  /\ UNCHANGED <<plan, task, step, unnotified, local, owed, planRestarts, seen>>

\* A tool call of the turn writes the plan: the evidence, and the planner's
\* lease begins anew.
RecordEvidence ==
  /\ consumer.on /\ planner = "held"
  /\ consumer' = [consumer EXCEPT !.evidence = TRUE]
  /\ UNCHANGED <<rows, local, taskWake, planner, planRestarts, seen>>

\* The turn takes longer than its leases: the rows' lease runs out, and the
\* planner's with it unless it began anew.
LeaseRunsOut ==
  /\ LongTurns /\ consumer.on
  /\ \E i \in DOMAIN results : results[i].lease = "held"
  /\ results' = [i \in DOMAIN results |-> IF results[i].lease = "held"
                                      THEN [results[i] EXCEPT !.lease = "late"] ELSE results[i]]
  /\ planner' \in {planner, "none"}
  /\ UNCHANGED <<plan, task, step, unnotified, local, owed, taskWake, consumer,
                 planRestarts, seen>>

HeldRow(r) == r.lease \in {"held", "late"}
ReleasedRows == [i \in DOMAIN results |-> IF HeldRow(results[i]) THEN [results[i] EXCEPT !.lease = "none"]
                                        ELSE results[i]]

\* Mutant of MayAcknowledge: a turn that said nothing acknowledges.
MayAcknowledgeMute == TRUE

MayAcknowledge == consumer.evidence

\* The reply was delivered and the turn left evidence: its rows are deleted.
Acknowledge ==
  /\ consumer.on /\ MayAcknowledge
  /\ results' = Rejecting(results, {r \in ToSet(results) : HeldRow(r)})
  /\ owed' = IF consumer.evidence THEN owed \ consumer.saw ELSE owed
  /\ consumer' = NoConsumer /\ planner' = "none"
  /\ UNCHANGED <<plan, task, step, unnotified, local, taskWake, planRestarts, seen>>

\* The turn or its delivery failed, or it left no evidence: the rows are
\* released and the coalescer merges the wake again.
ConsumerFails ==
  /\ consumer.on
  /\ results' = ReleasedRows
  /\ consumer' = NoConsumer /\ planner' = "none"
  /\ taskWake' = TRUE
  /\ UNCHANGED <<plan, task, step, unnotified, local, owed, planRestarts, seen>>

\* The lease of a process that is gone runs out.
LeftLeaseEnds ==
  /\ planner = "left" \/ \E i \in DOMAIN results : results[i].lease = "left"
  /\ planner' = IF planner = "left" THEN "none" ELSE planner
  /\ results' = [i \in DOMAIN results |-> IF results[i].lease = "left"
                                      THEN [results[i] EXCEPT !.lease = "none"] ELSE results[i]]
  /\ UNCHANGED <<plan, task, step, unnotified, local, owed, taskWake, consumer,
                 planRestarts, seen>>

(***************************************************************************)
(* A restart: reconcile, then resume.  What ran is interrupted, and every  *)
(* plan with an interrupted task is paused.  Leases are left behind unless *)
(* the process stopped in order or they ran out meanwhile.                 *)
(***************************************************************************)
\* Mutant of Reconciled: what ran is left as it was.
ReconciledNot == task

Reconciled == [k \in Tasks |-> IF task[k].status = "running"
                               THEN [task[k] EXCEPT !.status = "interrupted"] ELSE task[k]]

PlanRestart ==
  LET interrupted == \E k \in Tasks : Reconciled[k].status = "interrupted"
      after == {k \in Tasks : /\ Reconciled[k].status = "queued"
                              /\ \A d \in Reconciled[k].deps : Reconciled[d].status = "completed"}
  IN
  /\ planRestarts < MaxPlanRestarts
  /\ planRestarts' = planRestarts + 1
  /\ task' = Reconciled
  /\ plan' \in IF interrupted /\ plan \notin PlanEnds THEN {"paused"}
               ELSE {plan} \cup (IF plan = "waiting_user" THEN {"paused"} ELSE {})
  /\ local' = [k \in Tasks |-> IF k \in after THEN "started" ELSE "none"]
  /\ \E left \in BOOLEAN :
       /\ results' = [i \in DOMAIN results |->
            IF HeldRow(results[i])
            THEN [results[i] EXCEPT !.lease = IF left /\ @ = "held" THEN "left" ELSE "none"]
            ELSE results[i]]
       /\ planner' = IF left /\ planner = "held" THEN "left" ELSE "none"
  /\ \* pending notifications, then the rows that nobody leases
     taskWake' = (unnotified # {} \/ \E i \in DOMAIN results : results'[i].lease = "none")
  /\ unnotified' = {}
  /\ consumer' = NoConsumer
  /\ UNCHANGED <<step, owed, seen>>

(***************************************************************************)
(* The specification.                                                      *)
(***************************************************************************)
RunnerMoves(k) ==
  \/ ClaimTask(k) \/ CutOff(k) \/ Forget(k) \/ RepeatCall(k)
  \/ \E outcome \in {"completed", "failed", "needs_input"} : SettleTask(k, outcome)
  \/ \E accepted \in BOOLEAN : Notify(k, accepted)

PlannerMoves ==
  \/ \E k \in Tasks, D \in SUBSET Tasks, kind \in TaskKinds : Delegate(k, D, kind)
  \/ \E k, previous \in Tasks : Retry(k, previous)
  \/ Pause \/ Activate \/ Reopen \/ CompletePlan \/ CancelPlan
  \/ \E s \in Steps, to \in {"active", "blocked", "done", "skipped"} : UpdateStep(s, to)

ConsumerMoves ==
  \/ ClaimWakeInbox \/ RecordEvidence \/ LeaseRunsOut \/ Acknowledge \/ ConsumerFails
  \/ LeftLeaseEnds

PlansNext ==
  \/ \E k \in Tasks : RunnerMoves(k)
  \/ PlannerMoves
  \/ ConsumerMoves
  \/ PlanRestart

PlansSpec == PlansInit /\ [][PlansNext]_plansVars

(***************************************************************************)
(* Properties.                                                             *)
(***************************************************************************)
\* A plan that has ended has no work left: none of its tasks is queued or
\* running, and whatever its runner still executes cannot write a result.
EndedPlanIsQuiet ==
  plan \in PlanEnds =>
    /\ Unfinished = {}
    /\ \A k \in Tasks : local[k] # "executing"

\* The outcome of a task is decided once: no late result, cancellation,
\* retry or restart changes it.
OutcomeFinal ==
  [][\A k \in Tasks : task[k].status \in TaskEnds => task'[k].status = task[k].status]_plansVars

\* No task is carried out twice, whatever is repeated or restarted
\* (retry_background: "without replaying old execution").
CarriedOutOnce == again = {}

\* A task that the database says is running is executed by this process.
RunningIsExecuted ==
  \A k \in Tasks : task[k].status = "running" <=> local[k] = "executing"

\* A step that is done was carried out: its task completed, and the steps it
\* depends on are done or were skipped, unless a background task has one of
\* them: retry_background carries out a skipped step anew, whatever was done
\* on the strength of it.
DoneStepWasDone ==
  \A s \in Steps : step[s].status = "done" =>
    /\ step[s].by # 0 => task[step[s].by].status = "completed"
    /\ \A r \in StepDeps[s] : step[r].status \in {"done", "skipped"} \/ step[r].by # 0

\* What the rows of a plan say of its work is what has happened to it.
RowsTellTruth == EndedPlanIsQuiet /\ CarriedOutOnce /\ RunningIsExecuted /\ DoneStepWasDone

\* A result is in the inbox until a consumer that saw it acknowledged it.
ResultsKept == owed \subseteq UNION {results[i].holds : i \in DOMAIN results}

\* test_chat_agent_plan.py:302 and the conflict "background dependency is
\* terminal": nothing waits for a task that will not complete.
NothingStranded ==
  \A k \in WithStatus({"queued"}) : task[k].deps \subseteq WithStatus({"queued", "running", "completed"})
=============================================================================
