---------------------------- MODULE MCBackground ----------------------------
(***************************************************************************)
(* TLC instance of the components that work without a user's message and   *)
(* share no state with each other: the wakes of a session, a work plan,    *)
(* timed jobs, the archive of a chat, whose steps fail or whose process     *)
(* restarts, and the transcript of a private conversation.  A behaviour is *)
(* one of the component it starts with.                                    *)
(***************************************************************************)
EXTENDS Wakes, WorkPlans, CronJobs, Archive, ModelContext

CONSTANTS
  Parts,     \* the components the run explores
  MaxAsked,  \* bound: wakes requested and events enqueued, together
  MaxTimes   \* bound: times of jobs that are reached and reboots, together

VARIABLE part

\* The archive of a chat of two turns that is restarted and loses files.
Restarted == INSTANCE Archive WITH
  LastTurn <- 2, Days <- {2}, ScopesOf <- [t \in 1 .. 2 |-> IF t = 2 THEN Scopes ELSE {"main"}],
  MaxFailures <- 0, MaxStops <- 1, MaxLosses <- 1

backgroundVars == <<part, wakesVars, plansVars, cronVars, arcVars, contextVars>>

BackgroundInit == /\ part \in Parts /\ WakesInit /\ PlansInit /\ CronInit /\ ContextInit
                  /\ IF part = "restarted" THEN Restarted!ArcInit ELSE ArcInit

WakesMoves == /\ part = "wakes" /\ WakesNext
              /\ Cardinality(requested') + Cardinality(enqueued') <= MaxAsked
              /\ UNCHANGED <<plansVars, cronVars, arcVars, contextVars>>
\* A plan whose steps have begun is not restarted, and its results wait once
\* a step that depends on another has begun.
Dependent == {s \in Steps : StepDeps[s] # {}}
PlansMoves == /\ part = "plans" /\ PlansNext
              /\ planRestarts' = 0 \/ \A s \in Steps : step'[s].status = "pending"
              /\ \/ \A s \in Dependent : step'[s].status = "pending"
                 \/ planRestarts' = 0 /\ ~consumer'.on /\ ~taskWake'
              /\ UNCHANGED <<wakesVars, cronVars, arcVars, contextVars>>
CronMoves == /\ part = "cron" /\ CronNext
             /\ FoldFunction(+, boots', elapsed') <= MaxTimes
             /\ UNCHANGED <<wakesVars, plansVars, arcVars, contextVars>>
\* A chat in which steps fail has not yet come to its last turn.
ArchiveMoves == /\ \/ /\ part = "archive" /\ ArcNext
                      /\ mishap'.failures = 0 \/ ~Opened(LastTurn)'
                   \/ part = "restarted" /\ Restarted!ArcNext
                /\ UNCHANGED <<wakesVars, plansVars, cronVars, contextVars>>
ContextMoves == /\ part = "context" /\ ContextNext
                /\ UNCHANGED <<wakesVars, plansVars, cronVars, arcVars>>

BackgroundNext == /\ UNCHANGED part
                  /\ \/ WakesMoves \/ PlansMoves \/ CronMoves
                     \/ ArchiveMoves \/ ContextMoves

BackgroundSpec == BackgroundInit /\ [][BackgroundNext]_backgroundVars

\* Every component's variables keep their types.
BackgroundTypeOK ==
  /\ WakesTypeOK /\ PlansTypeOK /\ CronTypeOK /\ ContextTypeOK
  /\ IF part = "restarted" THEN Restarted!ArcTypeOK ELSE ArcTypeOK

\* Requests named for their sources, of one priority; two of the events
\* share a context.
MCWakeSource == [r \in WakeRequests |-> IF r = "cron2" THEN "cron" ELSE r]
MCWakePriority == [r \in WakeRequests |-> 2]
MCEventContext == [e \in SysEvents |-> IF e = "e2" THEN 2 ELSE 1]

\* Two steps, of which the second depends on the first; tasks that may run
\* together and must complete.
MCStepDeps == [s \in Steps |-> IF s = "s2" THEN {"s1"} ELSE {}]
MCTaskKinds == {[parallel |-> TRUE, required |-> TRUE]}

\* The second turn is in both transcripts.
MCScopesOf == [t \in ArcTurns |-> IF t = 2 THEN Scopes ELSE {"main"}]
=============================================================================
