------------------------------- MODULE Wakes -------------------------------
(***************************************************************************)
(* Waking the agent of one session: the queue of system events             *)
(* (core/engine/system_events.py), the coalescer of wake requests          *)
(* (core/tasks/wake_coalescer.py) and the runner of a wake                 *)
(* (core/tasks/wake_runner.py, preflight.py).                              *)
(*                                                                         *)
(* Requests are merged per target until a timer starts a drain, which      *)
(* calls the runner for one wake after the other; the timer may start a    *)
(* second drain while the first still waits for a turn.  A wake leases the *)
(* session's events when its prompt is built and commits or releases them  *)
(* at its end; a user turn of the session shows the events as well.        *)
(*                                                                         *)
(* Delays are abstracted to a timer that is set or not.  All of it is      *)
(* memory of one process: nothing survives a restart.                      *)
(***************************************************************************)
EXTENDS Integers, FiniteSets, Sequences, SequencesExt, QueueFilter

CONSTANTS
  WakeRequests, \* calls of request_wake
  WakeSource,   \* WakeSource[r]: "exec", "cron" or "task"
  WakePriority, \* WakePriority[r]: rank of the intent, the lowest wins
  Drains,       \* drains that may overlap (bound of the model)
  ManualWake,   \* a caller of execute_immediate, not a drain
  SysEvents,    \* events, each enqueued once
  EventContext, \* EventContext[e]: context_key; an equal one is replaced
  HeartbeatOnly,\* events a user turn neither shows nor drains
  MaxEvents     \* MAX_EVENTS

ASSUME WakesAssumption ==
  /\ WakeSource \in [WakeRequests -> {"exec", "cron", "task"}]
  /\ WakePriority \in [WakeRequests -> Nat]
  /\ ManualWake \notin Drains
  /\ HeartbeatOnly \subseteq SysEvents
  /\ MaxEvents \in Nat \ {0}

VARIABLES
  requested, \* the requests made so far
  pending,   \* _pending: the merged wake of each target
  timer,     \* _timer is armed
  runner,    \* what each drain, and the manual caller, is doing
  enqueued,  \* the events enqueued so far
  events,    \* the session's queue
  evLease,     \* the session's lease
  userTurn,  \* the events a running user turn has shown
  answered,  \* history: requests whose wake ran or was skipped for good
  served,    \* history: events in the prompt of a turn that succeeded
  displaced  \* history: events overwritten or pushed out

wakesVars == <<requested, pending, timer, runner, enqueued, events, evLease,
               userTurn, answered, served, displaced>>

Targets == {"plain", "plan"}
WakeRunners == Drains \cup {ManualWake}

\* A wake: the request that leads it, the exec prompts it carries, and every
\* request that was merged into it.
NoWake == [lead |-> {}, prompts |-> {}, parts |-> {}]
WakeOf(r) == [lead |-> {r},
              prompts |-> IF WakeSource[r] = "exec" THEN {r} ELSE {},
              parts |-> {r}]
TargetOf(r) == IF WakeSource[r] = "task" THEN "plan" ELSE "plain"
Rests == [pc |-> "idle", batch |-> {}, cur |-> NoWake, retry |-> FALSE]
NoEvents == [owner |-> {}, held |-> {}]
NoUser == [on |-> FALSE, seen |-> {}]

WakeType == [lead : SUBSET WakeRequests, prompts : SUBSET WakeRequests,
             parts : SUBSET WakeRequests]

WakesTypeOK ==
  /\ requested \subseteq WakeRequests
  /\ pending \in [Targets -> WakeType]
  /\ timer \in BOOLEAN
  /\ runner \in [WakeRunners ->
       [pc : {"idle", "next", "build", "turn"}, batch : SUBSET WakeType,
        cur : WakeType, retry : BOOLEAN]]
  /\ enqueued \subseteq SysEvents
  /\ events \in Seq(SysEvents) /\ Len(events) <= MaxEvents
  /\ evLease \in [owner : SUBSET WakeRunners, held : SUBSET SysEvents]
  /\ userTurn \in [on : BOOLEAN, seen : SUBSET SysEvents]
  /\ answered \subseteq WakeRequests
  /\ served \subseteq SysEvents
  /\ displaced \subseteq SysEvents

WakesInit ==
  /\ requested = {}
  /\ pending = [t \in Targets |-> NoWake]
  /\ timer = FALSE
  /\ runner = [d \in WakeRunners |-> Rests]
  /\ enqueued = {}
  /\ events = <<>>
  /\ evLease = NoEvents
  /\ userTurn = NoUser
  /\ answered = {}
  /\ served = {}
  /\ displaced = {}

(***************************************************************************)
(* The queue of events.                                                    *)
(***************************************************************************)
\* An event of the same context is overwritten in its place; the oldest event
\* is pushed out of a full queue.
EnqueueEvent(e) ==
  LET same == {i \in DOMAIN events : EventContext[events[i]] = EventContext[e]}
      grown == Append(events, e)
  IN /\ e \notin enqueued
     /\ enqueued' = enqueued \cup {e}
     /\ \/ \E i \in same :
             /\ events' = [events EXCEPT ![i] = e]
             /\ displaced' = displaced \cup {events[i]}
        \/ /\ same = {}
           /\ events' = IF Len(grown) > MaxEvents THEN Tail(grown) ELSE grown
           /\ displaced' = displaced \cup (ToSet(grown) \ ToSet(events'))
     /\ UNCHANGED <<requested, pending, timer, runner, evLease, userTurn, answered, served>>

\* Mutant of Committed: the queue is emptied, as drain does.
CommittedAll(d) == IF evLease.owner = {d} THEN <<>> ELSE events

\* consume_snapshot: the owner removes what it claimed and nothing else.
Committed(d) == IF evLease.owner = {d} THEN Rejecting(events, evLease.held) ELSE events

\* drain_non_heartbeat at the end of a user turn.
Drained == IF evLease.owner # {} THEN events
           ELSE Rejecting(events, userTurn.seen \ HeartbeatOnly)

(***************************************************************************)
(* User turns of the session.                                              *)
(***************************************************************************)
UserStarts ==
  /\ ~userTurn.on
  /\ userTurn' = [on |-> TRUE, seen |-> ToSet(events) \ HeartbeatOnly]
  /\ UNCHANGED <<requested, pending, timer, runner, enqueued, events, evLease,
                 answered, served, displaced>>

UserSucceeds ==
  /\ userTurn.on
  /\ userTurn' = NoUser
  /\ served' = served \cup userTurn.seen
  /\ events' = Drained
  /\ UNCHANGED <<requested, pending, timer, runner, enqueued, evLease, answered, displaced>>

UserFails ==
  /\ userTurn.on
  /\ userTurn' = NoUser
  /\ UNCHANGED <<requested, pending, timer, runner, enqueued, events, evLease,
                 answered, served, displaced>>

(***************************************************************************)
(* Requests: _merge_pending and _schedule.                                 *)
(***************************************************************************)
\* The newer wake leads unless the older one has a higher priority; exec
\* prompts are joined, into the newer one, when one of the two leads is exec.
Merged(old, new) ==
  LET exec == \E r \in old.lead \cup new.lead : WakeSource[r] = "exec"
      newer == [lead |-> new.lead,
                prompts |-> IF exec THEN old.prompts \cup new.prompts ELSE new.prompts,
                parts |-> old.parts \cup new.parts]
  IN IF old = NoWake THEN new
     ELSE IF \A n \in new.lead, o \in old.lead : WakePriority[n] <= WakePriority[o]
     THEN newer
     ELSE [lead |-> old.lead, prompts |-> old.prompts,
           parts |-> old.parts \cup new.parts]

TargetOfWake(w) == CHOOSE t \in Targets : \A r \in w.lead : TargetOf(r) = t
Merge(w) == pending' = [pending EXCEPT ![TargetOfWake(w)] = Merged(@, w)]

RequestWake(r) ==
  /\ r \notin requested
  /\ requested' = requested \cup {r}
  /\ Merge(WakeOf(r))
  /\ timer' = TRUE
  /\ UNCHANGED <<runner, enqueued, events, evLease, userTurn, answered, served, displaced>>

(***************************************************************************)
(* A drain: _drain_pending, started by the timer.                          *)
(***************************************************************************)
StartDrain(d) ==
  /\ timer
  /\ runner[d].pc = "idle"
  /\ timer' = FALSE
  /\ runner' = [runner EXCEPT ![d] =
       [pc |-> "next", batch |-> {pending[t] : t \in Targets} \ {NoWake},
        cur |-> NoWake, retry |-> FALSE]]
  /\ pending' = [t \in Targets |-> NoWake]
  /\ UNCHANGED <<requested, enqueued, events, evLease, userTurn, answered, served, displaced>>

\* The drain goes on to its next wake; the manual caller is done.
Proceed(d, retry) ==
  IF d = ManualWake THEN Rests
  ELSE [pc |-> "next", batch |-> runner[d].batch, cur |-> NoWake,
        retry |-> runner[d].retry \/ retry]

EndDrain(d) ==
  /\ runner[d].pc = "next" /\ runner[d].batch = {}
  /\ runner' = [runner EXCEPT ![d] = Rests]
  /\ timer' = (timer \/ (~runner[d].retry /\ \E t \in Targets : pending[t] # NoWake))
  /\ UNCHANGED <<requested, pending, enqueued, events, evLease, userTurn, answered,
                 served, displaced>>

\* The wake w of d is over: it ran, or it was skipped for good.
AnswersWake(d, w) ==
  /\ answered' = answered \cup w.parts
  /\ UNCHANGED <<pending, timer>>

\* Mutant of Retries: the timer is left to the end of the drain.
RetriesLater(d, w) ==
  /\ Merge(w)
  /\ UNCHANGED <<timer, answered>>

\* An exception, or a reason to skip that will pass: the wake is merged back.
\* The caller of execute_immediate gets the answer instead.
Retries(d, w) ==
  IF d = ManualWake THEN UNCHANGED <<pending, timer, answered>>
  ELSE Merge(w) /\ timer' = TRUE /\ UNCHANGED answered

(***************************************************************************)
(* The runner: WakeRunner.__call__ and _run.                               *)
(***************************************************************************)
Active(d) == runner[d].pc \in {"build", "turn"}

\* Mutant of SessionActive: other wakes of the session do not count.
SessionActiveUser(d) == userTurn.on

SessionActive(d) == userTurn.on \/ \E o \in WakeRunners \ {d} : Active(o)

\* The wakes d can hand to the runner next; a manual wake has no request.
Offered(d) == IF d = ManualWake
              THEN IF runner[d].pc = "idle" THEN {NoWake} ELSE {}
              ELSE IF runner[d].pc = "next" THEN runner[d].batch ELSE {}

\* run_preflight finds the session busy.
SkipBusy(d, w) ==
  /\ w \in Offered(d)
  /\ SessionActive(d)
  /\ runner' = [runner EXCEPT ![d] =
       [Proceed(d, TRUE) EXCEPT !.batch = @ \ {w}]]
  /\ Retries(d, w)
  /\ UNCHANGED <<requested, enqueued, events, evLease, userTurn, served, displaced>>

\* Quiet hours, cooldown, nothing to do: the wake is dropped.
SkipForGood(d, w) ==
  /\ w \in Offered(d)
  /\ runner' = [runner EXCEPT ![d] =
       [Proceed(d, FALSE) EXCEPT !.batch = @ \ {w}]]
  /\ AnswersWake(d, w)
  /\ UNCHANGED <<requested, enqueued, events, evLease, userTurn, served, displaced>>

PassPreflight(d, w) ==
  /\ w \in Offered(d)
  /\ ~SessionActive(d)
  /\ runner' = [runner EXCEPT ![d] =
       [pc |-> "build", batch |-> @.batch \ {w}, cur |-> w, retry |-> @.retry]]
  /\ UNCHANGED <<requested, pending, timer, enqueued, events, evLease, userTurn,
                 answered, served, displaced>>

\* A background-task wake whose work plan has nothing in its inbox.
NothingInInbox(d) ==
  /\ runner[d].pc = "build"
  /\ runner[d].cur.lead \subseteq {r \in WakeRequests : WakeSource[r] = "task"}
  /\ d # ManualWake
  /\ runner' = [runner EXCEPT ![d] = Proceed(d, FALSE)]
  /\ AnswersWake(d, runner[d].cur)
  /\ UNCHANGED <<requested, enqueued, events, evLease, userTurn, served, displaced>>

\* The prompt is built: claim_snapshot leases the queue, if there is anything.
\* It would raise SystemEventBusy if another wake held the lease: OneWakeOf-
\* Session says that none does.
ClaimEvents(d) ==
  /\ runner[d].pc = "build"
  /\ evLease.owner = {}
  /\ evLease' = IF events = <<>> THEN NoEvents ELSE [owner |-> {d}, held |-> ToSet(events)]
  /\ runner' = [runner EXCEPT ![d].pc = "turn"]
  /\ UNCHANGED <<requested, pending, timer, enqueued, events, userTurn, answered,
                 served, displaced>>

\* release_snapshot_for_session, whoever owns the lease.
Released == NoEvents

\* The prompt, the turn or the delivery fails: the events stay in the queue.
WakeFails(d) ==
  /\ Active(d)
  /\ evLease' = Released
  /\ runner' = [runner EXCEPT ![d] = Proceed(d, TRUE)]
  /\ Retries(d, runner[d].cur)
  /\ UNCHANGED <<requested, enqueued, events, userTurn, served, displaced>>

\* The caller of execute_immediate is cancelled.
ManualCancelled ==
  /\ Active(ManualWake)
  /\ evLease' = Released
  /\ runner' = [runner EXCEPT ![ManualWake] = Rests]
  /\ UNCHANGED <<requested, pending, timer, enqueued, events, userTurn, answered,
                 served, displaced>>

\* Turn and delivery succeed: the snapshot is consumed.
Consumes(d) ==
  /\ runner[d].pc = "turn"
  /\ served' = served \cup (IF evLease.owner = {d} THEN evLease.held ELSE {})
  /\ events' = Committed(d)
  /\ evLease' = IF evLease.owner = {d} THEN NoEvents ELSE evLease
  /\ UNCHANGED <<requested, enqueued, userTurn, displaced>>

WakeSucceeds(d) ==
  /\ Consumes(d)
  /\ runner' = [runner EXCEPT ![d] = Proceed(d, FALSE)]
  /\ AnswersWake(d, runner[d].cur)

\* The consumer of a work plan acknowledged nothing: the events are consumed,
\* the wake comes again.
Unacknowledged(d) ==
  /\ Consumes(d)
  /\ d # ManualWake
  /\ \A r \in runner[d].cur.lead : WakeSource[r] = "task"
  /\ runner' = [runner EXCEPT ![d] = Proceed(d, TRUE)]
  /\ Retries(d, runner[d].cur)

Preflight(d) == \E w \in Offered(d) :
  SkipBusy(d, w) \/ SkipForGood(d, w) \/ PassPreflight(d, w)
Building(d) == ClaimEvents(d) \/ NothingInInbox(d)
WakeEnds(d) == WakeFails(d) \/ WakeSucceeds(d) \/ Unacknowledged(d)

WakesNext ==
  \/ \E e \in SysEvents : EnqueueEvent(e)
  \/ UserStarts \/ UserSucceeds \/ UserFails
  \/ \E r \in WakeRequests : RequestWake(r)
  \/ \E d \in Drains : StartDrain(d) \/ EndDrain(d)
  \/ \E d \in WakeRunners : Preflight(d) \/ Building(d) \/ WakeEnds(d)
  \/ ManualCancelled

WakesSpec == WakesInit /\ [][WakesNext]_wakesVars

(***************************************************************************)
(* Timers fire, loops go on, every turn ends, by its timeout at the        *)
(* latest, and a wake that is tried again and again finds the session idle *)
(* and does not fail every time.                                           *)
(***************************************************************************)
WakesFairness ==
  /\ WF_wakesVars(UserSucceeds \/ UserFails)
  /\ WF_wakesVars(\E d \in Drains : StartDrain(d))
  /\ \A d \in WakeRunners : WF_wakesVars(Building(d)) /\ WF_wakesVars(WakeEnds(d))
  /\ \A d \in Drains :
       /\ WF_wakesVars(EndDrain(d) \/ Preflight(d))
  /\ \A r \in WakeRequests :
       /\ SF_wakesVars(\E d \in Drains : \E w \in Offered(d) :
                         r \in w.parts /\ (PassPreflight(d, w) \/ SkipForGood(d, w)))
       /\ SF_wakesVars(\E d \in Drains : r \in runner[d].cur.parts /\ ClaimEvents(d))
       /\ SF_wakesVars(\E d \in Drains : r \in runner[d].cur.parts /\ WakeSucceeds(d))

(***************************************************************************)
(* Properties.                                                             *)
(***************************************************************************)
\* An event leaves the queue only when it was in the prompt of a turn that
\* succeeded or a newer event displaced it: no failure, no concurrent turn
\* and no event that arrives during a wake takes it away.
EventsKept == enqueued \subseteq ToSet(events) \cup served \cup displaced

\* Overlapping drains and manual calls never run two wakes of the session at
\* once, and a lease belongs to a turn under way: otherwise every later wake
\* of the session would find the events busy.
OneWakeOfSession ==
  /\ \A d, o \in WakeRunners : Active(d) /\ Active(o) => d = o
  /\ evLease.owner # {} => \E d \in WakeRunners : evLease.owner = {d} /\ runner[d].pc = "turn"

\* A merged wake never waits without a timer, whichever drain put it back.
PendingHasTimer == (\E t \in Targets : pending[t] # NoWake) => timer

\* Neither an event nor a wake is forgotten.
NothingForgotten == EventsKept /\ PendingHasTimer

\* Every requested wake is run, or skipped for good, in the end.
WakesAnswered == \A r \in WakeRequests : r \in requested ~> r \in answered

\* tests/test_wake_coalescer.py:184: exec wakes keep the notifications they
\* were merged with, until the wake was answered.
ExecPromptsKept ==
  \A r \in requested \ answered : WakeSource[r] = "exec" =>
    \E w \in {pending[t] : t \in Targets}
             \cup UNION {runner[d].batch \cup {runner[d].cur} : d \in Drains} :
      r \in w.prompts
=============================================================================
