-------------------------- MODULE BackgroundProofs --------------------------
(***************************************************************************)
(* Theorems about Wakes, CronJobs, WorkPlans and Archive, for any          *)
(* requests, events, jobs, tasks, steps, turns, transcripts and limits.    *)
(***************************************************************************)
EXTENDS Wakes, CronJobs, WorkPlans, Archive, QueueFilterProofs, FiniteSetTheorems

USE DEF wakesVars, cronVars, plansVars, arcVars

(***************************************************************************)
(* The wakes of a session.                                                 *)
(***************************************************************************)
RunnerType == [pc : {"idle", "next", "build", "turn"}, batch : SUBSET WakeType,
               cur : WakeType, retry : BOOLEAN]

\* A lease is held by a wake in its turn, and at most one wake is in hand.
WakesInv == WakesTypeOK /\ OneWakeOfSession /\ NothingForgotten

(***************************************************************************)
(* The queue of events.                                                    *)
(***************************************************************************)
LEMMA QueueOf ==
  ASSUME WakesTypeOK
  PROVE  /\ DOMAIN events = 1 .. Len(events) /\ Len(events) \in Nat
         /\ ToSet(events) \subseteq SysEvents
BY LenProperties, ElementOfSeq DEF WakesTypeOK, ToSet

\* Taking events out leaves the others in the queue.
LEMMA TakenOut ==
  ASSUME WakesTypeOK, NEW gone
  PROVE  /\ Rejecting(events, gone) \in Seq(SysEvents)
         /\ Len(Rejecting(events, gone)) <= MaxEvents
         /\ ToSet(Rejecting(events, gone)) = ToSet(events) \ gone
<1>1. events \in Seq(SysEvents) /\ Len(events) <= MaxEvents /\ Len(events) \in Nat
  BY QueueOf DEF WakesTypeOK
<1>2. /\ Rejecting(events, gone) \in Seq(SysEvents)
      /\ Len(Rejecting(events, gone)) <= Len(events)
      /\ ToSet(Rejecting(events, gone)) = ToSet(events) \ gone
  BY <1>1, RejectingProperties
<1>3. Len(Rejecting(events, gone)) \in Nat BY <1>2, LenProperties
<1> QED BY <1>1, <1>2, <1>3, WakesAssumption

\* An event that comes in is in the queue, and only what it displaces leaves.
LEMMA EnqueueQueue ==
  ASSUME WakesTypeOK, NEW e \in SysEvents, EnqueueEvent(e)
  PROVE  /\ events' \in Seq(SysEvents) /\ Len(events') <= MaxEvents
         /\ displaced' \subseteq SysEvents
         /\ ToSet(events) \cup {e} \cup displaced \subseteq ToSet(events') \cup displaced'
<1> DEFINE same == {i \in DOMAIN events : EventContext[events[i]] = EventContext[e]}
           grown == Append(events, e)
<1>0. /\ DOMAIN events = 1 .. Len(events) /\ Len(events) \in Nat /\ Len(events) <= MaxEvents
      /\ \A i \in 1 .. Len(events) : events[i] \in SysEvents
      /\ events \in Seq(SysEvents) /\ displaced \subseteq SysEvents
      /\ MaxEvents \in Nat \ {0}
  BY QueueOf, ElementOfSeq, WakesAssumption DEF WakesTypeOK
<1>1. CASE \E i \in same : /\ events' = [events EXCEPT ![i] = e]
                           /\ displaced' = displaced \cup {events[i]}
  <2>1. PICK i \in 1 .. Len(events) : /\ events' = [events EXCEPT ![i] = e]
                                      /\ displaced' = displaced \cup {events[i]}
    BY <1>0, <1>1
  <2>2. events' \in Seq(SysEvents) /\ Len(events') = Len(events)
        /\ \A j \in 1 .. Len(events) : events'[j] = IF j = i THEN e ELSE events[j]
    BY <1>0, <2>1, ExceptSeq
  <2>3. DOMAIN events' = 1 .. Len(events) BY <2>2, LenProperties
  <2>4. ToSet(events) \cup {e} \subseteq ToSet(events') \cup {events[i]}
    BY <1>0, <2>2, <2>3 DEF ToSet
  <2> QED BY <1>0, <2>1, <2>2, <2>4
<1>2. CASE /\ events' = IF Len(grown) > MaxEvents THEN Tail(grown) ELSE grown
           /\ displaced' = displaced \cup (ToSet(grown) \ ToSet(events'))
  <2>1. /\ grown \in Seq(SysEvents) /\ Len(grown) = Len(events) + 1
        /\ \A i \in 1 .. Len(events) : grown[i] = events[i]
        /\ grown[Len(events) + 1] = e
    BY <1>0, AppendProperties
  <2>2. DOMAIN grown = 1 .. Len(events) + 1 BY <2>1, LenProperties
  <2> HIDE DEF grown
  <2>3. ToSet(grown) = ToSet(events) \cup {e} BY <1>0, <2>1, <2>2 DEF ToSet
  <2>4. ToSet(grown) \subseteq SysEvents BY <1>0, <2>3, QueueOf
  <2>5. events' \in Seq(SysEvents) /\ Len(events') <= MaxEvents
    <3>1. CASE Len(grown) > MaxEvents
      <4>1. grown # <<>> BY <2>1, <1>0, EmptySeq
      <4>2. Tail(grown) \in Seq(SysEvents) /\ Len(Tail(grown)) = Len(grown) - 1
        BY <4>1, <2>1, HeadTailProperties
      <4> QED BY <4>2, <3>1, <1>2, <2>1, <1>0
    <3>2. CASE ~(Len(grown) > MaxEvents)
      BY <3>2, <1>2, <2>1, <1>0
    <3> QED BY <3>1, <3>2
  <2> QED BY <1>0, <1>2, <2>3, <2>4, <2>5
<1> QED BY <1>1, <1>2 DEF EnqueueEvent

(***************************************************************************)
(* Wakes and the runners' records.                                         *)
(***************************************************************************)
LEMMA WakeTypes ==
  /\ NoWake \in WakeType
  /\ \A r \in WakeRequests : WakeOf(r) \in WakeType
  /\ \A old, new \in WakeType : Merged(old, new) \in WakeType
  /\ Rests \in RunnerType
BY DEF NoWake, WakeOf, WakeType, Merged, Rests, RunnerType

\* A wake that is merged is pending, and the timer is set with it.
LEMMA MergeType ==
  ASSUME WakesTypeOK, NEW w \in WakeType, Merge(w)
  PROVE  pending' \in [Targets -> WakeType]
<1> DEFINE t == TargetOfWake(w)
<1>1. \A u \in Targets : pending[u] \in WakeType BY DEF WakesTypeOK
<1>2. pending' = [pending EXCEPT ![t] = Merged(pending[t], w)] BY DEF Merge
<1>3. \A u \in Targets : Merged(pending[u], w) \in WakeType BY <1>1, WakeTypes
<1> HIDE DEF t
<1> QED BY <1>2, <1>3 DEF WakesTypeOK

LEMMA RunnerRecords ==
  ASSUME WakesTypeOK, NEW d \in WakeRunners
  PROVE  /\ runner[d] \in RunnerType
         /\ \A retry \in BOOLEAN :
              /\ Proceed(d, retry) \in RunnerType
              /\ Proceed(d, retry).pc \notin {"build", "turn"}
         /\ \A w \in Offered(d) : w \in WakeType
<1>1. runner[d] \in RunnerType BY DEF WakesTypeOK, RunnerType
<1>2. ASSUME NEW retry \in BOOLEAN
      PROVE  /\ Proceed(d, retry) \in RunnerType
             /\ Proceed(d, retry).pc \notin {"build", "turn"}
  BY <1>1, WakeTypes DEF Proceed, RunnerType, Rests
<1>3. ASSUME NEW w \in Offered(d)
      PROVE  w \in WakeType
  BY <1>1, <1>3, WakeTypes DEF Offered, RunnerType
<1> QED BY <1>1, <1>2, <1>3

\* A wake that failed goes back with the timer set, and one that is answered
\* leaves what is pending alone.
LEMMA RetriesKeep ==
  ASSUME WakesTypeOK, PendingHasTimer, NEW d \in WakeRunners, NEW w \in WakeType,
         Retries(d, w) \/ AnswersWake(d, w)
  PROVE  /\ pending' \in [Targets -> WakeType] /\ timer' \in BOOLEAN
         /\ answered' \subseteq WakeRequests
         /\ PendingHasTimer'
<1>1. CASE AnswersWake(d, w)
  BY <1>1 DEF AnswersWake, WakesTypeOK, PendingHasTimer, WakeType
<1>2. CASE Retries(d, w)
  <2>1. CASE d = ManualWake
    BY <1>2, <2>1 DEF Retries, WakesTypeOK, PendingHasTimer
  <2>2. CASE d # ManualWake
    <3>1. Merge(w) /\ timer' = TRUE /\ answered' = answered BY <1>2, <2>2 DEF Retries
    <3> QED BY <3>1, MergeType DEF WakesTypeOK, PendingHasTimer
  <2> QED BY <2>1, <2>2
<1> QED BY <1>1, <1>2

(***************************************************************************)
(* One wake of the session.                                                *)
(***************************************************************************)
\* A step of one runner that does not make it active and leaves the lease as
\* it is, or frees it.
LEMMA Withdraws ==
  ASSUME WakesTypeOK, OneWakeOfSession, NEW d \in WakeRunners, NEW after \in RunnerType,
         runner' = [runner EXCEPT ![d] = after], after.pc \notin {"build", "turn"},
         \/ evLease' = NoEvents
         \/ evLease' = evLease /\ evLease.owner # {d}
  PROVE  OneWakeOfSession'
<1>1. \A o \in WakeRunners : runner'[o] = IF o = d THEN after ELSE runner[o]
  BY DEF WakesTypeOK
<1>2. \A o \in WakeRunners : Active(o)' => Active(o) /\ o # d
  BY <1>1 DEF Active
<1>3. \A o, p \in WakeRunners : Active(o)' /\ Active(p)' => o = p
  BY <1>2 DEF OneWakeOfSession
<1>4. ASSUME evLease'.owner # {}
      PROVE  \E o \in WakeRunners : evLease'.owner = {o} /\ runner'[o].pc = "turn"
  <2>1. evLease' = evLease /\ evLease.owner # {d} BY <1>4 DEF NoEvents
  <2>2. PICK o \in WakeRunners : evLease.owner = {o} /\ runner[o].pc = "turn"
    BY <2>1, <1>4 DEF OneWakeOfSession
  <2> QED BY <2>1, <2>2, <1>1
<1> QED BY <1>3, <1>4 DEF OneWakeOfSession

\* Only a wake in its turn holds the lease.
LEMMA OwnerInTurn ==
  ASSUME OneWakeOfSession, NEW d \in WakeRunners, runner[d].pc # "turn"
  PROVE  evLease.owner # {d}
BY DEF OneWakeOfSession

(***************************************************************************)
(* The steps of the queue and of user turns.                               *)
(***************************************************************************)
LEMMA EnqueueKeeps ==
  ASSUME WakesInv, NEW e \in SysEvents, EnqueueEvent(e)
  PROVE  WakesInv'
<1>1. /\ events' \in Seq(SysEvents) /\ Len(events') <= MaxEvents
      /\ displaced' \subseteq SysEvents
      /\ ToSet(events) \cup {e} \cup displaced \subseteq ToSet(events') \cup displaced'
  BY EnqueueQueue DEF WakesInv
<1>2. /\ enqueued' = enqueued \cup {e}
      /\ UNCHANGED <<requested, pending, timer, runner, evLease, userTurn, answered, served>>
  BY DEF EnqueueEvent
<1>3. WakesTypeOK' BY <1>1, <1>2 DEF WakesInv, WakesTypeOK
<1>4. OneWakeOfSession' BY <1>2 DEF WakesInv, OneWakeOfSession, Active
<1>5. NothingForgotten'
  BY <1>1, <1>2 DEF WakesInv, NothingForgotten, EventsKept, PendingHasTimer
<1> QED BY <1>3, <1>4, <1>5 DEF WakesInv

LEMMA UserTurnKeeps ==
  ASSUME WakesInv, UserStarts \/ UserSucceeds \/ UserFails
  PROVE  WakesInv'
<1>1. /\ UNCHANGED <<requested, pending, timer, runner, enqueued, evLease, answered, displaced>>
      /\ OneWakeOfSession'
  BY DEF WakesInv, UserStarts, UserSucceeds, UserFails, OneWakeOfSession, Active
<1>2. CASE UserStarts
  BY <1>1, <1>2, QueueOf DEF UserStarts, WakesInv, WakesTypeOK, NothingForgotten,
       EventsKept, PendingHasTimer
<1>3. CASE UserFails
  BY <1>1, <1>3 DEF UserFails, WakesInv, WakesTypeOK, NothingForgotten,
       EventsKept, PendingHasTimer, NoUser
<1>4. CASE UserSucceeds
  <2>1. /\ events' \in Seq(SysEvents) /\ Len(events') <= MaxEvents
        /\ ToSet(events) \subseteq ToSet(events') \cup userTurn.seen
    BY <1>4, TakenOut DEF UserSucceeds, Drained, WakesInv, WakesTypeOK
  <2>2. served' = served \cup userTurn.seen /\ userTurn' = NoUser
    BY <1>4 DEF UserSucceeds
  <2> QED BY <1>1, <2>1, <2>2 DEF WakesInv, WakesTypeOK, NothingForgotten, EventsKept,
               PendingHasTimer, NoUser
<1> QED BY <1>2, <1>3, <1>4

(***************************************************************************)
(* The steps of requests, drains and wakes.                                *)
(***************************************************************************)
LEMMA RequestKeeps ==
  ASSUME WakesInv, NEW r \in WakeRequests, RequestWake(r)
  PROVE  WakesInv'
<1>1. pending' \in [Targets -> WakeType]
  BY WakeTypes, MergeType DEF RequestWake, WakesInv
<1>2. WakesTypeOK' BY <1>1 DEF RequestWake, WakesInv, WakesTypeOK
<1>3. OneWakeOfSession' BY DEF RequestWake, WakesInv, OneWakeOfSession, Active
<1>4. NothingForgotten'
  BY DEF RequestWake, WakesInv, NothingForgotten, EventsKept, PendingHasTimer
<1> QED BY <1>2, <1>3, <1>4 DEF WakesInv

\* A runner goes on to a record in which it is not active, and the events stay
\* where they are.
LEMMA RunnerStep ==
  ASSUME WakesInv, NEW d \in WakeRunners, NEW after \in RunnerType,
         runner' = [runner EXCEPT ![d] = after], after.pc \notin {"build", "turn"},
         \/ evLease' = NoEvents
         \/ evLease' = evLease /\ runner[d].pc # "turn",
         pending' \in [Targets -> WakeType], timer' \in BOOLEAN, PendingHasTimer',
         answered' \subseteq WakeRequests,
         UNCHANGED <<requested, enqueued, events, userTurn, served, displaced>>
  PROVE  WakesInv'
<1>1. evLease' = NoEvents \/ (evLease' = evLease /\ evLease.owner # {d})
  BY OwnerInTurn DEF WakesInv
<1>2. OneWakeOfSession' BY <1>1, Withdraws DEF WakesInv
<1>3. runner' \in [WakeRunners -> RunnerType] BY DEF WakesInv, WakesTypeOK, RunnerType
<1>4. WakesTypeOK' BY <1>3 DEF WakesInv, WakesTypeOK, RunnerType, NoEvents
<1>5. NothingForgotten' BY DEF WakesInv, NothingForgotten, EventsKept
<1> QED BY <1>2, <1>4, <1>5 DEF WakesInv

LEMMA DrainKeeps ==
  ASSUME WakesInv, NEW d \in Drains, StartDrain(d) \/ EndDrain(d)
  PROVE  WakesInv'
<1>0. d \in WakeRunners BY DEF WakeRunners
<1>1. CASE StartDrain(d)
  <2> DEFINE after == [pc |-> "next", batch |-> {pending[t] : t \in Targets} \ {NoWake},
                      cur |-> NoWake, retry |-> FALSE]
  <2>1. after \in RunnerType /\ after.pc \notin {"build", "turn"}
    BY WakeTypes DEF RunnerType, WakesInv, WakesTypeOK
  <2>2. /\ pending' \in [Targets -> WakeType] /\ timer' \in BOOLEAN /\ PendingHasTimer'
        /\ runner' = [runner EXCEPT ![d] = after] /\ runner[d].pc = "idle"
    BY <1>1, WakeTypes DEF StartDrain, PendingHasTimer
  <2> HIDE DEF after
  <2>3. /\ evLease' = evLease /\ answered' \subseteq WakeRequests
        /\ UNCHANGED <<requested, enqueued, events, userTurn, served, displaced>>
    BY <1>1 DEF StartDrain, WakesInv, WakesTypeOK
  <2> QED BY <1>0, <2>1, <2>2, <2>3, RunnerStep
<1>2. CASE EndDrain(d)
  <2>1. Rests \in RunnerType /\ Rests.pc \notin {"build", "turn"}
    BY WakeTypes DEF Rests
  <2>2. /\ pending' \in [Targets -> WakeType] /\ timer' \in BOOLEAN /\ PendingHasTimer'
        /\ runner' = [runner EXCEPT ![d] = Rests] /\ runner[d].pc = "next"
    BY <1>2 DEF EndDrain, PendingHasTimer, WakesInv, NothingForgotten, WakesTypeOK
  <2>3. /\ evLease' = evLease /\ answered' \subseteq WakeRequests
        /\ UNCHANGED <<requested, enqueued, events, userTurn, served, displaced>>
    BY <1>2 DEF EndDrain, WakesInv, WakesTypeOK
  <2> QED BY <1>0, <2>1, <2>2, <2>3, RunnerStep
<1> QED BY <1>1, <1>2

\* A wake that is offered to the runner is not in its turn yet.
LEMMA SkipKeeps ==
  ASSUME WakesInv, NEW d \in WakeRunners, NEW w \in Offered(d),
         SkipBusy(d, w) \/ SkipForGood(d, w)
  PROVE  WakesInv'
<1>1. PICK retry \in BOOLEAN :
        runner' = [runner EXCEPT ![d] = [Proceed(d, retry) EXCEPT !.batch = @ \ {w}]]
  BY DEF SkipBusy, SkipForGood
<1> DEFINE after == [Proceed(d, retry) EXCEPT !.batch = @ \ {w}]
<1>2. w \in WakeType /\ Proceed(d, retry) \in RunnerType
      /\ Proceed(d, retry).pc \notin {"build", "turn"}
  BY RunnerRecords DEF WakesInv
<1>3. after \in RunnerType /\ after.pc \notin {"build", "turn"} BY <1>2 DEF RunnerType
<1>4. runner[d].pc # "turn" BY DEF Offered
<1>5. Retries(d, w) \/ AnswersWake(d, w) BY DEF SkipBusy, SkipForGood
<1>6. /\ pending' \in [Targets -> WakeType] /\ timer' \in BOOLEAN
      /\ answered' \subseteq WakeRequests /\ PendingHasTimer'
  BY <1>2, <1>5, RetriesKeep DEF WakesInv, NothingForgotten
<1>7. UNCHANGED <<requested, enqueued, events, evLease, userTurn, served, displaced>>
  BY DEF SkipBusy, SkipForGood
<1>8. runner' = [runner EXCEPT ![d] = after] BY <1>1
<1> HIDE DEF after
<1> QED BY <1>3, <1>4, <1>6, <1>7, <1>8, RunnerStep

\* A wake passes the preflight only when no other wake is in hand.
LEMMA PassKeeps ==
  ASSUME WakesInv, NEW d \in WakeRunners, NEW w \in Offered(d), PassPreflight(d, w)
  PROVE  WakesInv'
<1> DEFINE after == [pc |-> "build", batch |-> runner[d].batch \ {w}, cur |-> w,
                    retry |-> runner[d].retry]
<1>1. w \in WakeType /\ runner[d] \in RunnerType BY RunnerRecords DEF WakesInv
<1>2. after \in RunnerType BY <1>1 DEF RunnerType
<1>3. runner' = [runner EXCEPT ![d] = after] BY DEF PassPreflight
<1>4. UNCHANGED <<requested, pending, timer, enqueued, events, evLease, userTurn,
                  answered, served, displaced>>
  BY DEF PassPreflight
<1>5. runner[d].pc # "turn" BY DEF Offered
<1>6. after.pc = "build" OBVIOUS
<1> HIDE DEF after
<1>7. runner' \in [WakeRunners -> RunnerType]
  BY <1>2, <1>3 DEF WakesInv, WakesTypeOK, RunnerType
<1>8. WakesTypeOK' BY <1>4, <1>7 DEF WakesInv, WakesTypeOK, RunnerType
<1>9. \A o \in WakeRunners : runner'[o] = IF o = d THEN after ELSE runner[o]
  BY <1>3 DEF WakesInv, WakesTypeOK
<1>10. OneWakeOfSession'
  <2>1. \A o \in WakeRunners : Active(o)' => o = d
    BY <1>9 DEF PassPreflight, SessionActive, Active
  <2>2. ASSUME evLease.owner # {}
        PROVE  \E o \in WakeRunners : evLease.owner = {o} /\ runner'[o].pc = "turn"
    BY <1>5, <1>9, <2>2 DEF WakesInv, OneWakeOfSession
  <2> QED BY <1>4, <2>1, <2>2 DEF OneWakeOfSession
<1>11. NothingForgotten'
  BY <1>4 DEF WakesInv, NothingForgotten, EventsKept, PendingHasTimer
<1> QED BY <1>8, <1>10, <1>11 DEF WakesInv

LEMMA InboxEmptyKeeps ==
  ASSUME WakesInv, NEW d \in WakeRunners, NothingInInbox(d)
  PROVE  WakesInv'
<1> DEFINE after == Proceed(d, FALSE)
<1>1. /\ runner[d].cur \in WakeType /\ after \in RunnerType
      /\ after.pc \notin {"build", "turn"}
  BY RunnerRecords DEF WakesInv, RunnerType
<1>2. /\ runner' = [runner EXCEPT ![d] = after] /\ runner[d].pc # "turn"
      /\ UNCHANGED <<requested, enqueued, events, evLease, userTurn, served, displaced>>
      /\ AnswersWake(d, runner[d].cur)
  BY DEF NothingInInbox
<1>3. /\ pending' \in [Targets -> WakeType] /\ timer' \in BOOLEAN
      /\ answered' \subseteq WakeRequests /\ PendingHasTimer'
  BY <1>1, <1>2, RetriesKeep DEF WakesInv, NothingForgotten
<1> HIDE DEF after
<1> QED BY <1>1, <1>2, <1>3, RunnerStep

\* The one wake in hand leases the events for its turn.
LEMMA ClaimKeeps ==
  ASSUME WakesInv, NEW d \in WakeRunners, ClaimEvents(d)
  PROVE  WakesInv'
<1> DEFINE after == [runner[d] EXCEPT !.pc = "turn"]
<1>1. runner[d] \in RunnerType /\ runner[d].pc = "build"
  BY RunnerRecords DEF WakesInv, ClaimEvents
<1>2. after \in RunnerType /\ after.pc = "turn" BY <1>1 DEF RunnerType
<1>3. runner' = [runner EXCEPT ![d] = after] BY DEF ClaimEvents
<1>4. UNCHANGED <<requested, pending, timer, enqueued, events, userTurn, answered,
                  served, displaced>>
  BY DEF ClaimEvents
<1>5. evLease' = NoEvents \/ evLease' = [owner |-> {d}, held |-> ToSet(events)]
  BY DEF ClaimEvents
<1> HIDE DEF after
<1>6. \A o \in WakeRunners : runner'[o] = IF o = d THEN after ELSE runner[o]
  BY <1>3 DEF WakesInv, WakesTypeOK
<1>7. runner' \in [WakeRunners -> RunnerType]
  BY <1>2, <1>3 DEF WakesInv, WakesTypeOK, RunnerType
<1>8. evLease' \in [owner : SUBSET WakeRunners, held : SUBSET SysEvents]
  BY <1>5, QueueOf DEF WakesInv, NoEvents
<1>9. WakesTypeOK' BY <1>4, <1>7, <1>8 DEF WakesInv, WakesTypeOK, RunnerType
<1>10. OneWakeOfSession'
  <2>1. \A o \in WakeRunners : Active(o)' => Active(o)
    BY <1>1, <1>6 DEF Active
  <2>2. evLease'.owner # {} => evLease'.owner = {d} BY <1>5 DEF NoEvents
  <2> QED BY <1>2, <1>6, <2>1, <2>2 DEF WakesInv, OneWakeOfSession
<1>11. NothingForgotten'
  BY <1>4 DEF WakesInv, NothingForgotten, EventsKept, PendingHasTimer
<1> QED BY <1>9, <1>10, <1>11 DEF WakesInv

LEMMA FailKeeps ==
  ASSUME WakesInv, NEW d \in WakeRunners,
         WakeFails(d) \/ (d = ManualWake /\ ManualCancelled)
  PROVE  WakesInv'
<1>1. CASE WakeFails(d)
  <2> DEFINE after == Proceed(d, TRUE)
  <2>1. /\ runner[d].cur \in WakeType /\ after \in RunnerType
        /\ after.pc \notin {"build", "turn"}
    BY RunnerRecords DEF WakesInv, RunnerType
  <2>2. /\ runner' = [runner EXCEPT ![d] = after] /\ evLease' = NoEvents
        /\ UNCHANGED <<requested, enqueued, events, userTurn, served, displaced>>
        /\ Retries(d, runner[d].cur)
    BY <1>1 DEF WakeFails, Released
  <2>3. /\ pending' \in [Targets -> WakeType] /\ timer' \in BOOLEAN
        /\ answered' \subseteq WakeRequests /\ PendingHasTimer'
    BY <2>1, <2>2, RetriesKeep DEF WakesInv, NothingForgotten
  <2> HIDE DEF after
  <2> QED BY <2>1, <2>2, <2>3, RunnerStep
<1>2. CASE d = ManualWake /\ ManualCancelled
  <2>1. Rests \in RunnerType /\ Rests.pc \notin {"build", "turn"}
    BY WakeTypes DEF Rests
  <2>2. /\ runner' = [runner EXCEPT ![d] = Rests] /\ evLease' = NoEvents
        /\ UNCHANGED <<requested, pending, timer, enqueued, events, userTurn, answered,
                       served, displaced>>
    BY <1>2 DEF ManualCancelled, Released
  <2>3. /\ pending' \in [Targets -> WakeType] /\ timer' \in BOOLEAN
        /\ answered' \subseteq WakeRequests /\ PendingHasTimer'
    BY <2>2 DEF WakesInv, WakesTypeOK, NothingForgotten, PendingHasTimer
  <2> QED BY <2>1, <2>2, <2>3, RunnerStep
<1> QED BY <1>1, <1>2

\* The turn that succeeded had in its prompt exactly what it takes out.
LEMMA ConsumeKeeps ==
  ASSUME WakesInv, NEW d \in WakeRunners, WakeSucceeds(d) \/ Unacknowledged(d)
  PROVE  WakesInv'
<1>1. PICK after \in {Proceed(d, retry) : retry \in BOOLEAN} :
        runner' = [runner EXCEPT ![d] = after]
  BY DEF WakeSucceeds, Unacknowledged
<1>2. /\ runner[d].cur \in WakeType /\ after \in RunnerType
      /\ after.pc \notin {"build", "turn"}
  BY RunnerRecords DEF WakesInv, RunnerType
<1>3. /\ Consumes(d)
      /\ Retries(d, runner[d].cur) \/ AnswersWake(d, runner[d].cur)
  BY DEF WakeSucceeds, Unacknowledged
<1>4. /\ pending' \in [Targets -> WakeType] /\ timer' \in BOOLEAN
      /\ answered' \subseteq WakeRequests /\ PendingHasTimer'
  BY <1>2, <1>3, RetriesKeep DEF WakesInv, NothingForgotten
<1>5. runner' \in [WakeRunners -> RunnerType]
  BY <1>1, <1>2 DEF WakesInv, WakesTypeOK, RunnerType
<1>6. evLease' = NoEvents \/ (evLease' = evLease /\ evLease.owner # {d})
  BY <1>3 DEF Consumes
<1>7. OneWakeOfSession' BY <1>1, <1>2, <1>6, Withdraws DEF WakesInv
<1>8. /\ served' \subseteq SysEvents
      /\ events' \in Seq(SysEvents) /\ Len(events') <= MaxEvents
      /\ ToSet(events) \cup served \subseteq ToSet(events') \cup served'
  <2>1. CASE evLease.owner = {d}
    <3>1. /\ served' = served \cup evLease.held
          /\ events' = Rejecting(events, evLease.held)
      BY <1>3, <2>1 DEF Consumes, Committed
    <3>2. evLease.held \subseteq SysEvents /\ served \subseteq SysEvents
      BY DEF WakesInv, WakesTypeOK
    <3> QED BY <3>1, <3>2, TakenOut DEF WakesInv
  <2>2. CASE evLease.owner # {d}
    BY <1>3, <2>2 DEF Consumes, Committed, WakesInv, WakesTypeOK
  <2> QED BY <2>1, <2>2
<1>9. UNCHANGED <<requested, enqueued, userTurn, displaced>> BY <1>3 DEF Consumes
<1>10. evLease' \in [owner : SUBSET WakeRunners, held : SUBSET SysEvents]
  BY <1>6 DEF WakesInv, WakesTypeOK, NoEvents
<1>11. WakesTypeOK'
  BY <1>4, <1>5, <1>8, <1>9, <1>10 DEF WakesInv, WakesTypeOK, RunnerType
<1>12. NothingForgotten'
  BY <1>4, <1>8, <1>9 DEF WakesInv, NothingForgotten, EventsKept
<1> QED BY <1>7, <1>11, <1>12 DEF WakesInv

(***************************************************************************)
(* The theorems.                                                           *)
(***************************************************************************)
LEMMA WakesStart == WakesInit => WakesInv
<1> SUFFICES ASSUME WakesInit PROVE WakesInv
  OBVIOUS
<1>1. /\ <<>> \in Seq(SysEvents) /\ Len(<<>>) = 0 /\ MaxEvents \in Nat \ {0}
  BY EmptySeq, WakesAssumption
<1>2. WakesTypeOK
  <2>1. events \in Seq(SysEvents) /\ Len(events) <= MaxEvents BY <1>1 DEF WakesInit
  <2>2. pending \in [Targets -> WakeType] /\ runner \in [WakeRunners -> RunnerType]
    BY WakeTypes DEF WakesInit
  <2> QED BY <2>1, <2>2 DEF WakesInit, WakesTypeOK, NoEvents, NoUser, RunnerType
<1>3. OneWakeOfSession
  BY DEF WakesInit, OneWakeOfSession, Active, Rests, NoEvents
<1>4. NothingForgotten
  BY DEF WakesInit, NothingForgotten, EventsKept, PendingHasTimer
<1> QED BY <1>2, <1>3, <1>4 DEF WakesInv

LEMMA WakesStep == WakesInv /\ [WakesNext]_wakesVars => WakesInv'
<1> SUFFICES ASSUME WakesInv, [WakesNext]_wakesVars PROVE WakesInv'
  OBVIOUS
<1>1. CASE \E e \in SysEvents : EnqueueEvent(e) BY <1>1, EnqueueKeeps
<1>2. CASE UserStarts \/ UserSucceeds \/ UserFails BY <1>2, UserTurnKeeps
<1>3. CASE \E r \in WakeRequests : RequestWake(r) BY <1>3, RequestKeeps
<1>4. CASE \E d \in Drains : StartDrain(d) \/ EndDrain(d) BY <1>4, DrainKeeps
<1>5. CASE \E d \in WakeRunners : Preflight(d)
  BY <1>5, SkipKeeps, PassKeeps DEF Preflight
<1>6. CASE \E d \in WakeRunners : Building(d)
  BY <1>6, ClaimKeeps, InboxEmptyKeeps DEF Building
<1>7. CASE \E d \in WakeRunners : WakeEnds(d)
  BY <1>7, FailKeeps, ConsumeKeeps DEF WakeEnds
<1>8. CASE ManualCancelled BY <1>8, FailKeeps DEF WakeRunners
<1>9. CASE UNCHANGED wakesVars
  BY <1>9 DEF WakesInv, WakesTypeOK, OneWakeOfSession, Active, NothingForgotten,
       EventsKept, PendingHasTimer
<1> QED BY <1>1, <1>2, <1>3, <1>4, <1>5, <1>6, <1>7, <1>8, <1>9 DEF WakesNext

\* The whole invariant: types, one wake in hand that alone may hold the lease,
\* no event and no wake forgotten.
THEOREM WakesInvariant == WakesSpec => []WakesInv
<1> QED BY WakesStart, WakesStep, PTL DEF WakesSpec

\* The coalescer, the runners and the queue keep to their types, and the queue
\* of events to its bound.
THEOREM WakesTyped == WakesSpec => []WakesTypeOK
<1>1. WakesInv => WakesTypeOK BY DEF WakesInv
<1> QED BY <1>1, WakesInvariant, PTL

\* However drains and manual calls overlap, one wake of the session runs at a
\* time, and the lease on its events belongs to the turn under way.
THEOREM OneWakeAtATime == WakesSpec => []OneWakeOfSession
<1>1. WakesInv => OneWakeOfSession BY DEF WakesInv
<1> QED BY <1>1, WakesInvariant, PTL

\* No event leaves the queue but to a turn that succeeded or to an event that
\* displaced it, and no merged wake waits without a timer.
THEOREM NothingIsForgotten == WakesSpec => []NothingForgotten
<1>1. WakesInv => NothingForgotten BY DEF WakesInv
<1> QED BY <1>1, WakesInvariant, PTL

(***************************************************************************)
(* Timed jobs.                                                             *)
(***************************************************************************)
InMemory == [listed |-> jobs.listed, enabled |-> jobs.enabled, next |-> next]

\* The lock is held by the one that writes.
LockHeld ==
  /\ write.by = "nobody" => write = NoWrite
  /\ write.by = "command" <=> command.stage = "writes"
  /\ write.by = "poller" <=> poller.stage = "writes"

\* Unless a change waits for the lock, memory is what is written or is in the
\* file.  A job to be dropped is in the table until the lock is held.
Waiting == \/ command.stage = "waits" /\ command.change = "put"
           \/ poller.stage = "waits" /\ poller.change = "put"
Saved == ~Waiting => IF write = NoWrite THEN file = InMemory ELSE write.data = {InMemory}

\* A run that is still to be started for job j, or the time that asks for it.
OwesRun(j) == \/ next[j] = "due" \/ j \in poller.missed
              \/ poller.loop = "catch_up" /\ j \in poller.todo
StartsRun(j) == poller.run /\ j \in poller.job
Credit(j) == (IF OwesRun(j) THEN 1 ELSE 0) + (IF StartsRun(j) THEN 1 ELSE 0)

RunsPaid ==
  \A j \in Jobs \ OneShot : begun[j] + queued[j] + Credit(j) <= elapsed[j] + boots

WriteType == [by : {"nobody", "poller", "command"}, data : SUBSET JobsFile]
PollerType == [loop : {"recover", "rearm", "catch_up", "sleep", "tick"},
               todo : SUBSET Jobs, missed : SUBSET Jobs, job : SUBSET Jobs,
               change : {"none", "put", "drop"},
               stage : {"none", "waits", "writes"}, run : BOOLEAN]
CommandType == [job : SUBSET Jobs, change : {"none", "put", "drop"},
                stage : {"none", "waits", "writes"}]

\* The missed jobs are on the list of the loop that catches up.
MissedHandedOver == poller.loop \in {"catch_up", "sleep", "tick"} => poller.missed = {}

CronInv == CronTypeOK /\ write \in WriteType /\ LockHeld /\ Saved /\ RunsPaid
           /\ MissedHandedOver

LEMMA CronTypes ==
  ASSUME CronInv
  PROVE  /\ jobs \in JobTable /\ next \in [Jobs -> Times] /\ file \in JobsFile
         /\ write \in WriteType /\ poller \in PollerType /\ command \in CommandType
         /\ queued \in [Jobs -> Nat] /\ begun \in [Jobs -> Nat]
         /\ elapsed \in [Jobs -> Nat] /\ boots \in Nat
<1>1. /\ jobs \in JobTable /\ next \in [Jobs -> Times] /\ file \in JobsFile
      /\ write \in WriteType /\ poller \in PollerType /\ command \in CommandType
      /\ queued \in [Jobs -> Nat] /\ begun \in [Jobs -> Nat]
  BY DEF CronInv, CronTypeOK, PollerType, CommandType
<1>2. elapsed \in [Jobs -> 0 .. MaxElapsed] /\ boots \in 0 .. MaxBoots
  BY DEF CronInv, CronTypeOK
<1>3. 0 .. MaxElapsed \subseteq Nat /\ 0 .. MaxBoots \subseteq Nat BY CronAssumption
<1> QED BY <1>1, <1>2, <1>3

\* What the store does with a change: nothing, wait, or write the table.
LEMMA StoreStages ==
  ASSUME CronInv, NEW j \in Jobs, NEW change \in {"none", "put", "drop"}
  PROVE  /\ StageOf(j, change) \in {"none", "waits", "writes"}
         /\ StageOf(j, change) = "writes" => write = NoWrite
         /\ StageOf(j, change) = "waits" => write # NoWrite
         /\ StageOf(j, change) = "none" => change = "drop" /\ Changed(j, change) = jobs
         /\ Changed(j, change) \in JobTable
         /\ Changed(j, change).enabled = jobs.enabled
<1>1. jobs \in JobTable BY CronTypes
<1>2. /\ Changed(j, change) \in JobTable
      /\ Changed(j, change).enabled = jobs.enabled
  BY <1>1 DEF Changed, JobTable
<1>3. ASSUME change = "drop", j \notin jobs.listed
      PROVE  Changed(j, change) = jobs
  BY <1>1, <1>3 DEF Changed, JobTable
<1> QED BY <1>2, <1>3 DEF StageOf

LEMMA Locks ==
  ASSUME write \in WriteType, NEW p \in {"poller", "command"}, NEW table \in JobTable,
         NEW times \in [Jobs -> Times], NEW stage \in {"none", "waits", "writes"},
         LocksAndWrites(p, table, times, stage)
  PROVE  /\ write' \in WriteType
         /\ stage # "writes" => write' = write
         /\ stage = "writes" =>
              /\ write'.by = p /\ write' # NoWrite
              /\ write'.data = {[listed |-> table.listed, enabled |-> table.enabled,
                                 next |-> times]}
<1>1. [listed |-> table.listed, enabled |-> table.enabled, next |-> times] \in JobsFile
  BY DEF JobTable, JobsFile
<1> QED BY <1>1 DEF LocksAndWrites, WriteType, NoWrite

\* A step that starts no run, and makes none owed, is paid for.
LEMMA StillPaid ==
  ASSUME CronInv, UNCHANGED <<begun, queued, elapsed, boots>>,
         \A i \in Jobs \ OneShot : /\ OwesRun(i)' => OwesRun(i)
                                   /\ StartsRun(i)' => StartsRun(i)
  PROVE  RunsPaid'
<1> SUFFICES ASSUME NEW i \in Jobs \ OneShot
             PROVE  begun[i] + queued[i] + Credit(i)' <= elapsed[i] + boots
  BY DEF RunsPaid
<1>1. /\ begun[i] \in Nat /\ queued[i] \in Nat /\ elapsed[i] \in Nat /\ boots \in Nat
      /\ begun[i] + queued[i] + Credit(i) <= elapsed[i] + boots
  BY CronTypes DEF CronInv, RunsPaid
<1>2. Credit(i) \in Nat /\ Credit(i)' \in Nat /\ Credit(i)' <= Credit(i) BY DEF Credit
<1> QED BY <1>1, <1>2

(***************************************************************************)
(* Commands.                                                               *)
(***************************************************************************)
LEMMA CommandKeeps ==
  ASSUME CronInv, NEW j \in Jobs, NEW change \in {"put", "drop"}, NEW enabled \in SUBSET Jobs,
         NEW times \in [Jobs -> Times], Commands(j, change, enabled, times),
         change = "drop" => enabled = jobs.enabled /\ times = next,
         \A i \in Jobs \ OneShot : times[i] = "due" => next[i] = "due",
         created' \subseteq Jobs
  PROVE  CronInv'
<1> DEFINE stage == StageOf(j, change)
           table == [(IF stage = "writes" THEN Changed(j, change) ELSE jobs)
                       EXCEPT !.enabled = enabled]
<1>1. /\ jobs \in JobTable /\ next \in [Jobs -> Times] /\ file \in JobsFile
      /\ write \in WriteType /\ poller \in PollerType
      /\ stage \in {"none", "waits", "writes"}
      /\ stage = "writes" => write = NoWrite
      /\ stage = "waits" => write # NoWrite
      /\ stage = "none" => change = "drop"
      /\ Changed(j, change) \in JobTable
  BY CronTypes, StoreStages
<1>2. /\ table \in JobTable /\ table.enabled = enabled
      /\ stage # "writes" => table.listed = jobs.listed
  BY <1>1 DEF JobTable
<1>3. /\ command = NoCommand /\ jobs' = table /\ next' = times
      /\ command' = IF stage = "none" THEN NoCommand
                    ELSE [job |-> {j}, change |-> change, stage |-> stage]
      /\ LocksAndWrites("command", table, times, stage)
      /\ UNCHANGED <<file, poller, queued, elapsed, begun, boots>>
  BY DEF Commands
<1> HIDE DEF stage, table
<1>4. /\ write' \in WriteType
      /\ stage # "writes" => write' = write
      /\ stage = "writes" => /\ write'.by = "command" /\ write' # NoWrite
                             /\ write'.data = {InMemory'}
  BY <1>1, <1>2, <1>3, Locks DEF InMemory
<1>5. command' \in CommandType BY <1>1, <1>3 DEF CommandType, NoCommand
<1>6. CronTypeOK'
  BY <1>1, <1>2, <1>3, <1>4, <1>5
     DEF CronInv, CronTypeOK, WriteType, CommandType
<1>7. LockHeld'
  <2>1. command.stage = "none" BY <1>3 DEF NoCommand
  <2>2. command'.stage = stage BY <1>3 DEF NoCommand
  <2>3. CASE stage = "writes"
    <3>1. write = NoWrite BY <1>1, <2>3
    <3>2. poller.stage # "writes" BY <3>1 DEF CronInv, LockHeld, NoWrite
    <3> QED BY <1>3, <1>4, <2>2, <2>3, <3>2 DEF LockHeld
  <2>4. CASE stage # "writes"
    BY <1>3, <1>4, <2>1, <2>2, <2>4 DEF CronInv, LockHeld
  <2> QED BY <2>3, <2>4
<1>8. Saved'
  <2>1. CASE stage = "writes" BY <1>4, <2>1 DEF Saved
  <2>2. CASE stage # "writes" /\ change = "put"
    <3>1. stage = "waits" BY <1>1, <2>2
    <3>2. Waiting' BY <1>3, <2>2, <3>1 DEF Waiting
    <3> QED BY <3>2 DEF Saved
  <2>3. CASE stage # "writes" /\ change = "drop"
    <3>1. InMemory' = InMemory BY <1>2, <1>3, <2>3 DEF InMemory
    <3>2. Waiting' <=> Waiting BY <1>3, <2>3 DEF Waiting, NoCommand
    <3> QED BY <1>3, <1>4, <2>3, <3>1, <3>2 DEF CronInv, Saved
  <2> QED BY <2>1, <2>2, <2>3
<1>9. RunsPaid' BY <1>3, StillPaid DEF OwesRun, StartsRun
<1>10. MissedHandedOver' BY <1>3 DEF CronInv, MissedHandedOver
<1> QED BY <1>4, <1>6, <1>7, <1>8, <1>9, <1>10 DEF CronInv

LEMMA CommandsKeep ==
  ASSUME CronInv, NEW j \in Jobs,
         CreateJob(j) \/ DeleteJob(j) \/ EnableJob(j) \/ DisableJob(j)
  PROVE  CronInv'
<1>1. /\ jobs \in JobTable /\ jobs.enabled \in SUBSET Jobs /\ next \in [Jobs -> Times]
      /\ created \subseteq Jobs
  BY CronTypes DEF CronInv, CronTypeOK, JobTable
<1>2. CASE CreateJob(j)
  <2> DEFINE times == [next EXCEPT ![j] = "future"]
  <2>1. times \in [Jobs -> Times] /\ \A i \in Jobs : times[i] = "due" => next[i] = "due"
    BY <1>1 DEF Times
  <2>2. Commands(j, "put", jobs.enabled \cup {j}, times) /\ created' \subseteq Jobs
    BY <1>1, <1>2 DEF CreateJob
  <2> HIDE DEF times
  <2> QED BY <1>1, <2>1, <2>2, CommandKeeps
<1>3. CASE DeleteJob(j)
  <2>1. Commands(j, "drop", jobs.enabled, next) /\ created' = created
    BY <1>3 DEF DeleteJob
  <2> QED BY <1>1, <2>1, CommandKeeps
<1>4. CASE EnableJob(j)
  <2> DEFINE times == [next EXCEPT ![j] = Recalculated(j)]
  <2>1. /\ times \in [Jobs -> Times]
        /\ \A i \in Jobs \ OneShot : times[i] = "due" => next[i] = "due"
    BY <1>1 DEF Times, Recalculated
  <2>2. Commands(j, "put", jobs.enabled \cup {j}, times) /\ created' = created
    BY <1>4 DEF EnableJob
  <2> HIDE DEF times
  <2> QED BY <1>1, <2>1, <2>2, CommandKeeps
<1>5. CASE DisableJob(j)
  <2>1. Commands(j, "put", jobs.enabled \ {j}, next) /\ created' = created
    BY <1>5 DEF DisableJob
  <2> QED BY <1>1, <2>1, CommandKeeps
<1> QED BY <1>2, <1>3, <1>4, <1>5

LEMMA CommandLocksKeep ==
  ASSUME CronInv, CommandLocks
  PROVE  CronInv'
<1>1. PICK j \in command.job :
        /\ jobs' = Changed(j, command.change)
        /\ command' = IF StageOf(j, command.change) = "none" THEN NoCommand
                      ELSE [command EXCEPT !.stage = StageOf(j, command.change)]
        /\ LocksAndWrites("command", Changed(j, command.change), next,
                          StageOf(j, command.change))
  BY DEF CommandLocks
<1> DEFINE change == command.change
           stage == StageOf(j, change)
<1>2. /\ command.stage = "waits" /\ write = NoWrite
      /\ UNCHANGED <<next, file, poller, created, queued, elapsed, begun, boots>>
  BY DEF CommandLocks
<1>3. command \in CommandType /\ j \in Jobs /\ change \in {"none", "put", "drop"}
      /\ write \in WriteType /\ next \in [Jobs -> Times]
  BY <1>1, CronTypes DEF CommandType
<1>4. /\ stage \in {"none", "writes"}
      /\ stage = "none" => change = "drop" /\ jobs' = jobs
      /\ jobs' \in JobTable
  BY <1>1, <1>2, <1>3, StoreStages
<1>5. /\ write' \in WriteType
      /\ stage # "writes" => write' = write
      /\ stage = "writes" => /\ write'.by = "command" /\ write' # NoWrite
                             /\ write'.data = {InMemory'}
  BY <1>1, <1>2, <1>3, <1>4, Locks DEF InMemory
<1>6. command' \in CommandType /\ command'.stage = stage
      /\ (stage = "writes" => command'.change = change)
  BY <1>1, <1>3, <1>4 DEF CommandType, NoCommand
<1> HIDE DEF stage, change
<1>7. CronTypeOK' BY <1>2, <1>4, <1>5, <1>6 DEF CronInv, CronTypeOK, WriteType, CommandType
<1>8. LockHeld'
  <2>1. poller.stage # "writes" /\ write.by = "nobody"
    BY <1>2 DEF CronInv, LockHeld, NoWrite
  <2> QED BY <1>2, <1>4, <1>5, <1>6, <2>1 DEF LockHeld
<1>9. Saved'
  <2>1. CASE stage = "writes" BY <1>5, <2>1 DEF Saved
  <2>2. CASE stage = "none"
    <3>1. InMemory' = InMemory BY <1>2, <1>4, <2>2 DEF InMemory
    <3>2. command'.stage = "none" BY <1>6, <2>2
    <3>3. command.change = "drop" BY <1>4, <2>2 DEF change
    <3>4. Waiting' <=> Waiting BY <1>2, <3>2, <3>3 DEF Waiting
    <3> QED BY <1>2, <1>5, <2>2, <3>1, <3>4 DEF CronInv, Saved
  <2> QED BY <1>4, <2>1, <2>2
<1>10. RunsPaid' BY <1>2, StillPaid DEF OwesRun, StartsRun
<1>11. MissedHandedOver' BY <1>2 DEF CronInv, MissedHandedOver
<1> QED BY <1>5, <1>7, <1>8, <1>9, <1>10, <1>11 DEF CronInv

\* A write ends: the file is what memory says unless a change waits again.
LEMMA WriteEnds ==
  ASSUME CronInv, write # NoWrite, Written, UNCHANGED <<jobs, next>>, Waiting' <=> Waiting
  PROVE  file' \in JobsFile /\ write' \in WriteType /\ Saved'
<1>1. file' \in write.data /\ write' = NoWrite BY DEF Written
<1>2. file' \in JobsFile /\ write' \in WriteType
  BY <1>1, CronTypes DEF WriteType, NoWrite
<1>3. InMemory' = InMemory BY DEF InMemory
<1>4. Saved' BY <1>1, <1>3 DEF CronInv, Saved
<1> QED BY <1>2, <1>4

LEMMA CommandEndsKeeps ==
  ASSUME CronInv, CommandEnds
  PROVE  CronInv'
<1>1. /\ command.stage = "writes" /\ Written /\ command' = NoCommand
      /\ UNCHANGED <<jobs, next, poller, created, queued, elapsed, begun, boots>>
  BY DEF CommandEnds
<1>2. write.by = "command" /\ poller.stage # "writes"
  BY <1>1 DEF CronInv, LockHeld
<1>3. write # NoWrite BY <1>2 DEF NoWrite
<1>4. Waiting' <=> Waiting BY <1>1 DEF Waiting, NoCommand
<1>5. file' \in JobsFile /\ write' \in WriteType /\ Saved' BY <1>1, <1>3, <1>4, WriteEnds
<1>6. CronTypeOK'
  BY <1>1, <1>5 DEF CronInv, CronTypeOK, WriteType, NoCommand
<1>7. LockHeld' BY <1>1, <1>2 DEF LockHeld, Written, NoWrite, NoCommand
<1>8. RunsPaid' BY <1>1, StillPaid DEF OwesRun, StartsRun
<1>9. MissedHandedOver' BY <1>1 DEF CronInv, MissedHandedOver
<1> QED BY <1>5, <1>6, <1>7, <1>8, <1>9 DEF CronInv

(***************************************************************************)
(* The scheduler.                                                          *)
(***************************************************************************)
LEMMA UpdateSaves ==
  ASSUME CronInv, NEW j \in Jobs, NEW time \in Times, NEW change \in {"put", "drop"},
         NEW run \in BOOLEAN, Updates(j, time, change, run), poller.stage = "none",
         change = "drop" => time = next[j],
         queued' \in [Jobs -> Nat],
         UNCHANGED <<file, command, created, elapsed, begun, boots>>
  PROVE  /\ CronTypeOK' /\ write' \in WriteType /\ LockHeld' /\ Saved' /\ MissedHandedOver'
         /\ \A i \in Jobs : next'[i] = IF i = j THEN time ELSE next[i]
         /\ poller'.loop = poller.loop /\ poller'.missed = poller.missed
         /\ poller'.todo = poller.todo \ {j} /\ poller'.job = {j} /\ poller'.run = run
<1> DEFINE stage == StageOf(j, change)
           table == IF stage = "writes" THEN Changed(j, change) ELSE jobs
           times == [next EXCEPT ![j] = time]
<1>1. /\ jobs \in JobTable /\ next \in [Jobs -> Times] /\ file \in JobsFile
      /\ write \in WriteType /\ poller \in PollerType
      /\ stage \in {"none", "waits", "writes"}
      /\ stage = "writes" => write = NoWrite
      /\ stage = "none" => change = "drop"
      /\ Changed(j, change) \in JobTable
  BY CronTypes, StoreStages
<1>2. /\ table \in JobTable /\ times \in [Jobs -> Times]
      /\ stage # "writes" => table = jobs
      /\ time = next[j] => times = next
      /\ \A i \in Jobs : times[i] = IF i = j THEN time ELSE next[i]
  BY <1>1
<1>3. /\ poller' = [poller EXCEPT !.todo = @ \ {j}, !.job = {j}, !.change = change,
                                  !.stage = stage, !.run = run]
      /\ jobs' = table /\ next' = times
      /\ LocksAndWrites("poller", table, times, stage)
  BY DEF Updates
<1> HIDE DEF stage, table, times
<1>4. /\ write' \in WriteType
      /\ stage # "writes" => write' = write
      /\ stage = "writes" => /\ write'.by = "poller" /\ write' # NoWrite
                             /\ write'.data = {InMemory'}
  BY <1>1, <1>2, <1>3, Locks DEF InMemory
<1>5. /\ poller' \in PollerType /\ poller'.stage = stage /\ poller'.change = change
      /\ poller'.loop = poller.loop /\ poller'.missed = poller.missed
      /\ poller'.todo = poller.todo \ {j} /\ poller'.job = {j} /\ poller'.run = run
  BY <1>1, <1>3 DEF PollerType
<1>6. CronTypeOK'
  BY <1>2, <1>3, <1>4, <1>5 DEF CronInv, CronTypeOK, WriteType, PollerType
<1>7. LockHeld'
  <2>1. CASE stage = "writes"
    <3>1. write = NoWrite BY <1>1, <2>1
    <3>2. command.stage # "writes" BY <3>1 DEF CronInv, LockHeld, NoWrite
    <3> QED BY <1>4, <1>5, <2>1, <3>2 DEF LockHeld
  <2>2. CASE stage # "writes"
    BY <1>4, <1>5, <2>2 DEF CronInv, LockHeld
  <2> QED BY <2>1, <2>2
<1>8. Saved'
  <2>1. CASE stage = "writes" BY <1>4, <2>1 DEF Saved
  <2>2. CASE stage # "writes" /\ change = "put"
    <3>1. stage = "waits" BY <1>1, <2>2
    <3>2. Waiting' BY <1>5, <2>2, <3>1 DEF Waiting
    <3> QED BY <3>2 DEF Saved
  <2>3. CASE stage # "writes" /\ change = "drop"
    <3>1. next' = next BY <1>2, <1>3, <2>3
    <3>2. InMemory' = InMemory BY <1>2, <1>3, <2>3, <3>1 DEF InMemory
    <3>3. Waiting' <=> Waiting BY <1>5, <2>3 DEF Waiting
    <3> QED BY <1>4, <2>3, <3>2, <3>3 DEF CronInv, Saved
  <2> QED BY <2>1, <2>2, <2>3
<1>9. MissedHandedOver' BY <1>5 DEF CronInv, MissedHandedOver
<1>10. \A i \in Jobs : next'[i] = IF i = j THEN time ELSE next[i] BY <1>2, <1>3
<1> QED BY <1>4, <1>5, <1>6, <1>7, <1>8, <1>9, <1>10

\* A new time that starts no run.
LEMMA RearmsKeep ==
  ASSUME CronInv, NEW j \in Jobs, poller.stage = "none",
         Updates(j, Recalculated(j), "put", FALSE),
         UNCHANGED <<file, command, created, queued, elapsed, begun, boots>>
  PROVE  CronInv'
<1>1. /\ Recalculated(j) \in Times /\ queued \in [Jobs -> Nat]
      /\ j \notin OneShot => Recalculated(j) = "future"
  BY CronTypes DEF Recalculated, Times
<1>2. /\ CronTypeOK' /\ write' \in WriteType /\ LockHeld' /\ Saved' /\ MissedHandedOver'
      /\ \A i \in Jobs : next'[i] = IF i = j THEN Recalculated(j) ELSE next[i]
      /\ poller'.loop = poller.loop /\ poller'.missed = poller.missed
      /\ poller'.todo = poller.todo \ {j} /\ poller'.job = {j} /\ poller'.run = FALSE
  BY <1>1, UpdateSaves
<1>3. RunsPaid' BY <1>1, <1>2, StillPaid DEF OwesRun, StartsRun
<1> QED BY <1>2, <1>3 DEF CronInv

\* A run of job j is started, or is about to be, for the time that is used up.
LEMMA RunKeeps ==
  ASSUME CronInv, NEW j \in Jobs, NEW time \in Times, NEW change \in {"put", "drop"},
         NEW run \in BOOLEAN, Updates(j, time, change, run), poller.stage = "none",
         poller.job = {}, poller.loop \in {"catch_up", "tick"},
         change = "drop" => time = next[j],
         j \notin OneShot => OwesRun(j) /\ time = "future",
         run => queued' = queued,
         ~run => queued' = [queued EXCEPT ![j] = @ + 1],
         UNCHANGED <<file, command, created, elapsed, begun, boots>>
  PROVE  CronInv'
<1>1. /\ queued \in [Jobs -> Nat] /\ begun \in [Jobs -> Nat]
      /\ elapsed \in [Jobs -> Nat] /\ boots \in Nat
  BY CronTypes
<1>2. queued' \in [Jobs -> Nat] BY <1>1
<1>3. /\ CronTypeOK' /\ write' \in WriteType /\ LockHeld' /\ Saved' /\ MissedHandedOver'
      /\ \A i \in Jobs : next'[i] = IF i = j THEN time ELSE next[i]
      /\ poller'.loop = poller.loop /\ poller'.missed = poller.missed
      /\ poller'.todo = poller.todo \ {j} /\ poller'.job = {j} /\ poller'.run = run
  BY <1>2, UpdateSaves
<1>4. RunsPaid'
  <2> SUFFICES ASSUME NEW i \in Jobs \ OneShot
               PROVE  begun[i] + queued'[i] + Credit(i)' <= elapsed[i] + boots
    BY DEF RunsPaid
  <2>1. begun[i] + queued[i] + Credit(i) <= elapsed[i] + boots BY DEF CronInv, RunsPaid
  <2>2. /\ begun[i] \in Nat /\ queued[i] \in Nat /\ elapsed[i] \in Nat
        /\ queued'[i] = IF i = j /\ ~run THEN queued[i] + 1 ELSE queued[i]
    BY <1>1
  <2>3. Credit(i) \in {0, 1, 2} /\ Credit(i)' \in {0, 1, 2} BY DEF Credit
  <2>4. CASE i = j
    <3>1. ~StartsRun(i) /\ OwesRun(i) BY <2>4 DEF StartsRun
    <3>2. Credit(i) = 1 BY <3>1 DEF Credit
    <3>3. ~OwesRun(i)' BY <1>3, <2>4 DEF OwesRun, CronInv, MissedHandedOver
    <3>4. CASE run
      <4>1. Credit(i)' \in {0, 1} BY <3>3 DEF Credit
      <4> QED BY <1>1, <2>1, <2>2, <2>4, <3>2, <3>4, <4>1
    <3>5. CASE ~run
      <4>1. ~StartsRun(i)' BY <1>3, <3>5 DEF StartsRun
      <4>2. Credit(i)' = 0 BY <3>3, <4>1 DEF Credit
      <4> QED BY <1>1, <2>1, <2>2, <2>4, <3>2, <3>5, <4>2
    <3> QED BY <3>4, <3>5
  <2>5. CASE i # j
    <3>1. OwesRun(i)' => OwesRun(i) BY <1>3, <2>5 DEF OwesRun
    <3>2. ~StartsRun(i)' BY <1>3, <2>5 DEF StartsRun
    <3>3. Credit(i)' <= Credit(i) BY <3>1, <3>2 DEF Credit
    <3> QED BY <1>1, <2>1, <2>2, <2>3, <2>5, <3>3
  <2> QED BY <2>4, <2>5
<1> QED BY <1>3, <1>4 DEF CronInv

\* A step of the loops that changes nothing but the lists they go over.
LEMMA PollerAlone ==
  ASSUME CronInv, poller' \in PollerType, poller'.stage = poller.stage,
         poller'.change = poller.change \/ poller.stage = "none",
         MissedHandedOver',
         \A i \in Jobs : /\ i \in poller'.missed => OwesRun(i)
                         /\ poller'.loop = "catch_up" /\ i \in poller'.todo => OwesRun(i)
                         /\ StartsRun(i)' => StartsRun(i),
         UNCHANGED <<jobs, next, file, write, command, created, queued, elapsed, begun, boots>>
  PROVE  CronInv'
<1>1. CronTypeOK' BY DEF CronInv, CronTypeOK, PollerType
<1>2. LockHeld' BY DEF CronInv, LockHeld
<1>3. Saved' BY DEF CronInv, Saved, Waiting, InMemory
<1>4. RunsPaid' BY StillPaid DEF OwesRun
<1> QED BY <1>1, <1>2, <1>3, <1>4 DEF CronInv

LEMMA PollerMovesKeep ==
  ASSUME CronInv, NEW j \in Jobs, PollerMoves(j)
  PROVE  CronInv'
<1>1. /\ poller \in PollerType /\ queued \in [Jobs -> Nat] /\ next \in [Jobs -> Times]
      /\ poller.stage = "none" /\ poller.job = {} /\ j \in poller.todo
  BY CronTypes DEF PollerMoves, RecoverJob, RearmJob, CatchUpJob, TickJob, Visits
<1>2. /\ Recalculated(j) \in Times /\ "none" \in Times
      /\ j \notin OneShot => Recalculated(j) = "future"
  BY DEF Recalculated, Times
<1>3. ASSUME Skips(j),
             UNCHANGED <<file, command, created, queued, elapsed, begun, boots>>
      PROVE  CronInv'
  <2>1. /\ poller' = [poller EXCEPT !.todo = @ \ {j}]
        /\ UNCHANGED <<jobs, next, write>>
    BY <1>3 DEF Skips
  <2>2. /\ poller' \in PollerType /\ poller'.stage = poller.stage
        /\ poller'.change = poller.change /\ poller'.missed = poller.missed
        /\ poller'.loop = poller.loop /\ poller'.todo \subseteq poller.todo
        /\ poller'.run = poller.run /\ poller'.job = poller.job
    BY <1>1, <2>1 DEF PollerType
  <2>3. MissedHandedOver' BY <2>2 DEF CronInv, MissedHandedOver
  <2> QED BY <1>3, <2>1, <2>2, <2>3, PollerAlone DEF OwesRun, StartsRun
<1>4. CASE RecoverJob(j)
  <2>1. /\ poller.loop = "recover"
        /\ UNCHANGED <<file, command, created, queued, elapsed, begun, boots>>
    BY <1>4 DEF RecoverJob
  <2>2. CASE Skips(j) BY <1>3, <2>1, <2>2
  <2>3. CASE /\ IsDue(j)
             /\ poller' = [poller EXCEPT !.todo = @ \ {j}, !.missed = @ \cup {j}]
             /\ UNCHANGED <<jobs, next, write>>
    <3>1. /\ poller' \in PollerType /\ poller'.stage = poller.stage
          /\ poller'.change = poller.change /\ poller'.missed = poller.missed \cup {j}
          /\ poller'.loop = poller.loop /\ poller'.todo \subseteq poller.todo
          /\ poller'.run = poller.run /\ poller'.job = poller.job
      BY <1>1, <2>3 DEF PollerType
    <3>2. MissedHandedOver' BY <2>1, <3>1 DEF MissedHandedOver
    <3>3. \A i \in Jobs : i \in poller'.missed => OwesRun(i)
      BY <2>3, <3>1 DEF OwesRun, IsDue
    <3>4. \A i \in Jobs : poller'.loop # "catch_up" /\ (StartsRun(i)' => StartsRun(i))
      BY <2>1, <3>1 DEF StartsRun
    <3> QED BY <2>1, <2>3, <3>1, <3>2, <3>3, <3>4, PollerAlone
  <2>4. CASE Updates(j, Recalculated(j), "put", FALSE)
    BY <1>1, <2>1, <2>4, RearmsKeep
  <2> QED BY <1>4, <2>2, <2>3, <2>4 DEF RecoverJob
<1>5. CASE RearmJob(j)
  BY <1>1, <1>5, RearmsKeep DEF RearmJob
<1>6. CASE CatchUpJob(j)
  <2> DEFINE time == IF j \in OneShot THEN "none" ELSE Recalculated(j)
  <2>1. /\ poller.loop = "catch_up" /\ queued' = [queued EXCEPT ![j] = @ + 1]
        /\ Updates(j, time, "put", FALSE)
        /\ UNCHANGED <<file, command, created, elapsed, begun, boots>>
    BY <1>6 DEF CatchUpJob
  <2>2. OwesRun(j) BY <1>1, <2>1 DEF OwesRun
  <2>3. time \in Times /\ (j \notin OneShot => time = "future") BY <1>2
  <2> HIDE DEF time
  <2> QED BY <1>1, <2>1, <2>2, <2>3, RunKeeps
<1>7. CASE TickJob(j)
  <2>1. /\ poller.loop = "tick"
        /\ UNCHANGED <<file, command, created, queued, elapsed, begun, boots>>
    BY <1>7 DEF TickJob
  <2>2. CASE Skips(j) BY <1>3, <2>1, <2>2
  <2>3. CASE IsDue(j) /\ j \in OneShot /\ Updates(j, next[j], "drop", TRUE)
    <3>1. next[j] \in Times BY <1>1
    <3> QED BY <1>1, <2>1, <2>3, <3>1, RunKeeps
  <2>4. CASE IsDue(j) /\ j \notin OneShot /\ Updates(j, Recalculated(j), "put", TRUE)
    <3>1. OwesRun(j) BY <2>4 DEF OwesRun, IsDue
    <3> QED BY <1>1, <1>2, <2>1, <2>4, <3>1, RunKeeps
  <2> QED BY <1>7, <2>2, <2>3, <2>4 DEF TickJob
<1> QED BY <1>4, <1>5, <1>6, <1>7 DEF PollerMoves

LEMMA PollerLocksKeep ==
  ASSUME CronInv, PollerLocks
  PROVE  CronInv'
<1>1. PICK j \in poller.job :
        /\ jobs' = Changed(j, poller.change)
        /\ poller' = [poller EXCEPT !.stage = StageOf(j, poller.change)]
        /\ LocksAndWrites("poller", Changed(j, poller.change), next,
                          StageOf(j, poller.change))
  BY DEF PollerLocks
<1> DEFINE change == poller.change
           stage == StageOf(j, change)
<1>2. /\ poller.stage = "waits" /\ write = NoWrite
      /\ UNCHANGED <<next, file, command, created, queued, elapsed, begun, boots>>
  BY DEF PollerLocks
<1>3. poller \in PollerType /\ j \in Jobs /\ change \in {"none", "put", "drop"}
      /\ write \in WriteType /\ next \in [Jobs -> Times]
  BY <1>1, CronTypes DEF PollerType
<1>4. /\ stage \in {"none", "writes"}
      /\ stage = "none" => change = "drop" /\ jobs' = jobs
      /\ jobs' \in JobTable
  BY <1>1, <1>2, <1>3, StoreStages
<1>5. /\ write' \in WriteType
      /\ stage # "writes" => write' = write
      /\ stage = "writes" => /\ write'.by = "poller" /\ write' # NoWrite
                             /\ write'.data = {InMemory'}
  BY <1>1, <1>2, <1>3, <1>4, Locks DEF InMemory
<1>6. /\ poller' \in PollerType /\ poller'.stage = stage /\ poller'.change = change
      /\ poller'.loop = poller.loop /\ poller'.missed = poller.missed
      /\ poller'.todo = poller.todo /\ poller'.job = poller.job /\ poller'.run = poller.run
  BY <1>1, <1>3, <1>4 DEF PollerType
<1> HIDE DEF stage, change
<1>7. CronTypeOK' BY <1>2, <1>4, <1>5, <1>6 DEF CronInv, CronTypeOK, WriteType, PollerType
<1>8. LockHeld'
  <2>1. command.stage # "writes" /\ write.by = "nobody"
    BY <1>2 DEF CronInv, LockHeld, NoWrite
  <2> QED BY <1>2, <1>4, <1>5, <1>6, <2>1 DEF LockHeld
<1>9. Saved'
  <2>1. CASE stage = "writes" BY <1>5, <2>1 DEF Saved
  <2>2. CASE stage = "none"
    <3>1. InMemory' = InMemory BY <1>2, <1>4, <2>2 DEF InMemory
    <3>2. poller'.stage = "none" BY <1>6, <2>2
    <3>3. poller.change = "drop" BY <1>4, <2>2 DEF change
    <3>4. Waiting' <=> Waiting BY <1>2, <3>2, <3>3 DEF Waiting
    <3> QED BY <1>2, <1>5, <2>2, <3>1, <3>4 DEF CronInv, Saved
  <2> QED BY <1>4, <2>1, <2>2
<1>10. RunsPaid' BY <1>2, <1>6, StillPaid DEF OwesRun, StartsRun
<1>11. MissedHandedOver' BY <1>6 DEF CronInv, MissedHandedOver
<1> QED BY <1>5, <1>7, <1>8, <1>9, <1>10, <1>11 DEF CronInv

LEMMA PollerWritesKeeps ==
  ASSUME CronInv, PollerWrites
  PROVE  CronInv'
<1>1. /\ poller.stage = "writes" /\ Written /\ poller' = [poller EXCEPT !.stage = "none"]
      /\ UNCHANGED <<jobs, next, command, created, queued, elapsed, begun, boots>>
  BY DEF PollerWrites
<1>2. write.by = "poller" /\ command.stage # "writes"
  BY <1>1 DEF CronInv, LockHeld
<1>3. write # NoWrite BY <1>2 DEF NoWrite
<1>4. /\ poller' \in PollerType /\ poller'.stage = "none"
      /\ poller'.loop = poller.loop /\ poller'.missed = poller.missed
      /\ poller'.todo = poller.todo /\ poller'.job = poller.job /\ poller'.run = poller.run
  BY <1>1, CronTypes DEF PollerType
<1>5. Waiting' <=> Waiting BY <1>1, <1>4 DEF Waiting
<1>6. file' \in JobsFile /\ write' \in WriteType /\ Saved' BY <1>1, <1>3, <1>5, WriteEnds
<1>7. CronTypeOK'
  BY <1>1, <1>4, <1>6 DEF CronInv, CronTypeOK, WriteType, PollerType
<1>8. LockHeld' BY <1>1, <1>2, <1>4 DEF LockHeld, Written, NoWrite
<1>9. RunsPaid' BY <1>1, <1>4, StillPaid DEF OwesRun, StartsRun
<1>10. MissedHandedOver' BY <1>4 DEF CronInv, MissedHandedOver
<1> QED BY <1>6, <1>7, <1>8, <1>9, <1>10 DEF CronInv

LEMMA PollerLoopsKeeps ==
  ASSUME CronInv, PollerLoops
  PROVE  CronInv'
<1>1. /\ poller.stage = "none" /\ poller.job = {} /\ poller.todo = {}
      /\ UNCHANGED <<jobs, next, file, write, command, created, queued, elapsed, begun, boots>>
  BY DEF PollerLoops
<1>2. poller \in PollerType /\ jobs \in JobTable BY CronTypes
<1>3. PICK loop \in {"rearm", "catch_up", "sleep", "tick"}, todo \in SUBSET Jobs,
           missed \in SUBSET poller.missed :
        /\ poller' = Polling(loop, todo, missed)
        /\ loop \in {"catch_up", "sleep", "tick"} => missed = {}
        /\ loop = "catch_up" => todo \subseteq poller.missed
  <2>1. CASE poller.loop = "recover"
    BY <1>2, <2>1 DEF PollerLoops, JobTable
  <2>2. CASE poller.loop = "rearm"
    <3>1. poller' = Polling("catch_up", jobs.listed \cap poller.missed, {})
      BY <2>2 DEF PollerLoops
    <3>2. jobs.listed \cap poller.missed \in SUBSET Jobs BY <1>2 DEF JobTable
    <3> QED BY <3>1, <3>2
  <2>3. CASE poller.loop = "sleep"
    <3>1. poller' = Polling("tick", jobs.listed, {}) BY <2>3 DEF PollerLoops
    <3>2. jobs.listed \in SUBSET Jobs BY <1>2 DEF JobTable
    <3> QED BY <3>1, <3>2
  <2>4. CASE poller.loop \notin {"recover", "rearm", "sleep"}
    <3>1. poller' = Polling("sleep", {}, {}) BY <2>4 DEF PollerLoops
    <3> QED BY <3>1
  <2> QED BY <2>1, <2>2, <2>3, <2>4
<1>4. poller.missed \subseteq Jobs BY <1>2 DEF PollerType
<1>5. /\ poller' \in PollerType /\ poller'.stage = "none" /\ poller'.loop = loop
      /\ poller'.todo = todo /\ poller'.missed = missed /\ poller'.job = {}
  BY <1>3, <1>4 DEF Polling, PollerType
<1>6. MissedHandedOver' BY <1>3, <1>5 DEF MissedHandedOver
<1>7. \A i \in Jobs : /\ i \in poller'.missed => OwesRun(i)
                      /\ poller'.loop = "catch_up" /\ i \in poller'.todo => OwesRun(i)
                      /\ ~StartsRun(i)'
  BY <1>3, <1>5 DEF OwesRun, StartsRun
<1> QED BY <1>1, <1>5, <1>6, <1>7, PollerAlone

\* The store has answered, and the run the poller owes is queued.
LEMMA PollerGoesOnKeeps ==
  ASSUME CronInv, PollerGoesOn
  PROVE  CronInv'
<1>1. /\ poller.stage = "none" /\ poller' = [poller EXCEPT !.job = {}, !.change = "none", !.run = FALSE]
      /\ queued' = [j \in Jobs |-> IF StartsRun(j) THEN queued[j] + 1 ELSE queued[j]]
      /\ UNCHANGED <<jobs, next, file, write, command, created, elapsed, begun, boots>>
  BY DEF PollerGoesOn, StartsRun
<1>2. /\ poller' \in PollerType /\ poller'.stage = "none" /\ poller'.loop = poller.loop
      /\ poller'.todo = poller.todo /\ poller'.missed = poller.missed /\ poller'.job = {}
  BY <1>1, CronTypes DEF PollerType
<1>3. /\ queued \in [Jobs -> Nat] /\ begun \in [Jobs -> Nat]
      /\ elapsed \in [Jobs -> Nat] /\ boots \in Nat
  BY CronTypes
<1>4. /\ queued' \in [Jobs -> Nat]
      /\ \A j \in Jobs : queued'[j] = IF StartsRun(j) THEN queued[j] + 1 ELSE queued[j]
  BY <1>1, <1>3
<1>5. CronTypeOK' BY <1>1, <1>2, <1>4 DEF CronInv, CronTypeOK, PollerType
<1>6. LockHeld' BY <1>1, <1>2 DEF CronInv, LockHeld
<1>7. Saved'
  <2>1. Waiting' <=> Waiting BY <1>1, <1>2 DEF Waiting
  <2>2. InMemory' = InMemory BY <1>1 DEF InMemory
  <2> QED BY <1>1, <2>1, <2>2 DEF CronInv, Saved
<1>8. RunsPaid'
  <2> SUFFICES ASSUME NEW i \in Jobs \ OneShot
               PROVE  begun[i] + queued'[i] + Credit(i)' <= elapsed[i] + boots
    BY <1>1 DEF RunsPaid
  <2>1. begun[i] + queued[i] + Credit(i) <= elapsed[i] + boots BY DEF CronInv, RunsPaid
  <2>2. (OwesRun(i)' <=> OwesRun(i)) /\ ~StartsRun(i)'
    BY <1>1, <1>2 DEF OwesRun, StartsRun
  <2>3. Credit(i)' = Credit(i) - (IF StartsRun(i) THEN 1 ELSE 0) BY <2>2 DEF Credit
  <2>4. Credit(i) \in {0, 1, 2} BY DEF Credit
  <2> QED BY <1>3, <1>4, <2>1, <2>3, <2>4
<1>9. MissedHandedOver' BY <1>2 DEF CronInv, MissedHandedOver
<1> QED BY <1>1, <1>5, <1>6, <1>7, <1>8, <1>9 DEF CronInv

LEMMA BeginRunKeeps ==
  ASSUME CronInv, NEW j \in Jobs, BeginRun(j)
  PROVE  CronInv'
<1>1. /\ queued[j] > 0 /\ queued' = [queued EXCEPT ![j] = @ - 1]
      /\ begun' = [begun EXCEPT ![j] = @ + 1]
      /\ UNCHANGED <<jobs, next, file, write, poller, command, created, elapsed, boots>>
  BY DEF BeginRun
<1>2. queued \in [Jobs -> Nat] /\ begun \in [Jobs -> Nat] BY CronTypes
<1>3. /\ queued' \in [Jobs -> Nat] /\ begun' \in [Jobs -> Nat]
      /\ \A i \in Jobs : begun'[i] + queued'[i] = begun[i] + queued[i]
  BY <1>1, <1>2
<1>4. CronTypeOK' BY <1>1, <1>3 DEF CronInv, CronTypeOK
<1>5. LockHeld' /\ Saved' /\ MissedHandedOver'
  BY <1>1 DEF CronInv, LockHeld, Saved, Waiting, InMemory, MissedHandedOver
<1>6. RunsPaid'
  <2>1. \A i \in Jobs : Credit(i)' = Credit(i) BY <1>1 DEF Credit, OwesRun, StartsRun
  <2> QED BY <1>1, <1>3, <2>1 DEF CronInv, RunsPaid
<1> QED BY <1>1, <1>4, <1>5, <1>6 DEF CronInv

\* A time that is reached pays for one more run.
LEMMA ElapseKeeps ==
  ASSUME CronInv, NEW j \in Jobs, Elapse(j)
  PROVE  CronInv'
<1>1. /\ elapsed' = [elapsed EXCEPT ![j] = @ + 1]
      /\ elapsed[j] < IF j \in OneShot THEN 1 ELSE MaxElapsed
      /\ next' = Reached(next, j)
      /\ file' = [file EXCEPT !.next = Reached(@, j)]
      /\ write' = [write EXCEPT !.data = {[d EXCEPT !.next = Reached(@, j)] : d \in @}]
      /\ UNCHANGED <<jobs, poller, command, created, queued, begun, boots>>
  BY DEF Elapse
<1>2. /\ jobs \in JobTable /\ next \in [Jobs -> Times] /\ file \in JobsFile
      /\ write \in WriteType /\ queued \in [Jobs -> Nat] /\ begun \in [Jobs -> Nat]
      /\ elapsed \in [Jobs -> 0 .. MaxElapsed] /\ boots \in Nat /\ MaxElapsed \in Nat \ {0}
  BY CronTypes, CronAssumption DEF CronInv, CronTypeOK
<1>3. /\ elapsed' \in [Jobs -> 0 .. MaxElapsed]
      /\ \A i \in Jobs : elapsed'[i] = IF i = j THEN elapsed[i] + 1 ELSE elapsed[i]
  <2>1. elapsed[j] + 1 \in 0 .. MaxElapsed BY <1>1, <1>2
  <2> QED BY <1>1, <1>2, <2>1
<1>4. \A times \in [Jobs -> Times] :
        /\ Reached(times, j) \in [Jobs -> Times]
        /\ \A i \in Jobs \ {j} : Reached(times, j)[i] = times[i]
  BY DEF Reached, Times
<1> DEFINE Later(d) == [d EXCEPT !.next = Reached(d.next, j)]
<1>5. \A d \in JobsFile : /\ Later(d) \in JobsFile
                          /\ Later(d) = [listed |-> d.listed, enabled |-> d.enabled,
                                         next |-> Reached(d.next, j)]
  BY <1>4 DEF JobsFile
<1>6. /\ write'.by = write.by /\ write'.data = {Later(d) : d \in write.data}
      /\ write' = [by |-> write'.by, data |-> write'.data]
      /\ write = [by |-> write.by, data |-> write.data]
      /\ file' = Later(file)
  BY <1>1, <1>2 DEF WriteType
<1> HIDE DEF Later
<1>7. write' \in WriteType /\ file' \in JobsFile
  <2>1. write.data \subseteq JobsFile /\ write.by \in {"nobody", "poller", "command"}
    BY <1>2 DEF WriteType
  <2>2. write'.data \subseteq JobsFile BY <1>5, <1>6, <2>1
  <2> QED BY <1>2, <1>5, <1>6, <2>1, <2>2 DEF WriteType
<1>8. CronTypeOK'
  BY <1>1, <1>2, <1>3, <1>4, <1>7 DEF CronInv, CronTypeOK, WriteType
<1>9. write = NoWrite <=> write' = NoWrite
  <2>1. write = NoWrite => write' = NoWrite BY <1>6 DEF NoWrite
  <2>2. write' = NoWrite => write.by = "nobody" BY <1>6 DEF NoWrite
  <2> QED BY <2>1, <2>2 DEF CronInv, LockHeld
<1>10. LockHeld' BY <1>1, <1>6, <1>9 DEF CronInv, LockHeld
<1>11. Saved'
  <2>1. Waiting' <=> Waiting BY <1>1 DEF Waiting
  <2>2. InMemory \in JobsFile /\ InMemory' = Later(InMemory)
    BY <1>1, <1>2, <1>5 DEF InMemory, JobsFile, JobTable
  <2>3. file = InMemory => file' = InMemory' BY <1>6, <2>2
  <2>4. write.data = {InMemory} => write'.data = {InMemory'} BY <1>6, <2>2
  <2> QED BY <1>9, <2>1, <2>3, <2>4 DEF CronInv, Saved
<1>12. RunsPaid'
  <2> SUFFICES ASSUME NEW i \in Jobs \ OneShot
               PROVE  begun[i] + queued[i] + Credit(i)' <= elapsed'[i] + boots
    BY <1>1 DEF RunsPaid
  <2>1. begun[i] + queued[i] + Credit(i) <= elapsed[i] + boots BY DEF CronInv, RunsPaid
  <2>2. StartsRun(i)' <=> StartsRun(i) BY <1>1 DEF StartsRun
  <2>3. Credit(i) \in {0, 1, 2} /\ Credit(i)' \in {0, 1, 2} BY DEF Credit
  <2>4. CASE i = j
    <3>1. Credit(i)' <= Credit(i) + 1 BY <2>2 DEF Credit
    <3> QED BY <1>2, <1>3, <2>1, <2>3, <2>4, <3>1
  <2>5. CASE i # j
    <3>1. OwesRun(i)' <=> OwesRun(i) BY <1>1, <1>2, <1>4, <2>5 DEF OwesRun
    <3>2. Credit(i)' = Credit(i) BY <2>2, <3>1 DEF Credit
    <3> QED BY <1>3, <2>1, <2>5, <3>2
  <2> QED BY <2>4, <2>5
<1>13. MissedHandedOver' BY <1>1 DEF CronInv, MissedHandedOver
<1> QED BY <1>7, <1>8, <1>10, <1>11, <1>12, <1>13 DEF CronInv

\* A restart forgets the runs that were queued, and may find a time in the
\* file whose run has begun.
LEMMA RebootKeeps ==
  ASSUME CronInv, Reboot
  PROVE  CronInv'
<1>1. /\ boots < MaxBoots /\ boots' = boots + 1
      /\ jobs' = [listed |-> file.listed, enabled |-> file.enabled]
      /\ next' = file.next
      /\ write' = NoWrite /\ command' = NoCommand
      /\ poller' = Polling("recover", file.listed, {})
      /\ queued' = [j \in Jobs |-> 0]
      /\ UNCHANGED <<file, created, elapsed, begun>>
  BY DEF Reboot
<1>2. /\ file \in JobsFile /\ queued \in [Jobs -> Nat] /\ begun \in [Jobs -> Nat]
      /\ elapsed \in [Jobs -> Nat] /\ boots \in Nat /\ MaxBoots \in Nat
  BY CronTypes, CronAssumption
<1>3. /\ jobs' \in JobTable /\ next' \in [Jobs -> Times] /\ write' \in WriteType
      /\ poller' \in PollerType /\ command' \in CommandType /\ queued' \in [Jobs -> Nat]
  BY <1>1, <1>2 DEF JobsFile, JobTable, WriteType, NoWrite, Polling, PollerType, CommandType,
       NoCommand
<1>4. boots' \in 0 .. MaxBoots BY <1>1, <1>2
<1>5. CronTypeOK'
  BY <1>1, <1>3, <1>4 DEF CronInv, CronTypeOK, WriteType, PollerType, CommandType
<1>6. LockHeld' BY <1>1 DEF LockHeld, NoWrite, NoCommand, Polling
<1>7. Saved'
  <2>1. file' = InMemory' BY <1>1, <1>2 DEF InMemory, JobsFile
  <2> QED BY <1>1, <2>1 DEF Saved
<1>8. RunsPaid'
  <2> SUFFICES ASSUME NEW i \in Jobs \ OneShot
               PROVE  begun[i] + queued'[i] + Credit(i)' <= elapsed[i] + boots'
    BY <1>1 DEF RunsPaid
  <2>1. begun[i] + queued[i] + Credit(i) <= elapsed[i] + boots BY DEF CronInv, RunsPaid
  <2>2. ~StartsRun(i)' BY <1>1 DEF StartsRun, Polling
  <2>3. Credit(i) \in {0, 1, 2} /\ Credit(i)' \in {0, 1} BY <2>2 DEF Credit
  <2>4. queued'[i] = 0 BY <1>1
  <2> QED BY <1>1, <1>2, <2>1, <2>3, <2>4
<1>9. MissedHandedOver' BY <1>1 DEF MissedHandedOver, Polling
<1> QED BY <1>3, <1>5, <1>6, <1>7, <1>8, <1>9 DEF CronInv

LEMMA CronStart == CronInit => CronInv
<1> SUFFICES ASSUME CronInit PROVE CronInv
  OBVIOUS
<1>0. 0 \in 0 .. MaxElapsed /\ 0 \in 0 .. MaxBoots /\ "none" \in Times
  BY CronAssumption DEF Times
<1>1. CronTypeOK
  BY <1>0 DEF CronInit, CronTypeOK, JobTable, JobsFile, NoWrite, NoCommand, Polling
<1>2. write \in WriteType /\ LockHeld
  BY DEF CronInit, WriteType, LockHeld, NoWrite, NoCommand, Polling
<1>3. Saved BY DEF CronInit, Saved, InMemory
<1>4. RunsPaid
  <2>1. \A i \in Jobs : ~OwesRun(i) /\ ~StartsRun(i)
    BY DEF CronInit, OwesRun, StartsRun, Polling
  <2>2. \A i \in Jobs : Credit(i) = 0 BY <2>1 DEF Credit
  <2> QED BY <2>2 DEF CronInit, RunsPaid
<1>5. MissedHandedOver BY DEF CronInit, MissedHandedOver, Polling
<1> QED BY <1>1, <1>2, <1>3, <1>4, <1>5 DEF CronInv

LEMMA CronStep == CronInv /\ [CronNext]_cronVars => CronInv'
<1> SUFFICES ASSUME CronInv, [CronNext]_cronVars PROVE CronInv'
  OBVIOUS
<1>1. CASE \E j \in Jobs : Elapse(j) \/ PollerMoves(j) \/ BeginRun(j)
  BY <1>1, ElapseKeeps, PollerMovesKeep, BeginRunKeeps
<1>2. CASE \E j \in Jobs : CreateJob(j) \/ DeleteJob(j) \/ EnableJob(j) \/ DisableJob(j)
  BY <1>2, CommandsKeep
<1>3. CASE CommandLocks \/ CommandEnds BY <1>3, CommandLocksKeep, CommandEndsKeeps
<1>4. CASE PollerLocks \/ PollerWrites \/ PollerGoesOn \/ PollerLoops
  BY <1>4, PollerLocksKeep, PollerWritesKeeps, PollerGoesOnKeeps, PollerLoopsKeeps
<1>5. CASE Reboot BY <1>5, RebootKeeps
<1>6. CASE UNCHANGED cronVars
  BY <1>6 DEF CronInv, CronTypeOK, LockHeld, Saved, Waiting, InMemory, RunsPaid, Credit,
       OwesRun, StartsRun, MissedHandedOver
<1> QED BY <1>1, <1>2, <1>3, <1>4, <1>5, <1>6 DEF CronNext

\* The whole invariant: one writer holds the lock, memory is written unless a
\* change waits, and every run is paid for by a time or a restart.
THEOREM CronInvariant == CronSpec => []CronInv
<1> QED BY CronStart, CronStep, PTL DEF CronSpec

\* The table of jobs, its file and the scheduler's loops keep to their types.
THEOREM CronTyped == CronSpec => []CronTypeOK
<1>1. CronInv => CronTypeOK BY DEF CronInv
<1> QED BY <1>1, CronInvariant, PTL

\* Once nobody is about to write, the file says what memory says; and a
\* recurring job runs once for each of its times, and one more per restart.
THEOREM JobsAreOnTime == CronSpec => []JobsKeepTime
<1>1. ASSUME CronInv PROVE FileIsCurrent
  BY <1>1 DEF CronInv, FileIsCurrent, Saved, Waiting, InMemory
<1>2. ASSUME CronInv PROVE RunsAreDue
  <2> SUFFICES ASSUME NEW i \in Jobs \ OneShot
               PROVE  begun[i] + queued[i] <= elapsed[i] + boots
    BY DEF RunsAreDue
  <2>1. begun[i] + queued[i] + Credit(i) <= elapsed[i] + boots
    BY <1>2 DEF CronInv, RunsPaid
  <2>2. Credit(i) \in {0, 1, 2} BY DEF Credit
  <2> QED BY <1>2, <2>1, <2>2, CronTypes
<1>3. CronInv => JobsKeepTime BY <1>1, <1>2 DEF JobsKeepTime
<1> QED BY <1>3, CronInvariant, PTL

(***************************************************************************)
(* Work plans: the rows of tasks and steps.                                *)
(***************************************************************************)
TaskRow == [status : TaskEnds \cup {"none", "queued", "running"},
            deps : SUBSET Tasks, parallel : BOOLEAN, required : BOOLEAN]
StepRow == [status : {"pending", "active", "blocked", "done", "skipped"},
            by : Tasks \cup {0}]
ResultRow == [holds : SUBSET Tasks, lease : {"none", "held", "late", "left"}]
LocalStates == {"none", "started", "executing", "stopping", "settled", "done"}

\* What executes was neither left queued nor is it queued again.
StartedBefore == \A k \in started : task[k].status \notin {"none", "queued"}

DoneCompleted == \A s \in Steps : step[s].status = "done" /\ step[s].by # 0
                                    => task[step[s].by].status = "completed"

\* A step something was begun on the strength of: it is over, or a task has
\* it.  Unlike being over, this is never undone.
Founded(s) == step[s].status \in {"done", "skipped"} \/ step[s].by # 0
Begun(s) == step[s].status \in {"active", "done"} \/ step[s].by # 0
StepsFounded == \A s \in Steps : Begun(s) => \A r \in StepDeps[s] : Founded(r)

PlansInv == /\ PlansTypeOK /\ EndedPlanIsQuiet /\ CarriedOutOnce /\ RunningIsExecuted
            /\ StartedBefore /\ DoneCompleted /\ StepsFounded

\* A step that keeps what is over, and begins only what is ready.
LEMMA StepsKept ==
  ASSUME PlansInv,
         \A s \in Steps : Founded(s) => Founded(s)',
         \A s \in Steps : Begun(s)' => Begun(s) \/ StepReady(s)
  PROVE  StepsFounded'
BY PlansAssumption DEF PlansInv, StepsFounded, StepReady, Founded

LEMMA PlansTypes ==
  ASSUME PlansTypeOK
  PROVE  /\ task \in [Tasks -> TaskRow] /\ step \in [Steps -> StepRow]
         /\ results \in Seq(ResultRow) /\ local \in [Tasks -> LocalStates]
         /\ Tasks \subseteq Nat /\ 0 \notin Tasks
<1>1. /\ task \in [Tasks -> TaskRow] /\ step \in [Steps -> StepRow]
      /\ results \in Seq(ResultRow) /\ local \in [Tasks -> LocalStates]
  BY DEF PlansTypeOK, TaskRow, StepRow, ResultRow, LocalStates
<1>2. Tasks \subseteq Nat /\ 0 \notin Tasks BY PlansAssumption DEF Tasks
<1> QED BY <1>1, <1>2

(***************************************************************************)
(* Work plans: the inbox of results.                                       *)
(***************************************************************************)
\* A new result is in the inbox, with all that was there; only a row that is
\* not in a consumer's hands is replaced.
LEMMA EnqueuedRows ==
  ASSUME results \in Seq(ResultRow), NEW k \in Tasks
  PROVE  /\ Enqueued(k) \in Seq(ResultRow)
         /\ \A r \in ToSet(results) : \E q \in ToSet(Enqueued(k)) :
              r.holds \subseteq q.holds
         /\ \E q \in ToSet(Enqueued(k)) : k \in q.holds
         /\ \A q \in ToSet(Enqueued(k)) :
              \/ q \in ToSet(results)
              \/ q.lease = "none"
              \/ q.lease = "late" /\ \E r \in ToSet(results) : r.lease = "late"
<1>1. /\ DOMAIN results = 1 .. Len(results) /\ Len(results) \in Nat
      /\ \A j \in 1 .. Len(results) : results[j] \in ResultRow
  BY LenProperties, ElementOfSeq
<1>2. CASE Len(results) < MaxPending \/ Mergeable = {}
  <2> DEFINE new == [holds |-> {k}, lease |-> "none"]
  <2>1. new \in ResultRow BY DEF ResultRow
  <2>2. Enqueued(k) = Append(results, new) BY <1>2 DEF Enqueued
  <2>3. new.holds = {k} /\ new.lease = "none" OBVIOUS
  <2> HIDE DEF new
  <2>4. Enqueued(k) \in Seq(ResultRow) /\ ToSet(Enqueued(k)) = ToSet(results) \cup {new}
    BY <2>1, <2>2, AppendToSet
  <2> QED BY <2>3, <2>4
<1>3. CASE ~(Len(results) < MaxPending \/ Mergeable = {})
  <2> DEFINE i == Oldest(Mergeable)
             new == [holds |-> results[i].holds \cup {k}, lease |-> results[i].lease]
             rest == WithoutRow(i)
  <2>1. Mergeable \in SUBSET Nat /\ Mergeable # {} BY <1>1, <1>3 DEF Mergeable
  <2>2. \E n \in Mergeable : \A j \in Mergeable : n <= j BY <2>1, LeastNumber
  <2>3. i \in Mergeable BY <2>2 DEF Oldest
  <2>4. i \in 1 .. Len(results) /\ results[i].lease \in {"none", "late"}
    BY <1>1, <2>3 DEF Mergeable
  <2> HIDE DEF i
  <2>5. new \in ResultRow /\ results[i] \in ResultRow
    BY <1>1, <2>4 DEF ResultRow
  <2>6. rest \in Seq(ResultRow) /\ ToSet(rest) = {results[j] : j \in (1 .. Len(results)) \ {i}}
    BY <2>4, WithoutPosition DEF WithoutRow
  <2>7. Enqueued(k) = Append(rest, new) BY <1>3 DEF Enqueued, i
  <2>8. new.holds = results[i].holds \cup {k} /\ new.lease = results[i].lease OBVIOUS
  <2> HIDE DEF new, rest
  <2>9. Enqueued(k) \in Seq(ResultRow) /\ ToSet(Enqueued(k)) = ToSet(rest) \cup {new}
    BY <2>5, <2>6, <2>7, AppendToSet
  <2>10. ToSet(results) = ToSet(rest) \cup {results[i]} /\ ToSet(rest) \subseteq ToSet(results)
    BY <1>1, <2>4, <2>6 DEF ToSet
  <2>11. \A r \in ToSet(results) : \E q \in ToSet(Enqueued(k)) : r.holds \subseteq q.holds
    BY <2>8, <2>9, <2>10
  <2>12. \E q \in ToSet(Enqueued(k)) : k \in q.holds
    BY <2>8, <2>9
  <2>13. ASSUME NEW q \in ToSet(Enqueued(k))
         PROVE  \/ q \in ToSet(results)
                \/ q.lease = "none"
                \/ q.lease = "late" /\ \E r \in ToSet(results) : r.lease = "late"
    BY <2>4, <2>8, <2>9, <2>10
  <2> QED BY <2>9, <2>11, <2>12, <2>13
<1> QED BY <1>2, <1>3

\* Rows that change where they stand.
LEMMA SameLength ==
  ASSUME NEW S, NEW T, NEW q \in Seq(S), NEW r, DOMAIN r = DOMAIN q,
         r = [i \in DOMAIN q |-> r[i]], \A i \in DOMAIN q : r[i] \in T
  PROVE  r \in Seq(T)
<1>1. DOMAIN q = 1 .. Len(q) /\ Len(q) \in Nat BY LenProperties
<1>2. r \in [1 .. Len(q) -> T] BY <1>1
<1> QED BY <1>1, <1>2, SeqDef

(***************************************************************************)
(* Work plans: what each step leaves true of the rows.                     *)
(***************************************************************************)
\* Steps in which nothing begins or ends executing, and no row changes but
\* perhaps that of the plan.
LEMMA RowsStand ==
  ASSUME PlansInv, PlansTypeOK', UNCHANGED <<task, step, started, again>>,
         plan' \in PlanEnds => plan \in PlanEnds \/ Unfinished = {},
         \A k \in Tasks : local'[k] = "executing" <=> local[k] = "executing"
  PROVE  PlansInv'
<1>1. RunningIsExecuted' BY DEF PlansInv, RunningIsExecuted
<1>2. Unfinished' = Unfinished BY DEF Unfinished, WithStatus
<1>3. EndedPlanIsQuiet'
  <2>1. Unfinished = {} => \A k \in Tasks : task[k].status # "running"
    BY DEF Unfinished, WithStatus
  <2>2. \A k \in Tasks : task[k].status # "running" => local[k] # "executing"
    BY DEF PlansInv, RunningIsExecuted
  <2> QED BY <1>2, <2>1, <2>2 DEF PlansInv, EndedPlanIsQuiet
<1>4. StepsFounded' BY DEF PlansInv, StepsFounded, Founded, Begun
<1>5. CarriedOutOnce' /\ StartedBefore' /\ DoneCompleted'
  BY DEF PlansInv, CarriedOutOnce, StartedBefore, DoneCompleted
<1> QED BY <1>1, <1>3, <1>4, <1>5 DEF PlansInv

LEMMA DelegateKeeps ==
  ASSUME PlansInv, NEW k \in Tasks, NEW D \in SUBSET Tasks, NEW kind \in TaskKinds,
         Delegate(k, D, kind)
  PROVE  PlansInv'
<1> DEFINE new == [status |-> "queued", deps |-> D,
                   parallel |-> kind.parallel, required |-> kind.required]
<1>0. /\ PlansTypeOK /\ task \in [Tasks -> TaskRow] /\ step \in [Steps -> StepRow]
      /\ local \in [Tasks -> LocalStates] /\ 0 \notin Tasks
  BY PlansTypes DEF PlansInv
<1>1. new \in TaskRow /\ new.status = "queued"
  <2>1. kind \in [parallel : BOOLEAN, required : BOOLEAN] BY PlansAssumption
  <2> QED BY <2>1 DEF TaskRow
<1> HIDE DEF new
<1>2. /\ task' = [task EXCEPT ![k] = new] /\ local' = [local EXCEPT ![k] = "started"]
      /\ plan' = "waiting_background" /\ task[k].status = "none"
      /\ UNCHANGED <<results, unnotified, taskWake, consumer, planner, planRestarts,
                     started, again, owed>>
      /\ GivesStep(k)
  BY DEF Delegate, New, Created, new, turnVars, seen
<1>3. /\ task'[k].status = "queued" /\ local'[k] = "started"
      /\ \A c \in Tasks \ {k} : task'[c] = task[c] /\ local'[c] = local[c]
  BY <1>0, <1>1, <1>2
<1>4. /\ step' \in [Steps -> StepRow]
      /\ \A s \in Steps : \/ step'[s] = step[s]
                          \/ /\ step[s].status = "pending" /\ StepReady(s)
                             /\ step'[s] = [status |-> "active", by |-> k]
  BY <1>0, <1>2 DEF GivesStep, StepRow
<1>5. task' \in [Tasks -> TaskRow] /\ local' \in [Tasks -> LocalStates]
  BY <1>0, <1>1, <1>2 DEF LocalStates
<1>6. PlansTypeOK'
  BY <1>0, <1>2, <1>4, <1>5
     DEF PlansTypeOK, TaskRow, StepRow, LocalStates
<1>7. EndedPlanIsQuiet' BY <1>2 DEF EndedPlanIsQuiet, PlanEnds
<1>8. RunningIsExecuted' BY <1>3 DEF PlansInv, RunningIsExecuted
<1>9. StartedBefore' BY <1>0, <1>2, <1>3 DEF PlansInv, PlansTypeOK, StartedBefore
<1>10. DoneCompleted'
  <2> SUFFICES ASSUME NEW s \in Steps, step'[s].status = "done", step'[s].by # 0
               PROVE  task'[step'[s].by].status = "completed"
    BY DEF DoneCompleted
  <2>1. step'[s] = step[s] BY <1>4
  <2>2. task[step[s].by].status = "completed" BY <2>1 DEF PlansInv, DoneCompleted
  <2>3. step[s].by \in Tasks \ {k} BY <1>0, <1>2, <2>1, <2>2 DEF StepRow
  <2> QED BY <1>3, <2>1, <2>2, <2>3
<1>11. \A s \in Steps : (Founded(s) => Founded(s)') /\ (Begun(s)' => Begun(s) \/ StepReady(s))
  BY <1>0, <1>4 DEF Founded, Begun
<1>12. StepsFounded' BY <1>11, StepsKept
<1>13. CarriedOutOnce' BY <1>2 DEF PlansInv, CarriedOutOnce
<1> QED BY <1>6, <1>7, <1>8, <1>9, <1>10, <1>12, <1>13 DEF PlansInv

LEMMA RetryKeeps ==
  ASSUME PlansInv, NEW k \in Tasks, NEW previous \in Tasks, Retry(k, previous)
  PROVE  PlansInv'
<1> DEFINE new == [task[previous] EXCEPT !.status = "queued", !.deps = {}]
<1>0. /\ PlansTypeOK /\ task \in [Tasks -> TaskRow] /\ step \in [Steps -> StepRow]
      /\ local \in [Tasks -> LocalStates] /\ 0 \notin Tasks
  BY PlansTypes DEF PlansInv
<1>1. new \in TaskRow /\ new.status = "queued"
  <2>1. task[previous] \in TaskRow BY <1>0
  <2>2. new.status = "queued" BY <2>1 DEF TaskRow
  <2>3. {} \in SUBSET Tasks OBVIOUS
  <2> QED BY <2>1, <2>2, <2>3 DEF TaskRow
<1> HIDE DEF new
<1>2. /\ task' = [task EXCEPT ![k] = new] /\ local' = [local EXCEPT ![k] = "started"]
      /\ plan' = "waiting_background" /\ task[k].status = "none"
      /\ task[previous].status \in {"failed", "needs_input", "interrupted"}
      /\ step' = [s \in Steps |-> IF step[s].by = previous
                                  THEN [status |-> "active", by |-> k] ELSE step[s]]
      /\ UNCHANGED <<results, unnotified, taskWake, consumer, planner, planRestarts,
                     started, again, owed>>
  BY DEF Retry, New, Created, new, turnVars, seen
<1>3. /\ task'[k].status = "queued" /\ local'[k] = "started"
      /\ \A c \in Tasks \ {k} : task'[c] = task[c] /\ local'[c] = local[c]
  BY <1>0, <1>1, <1>2
<1>4. /\ step' \in [Steps -> StepRow]
      /\ \A s \in Steps : \/ step'[s] = step[s]
                          \/ /\ step[s].by = previous
                             /\ step'[s] = [status |-> "active", by |-> k]
  BY <1>0, <1>2 DEF StepRow
<1>5. task' \in [Tasks -> TaskRow] /\ local' \in [Tasks -> LocalStates]
  BY <1>0, <1>1, <1>2 DEF LocalStates
<1>6. PlansTypeOK'
  BY <1>0, <1>2, <1>4, <1>5
     DEF PlansTypeOK, TaskRow, StepRow, LocalStates
<1>7. EndedPlanIsQuiet' BY <1>2 DEF EndedPlanIsQuiet, PlanEnds
<1>8. RunningIsExecuted' BY <1>3 DEF PlansInv, RunningIsExecuted
<1>9. StartedBefore' BY <1>0, <1>2, <1>3 DEF PlansInv, PlansTypeOK, StartedBefore
<1>10. DoneCompleted'
  <2> SUFFICES ASSUME NEW s \in Steps, step'[s].status = "done", step'[s].by # 0
               PROVE  task'[step'[s].by].status = "completed"
    BY DEF DoneCompleted
  <2>1. step'[s] = step[s] BY <1>4
  <2>2. task[step[s].by].status = "completed" BY <2>1 DEF PlansInv, DoneCompleted
  <2>3. step[s].by \in Tasks \ {k} BY <1>0, <1>2, <2>1, <2>2 DEF StepRow
  <2> QED BY <1>3, <2>1, <2>2, <2>3
<1>11. \A s \in Steps : (Founded(s) => Founded(s)') /\ (Begun(s)' => Begun(s) \/ StepReady(s))
  BY <1>0, <1>4 DEF Founded, Begun
<1>12. StepsFounded' BY <1>11, StepsKept
<1>13. CarriedOutOnce' BY <1>2 DEF PlansInv, CarriedOutOnce
<1> QED BY <1>6, <1>7, <1>8, <1>9, <1>10, <1>12, <1>13 DEF PlansInv

\* A task that may be claimed was never started: it is still queued.
LEMMA ClaimTaskKeeps ==
  ASSUME PlansInv, NEW k \in Tasks, ClaimTask(k)
  PROVE  PlansInv'
<1>0. /\ PlansTypeOK /\ task \in [Tasks -> TaskRow] /\ step \in [Steps -> StepRow]
      /\ local \in [Tasks -> LocalStates] /\ 0 \notin Tasks
  BY PlansTypes DEF PlansInv
<1>1. /\ local[k] = "started"
      /\ UNCHANGED <<plan, step, results, unnotified, owed, taskWake, consumer, planner,
                     planRestarts>>
  BY DEF ClaimTask, turnVars
<1>2. CASE Claimable(k)
  <2>1. /\ task' = [task EXCEPT ![k].status = "running"]
        /\ local' = [local EXCEPT ![k] = "executing"]
        /\ started' = started \cup {k}
        /\ again' = again \cup (started \cap {k})
        /\ task[k].status = "queued"
    BY <1>2 DEF ClaimTask, Claimable, Runnable, WithStatus
  <2>2. /\ task'[k] = [task[k] EXCEPT !.status = "running"] /\ local'[k] = "executing"
        /\ \A c \in Tasks \ {k} : task'[c] = task[c] /\ local'[c] = local[c]
    BY <1>0, <2>1
  <2>3. task'[k] \in TaskRow /\ task'[k].status = "running"
    BY <1>0, <2>2 DEF TaskRow
  <2>4. task' \in [Tasks -> TaskRow] /\ local' \in [Tasks -> LocalStates]
    BY <1>0, <2>1, <2>2, <2>3 DEF LocalStates
  <2>5. k \notin started BY <2>1 DEF PlansInv, StartedBefore
  <2>6. PlansTypeOK'
    BY <1>0, <1>1, <2>1, <2>4 DEF PlansTypeOK, TaskRow, LocalStates
  <2>7. EndedPlanIsQuiet'
    <3>1. k \in Unfinished BY <2>1 DEF Unfinished, WithStatus
    <3> QED BY <3>1, <1>1 DEF PlansInv, EndedPlanIsQuiet
  <2>8. RunningIsExecuted'
    <3>1. \A c \in Tasks \ {k} : task'[c].status = "running" <=> local'[c] = "executing"
      BY <2>2 DEF PlansInv, RunningIsExecuted
    <3> QED BY <2>2, <2>3, <3>1 DEF RunningIsExecuted
  <2>9. CarriedOutOnce' BY <2>1, <2>5 DEF PlansInv, CarriedOutOnce
  <2>10. StartedBefore'
    BY <1>0, <2>1, <2>2, <2>3 DEF PlansInv, PlansTypeOK, StartedBefore
  <2>11. DoneCompleted'
    <3> SUFFICES ASSUME NEW s \in Steps, step[s].status = "done", step[s].by # 0
                 PROVE  task'[step[s].by].status = "completed"
      BY <1>1 DEF DoneCompleted
    <3>1. task[step[s].by].status = "completed" /\ step[s].by \in Tasks
      BY <1>0 DEF PlansInv, DoneCompleted, StepRow
    <3> QED BY <3>1, <2>1, <2>2
  <2>12. StepsFounded' BY <1>1 DEF PlansInv, StepsFounded, Founded, Begun
  <2> QED BY <2>6, <2>7, <2>8, <2>9, <2>10, <2>11, <2>12 DEF PlansInv
<1>3. CASE ~Claimable(k)
  <2>1. local' = [local EXCEPT ![k] = "done"] /\ UNCHANGED <<task, started, again>>
    BY <1>3 DEF ClaimTask, seen
  <2>2. \A c \in Tasks : local'[c] = "executing" <=> local[c] = "executing"
    BY <1>0, <1>1, <2>1
  <2>3. PlansTypeOK'
    <3>1. local' \in [Tasks -> LocalStates] BY <1>0, <2>1 DEF LocalStates
    <3> QED BY <1>0, <1>1, <2>1, <3>1 DEF PlansTypeOK, LocalStates
  <2> QED BY <1>1, <2>1, <2>2, <2>3, RowsStand
<1> QED BY <1>2, <1>3

\* The runner's bookkeeping leaves the rows alone.
LEMMA RunnerKeeps ==
  ASSUME PlansInv, NEW k \in Tasks,
         CutOff(k) \/ Forget(k) \/ RepeatCall(k) \/ \E accepted \in BOOLEAN : Notify(k, accepted)
  PROVE  PlansInv'
<1>0. PlansTypeOK /\ local \in [Tasks -> LocalStates] BY PlansTypes DEF PlansInv
<1>1. UNCHANGED <<plan, task, step, results, owed, consumer, planner, planRestarts,
                  started, again>>
  BY DEF CutOff, Forget, RepeatCall, Notify, rows, turnVars, seen
<1>2. unnotified' \subseteq Tasks /\ taskWake' \in BOOLEAN
  BY <1>0 DEF PlansTypeOK, CutOff, Forget, RepeatCall, Notify, rows
<1>3. /\ local' \in [Tasks -> LocalStates]
      /\ \A c \in Tasks : local'[c] = "executing" <=> local[c] = "executing"
  <2>1. CASE CutOff(k) \/ Forget(k) \/ RepeatCall(k)
    BY <1>0, <2>1 DEF CutOff, Forget, RepeatCall, LocalStates
  <2>2. CASE \E accepted \in BOOLEAN : Notify(k, accepted)
    BY <1>0, <2>2 DEF Notify, LocalStates
  <2> QED BY <2>1, <2>2
<1>4. PlansTypeOK' BY <1>0, <1>1, <1>2, <1>3 DEF PlansTypeOK, LocalStates
<1> QED BY <1>1, <1>3, <1>4, RowsStand

\* An outcome is written only for a task that runs; what it takes with it is
\* only queued.
LEMMA SettleTaskKeeps ==
  ASSUME PlansInv, NEW k \in Tasks, NEW outcome \in {"completed", "failed", "needs_input"},
         SettleTask(k, outcome)
  PROVE  PlansInv'
<1> DEFINE blocked == Blocked(k, outcome)
<1>0. /\ PlansTypeOK /\ task \in [Tasks -> TaskRow] /\ step \in [Steps -> StepRow]
      /\ local \in [Tasks -> LocalStates] /\ 0 \notin Tasks
      /\ results \in Seq(ResultRow)
  BY PlansTypes DEF PlansInv
<1>1. /\ local[k] \in {"executing", "stopping"}
      /\ UNCHANGED <<taskWake, consumer, planner, planRestarts, started, again>>
  BY DEF SettleTask, turnVars, seen
<1>2. CASE ~Current(k)
  <2>1. local' = [local EXCEPT ![k] = "done"]
        /\ UNCHANGED <<plan, task, step, results, unnotified, owed>>
    BY <1>2 DEF SettleTask, rows
  <2>2. local[k] # "executing"
    BY <1>2 DEF Current, PlansInv, RunningIsExecuted
  <2>3. \A c \in Tasks : local'[c] = "executing" <=> local[c] = "executing"
    BY <1>0, <2>1, <2>2
  <2>4. PlansTypeOK'
    <3>1. local' \in [Tasks -> LocalStates] BY <1>0, <2>1 DEF LocalStates
    <3> QED BY <1>0, <1>1, <2>1, <3>1 DEF PlansTypeOK, LocalStates
  <2> QED BY <1>1, <2>1, <2>3, <2>4, RowsStand
<1>3. CASE Current(k)
  <2>1. TaskSettles(k, outcome) /\ task[k].status = "running"
    BY <1>3 DEF SettleTask, Current
  <2>2. /\ task' = [c \in Tasks |->
              IF c = k THEN [task[c] EXCEPT !.status = outcome]
              ELSE IF c \in blocked THEN [task[c] EXCEPT !.status = "cancelled"]
              ELSE task[c]]
        /\ step' = [s \in Steps |->
              IF step[s].status # "active" THEN step[s]
              ELSE IF step[s].by = k THEN [step[s] EXCEPT !.status = StepEnd[outcome]]
              ELSE IF step[s].by \in blocked THEN [step[s] EXCEPT !.status = "skipped"]
              ELSE step[s]]
        /\ plan' = IF plan \in PlanEnds \/ outcome = "completed" THEN plan
                   ELSE IF outcome = "needs_input" THEN "waiting_user" ELSE "paused"
        /\ results' = Enqueued(k) /\ owed' = owed \cup {k}
        /\ unnotified' = unnotified \cup {k}
        /\ local' = [local EXCEPT ![k] = "settled"]
    BY <2>1 DEF TaskSettles
  <2>3. \A c \in blocked : c \in Tasks /\ task[c].status = "queued"
    BY DEF Blocked, WithStatus
  <2>4. StepEnd[outcome] \in {"done", "blocked"} /\ (StepEnd[outcome] = "done" => outcome = "completed")
    BY DEF StepEnd
  <2> HIDE DEF blocked
  <2>5. /\ task'[k] \in TaskRow /\ task'[k].status = outcome
        /\ \A c \in Tasks \ {k} :
             /\ task'[c] \in TaskRow
             /\ \/ task'[c] = task[c]
                \/ task[c].status = "queued" /\ task'[c].status = "cancelled"
    <3>1. task'[k] = [task[k] EXCEPT !.status = outcome] /\ task[k] \in TaskRow
      BY <1>0, <2>2
    <3>2. task'[k] \in TaskRow /\ task'[k].status = outcome
      BY <3>1 DEF TaskRow, TaskEnds
    <3>3. ASSUME NEW c \in Tasks \ {k}
          PROVE  /\ task'[c] \in TaskRow
                 /\ \/ task'[c] = task[c]
                    \/ task[c].status = "queued" /\ task'[c].status = "cancelled"
      <4>1. CASE c \in blocked
        <5>1. task'[c] = [task[c] EXCEPT !.status = "cancelled"] /\ task[c] \in TaskRow
          BY <1>0, <2>2, <4>1
        <5> QED BY <5>1, <2>3, <4>1 DEF TaskRow, TaskEnds
      <4>2. CASE c \notin blocked BY <1>0, <2>2, <4>2
      <4> QED BY <4>1, <4>2
    <3> QED BY <3>2, <3>3
  <2>6. ASSUME NEW s \in Steps
        PROVE  /\ step'[s] \in StepRow /\ step'[s].by = step[s].by
               /\ \/ step'[s] = step[s]
                  \/ /\ step[s].status = "active" /\ step[s].by = k
                     /\ step'[s].status = StepEnd[outcome]
                  \/ step[s].status = "active" /\ step'[s].status = "skipped"
    <3>1. step[s] \in StepRow BY <1>0
    <3>2. CASE step[s].status = "active" /\ step[s].by = k
      <4>1. step'[s] = [step[s] EXCEPT !.status = StepEnd[outcome]] BY <2>2, <3>2
      <4> QED BY <4>1, <3>1, <3>2, <2>4 DEF StepRow
    <3>3. CASE step[s].status = "active" /\ step[s].by # k /\ step[s].by \in blocked
      <4>1. step'[s] = [step[s] EXCEPT !.status = "skipped"] BY <2>2, <3>3
      <4> QED BY <4>1, <3>1, <3>3 DEF StepRow
    <3>4. CASE step[s].status # "active" \/ (step[s].by # k /\ step[s].by \notin blocked)
      BY <2>2, <3>1, <3>4
    <3> QED BY <3>2, <3>3, <3>4
  <2>7. /\ task' \in [Tasks -> TaskRow] /\ step' \in [Steps -> StepRow]
        /\ local' \in [Tasks -> LocalStates] /\ results' \in Seq(ResultRow)
    <3>1. task' \in [Tasks -> TaskRow] BY <2>2, <2>5
    <3>2. step' \in [Steps -> StepRow] BY <2>2, <2>6
    <3>3. local' \in [Tasks -> LocalStates] BY <1>0, <2>2 DEF LocalStates
    <3>4. results' \in Seq(ResultRow) BY <1>0, <2>2, EnqueuedRows
    <3> QED BY <3>1, <3>2, <3>3, <3>4
  <2>8. PlansTypeOK'
    <3>1. plan' \in PlanEnds \cup {"queued", "active", "waiting_user",
                                   "waiting_background", "paused"}
      BY <1>0, <2>2 DEF PlansTypeOK
    <3>2. owed' \subseteq Tasks /\ unnotified' \subseteq Tasks
      BY <1>0, <2>2 DEF PlansTypeOK
    <3> QED BY <1>0, <1>1, <2>7, <3>1, <3>2
            DEF PlansTypeOK, TaskRow, StepRow, ResultRow, LocalStates
  <2>9. EndedPlanIsQuiet'
    <3>1. k \in Unfinished BY <2>1 DEF Unfinished, WithStatus
    <3>2. plan \notin PlanEnds BY <3>1 DEF PlansInv, EndedPlanIsQuiet
    <3>3. plan' \notin PlanEnds BY <2>2, <3>2 DEF PlanEnds
    <3> QED BY <3>3 DEF EndedPlanIsQuiet
  <2>10. RunningIsExecuted'
    <3>1. local'[k] = "settled" /\ \A c \in Tasks \ {k} : local'[c] = local[c]
      BY <1>0, <2>2
    <3>2. \A c \in Tasks \ {k} : task'[c].status = "running" <=> task[c].status = "running"
      BY <2>5
    <3>3. task'[k].status # "running" BY <2>5
    <3> QED BY <3>1, <3>2, <3>3 DEF PlansInv, RunningIsExecuted
  <2>11. StartedBefore'
    <3>1. started \subseteq Tasks /\ started' = started BY <1>0, <1>1 DEF PlansTypeOK
    <3>2. task'[k].status \notin {"none", "queued"} BY <2>5
    <3>3. \A c \in Tasks \ {k} : task'[c].status \in {"none", "queued"}
                                   => task[c].status \in {"none", "queued"}
      BY <2>5
    <3> QED BY <3>1, <3>2, <3>3 DEF PlansInv, StartedBefore
  <2>12. DoneCompleted'
    <3> SUFFICES ASSUME NEW s \in Steps, step'[s].status = "done", step'[s].by # 0
                 PROVE  task'[step'[s].by].status = "completed"
      BY DEF DoneCompleted
    <3>1. step'[s].by = step[s].by /\ step[s].by \in Tasks
      BY <1>0, <2>6 DEF StepRow
    <3>2. CASE step[s].status = "active"
      <4>1. step[s].by = k /\ outcome = "completed" BY <2>4, <2>6, <3>2
      <4> QED BY <4>1, <3>1, <2>5
    <3>3. CASE step[s].status # "active"
      <4>1. step'[s] = step[s] BY <2>6, <3>3
      <4>2. task[step[s].by].status = "completed" BY <4>1 DEF PlansInv, DoneCompleted
      <4>3. step[s].by # k BY <2>1, <4>2
      <4> QED BY <3>1, <4>2, <4>3, <2>5
    <3> QED BY <3>2, <3>3
  <2>13. \A s \in Steps : (Founded(s) => Founded(s)') /\ (Begun(s)' => Begun(s))
    BY <2>6 DEF Founded, Begun
  <2>14. StepsFounded' BY <2>13, StepsKept
  <2>15. CarriedOutOnce' BY <1>1 DEF PlansInv, CarriedOutOnce
  <2> QED BY <2>8, <2>9, <2>10, <2>11, <2>12, <2>14, <2>15 DEF PlansInv
<1> QED BY <1>2, <1>3

LEMMA PlanMovesKeep ==
  ASSUME PlansInv, Pause \/ Activate \/ Reopen \/ CompletePlan
  PROVE  PlansInv'
<1>0. PlansTypeOK BY DEF PlansInv
<1>1. /\ plan' \in PlanEnds \cup {"queued", "active", "paused"}
      /\ plan' \in PlanEnds => Unfinished = {}
      /\ UNCHANGED <<task, step, results, unnotified, local, owed, taskWake, consumer,
                     planner, planRestarts, started, again>>
  BY DEF Pause, Activate, Reopen, CompletePlan, MayComplete, MovesTo, PlanEnds, turnVars, seen
<1>2. PlansTypeOK' BY <1>0, <1>1 DEF PlansTypeOK
<1> QED BY <1>1, <1>2, RowsStand

LEMMA CancelPlanKeeps ==
  ASSUME PlansInv, CancelPlan
  PROVE  PlansInv'
<1>0. /\ PlansTypeOK /\ task \in [Tasks -> TaskRow] /\ step \in [Steps -> StepRow]
      /\ local \in [Tasks -> LocalStates] /\ 0 \notin Tasks
  BY PlansTypes DEF PlansInv
<1>1. /\ plan' = "cancelled"
      /\ task' = [k \in Tasks |-> IF k \in Unfinished
                                  THEN [task[k] EXCEPT !.status = "cancelled"] ELSE task[k]]
      /\ step' = [s \in Steps |-> IF step[s].status = "done" THEN step[s]
                                  ELSE [step[s] EXCEPT !.status = "skipped"]]
      /\ local' = [k \in Tasks |-> IF local[k] = "started" THEN "done"
                                   ELSE IF local[k] = "executing" THEN "stopping"
                                   ELSE local[k]]
      /\ UNCHANGED <<results, unnotified, owed, taskWake, consumer, planner, planRestarts,
                     started, again>>
  BY DEF CancelPlan, turnVars, seen
<1>2. ASSUME NEW k \in Tasks
      PROVE  /\ task'[k] \in TaskRow
             /\ task'[k].status \notin {"queued", "running"}
             /\ task[k].status \notin {"queued", "running"} => task'[k] = task[k]
             /\ task'[k].status = "none" => task[k].status = "none"
  <2>1. task[k] \in TaskRow BY <1>0
  <2>2. k \in Unfinished <=> task[k].status \in {"queued", "running"}
    BY DEF Unfinished, WithStatus
  <2>3. CASE k \in Unfinished
    <3>1. task'[k] = [task[k] EXCEPT !.status = "cancelled"] BY <1>1, <2>3
    <3> QED BY <3>1, <2>1, <2>2, <2>3 DEF TaskRow, TaskEnds
  <2>4. CASE k \notin Unfinished BY <1>1, <2>1, <2>2, <2>4
  <2> QED BY <2>3, <2>4
<1>3. ASSUME NEW s \in Steps
      PROVE  /\ step'[s] \in StepRow /\ step'[s].by = step[s].by
             /\ \/ step[s].status = "done" /\ step'[s] = step[s]
                \/ step'[s].status = "skipped"
  <2>1. step[s] \in StepRow BY <1>0
  <2>2. CASE step[s].status = "done" BY <1>1, <2>1, <2>2
  <2>3. CASE step[s].status # "done"
    <3>1. step'[s] = [step[s] EXCEPT !.status = "skipped"] BY <1>1, <2>3
    <3> QED BY <3>1, <2>1 DEF StepRow
  <2> QED BY <2>2, <2>3
<1>4. /\ task' \in [Tasks -> TaskRow] /\ step' \in [Steps -> StepRow]
      /\ local' \in [Tasks -> LocalStates]
      /\ \A k \in Tasks : local'[k] # "executing"
  <2>1. task' \in [Tasks -> TaskRow] BY <1>1, <1>2
  <2>2. step' \in [Steps -> StepRow] BY <1>1, <1>3
  <2> QED BY <1>0, <1>1, <2>1, <2>2 DEF LocalStates
<1>5. PlansTypeOK'
  <2>1. plan' \in PlanEnds BY <1>1 DEF PlanEnds
  <2> QED BY <1>0, <1>1, <1>4, <2>1 DEF PlansTypeOK, TaskRow, StepRow, LocalStates
<1>6. EndedPlanIsQuiet' BY <1>2, <1>4 DEF EndedPlanIsQuiet, Unfinished, WithStatus
<1>7. RunningIsExecuted' BY <1>2, <1>4 DEF RunningIsExecuted
<1>8. StartedBefore'
  BY <1>0, <1>1, <1>2 DEF PlansInv, PlansTypeOK, StartedBefore
<1>9. DoneCompleted'
  <2> SUFFICES ASSUME NEW s \in Steps, step'[s].status = "done", step'[s].by # 0
               PROVE  task'[step'[s].by].status = "completed"
    BY DEF DoneCompleted
  <2>1. step'[s] = step[s] BY <1>3
  <2>2. step[s].by \in Tasks /\ task[step[s].by].status = "completed"
    BY <1>0, <2>1 DEF PlansInv, DoneCompleted, StepRow
  <2> QED BY <1>2, <2>1, <2>2
<1>10. \A s \in Steps : (Founded(s) => Founded(s)') /\ (Begun(s)' => Begun(s))
  BY <1>3 DEF Founded, Begun
<1>11. StepsFounded' BY <1>10, StepsKept
<1>12. CarriedOutOnce' BY <1>1 DEF PlansInv, CarriedOutOnce
<1> QED BY <1>5, <1>6, <1>7, <1>8, <1>9, <1>11, <1>12 DEF PlansInv

LEMMA UpdateStepKeeps ==
  ASSUME PlansInv, NEW s \in Steps, NEW to \in {"active", "blocked", "done", "skipped"},
         UpdateStep(s, to)
  PROVE  PlansInv'
<1>0. PlansTypeOK /\ step \in [Steps -> StepRow]
  BY PlansTypes DEF PlansInv
<1>1. /\ step' = [step EXCEPT ![s].status = to]
      /\ to \in StepMoves[step[s].status] /\ MayMark(s, to)
      /\ UNCHANGED <<plan, task, results, unnotified, local, owed, taskWake, consumer,
                     planner, planRestarts, started, again>>
  BY DEF UpdateStep, turnVars, seen
<1>2. /\ step'[s] = [step[s] EXCEPT !.status = to]
      /\ \A r \in Steps \ {s} : step'[r] = step[r]
  BY <1>0, <1>1
<1>3. step'[s] \in StepRow /\ step'[s].status = to /\ step'[s].by = step[s].by
  BY <1>0, <1>2 DEF StepRow
<1>4. step' \in [Steps -> StepRow] BY <1>0, <1>1, <1>2, <1>3
<1>5. step[s].status \notin {"done", "skipped"}
  BY <1>1 DEF StepMoves
<1>6. PlansTypeOK' BY <1>0, <1>1, <1>4 DEF PlansTypeOK, StepRow
<1>7. DoneCompleted'
  <2> SUFFICES ASSUME NEW r \in Steps, step'[r].status = "done", step'[r].by # 0
               PROVE  task[step'[r].by].status = "completed"
    BY <1>1 DEF DoneCompleted
  <2>1. CASE r = s BY <1>1, <1>3, <2>1 DEF MayMark
  <2>2. CASE r # s BY <1>2, <2>2 DEF PlansInv, DoneCompleted
  <2> QED BY <2>1, <2>2
<1>8. ASSUME NEW r \in Steps
      PROVE  (Founded(r) => Founded(r)') /\ (Begun(r)' => Begun(r) \/ StepReady(r))
  <2>1. CASE r = s BY <1>1, <1>3, <1>5, <2>1 DEF Founded, Begun, MayMark
  <2>2. CASE r # s BY <1>2, <2>2 DEF Founded, Begun
  <2> QED BY <2>1, <2>2
<1>9. StepsFounded' BY <1>8, StepsKept
<1>10. /\ EndedPlanIsQuiet' /\ CarriedOutOnce' /\ RunningIsExecuted' /\ StartedBefore'
  BY <1>1 DEF PlansInv, EndedPlanIsQuiet, CarriedOutOnce, RunningIsExecuted, StartedBefore,
       Unfinished, WithStatus
<1> QED BY <1>6, <1>7, <1>9, <1>10 DEF PlansInv

\* What ran when the process ended is interrupted, and nothing executes yet.
LEMMA PlanRestartKeeps ==
  ASSUME PlansInv, PlanRestart
  PROVE  PlansInv'
<1>0. /\ PlansTypeOK /\ task \in [Tasks -> TaskRow] /\ step \in [Steps -> StepRow]
      /\ local \in [Tasks -> LocalStates] /\ 0 \notin Tasks
      /\ results \in Seq(ResultRow)
  BY PlansTypes DEF PlansInv
<1>1. /\ task' = Reconciled
      /\ plan' \in {"paused", plan} /\ (plan' # plan => plan' = "paused")
      /\ \E after : local' = [k \in Tasks |-> IF k \in after THEN "started" ELSE "none"]
      /\ unnotified' = {} /\ consumer' = NoConsumer /\ taskWake' \in BOOLEAN
      /\ planRestarts < MaxPlanRestarts /\ planRestarts' = planRestarts + 1
      /\ UNCHANGED <<step, owed, started, again>>
  BY DEF PlanRestart, seen
<1>2. /\ \E left \in BOOLEAN : results' = [i \in DOMAIN results |->
           IF HeldRow(results[i])
           THEN [results[i] EXCEPT !.lease = IF left /\ @ = "held" THEN "left" ELSE "none"]
           ELSE results[i]]
      /\ planner' \in {"none", "left"}
  BY DEF PlanRestart
<1>3. ASSUME NEW k \in Tasks
      PROVE  /\ task'[k] \in TaskRow /\ task'[k].status # "running"
             /\ task[k].status # "running" => task'[k] = task[k]
             /\ task[k].status = "running" => task'[k].status = "interrupted"
  <2>1. task[k] \in TaskRow BY <1>0
  <2>2. task'[k] = IF task[k].status = "running"
                   THEN [task[k] EXCEPT !.status = "interrupted"] ELSE task[k]
    BY <1>1 DEF Reconciled
  <2> QED BY <2>1, <2>2 DEF TaskRow, TaskEnds
<1>4. /\ task' \in [Tasks -> TaskRow] /\ local' \in [Tasks -> LocalStates]
      /\ \A k \in Tasks : local'[k] # "executing"
  <2>1. task' \in [Tasks -> TaskRow] BY <1>1, <1>3 DEF Reconciled
  <2> QED BY <1>1, <2>1 DEF LocalStates
<1>5. results' \in Seq(ResultRow)
  <2>1. PICK left \in BOOLEAN : results' = [i \in DOMAIN results |->
           IF HeldRow(results[i])
           THEN [results[i] EXCEPT !.lease = IF left /\ @ = "held" THEN "left" ELSE "none"]
           ELSE results[i]]
    BY <1>2
  <2>2. \A i \in DOMAIN results : results[i] \in ResultRow
    BY <1>0, LenProperties, ElementOfSeq
  <2>3. \A i \in DOMAIN results : results'[i] \in ResultRow
    BY <2>1, <2>2 DEF ResultRow
  <2>4. DOMAIN results' = DOMAIN results /\ results' = [i \in DOMAIN results |-> results'[i]]
    BY <2>1
  <2> QED BY <1>0, <2>3, <2>4, SameLength
<1>6. PlansTypeOK'
  <2>1. consumer' \in [on : BOOLEAN, saw : SUBSET Tasks, evidence : BOOLEAN]
    BY <1>1 DEF NoConsumer
  <2>2. planRestarts' \in 0 .. MaxPlanRestarts
    BY <1>0, <1>1, PlansAssumption DEF PlansTypeOK
  <2> QED BY <1>0, <1>1, <1>2, <1>4, <1>5, <2>1, <2>2
          DEF PlansTypeOK, TaskRow, ResultRow, LocalStates
<1>7. EndedPlanIsQuiet'
  <2>1. plan' \in PlanEnds => plan \in PlanEnds BY <1>1 DEF PlanEnds
  <2>2. Unfinished = {} => Unfinished' = {} BY <1>3 DEF Unfinished, WithStatus
  <2> QED BY <1>4, <2>1, <2>2 DEF PlansInv, EndedPlanIsQuiet
<1>8. RunningIsExecuted' BY <1>3, <1>4 DEF RunningIsExecuted
<1>9. StartedBefore' BY <1>0, <1>1, <1>3 DEF PlansInv, PlansTypeOK, StartedBefore
<1>10. DoneCompleted'
  <2> SUFFICES ASSUME NEW s \in Steps, step[s].status = "done", step[s].by # 0
               PROVE  task'[step[s].by].status = "completed"
    BY <1>1 DEF DoneCompleted
  <2>1. step[s].by \in Tasks /\ task[step[s].by].status = "completed"
    BY <1>0 DEF PlansInv, DoneCompleted, StepRow
  <2> QED BY <1>3, <2>1
<1>11. StepsFounded' BY <1>1 DEF PlansInv, StepsFounded, Founded, Begun
<1>12. CarriedOutOnce' BY <1>1 DEF PlansInv, CarriedOutOnce
<1> QED BY <1>6, <1>7, <1>8, <1>9, <1>10, <1>11, <1>12 DEF PlansInv

\* The inbox of a plan changes hands; the tasks and steps do not.
LEMMA ConsumerKeeps ==
  ASSUME PlansInv, ConsumerMoves
  PROVE  PlansInv'
<1>0. PlansTypeOK /\ results \in Seq(ResultRow)
  BY PlansTypes DEF PlansInv
<1>1. UNCHANGED <<plan, task, step, unnotified, local, planRestarts, started, again>>
  BY DEF ConsumerMoves, ClaimWakeInbox, RecordEvidence, LeaseRunsOut, Acknowledge,
         ConsumerFails, LeftLeaseEnds, rows, seen
<1>2. \A i \in DOMAIN results : results[i] \in ResultRow
  BY <1>0, LenProperties, ElementOfSeq
<1>3. results' \in Seq(ResultRow)
  <2>1. CASE Acknowledge
    <3>1. results' = Rejecting(results, {r \in ToSet(results) : HeldRow(r)})
      BY <2>1 DEF Acknowledge
    <3> QED BY <1>0, <3>1, RejectingProperties
  <2>2. CASE results' = results BY <1>0, <2>2
  <2>3. CASE Claims \/ LeaseRunsOut \/ ConsumerFails \/ LeftLeaseEnds
    <3>1. /\ DOMAIN results' = DOMAIN results
          /\ results' = [i \in DOMAIN results |-> results'[i]]
      BY <2>3 DEF Claims, LeaseRunsOut, ConsumerFails, LeftLeaseEnds, ReleasedRows
    <3>2. \A i \in DOMAIN results :
             \/ results'[i] = results[i]
             \/ \E lease \in {"none", "held", "late"} :
                  results'[i] = [results[i] EXCEPT !.lease = lease]
      BY <2>3 DEF Claims, LeaseRunsOut, ConsumerFails, LeftLeaseEnds, ReleasedRows
    <3>3. \A i \in DOMAIN results : results'[i] \in ResultRow
      BY <1>2, <3>2 DEF ResultRow
    <3> QED BY <1>0, <3>1, <3>3, SameLength
  <2> QED BY <2>1, <2>2, <2>3 DEF ConsumerMoves, ClaimWakeInbox, RecordEvidence, rows
<1>4. /\ owed' \subseteq Tasks /\ taskWake' \in BOOLEAN
      /\ planner' \in {"none", "held", "left"}
  BY <1>0 DEF PlansTypeOK, ConsumerMoves, ClaimWakeInbox, Claims, RecordEvidence,
       LeaseRunsOut, Acknowledge, ConsumerFails, LeftLeaseEnds, rows, turnVars
<1>5. consumer' \in [on : BOOLEAN, saw : SUBSET Tasks, evidence : BOOLEAN]
  <2>1. CASE ClaimWakeInbox /\ Claims
    <3>1. UNION {results[i].holds : i \in ToClaim} \subseteq Tasks
      BY <1>2 DEF ResultRow, ToClaim
    <3> QED BY <2>1, <3>1 DEF Claims
  <2>2. CASE RecordEvidence
    <3>1. consumer' = [consumer EXCEPT !.evidence = TRUE] BY <2>2 DEF RecordEvidence
    <3> QED BY <1>0, <3>1 DEF PlansTypeOK
  <2>3. CASE consumer' = consumer BY <1>0, <2>3 DEF PlansTypeOK
  <2>4. CASE consumer' = NoConsumer BY <2>4 DEF NoConsumer
  <2> QED BY <2>1, <2>2, <2>3, <2>4
          DEF ConsumerMoves, ClaimWakeInbox, LeaseRunsOut, Acknowledge, ConsumerFails,
              LeftLeaseEnds, turnVars
<1>6. PlansTypeOK' BY <1>0, <1>1, <1>3, <1>4, <1>5 DEF PlansTypeOK, ResultRow
<1>7. plan' \in PlanEnds => plan \in PlanEnds BY <1>1
<1>8. \A k \in Tasks : local'[k] = "executing" <=> local[k] = "executing" BY <1>1
<1> QED BY <1>1, <1>6, <1>7, <1>8, RowsStand

LEMMA PlansStart == PlansInit => PlansInv
<1> SUFFICES ASSUME PlansInit PROVE PlansInv
  OBVIOUS
<1>0. 0 \in 0 .. MaxPlanRestarts /\ <<>> \in Seq(ResultRow)
  BY PlansAssumption, EmptySeq
<1>1. PlansTypeOK
  BY <1>0 DEF PlansInit, PlansTypeOK, NoTask, NoConsumer, ResultRow
<1>2. /\ EndedPlanIsQuiet /\ CarriedOutOnce /\ RunningIsExecuted /\ StartedBefore
      /\ DoneCompleted /\ StepsFounded
  BY DEF PlansInit, EndedPlanIsQuiet, CarriedOutOnce, RunningIsExecuted, StartedBefore,
       DoneCompleted, StepsFounded, Begun, NoTask, PlanEnds
<1> QED BY <1>1, <1>2 DEF PlansInv

LEMMA PlansStep == PlansInv /\ [PlansNext]_plansVars => PlansInv'
<1> SUFFICES ASSUME PlansInv, [PlansNext]_plansVars PROVE PlansInv'
  OBVIOUS
<1>1. CASE \E k \in Tasks : RunnerMoves(k)
  BY <1>1, ClaimTaskKeeps, RunnerKeeps, SettleTaskKeeps DEF RunnerMoves
<1>2. CASE PlannerMoves
  BY <1>2, DelegateKeeps, RetryKeeps, PlanMovesKeep, CancelPlanKeeps, UpdateStepKeeps
     DEF PlannerMoves
<1>3. CASE ConsumerMoves BY <1>3, ConsumerKeeps
<1>4. CASE PlanRestart BY <1>4, PlanRestartKeeps
<1>5. CASE UNCHANGED plansVars
  <2>1. PlansTypeOK' BY <1>5 DEF PlansInv, PlansTypeOK
  <2> QED BY <1>5, <2>1, RowsStand DEF PlansInv
<1> QED BY <1>1, <1>2, <1>3, <1>4, <1>5 DEF PlansNext

\* The whole invariant of the rows of a plan: beside what RowsTellTruth says,
\* a task that was started is no longer queued, and a step that was begun
\* rests on steps that are over or that a task has.
THEOREM PlansInvariant == PlansSpec => []PlansInv
<1> QED BY PlansStart, PlansStep, PTL DEF PlansSpec

\* The rows, the inbox and the runner's table keep to their types.
THEOREM PlansTyped == PlansSpec => []PlansTypeOK
<1>1. PlansInv => PlansTypeOK BY DEF PlansInv
<1> QED BY <1>1, PlansInvariant, PTL

\* However calls are repeated, cancelled, retried or cut off by a restart:
\* no task is carried out twice, a running one is executed here, an ended
\* plan is quiet, and a step that is done was carried out.
THEOREM PlanRowsTellTruth == PlansSpec => []RowsTellTruth
<1>1. ASSUME PlansInv PROVE DoneStepWasDone
  BY <1>1 DEF PlansInv, DoneStepWasDone, DoneCompleted, StepsFounded, Founded, Begun
<1>2. PlansInv => RowsTellTruth BY <1>1 DEF PlansInv, RowsTellTruth
<1> QED BY <1>2, PlansInvariant, PTL

\* The outcome of a task is decided once.
LEMMA OutcomeStep ==
  ASSUME PlansInv, [PlansNext]_plansVars, NEW c \in Tasks, task[c].status \in TaskEnds
  PROVE  task'[c].status = task[c].status
<1>0. task \in [Tasks -> TaskRow] BY PlansTypes DEF PlansInv
<1>1. task[c].status \notin {"none", "queued", "running"} BY DEF TaskEnds
<1>2. CASE \E k \in Tasks : RunnerMoves(k)
  <2>1. PICK k \in Tasks : RunnerMoves(k) BY <1>2
  <2>2. CASE ClaimTask(k)
    <3>1. CASE Claimable(k)
      <4>1. k # c BY <1>1, <3>1 DEF Claimable, Runnable, WithStatus
      <4> QED BY <1>0, <2>2, <3>1, <4>1 DEF ClaimTask
    <3> QED BY <2>2, <3>1 DEF ClaimTask
  <2>3. CASE CutOff(k) \/ Forget(k) \/ RepeatCall(k) \/ \E accepted \in BOOLEAN : Notify(k, accepted)
    BY <2>3 DEF CutOff, Forget, RepeatCall, Notify, rows
  <2>4. CASE \E outcome \in {"completed", "failed", "needs_input"} : SettleTask(k, outcome)
    <3>1. PICK outcome \in {"completed", "failed", "needs_input"} : SettleTask(k, outcome)
      BY <2>4
    <3>2. c \notin Blocked(k, outcome) BY <1>1 DEF Blocked, WithStatus
    <3>3. CASE Current(k)
      <4>1. k # c BY <1>1, <3>3 DEF Current
      <4> QED BY <3>1, <3>2, <3>3, <4>1 DEF SettleTask, TaskSettles
    <3> QED BY <3>1, <3>3 DEF SettleTask, rows
  <2> QED BY <2>1, <2>2, <2>3, <2>4 DEF RunnerMoves
<1>3. CASE PlannerMoves
  <2>1. ASSUME NEW k \in Tasks, NEW D \in SUBSET Tasks, NEW kind \in TaskKinds,
               Delegate(k, D, kind)
        PROVE  task'[c] = task[c]
    BY <1>0, <1>1, <2>1 DEF Delegate, New, Created
  <2>2. ASSUME NEW k \in Tasks, NEW previous \in Tasks, Retry(k, previous)
        PROVE  task'[c] = task[c]
    BY <1>0, <1>1, <2>2 DEF Retry, New, Created
  <2>3. CASE Pause \/ Activate \/ Reopen \/ CompletePlan
    BY <2>3 DEF Pause, Activate, Reopen, CompletePlan, MovesTo
  <2>4. CASE CancelPlan
    <3>1. c \notin Unfinished BY <1>1 DEF Unfinished, WithStatus
    <3> QED BY <2>4, <3>1 DEF CancelPlan
  <2>5. CASE \E s \in Steps, to \in {"active", "blocked", "done", "skipped"} : UpdateStep(s, to)
    BY <2>5 DEF UpdateStep
  <2> QED BY <1>3, <2>1, <2>2, <2>3, <2>4, <2>5 DEF PlannerMoves
<1>4. CASE ConsumerMoves
  BY <1>4 DEF ConsumerMoves, ClaimWakeInbox, RecordEvidence, LeaseRunsOut, Acknowledge,
       ConsumerFails, LeftLeaseEnds, rows
<1>5. CASE PlanRestart BY <1>1, <1>5 DEF PlanRestart, Reconciled
<1>6. CASE UNCHANGED plansVars BY <1>6
<1> QED BY <1>2, <1>3, <1>4, <1>5, <1>6 DEF PlansNext

\* No late result, cancellation, retry or restart changes an outcome that was
\* decided.
THEOREM OutcomesAreFinal == PlansSpec => OutcomeFinal
<1> DEFINE Final == \A k \in Tasks : task[k].status \in TaskEnds
                                       => task'[k].status = task[k].status
<1>1. PlansInv /\ [PlansNext]_plansVars => Final BY OutcomeStep
<1>2. PlansInv /\ [PlansNext]_plansVars => [Final]_plansVars BY <1>1
<1> QED BY <1>2, PlansInvariant, PTL DEF PlansSpec, OutcomeFinal

(***************************************************************************)
(* Work plans: no result is lost.                                          *)
(***************************************************************************)
\* Who holds a row has seen all of it: the rows a consumer leases are not
\* merged into while their lease runs.
HeldWasSeen ==
  \A r \in ToSet(results) :
    /\ r.lease # "late"
    /\ r.lease = "held" => consumer.on /\ r.holds \subseteq consumer.saw

Contained == \A k \in owed : \E r \in ToSet(results) : k \in r.holds

ResultsInv == HeldWasSeen /\ Contained

LEMMA ResultsStep ==
  ASSUME ~LongTurns, PlansInv, ResultsInv, [PlansNext]_plansVars
  PROVE  ResultsInv'
<1>0. /\ results \in Seq(ResultRow) /\ DOMAIN results = 1 .. Len(results)
      /\ \A i \in DOMAIN results : results[i] \in ResultRow
  BY PlansTypes, LenProperties, ElementOfSeq DEF PlansInv
<1>1. CASE UNCHANGED <<results, consumer, owed>>
  BY <1>1 DEF ResultsInv, HeldWasSeen, Contained
<1>2. CASE \E k \in Tasks : RunnerMoves(k)
  <2>1. PICK k \in Tasks : RunnerMoves(k) BY <1>2
  <2>2. CASE ~(\E outcome \in {"completed", "failed", "needs_input"} :
                 SettleTask(k, outcome) /\ Current(k))
    BY <1>1, <2>1, <2>2 DEF RunnerMoves, ClaimTask, CutOff, Forget, RepeatCall, Notify,
         SettleTask, rows, turnVars
  <2>3. CASE \E outcome \in {"completed", "failed", "needs_input"} :
               SettleTask(k, outcome) /\ TaskSettles(k, outcome)
    <3>1. results' = Enqueued(k) /\ owed' = owed \cup {k} /\ consumer' = consumer
      BY <2>3 DEF SettleTask, TaskSettles, turnVars
    <3>2. /\ \A r \in ToSet(results) : \E q \in ToSet(results') : r.holds \subseteq q.holds
          /\ \E q \in ToSet(results') : k \in q.holds
          /\ \A q \in ToSet(results') :
               \/ q \in ToSet(results)
               \/ q.lease = "none"
               \/ q.lease = "late" /\ \E r \in ToSet(results) : r.lease = "late"
      BY <1>0, <3>1, EnqueuedRows
    <3>3. HeldWasSeen' BY <3>1, <3>2 DEF ResultsInv, HeldWasSeen
    <3>4. Contained' BY <3>1, <3>2 DEF ResultsInv, Contained
    <3> QED BY <3>3, <3>4 DEF ResultsInv
  <2> QED BY <2>1, <2>2, <2>3 DEF SettleTask
<1>3. CASE PlannerMoves
  BY <1>1, <1>3 DEF PlannerMoves, Delegate, Retry, Pause, Activate, Reopen, CompletePlan,
       CancelPlan, UpdateStep, MovesTo, turnVars
<1>4. CASE ClaimWakeInbox /\ Claims
  <2>1. /\ ~consumer.on /\ owed' = owed
        /\ results' = [i \in DOMAIN results |->
              IF i \in ToClaim THEN [results[i] EXCEPT !.lease = "held"] ELSE results[i]]
        /\ consumer' = [on |-> TRUE, saw |-> UNION {results[i].holds : i \in ToClaim},
                        evidence |-> FALSE]
    BY <1>4 DEF ClaimWakeInbox, Claims
  <2>2. ASSUME NEW i \in DOMAIN results
        PROVE  /\ results'[i].holds = results[i].holds
               /\ results'[i].lease # "late"
               /\ results'[i].lease = "held" =>
                    results'[i].holds \subseteq UNION {results[j].holds : j \in ToClaim}
    <3>1. results[i] \in ResultRow /\ results[i].lease \notin {"held", "late"}
      BY <1>0, <2>1 DEF ResultsInv, HeldWasSeen, ToSet
    <3>2. CASE i \in ToClaim BY <2>1, <3>1, <3>2 DEF ResultRow
    <3>3. CASE i \notin ToClaim BY <2>1, <3>1, <3>3
    <3> QED BY <3>2, <3>3
  <2>3. DOMAIN results' = DOMAIN results BY <2>1
  <2>4. HeldWasSeen' BY <2>1, <2>2, <2>3 DEF HeldWasSeen, ToSet
  <2>5. \A i \in DOMAIN results : results'[i] \in ToSet(results')
    BY <2>3 DEF ToSet
  <2>6. \A r \in ToSet(results) : \E q \in ToSet(results') : r.holds = q.holds
    BY <2>2, <2>5 DEF ToSet
  <2>7. Contained' BY <2>1, <2>6 DEF ResultsInv, Contained
  <2> QED BY <2>4, <2>7 DEF ResultsInv
<1>5. CASE ClaimWakeInbox /\ ~Claims
  BY <1>1, <1>5 DEF ClaimWakeInbox, turnVars
<1>6. CASE RecordEvidence
  <2>1. /\ consumer' = [consumer EXCEPT !.evidence = TRUE]
        /\ consumer \in [on : BOOLEAN, saw : SUBSET Tasks, evidence : BOOLEAN]
        /\ results' = results /\ owed' = owed
    BY <1>6 DEF RecordEvidence, rows, PlansInv, PlansTypeOK
  <2>2. consumer'.on = consumer.on /\ consumer'.saw = consumer.saw BY <2>1
  <2> QED BY <2>1, <2>2 DEF ResultsInv, HeldWasSeen, Contained
<1>7. CASE Acknowledge
  <2>1. /\ results' = Rejecting(results, {r \in ToSet(results) : HeldRow(r)})
        /\ owed' = owed \ consumer.saw
    BY <1>7 DEF Acknowledge, MayAcknowledge
  <2>2. ToSet(results') = ToSet(results) \ {r \in ToSet(results) : HeldRow(r)}
    BY <1>0, <2>1, RejectingProperties
  <2>3. HeldWasSeen' BY <2>2 DEF ResultsInv, HeldWasSeen, HeldRow
  <2>4. Contained'
    <3> SUFFICES ASSUME NEW k \in owed, k \notin consumer.saw
                 PROVE  \E r \in ToSet(results') : k \in r.holds
      BY <2>1 DEF Contained
    <3>1. PICK r \in ToSet(results) : k \in r.holds BY DEF ResultsInv, Contained
    <3>2. ~HeldRow(r) BY <3>1 DEF ResultsInv, HeldWasSeen, HeldRow
    <3> QED BY <2>2, <3>1, <3>2
  <2> QED BY <2>3, <2>4 DEF ResultsInv
<1>8. CASE ConsumerFails \/ LeftLeaseEnds
  <2>1. /\ owed' = owed /\ DOMAIN results' = DOMAIN results
        /\ \A i \in DOMAIN results :
             \/ results'[i] = results[i]
             \/ results'[i] = [results[i] EXCEPT !.lease = "none"]
    BY <1>8 DEF ConsumerFails, LeftLeaseEnds, ReleasedRows
  <2>2. \A i \in DOMAIN results :
           /\ results'[i].holds = results[i].holds
           /\ results'[i].lease \in {results[i].lease, "none"}
    BY <1>0, <2>1 DEF ResultRow
  <2>3. HeldWasSeen'
    <3>1. CASE consumer' = consumer
      BY <2>1, <2>2, <3>1 DEF ResultsInv, HeldWasSeen, ToSet
    <3>2. CASE ConsumerFails
      <4>1. \A i \in DOMAIN results : results'[i].lease \notin {"held", "late"}
        BY <1>0, <3>2 DEF ConsumerFails, ReleasedRows, HeldRow, ResultRow
      <4> QED BY <2>1, <4>1 DEF HeldWasSeen, ToSet
    <3> QED BY <1>8, <3>1, <3>2 DEF LeftLeaseEnds
  <2>4. Contained' BY <2>1, <2>2 DEF ResultsInv, Contained, ToSet
  <2> QED BY <2>3, <2>4 DEF ResultsInv
<1>9. CASE PlanRestart
  <2>1. PICK left \in BOOLEAN : results' = [i \in DOMAIN results |->
           IF HeldRow(results[i])
           THEN [results[i] EXCEPT !.lease = IF left /\ @ = "held" THEN "left" ELSE "none"]
           ELSE results[i]]
    BY <1>9 DEF PlanRestart
  <2>2. owed' = owed BY <1>9 DEF PlanRestart
  <2>3. DOMAIN results' = DOMAIN results BY <2>1
  <2>4. \A i \in DOMAIN results :
           /\ results'[i].holds = results[i].holds
           /\ results'[i].lease \notin {"held", "late"}
    BY <1>0, <2>1 DEF ResultRow, HeldRow
  <2>5. HeldWasSeen' BY <2>3, <2>4 DEF HeldWasSeen, ToSet
  <2>6. Contained' BY <2>2, <2>3, <2>4 DEF ResultsInv, Contained, ToSet
  <2> QED BY <2>5, <2>6 DEF ResultsInv
<1>10. ~LeaseRunsOut BY DEF LeaseRunsOut
<1>11. CASE UNCHANGED plansVars BY <1>1, <1>11
<1> QED BY <1>2, <1>3, <1>4, <1>5, <1>6, <1>7, <1>8, <1>9, <1>10, <1>11
        DEF PlansNext, ConsumerMoves

\* Merging into a full inbox, failed turns and restarts lose no result before
\* a turn that saw it acknowledged it, as long as no turn outlives its lease.
THEOREM ResultsAreKept ==
  ASSUME ~LongTurns
  PROVE  PlansSpec => []ResultsKept
<1>1. PlansInit => ResultsInv
  BY DEF PlansInit, ResultsInv, HeldWasSeen, Contained, ToSet
<1>2. PlansInv /\ ResultsInv /\ [PlansNext]_plansVars => ResultsInv' BY ResultsStep
<1>3. ResultsInv => ResultsKept BY DEF ResultsInv, Contained, ResultsKept, ToSet
<1> QED BY <1>1, <1>2, <1>3, PlansInvariant, PTL DEF PlansSpec

(***************************************************************************)
(* The archive of a chat.                                                  *)
(***************************************************************************)
LogEvents == ArcTurns \X Kinds
BatchIds == ({"archive"} \X Nat \X SUBSET ArcTurns) \union ({"restore"} \X SUBSET LogEvents)
OperationIds == BatchIds \union ({"reconcile"} \X BatchIds) \union ({"repair"} \X SUBSET LogEvents)
                \union ({"visibility"} \X (0 .. LastTurn) \X SUBSET LogEvents) \union {<<"none">>}
BatchType == [id : BatchIds, turns : SUBSET ArcTurns, phase : 0 .. 4, cutoff : Nat,
              state : {"prepared", "committed"}]
OperationType == [id : OperationIds, cutoff : Nat, hidden : SUBSET LogEvents,
                  retained : SUBSET LogEvents]
StoreShape ==
  /\ eventLog \in Seq(LogEvents) /\ IsFiniteSet(ToSet(eventLog))
  /\ Cardinality(ToSet(eventLog)) = Len(eventLog)
  /\ batches \in Seq(BatchType) /\ \A b \in DOMAIN batches : batches[b].cutoff <= Len(eventLog)
  /\ summary \in [ArcTurns -> 0 .. Len(batches)]
  /\ projection \in [rows : [LogEvents -> {"none", "hot", "cold"}],
                     operations : SUBSET OperationType, mark : OperationType]
  /\ projection.mark = NoOperation \/ projection.mark \in projection.operations
  /\ context \in [Scopes -> SUBSET [turn : ArcTurns, by : 0 .. Len(batches)]]
  /\ rotated \subseteq (DOMAIN batches) \X Scopes
  /\ asked \in 0 .. LastTurn /\ mishap \in [failures : Nat, stops : Nat, losses : Nat]

JobShape(j) ==
  /\ j = [mode |-> j.mode, at |-> j.at, todo |-> j.todo, did |-> j.did, of |-> j.of,
          upto |-> j.upto]
  /\ j.mode \in {"idle", "down", "stale", "manual", "repair", "start"}
  /\ j.at \in {"idle", "recover", "reconcile", "finish", "reveal"}
  /\ j.todo \in Seq(Nat) /\ ToSet(j.todo) \subseteq DOMAIN batches
  /\ j.of \in 0 .. LastTurn /\ j.upto \in 0 .. Len(eventLog)

\* A turn is opened before it ends.
LogInOrder == \A t \in ArcTurns : Closed(t) => Opened(t)

\* The turns of a batch ended well, and are in no other batch.
BatchesApart ==
  \A b \in DOMAIN batches :
    /\ \A t \in Turns(b) : <<t, "done">> \in ToSet(eventLog)
    /\ \A c \in DOMAIN batches : batches[c].id = batches[b].id \/ Turns(b) \intersect Turns(c) # {}
                                 => b = c

\* What was done of the phase of the batch in hand, is done.
WorkDone ==
  /\ ~Carrying => job.did = {}
  /\ Carrying =>
       /\ batches[InHand].phase = 0 => \A t \in Turns(InHand) \intersect job.did : summary[t] # 0
       /\ batches[InHand].phase = 1 /\ "projection" \in job.did /\ mishap.losses = 0
            => EventsOf(Turns(InHand)) \subseteq Cold
       /\ batches[InHand].phase = 2 => \A s \in Scopes \intersect job.did :
            \A entry \in context[s] : entry.turn \in Turns(InHand) => entry.by = InHand
       /\ batches[InHand].phase = 3 /\ "index" \in job.did => batches[InHand].state = "committed"
  /\ job.at = "reconcile" => \A b \in ToSet(job.todo) : batches[b].state = "committed"

\* An entry of a rotated turn is the summary, and a turn has one entry.
EntriesOne ==
  \A s \in Scopes : \A one \in context[s] :
    /\ \A other \in context[s] : other.turn = one.turn => other = one
    /\ \A b \in DOMAIN batches : <<b, s>> \in rotated /\ one.turn \in Turns(b) => one.by = b

\* The events of the turns whose summaries were written for a batch.
Filed == {e \in ToSet(eventLog) : \E b \in DOMAIN batches : e[1] \in Turns(b)
                                                           /\ batches[b].phase >= 1}
Repairing(op) == op.id[1] = "visibility"
FiledOperation(op) ==
  /\ op.hidden \subseteq Filed
  /\ Repairing(op) \/ \A e \in op.hidden : EventsOf({e[1]}) \subseteq op.hidden
  /\ Repairing(op) /\ mishap.losses = 0 => op.hidden = {}
HiddenFiled ==
  /\ \A op \in projection.operations : FiledOperation(op)
  /\ \A e \in LogEvents : projection.rows[e] = "cold" =>
       /\ e \in Filed
       /\ \/ EventsOf({e[1]}) \subseteq Cold
          \/ \E op \in projection.operations : Repairing(op) /\ e \in op.hidden

StoresInv == /\ StoreShape /\ LogInOrder /\ BatchesApart /\ EntriesOne
             /\ HiddenFiled /\ PhaseIsTrue
ArcInv == StoresInv /\ JobShape(job) /\ WorkDone

LEMMA ArchiveBasics ==
  ASSUME StoreShape
  PROVE  /\ ToSet(eventLog) \subseteq LogEvents /\ DOMAIN batches = 1 .. Len(batches)
         /\ Len(batches) \in Nat /\ Len(eventLog) \in Nat
         /\ \A b \in DOMAIN batches : batches[b] \in BatchType
         /\ LastTurn \in Nat
<1>1. eventLog \in Seq(LogEvents) /\ batches \in Seq(BatchType)
  BY DEF StoreShape
<1>2. \A i \in DOMAIN eventLog : eventLog[i] \in LogEvents
  BY <1>1, LenProperties, ElementOfSeq
<1>3. \A b \in DOMAIN batches : batches[b] \in BatchType
  BY <1>1, LenProperties, ElementOfSeq
<1> QED BY <1>1, <1>2, <1>3, LenProperties, ArchiveAssumption DEF ToSet

\* The batch in hand is one of the index.
LEMMA InHandIsBatch ==
  ASSUME JobShape(job), job.todo # <<>>
  PROVE  InHand \in DOMAIN batches /\ InHand \in ToSet(job.todo)
<1>1. job.todo \in Seq(Nat) /\ ToSet(job.todo) \subseteq DOMAIN batches
  BY DEF JobShape
<1>2. Len(job.todo) \in Nat /\ Len(job.todo) # 0 /\ DOMAIN job.todo = 1 .. Len(job.todo)
  BY <1>1, EmptySeq, LenProperties
<1>3. Head(job.todo) = job.todo[1] BY <1>1, <1>2, HeadTailProperties
<1> QED BY <1>1, <1>2, <1>3 DEF InHand, ToSet

\* The rest of a list of batches is a list of batches.
LEMMA TailOfTodo ==
  ASSUME NEW q \in Seq(Nat), q # <<>>
  PROVE  Tail(q) \in Seq(Nat) /\ ToSet(Tail(q)) \subseteq ToSet(q)
<1>1. /\ Len(q) \in Nat /\ Len(q) # 0 /\ DOMAIN q = 1 .. Len(q)
  BY EmptySeq, LenProperties
<1>2. /\ Tail(q) \in Seq(Nat) /\ Len(Tail(q)) = Len(q) - 1
      /\ \A i \in 1 .. Len(Tail(q)) : Tail(q)[i] = q[i + 1]
  BY <1>1, HeadTailProperties
<1>3. DOMAIN Tail(q) = 1 .. Len(Tail(q)) BY <1>2, LenProperties
<1>4. \A i \in 1 .. Len(Tail(q)) : i + 1 \in 1 .. Len(q) BY <1>1, <1>2
<1> QED BY <1>1, <1>2, <1>3, <1>4 DEF ToSet

LEMMA UpToInLog ==
  ASSUME StoreShape, NEW n \in 0 .. Len(eventLog)
  PROVE  UpTo(n) \subseteq ToSet(eventLog)
<1>0. eventLog \in Seq(LogEvents) /\ Len(eventLog) \in Nat /\ DOMAIN eventLog = 1 .. Len(eventLog)
  BY LenProperties DEF StoreShape
<1> DEFINE p == SubSeq(eventLog, 1, n)
<1>1. /\ p \in Seq(LogEvents) /\ Len(p) = n
      /\ \A i \in 1 .. n : p[i] = eventLog[i]
  <2>1. \A i \in 1 .. n : eventLog[i] \in LogEvents BY <1>0, ElementOfSeq
  <2>2. /\ p \in Seq(LogEvents)
        /\ Len(p) = IF 1 <= n THEN n - 1 + 1 ELSE 0
        /\ \A i \in 1 .. n - 1 + 1 : p[i] = eventLog[1 + i - 1]
    BY <1>0, <2>1, SubSeqProperties
  <2>3. \A i \in 1 .. n : i \in 1 .. n - 1 + 1 /\ 1 + i - 1 = i BY <1>0
  <2> QED BY <1>0, <2>2, <2>3
<1>2. DOMAIN p = 1 .. n BY <1>1, LenProperties
<1> HIDE DEF p
<1>3. ToSet(p) \subseteq ToSet(eventLog) BY <1>0, <1>1, <1>2 DEF ToSet
<1> QED BY <1>3 DEF p, UpTo

\* The batches but some, in either order, are batches.
LEMMA BatchesButThese ==
  ASSUME StoreShape, NEW gone
  PROVE  /\ BatchesBut(gone) \in Seq(Nat) /\ Reverse(BatchesBut(gone)) \in Seq(Nat)
         /\ ToSet(BatchesBut(gone)) \subseteq DOMAIN batches \ gone
         /\ ToSet(Reverse(BatchesBut(gone))) \subseteq DOMAIN batches \ gone
<1> DEFINE n == Len(batches)
           all == [i \in 1 .. n |-> i]
           q == Rejecting(all, gone)
<1>0. n \in Nat /\ DOMAIN batches = 1 .. n BY ArchiveBasics
<1>1. all \in Seq(Nat)
  <2>1. all \in [1 .. n -> Nat] BY <1>0
  <2> QED BY <1>0, <2>1, SeqDef
<1>2. ToSet(all) = 1 .. n BY <1>0 DEF ToSet
<1> HIDE DEF all, n
<1>3. q \in Seq(Nat) /\ ToSet(q) = ToSet(all) \ gone BY <1>1, RejectingProperties
<1>4. /\ Reverse(q) \in Seq(Nat)
      /\ ToSet(Reverse(q)) \subseteq ToSet(q)
  <2> HIDE DEF q
  <2>1. Len(q) \in Nat /\ DOMAIN q = 1 .. Len(q) /\ \A i \in 1 .. Len(q) : q[i] \in Nat
    BY <1>3, LenProperties, ElementOfSeq
  <2>2. \A i \in 1 .. Len(q) : Len(q) - i + 1 \in 1 .. Len(q) BY <2>1
  <2>3. Reverse(q) = [i \in 1 .. Len(q) |-> q[(Len(q) - i) + 1]] BY DEF Reverse
  <2>4. Reverse(q) \in [1 .. Len(q) -> Nat] BY <2>1, <2>2, <2>3
  <2>5. Reverse(q) \in Seq(Nat) BY <2>1, <2>4, SeqDef
  <2>6. DOMAIN Reverse(q) = 1 .. Len(q) BY <2>3
  <2>7. \A i \in 1 .. Len(q) : Reverse(q)[i] = q[Len(q) - i + 1] BY <2>3
  <2> QED BY <2>1, <2>2, <2>5, <2>6, <2>7 DEF ToSet
<1>5. BatchesBut(gone) = q BY DEF BatchesBut, q, all, n
<1> QED BY <1>0, <1>2, <1>3, <1>4, <1>5 DEF n

\* Nothing that is kept changes.
LEMMA StoresStay ==
  ASSUME StoresInv, UNCHANGED <<eventLog, Stores, context>>,
         asked' \in 0 .. LastTurn, mishap' \in [failures : Nat, stops : Nat, losses : Nat],
         mishap'.losses = mishap.losses
  PROVE  StoresInv'
<1>1. StoreShape' BY DEF StoresInv, StoreShape, Stores
<1>2. /\ ToSet(eventLog)' = ToSet(eventLog) /\ Cold' = Cold
      /\ \A turns : EventsOf(turns)' = EventsOf(turns)
      /\ \A b : Turns(b)' = Turns(b)
  BY DEF EventsOf, Cold, Turns, Stores
<1>3. LogInOrder' BY DEF StoresInv, LogInOrder, Opened, Closed
<1>4. BatchesApart' BY <1>2 DEF StoresInv, BatchesApart, Stores
<1>5. EntriesOne' BY <1>2 DEF StoresInv, EntriesOne, Stores
<1>6. Filed' = Filed BY <1>2 DEF Filed, Stores
<1>7. HiddenFiled'
  BY <1>2, <1>6 DEF StoresInv, HiddenFiled, FiledOperation, Repairing, Stores
<1>8. PhaseIsTrue' BY <1>2 DEF StoresInv, PhaseIsTrue, Stores
<1> QED BY <1>1, <1>3, <1>4, <1>5, <1>7, <1>8 DEF StoresInv

\* A job that has done nothing yet of the phase it is in.
FreshJob(j) ==
  /\ JobShape(j) /\ j.did = {}
  /\ j.at = "reconcile" => \A b \in ToSet(j.todo) : batches[b].state = "committed"

LEMMA FreshJobFits ==
  ASSUME NEW j, FreshJob(j)', job' = j
  PROVE  JobShape(job)' /\ WorkDone'
BY DEF FreshJob, WorkDone

LEMMA EmptyTodo == <<>> \in Seq(Nat) /\ ToSet(<<>>) = {}
BY EmptySeq DEF ToSet

\* The three jobs that follow one that ends.
LEMMA IdleIsFresh ==
  ASSUME StoreShape
  PROVE  FreshJob(Idle) /\ FreshJob(Down)
<1>1. 0 \in 0 .. LastTurn /\ 0 \in 0 .. Len(eventLog) BY ArchiveBasics
<1>2. /\ Idle.mode = "idle" /\ Idle.at = "idle" /\ Idle.todo = <<>> /\ Idle.did = {}
      /\ Idle.of = 0 /\ Idle.upto = 0
      /\ Idle = [mode |-> "idle", at |-> "idle", todo |-> <<>>, did |-> {}, of |-> 0, upto |-> 0]
  BY DEF Idle
<1>3. /\ Down.mode = "down" /\ Down.at = "idle" /\ Down.todo = <<>> /\ Down.did = {}
      /\ Down.of = 0 /\ Down.upto = 0
      /\ Down = [mode |-> "down", at |-> "idle", todo |-> <<>>, did |-> {}, of |-> 0, upto |-> 0]
  <2>1. ASSUME NEW i, i = [mode |-> i.mode, at |-> i.at, todo |-> i.todo, did |-> i.did,
                           of |-> i.of, upto |-> i.upto]
        PROVE  [i EXCEPT !.mode = "down"] = [mode |-> "down", at |-> i.at, todo |-> i.todo,
                                             did |-> i.did, of |-> i.of, upto |-> i.upto]
    BY <2>1
  <2> HIDE DEF Idle
  <2> QED BY <1>2, <2>1 DEF Down
<1>4. FreshJob(Idle) BY <1>1, <1>2, EmptyTodo DEF FreshJob, JobShape
<1>5. FreshJob(Down) BY <1>1, <1>3, EmptyTodo DEF FreshJob, JobShape
<1> QED BY <1>4, <1>5

LEMMA LeftIsFresh ==
  ASSUME StoreShape, JobShape(job), Carrying
  PROVE  FreshJob(Left(job))
<1>1. CASE job.at = "finish" BY <1>1, IdleIsFresh DEF Left
<1>2. CASE job.at # "finish"
  <2>1. job.at = "recover" /\ job.todo # <<>> BY <1>2 DEF Carrying
  <2>2. Left(job) = [mode |-> job.mode, at |-> job.at, todo |-> Tail(job.todo), did |-> {},
                     of |-> job.of, upto |-> job.upto]
    BY <1>2 DEF Left, JobShape
  <2>3. job.todo \in Seq(Nat) BY DEF JobShape
  <2>4. Tail(job.todo) \in Seq(Nat) /\ ToSet(Tail(job.todo)) \subseteq ToSet(job.todo)
    BY <2>1, <2>3, TailOfTodo
  <2> HIDE DEF Left
  <2> QED BY <2>1, <2>2, <2>4 DEF FreshJob, JobShape
<1> QED BY <1>1, <1>2

\* A fresh job stays one while the log grows and the batches stay.
LEMMA FreshStays ==
  ASSUME NEW j, FreshJob(j), UNCHANGED <<eventLog, batches>>
  PROVE  FreshJob(j)'
BY DEF FreshJob, JobShape

\* The steps that only say who holds the lock, and what for.
LEMMA Errands ==
  ASSUME ArcInv, UNCHANGED <<eventLog, Stores, context>>, FreshJob(job'),
         asked' \in {0, asked},
         mishap' \in [failures : Nat, stops : Nat, losses : Nat], mishap'.losses = mishap.losses
  PROVE  ArcInv'
<1>1. asked' \in 0 .. LastTurn
  <2>1. StoreShape BY DEF ArcInv, StoresInv
  <2>2. 0 \in 0 .. LastTurn BY <2>1, ArchiveBasics
  <2> QED BY <2>1, <2>2 DEF StoreShape
<1>2. StoresInv' BY <1>1, StoresStay DEF ArcInv
<1>3. JobShape(job)' /\ WorkDone'
  BY DEF FreshJob, JobShape, WorkDone, Stores
<1> QED BY <1>2, <1>3 DEF ArcInv

LEMMA BeginsIsFresh ==
  ASSUME StoreShape, NEW mode \in {"stale", "manual", "repair", "start"}, NEW of \in 0 .. LastTurn,
         Begins(mode, of)
  PROVE  FreshJob(job')
<1>1. job' = [mode |-> mode, at |-> "recover", todo |-> PendingBatches, did |-> {}, of |-> of,
              upto |-> 0]
  BY DEF Begins, Idle
<1>2. PendingBatches \in Seq(Nat) /\ ToSet(PendingBatches) \subseteq DOMAIN batches
  BY BatchesButThese DEF PendingBatches
<1>3. 0 \in 0 .. Len(eventLog) BY ArchiveBasics
<1> QED BY <1>1, <1>2, <1>3 DEF FreshJob, JobShape

\* Taking the lock, a refusal, a failure, the end of the process, and the end
\* of the recovery.
LEMMA ErrandsKeep ==
  ASSUME ArcInv,
         \/ \E day \in Days : Repairs(day)
         \/ ArchivesStale \/ ArchivesManually \/ Starts
         \/ Refused \/ StepFails \/ ArcStops \/ Recovered
  PROVE  ArcInv'
<1>0. /\ StoreShape /\ StoresInv /\ JobShape(job) /\ 0 \in 0 .. LastTurn
      /\ \A day \in Days : day \in 0 .. LastTurn
      /\ asked \in 0 .. LastTurn /\ mishap \in [failures : Nat, stops : Nat, losses : Nat]
  <2>1. StoreShape BY DEF ArcInv, StoresInv
  <2>2. Days \subseteq 1 .. LastTurn /\ LastTurn \in Nat BY ArchiveAssumption DEF ArcTurns
  <2>3. 0 \in 0 .. LastTurn /\ \A day \in Days : day \in 0 .. LastTurn BY <2>2
  <2>4. asked \in 0 .. LastTurn /\ mishap \in [failures : Nat, stops : Nat, losses : Nat]
    BY <2>1 DEF StoreShape
  <2>5. StoresInv /\ JobShape(job) BY DEF ArcInv
  <2> QED BY <2>1, <2>3, <2>4, <2>5
<1>1. ASSUME FreshJob(job'), UNCHANGED <<eventLog, Stores, context>>, asked' \in {0, asked},
             \/ mishap' = mishap
             \/ mishap' = [mishap EXCEPT !.failures = @ + 1]
             \/ mishap' = [mishap EXCEPT !.stops = @ + 1]
      PROVE  ArcInv'
  <2>1. mishap' \in [failures : Nat, stops : Nat, losses : Nat] /\ mishap'.losses = mishap.losses
    BY <1>0, <1>1
  <2> QED BY <1>1, <2>1, Errands
<1>2. CASE (\E day \in Days : Repairs(day)) \/ ArchivesStale \/ ArchivesManually \/ Starts
  <2>1. FreshJob(job')
    BY <1>0, <1>2, BeginsIsFresh DEF ArchivesStale, ArchivesManually, Repairs, Starts
  <2> QED BY <1>1, <1>2, <2>1 DEF ArchivesStale, ArchivesManually, Repairs, Starts
<1>3. CASE Refused \/ StepFails
  <2>1. FreshJob(job') BY <1>0, <1>3, LeftIsFresh DEF Refused, StepFails
  <2> QED BY <1>1, <1>3, <2>1 DEF Refused, StepFails, Outside
<1>4. CASE ArcStops
  <2>1. FreshJob(job') BY <1>0, <1>4, IdleIsFresh DEF ArcStops
  <2> QED BY <1>1, <1>4, <2>1 DEF ArcStops
<1>5. CASE Recovered
  <2> DEFINE rest == Reverse(BatchesBut({b \in DOMAIN batches : batches[b].state # "committed"}))
  <2>1. /\ rest \in Seq(Nat)
        /\ ToSet(rest) \subseteq DOMAIN batches
                                 \ {b \in DOMAIN batches : batches[b].state # "committed"}
    BY <1>0, BatchesButThese
  <2>2. job.did = {} BY <1>5 DEF ArcInv, WorkDone, Carrying, Recovered
  <2>3. job' = [job EXCEPT !.at = "reconcile", !.todo = rest] BY <1>5 DEF Recovered
  <2> HIDE DEF rest
  <2>4. job' = [mode |-> job.mode, at |-> "reconcile", todo |-> rest, did |-> {},
                of |-> job.of, upto |-> job.upto]
    BY <1>0, <2>2, <2>3 DEF JobShape
  <2>5. FreshJob(job') BY <1>0, <2>1, <2>4 DEF FreshJob, JobShape
  <2> QED BY <1>1, <1>5, <2>5 DEF Recovered, Outside
<1> QED BY <1>2, <1>3, <1>4, <1>5

\* An event of a turn that no batch has leaves what was said of batches true.
LEMMA LogGrows ==
  ASSUME ArcInv, NEW t \in ArcTurns, NEW kind \in Kinds, <<t, kind>> \notin ToSet(eventLog),
         eventLog' = Append(eventLog, <<t, kind>>),
         UNCHANGED <<Stores, context, job, mishap>>, asked' \in 0 .. LastTurn,
         \A b \in DOMAIN batches : t \notin Turns(b),
         kind # "user" => Opened(t)
  PROVE  ArcInv'
<1> DEFINE e == <<t, kind>>
<1>0. StoreShape /\ StoresInv /\ JobShape(job) /\ WorkDone BY DEF ArcInv, StoresInv
<1>1. e \in LogEvents BY DEF LogEvents
<1>2. /\ eventLog' \in Seq(LogEvents) /\ Len(eventLog') = Len(eventLog) + 1
      /\ ToSet(eventLog') = ToSet(eventLog) \union {e}
  <2>1. eventLog \in Seq(LogEvents) /\ eventLog' = Append(eventLog, e) BY <1>0 DEF StoreShape
  <2> HIDE DEF e
  <2> QED BY <1>1, <2>1, AppendToSet
<1>3. Len(eventLog) \in Nat BY <1>0, ArchiveBasics
<1>4. UNCHANGED <<batches, summary, projection, rotated>> BY DEF Stores
<1>5. StoreShape'
  <2>1. IsFiniteSet(ToSet(eventLog)) /\ Cardinality(ToSet(eventLog)) = Len(eventLog)
    BY <1>0 DEF StoreShape
  <2>2. IsFiniteSet(ToSet(eventLog')) /\ Cardinality(ToSet(eventLog')) = Len(eventLog) + 1
    <3> HIDE DEF e
    <3>1. e \notin ToSet(eventLog) BY DEF e
    <3>2. /\ IsFiniteSet(ToSet(eventLog) \union {e})
          /\ Cardinality(ToSet(eventLog) \union {e}) = Cardinality(ToSet(eventLog)) + 1
      BY <2>1, <3>1, FS_AddElement
    <3> QED BY <1>2, <2>1, <3>2
  <2>3. \A b \in DOMAIN batches : batches[b].cutoff \in Nat
    BY <1>0, ArchiveBasics DEF BatchType
  <2> QED BY <1>0, <1>2, <1>3, <1>4, <2>2, <2>3 DEF StoreShape
<1>6. /\ \A b \in DOMAIN batches : EventsOf(Turns(b))' = EventsOf(Turns(b))
      /\ \A b : Turns(b)' = Turns(b)
  <2>1. \A b : Turns(b)' = Turns(b) BY <1>4 DEF Turns
  <2>2. SUFFICES ASSUME NEW b \in DOMAIN batches
                 PROVE EventsOf(Turns(b))' = EventsOf(Turns(b))
    BY <2>1
  <2>3. e[1] \notin Turns(b) BY <2>2
  <2> QED BY <1>2, <2>1, <2>3 DEF EventsOf
<1>7. LogInOrder'
  <2> SUFFICES ASSUME NEW u \in ArcTurns, Closed(u)' PROVE Opened(u)'
    BY DEF LogInOrder
  <2>1. CASE Closed(u)
    <3>1. Opened(u) BY <1>0, <2>1 DEF StoresInv, LogInOrder
    <3> QED BY <1>2, <3>1 DEF Opened
  <2>2. CASE ~Closed(u)
    <3>1. u = t /\ kind # "user"
      <4>1. PICK c \in {<<u, "done">>, <<u, "incomplete">>} : c \in ToSet(eventLog')
        BY DEF Closed
      <4>2. c \notin ToSet(eventLog) BY <2>2 DEF Closed
      <4>3. c = <<t, kind>> BY <1>2, <4>1, <4>2
      <4> QED BY <4>1, <4>3
    <3> QED BY <1>2, <3>1 DEF Opened
  <2> QED BY <2>1, <2>2
<1>8. BatchesApart' BY <1>0, <1>2, <1>4, <1>6 DEF StoresInv, BatchesApart
<1>9. EntriesOne' BY <1>0, <1>4, <1>6 DEF StoresInv, EntriesOne
<1>10. Filed' = Filed BY <1>2, <1>4, <1>6 DEF Filed
<1>11. /\ Cold \subseteq Cold'
       /\ \A f \in Filed : EventsOf({f[1]})' = EventsOf({f[1]})
  <2>1. Cold \subseteq Cold' BY <1>2, <1>4 DEF Cold
  <2>2. ASSUME NEW f \in Filed PROVE EventsOf({f[1]})' = EventsOf({f[1]})
    <3>1. f[1] # t BY <2>2 DEF Filed
    <3>2. e[1] = t OBVIOUS
    <3> HIDE DEF e
    <3>3. \A g \in ToSet(eventLog') : g[1] = f[1] => g \in ToSet(eventLog)
      BY <1>2, <3>1, <3>2
    <3> QED BY <1>2, <3>3 DEF EventsOf
  <2> QED BY <2>1, <2>2
<1>12. HiddenFiled'
  <2>1. \A op \in projection.operations : FiledOperation(op) => FiledOperation(op)'
    BY <1>4, <1>10, <1>11 DEF FiledOperation, Repairing
  <2>2. \A op \in projection.operations : FiledOperation(op)
    BY <1>0 DEF StoresInv, HiddenFiled
  <2>3. \A f \in LogEvents : projection.rows[f] = "cold" =>
          /\ f \in Filed
          /\ \/ EventsOf({f[1]}) \subseteq Cold
             \/ \E op \in projection.operations : Repairing(op) /\ f \in op.hidden
    BY <1>0 DEF StoresInv, HiddenFiled
  <2> QED BY <1>4, <1>10, <1>11, <2>1, <2>2, <2>3 DEF HiddenFiled, Repairing
<1>13. PhaseIsTrue'
  BY <1>0, <1>4, <1>6, <1>11 DEF StoresInv, PhaseIsTrue, Turns
<1>14. JobShape(job)' BY <1>0, <1>2, <1>3, <1>4 DEF JobShape
<1>15. WorkDone'
  <2>1. job.todo # <<>> => InHand \in DOMAIN batches BY <1>0, InHandIsBatch
  <2> QED BY <1>0, <1>4, <1>6, <1>11, <2>1 DEF WorkDone, Carrying, InHand
<1> QED BY <1>5, <1>7, <1>8, <1>9, <1>12, <1>13, <1>14, <1>15 DEF ArcInv, StoresInv

LEMMA BatchTurnsClosed ==
  ASSUME StoresInv, NEW b \in DOMAIN batches, NEW t \in Turns(b)
  PROVE  Closed(t) /\ Opened(t) /\ t \in ArcTurns
<1>1. t \in ArcTurns BY ArchiveBasics DEF StoresInv, Turns, BatchType
<1>2. <<t, "done">> \in ToSet(eventLog) BY DEF StoresInv, BatchesApart
<1>3. Closed(t) BY <1>2 DEF Closed
<1> QED BY <1>1, <1>3 DEF StoresInv, LogInOrder

LEMMA TurnsKeep ==
  ASSUME ArcInv, NEW t \in ArcTurns, TurnOpens(t) \/ TurnCloses(t)
  PROVE  ArcInv'
<1>0. StoresInv /\ StoreShape /\ LastTurn \in Nat BY ArchiveAssumption DEF ArcInv, StoresInv
<1>1. CASE TurnOpens(t)
  <2>1. ~Opened(t) /\ asked' \in 0 .. LastTurn BY <1>0, <1>1 DEF TurnOpens, ArcTurns
  <2>2. \A b \in DOMAIN batches : t \notin Turns(b) BY <1>0, <2>1, BatchTurnsClosed
  <2>3. "user" \in Kinds /\ <<t, "user">> \notin ToSet(eventLog) BY <2>1 DEF Kinds, Opened
  <2> QED BY <1>1, <2>1, <2>2, <2>3, LogGrows DEF TurnOpens
<1>2. CASE TurnCloses(t)
  <2>1. ~Closed(t) /\ Opened(t) /\ asked' \in 0 .. LastTurn
    BY <1>0, <1>2 DEF TurnCloses, Running, StoreShape
  <2>2. \A b \in DOMAIN batches : t \notin Turns(b) BY <1>0, <2>1, BatchTurnsClosed
  <2>3. PICK kind \in {"done", "incomplete"} : eventLog' = Append(eventLog, <<t, kind>>)
    BY <1>2 DEF TurnCloses
  <2>4. kind \in Kinds /\ <<t, kind>> \notin ToSet(eventLog) BY <2>1 DEF Kinds, Closed
  <2> QED BY <1>2, <2>1, <2>2, <2>3, <2>4, LogGrows DEF TurnCloses
<1> QED BY <1>1, <1>2

\* A turn of no batch gets its entry.
LEMMA MaterialisesKeeps ==
  ASSUME ArcInv, NEW t \in ArcTurns, Materialises(t)
  PROVE  ArcInv'
<1>0. /\ StoresInv /\ StoreShape /\ JobShape(job) /\ WorkDone
      /\ UNCHANGED <<eventLog, batches, summary, projection, rotated, job, asked, mishap>>
  BY DEF ArcInv, StoresInv, Materialises, Stores
<1>1. /\ \A b \in DOMAIN batches : t \notin Turns(b)
      /\ Len(batches) \in Nat
  BY <1>0, BatchTurnsClosed, ArchiveBasics DEF Materialises, Running
<1> DEFINE new == [turn |-> t, by |-> 0]
<1>2. /\ \A s \in Scopes : context'[s] = context[s]
                           \/ /\ context'[s] = context[s] \union {new}
                              /\ \A entry \in context[s] : entry.turn # t
      /\ context' = [s \in Scopes |-> context'[s]]
  BY DEF Materialises
<1>3. new \in [turn : ArcTurns, by : 0 .. Len(batches)] /\ new.turn = t BY <1>1
<1> HIDE DEF new
<1>4. \A s \in Scopes : \A entry \in context'[s] : entry \in context[s] \/ entry = new
  BY <1>2
<1>5. context' \in [Scopes -> SUBSET [turn : ArcTurns, by : 0 .. Len(batches)]]
  <2> DEFINE Entries == [turn : ArcTurns, by : 0 .. Len(batches)]
  <2>1. \A s \in Scopes : context[s] \subseteq Entries BY <1>0 DEF StoreShape
  <2>2. new \in Entries BY <1>3
  <2> HIDE DEF Entries
  <2>3. \A s \in Scopes : context'[s] \in SUBSET Entries BY <1>2, <2>1, <2>2
  <2>4. context' \in [Scopes -> SUBSET Entries] BY <1>2, <2>3
  <2> QED BY <2>4 DEF Entries
<1>6. StoreShape' BY <1>0, <1>5 DEF StoreShape
<1>7. /\ ToSet(eventLog)' = ToSet(eventLog) /\ Cold' = Cold
      /\ \A turns : EventsOf(turns)' = EventsOf(turns)
      /\ \A b : Turns(b)' = Turns(b)
  BY <1>0 DEF EventsOf, Cold, Turns
<1>8. LogInOrder' BY <1>0 DEF StoresInv, LogInOrder, Opened, Closed
<1>9. BatchesApart' BY <1>0, <1>7 DEF StoresInv, BatchesApart
<1>10. EntriesOne'
  <2> SUFFICES ASSUME NEW s \in Scopes, NEW one \in context'[s]
               PROVE  /\ \A other \in context'[s] : other.turn = one.turn => other = one
                      /\ \A b \in DOMAIN batches : <<b, s>> \in rotated /\ one.turn \in Turns(b)
                                                     => one.by = b
    BY <1>0, <1>7 DEF EntriesOne
  <2>1. \A other \in context'[s] : other.turn = one.turn => other = one
    <3>1. \A a, c \in context[s] : a.turn = c.turn => a = c
      BY <1>0 DEF StoresInv, EntriesOne
    <3> QED BY <1>2, <1>3, <3>1
  <2>2. \A b \in DOMAIN batches : <<b, s>> \in rotated /\ one.turn \in Turns(b) => one.by = b
    BY <1>0, <1>1, <1>3, <1>4 DEF StoresInv, EntriesOne
  <2> QED BY <2>1, <2>2
<1>11. HiddenFiled'
  <2>1. Filed' = Filed BY <1>0, <1>7 DEF Filed
  <2> QED BY <1>0, <1>7, <2>1 DEF StoresInv, HiddenFiled, FiledOperation, Repairing
<1>12. PhaseIsTrue'
  <2>1. \A b \in DOMAIN batches : \A s \in Scopes : \A entry \in context'[s] :
          entry.turn \in batches[b].turns => entry \in context[s]
    BY <1>1, <1>3, <1>4 DEF Turns
  <2> QED BY <1>0, <1>7, <2>1 DEF StoresInv, PhaseIsTrue
<1>13. JobShape(job)' BY <1>0 DEF JobShape
<1>14. WorkDone'
  <2>1. job.todo # <<>> => InHand \in DOMAIN batches BY <1>0, InHandIsBatch
  <2>2. job.todo # <<>> => \A s \in Scopes : \A entry \in context'[s] :
          entry.turn \in Turns(InHand) => entry \in context[s]
    BY <1>1, <1>3, <1>4, <2>1
  <2> QED BY <1>0, <1>7, <2>1, <2>2 DEF WorkDone, Carrying, InHand
<1> QED BY <1>6, <1>8, <1>9, <1>10, <1>11, <1>12, <1>13, <1>14 DEF ArcInv, StoresInv

\* A step for the batch in hand.
LEMMA DoesOne ==
  ASSUME StoreShape, JobShape(job), NEW phase, NEW one, Does(phase, one)
  PROVE  /\ Carrying /\ InHand \in DOMAIN batches /\ batches[InHand].phase = phase
         /\ one \in Work(InHand)
         /\ job'.todo = job.todo /\ job'.at = job.at /\ job'.did = job.did \union {one}
         /\ InHand' = InHand /\ job'.at # "reconcile"
         /\ JobShape(job')
         /\ UNCHANGED <<eventLog, asked, mishap>>
<1>1. Carrying /\ batches[InHand].phase = phase /\ one \in Work(InHand) BY DEF Does
<1>2. InHand \in DOMAIN batches BY <1>1, InHandIsBatch DEF Carrying
<1>3. job' = [mode |-> job.mode, at |-> job.at, todo |-> job.todo,
              did |-> job.did \union {one}, of |-> job.of, upto |-> job.upto]
  BY DEF Does, JobShape
<1>4. UNCHANGED <<eventLog, asked, mishap>> BY DEF Does, Outside
<1>5. JobShape(job') BY <1>3 DEF JobShape
<1>6. InHand' = InHand BY <1>3 DEF InHand
<1> QED BY <1>1, <1>2, <1>3, <1>4, <1>5, <1>6 DEF Carrying

LEMMA SummarisesKeeps ==
  ASSUME ArcInv, NEW t \in ArcTurns, Summarises(t)
  PROVE  ArcInv'
<1>0. /\ StoresInv /\ StoreShape /\ JobShape(job) /\ WorkDone
      /\ UNCHANGED <<batches, projection, context, rotated>>
  BY DEF ArcInv, StoresInv, Summarises
<1>1. /\ Carrying /\ InHand \in DOMAIN batches /\ batches[InHand].phase = 0
      /\ job'.todo = job.todo /\ job'.at = job.at /\ job'.did = job.did \union {t}
      /\ InHand' = InHand /\ job'.at # "reconcile" /\ JobShape(job')
      /\ UNCHANGED <<eventLog, asked, mishap>>
  BY <1>0, DoesOne DEF Summarises
<1>2. summary' = [summary EXCEPT ![t] = IF @ = 0 THEN InHand ELSE @] BY DEF Summarises
<1>3. InHand \in 1 .. Len(batches) /\ Len(batches) \in Nat BY <1>0, <1>1, ArchiveBasics
<1> HIDE DEF InHand
<1>4. /\ summary' \in [ArcTurns -> 0 .. Len(batches)] /\ summary'[t] # 0
      /\ \A u \in ArcTurns : summary[u] # 0 => summary'[u] # 0
  BY <1>0, <1>2, <1>3 DEF StoreShape
<1>5. StoreShape' BY <1>0, <1>1, <1>4 DEF StoreShape
<1>6. /\ ToSet(eventLog)' = ToSet(eventLog) /\ Cold' = Cold
      /\ \A turns : EventsOf(turns)' = EventsOf(turns)
      /\ \A b : Turns(b)' = Turns(b)
  BY <1>0, <1>1 DEF EventsOf, Cold, Turns
<1>7. LogInOrder' BY <1>0, <1>1 DEF StoresInv, LogInOrder, Opened, Closed
<1>8. BatchesApart' BY <1>0, <1>6 DEF StoresInv, BatchesApart
<1>9. EntriesOne' BY <1>0, <1>6 DEF StoresInv, EntriesOne
<1>10. HiddenFiled'
  <2>1. Filed' = Filed BY <1>0, <1>6 DEF Filed
  <2> QED BY <1>0, <1>1, <1>6, <2>1 DEF StoresInv, HiddenFiled, FiledOperation, Repairing
<1>11. PhaseIsTrue'
  <2>1. \A b \in DOMAIN batches : batches[b].turns \subseteq ArcTurns
    BY <1>0, ArchiveBasics DEF BatchType
  <2> QED BY <1>0, <1>1, <1>4, <1>6, <2>1 DEF StoresInv, PhaseIsTrue
<1>12. JobShape(job)' BY <1>0, <1>1 DEF JobShape
<1>13. WorkDone'
  <2>1. Turns(InHand) \subseteq ArcTurns BY <1>0, <1>1, ArchiveBasics DEF BatchType, Turns
  <2>2. \A u \in Turns(InHand) \intersect job'.did : summary'[u] # 0
    BY <1>0, <1>1, <1>4, <2>1 DEF WorkDone
  <2> QED BY <1>0, <1>1, <1>6, <2>2 DEF WorkDone, Carrying
<1> QED BY <1>5, <1>7, <1>8, <1>9, <1>10, <1>11, <1>12, <1>13 DEF ArcInv, StoresInv

\* A batch that comes further keeps what it is.
LEMMA BatchComesFurther ==
  ASSUME StoresInv, UNCHANGED <<eventLog, summary, projection, context, rotated, asked, mishap>>,
         batches' \in Seq(BatchType), DOMAIN batches' = DOMAIN batches,
         \A b \in DOMAIN batches :
           /\ batches'[b].id = batches[b].id /\ batches'[b].turns = batches[b].turns
           /\ batches'[b].cutoff = batches[b].cutoff
           /\ batches[b].phase >= 1 => batches'[b].phase >= 1
  PROVE  /\ StoreShape' /\ LogInOrder' /\ BatchesApart' /\ EntriesOne' /\ HiddenFiled'
<1>0. StoreShape BY DEF StoresInv
<1>1. Len(batches') = Len(batches)
  BY <1>0, LenProperties DEF StoreShape
<1>2. StoreShape' BY <1>0, <1>1 DEF StoreShape
<1>3. /\ ToSet(eventLog)' = ToSet(eventLog) /\ Cold' = Cold
      /\ \A turns : EventsOf(turns)' = EventsOf(turns)
      /\ \A b \in DOMAIN batches : Turns(b)' = Turns(b)
  BY DEF EventsOf, Cold, Turns
<1>4. LogInOrder' BY DEF StoresInv, LogInOrder, Opened, Closed
<1>5. BatchesApart' BY <1>3 DEF StoresInv, BatchesApart
<1>6. EntriesOne' BY <1>3 DEF StoresInv, EntriesOne
<1>7. Filed \subseteq Filed' BY <1>3 DEF Filed
<1>8. \A op \in projection.operations : FiledOperation(op) => FiledOperation(op)'
  BY <1>3, <1>7 DEF FiledOperation, Repairing
<1>9. HiddenFiled' BY <1>3, <1>7, <1>8 DEF StoresInv, HiddenFiled, Repairing
<1> QED BY <1>2, <1>4, <1>5, <1>6, <1>9

LEMMA MarksCommittedKeeps ==
  ASSUME ArcInv, MarksCommitted
  PROVE  ArcInv'
<1>0. /\ StoresInv /\ StoreShape /\ JobShape(job) /\ WorkDone
      /\ UNCHANGED <<summary, projection, context, rotated>>
  BY DEF ArcInv, StoresInv, MarksCommitted
<1>1. /\ Carrying /\ InHand \in DOMAIN batches /\ batches[InHand].phase = 3
      /\ job'.todo = job.todo /\ job'.at = job.at /\ job'.did = job.did \union {"index"}
      /\ InHand' = InHand /\ job'.at # "reconcile" /\ JobShape(job')
      /\ UNCHANGED <<eventLog, asked, mishap>>
  BY <1>0, DoesOne DEF MarksCommitted
<1>2. batches' = [batches EXCEPT ![InHand].state = "committed"] BY DEF MarksCommitted
<1>3. batches \in Seq(BatchType) /\ DOMAIN batches = 1 .. Len(batches) /\ Len(batches) \in Nat
      /\ \A b \in DOMAIN batches : batches[b] \in BatchType
  BY <1>0, ArchiveBasics DEF StoreShape
<1> HIDE DEF InHand
<1>4. /\ DOMAIN batches' = DOMAIN batches
      /\ \A b \in DOMAIN batches :
           /\ batches'[b] \in BatchType
           /\ batches'[b].id = batches[b].id /\ batches'[b].turns = batches[b].turns
           /\ batches'[b].cutoff = batches[b].cutoff /\ batches'[b].phase = batches[b].phase
           /\ batches'[b].state = IF b = InHand THEN "committed" ELSE batches[b].state
  BY <1>1, <1>2, <1>3 DEF BatchType
<1>5. batches' \in Seq(BatchType)
  <2>1. batches' \in [1 .. Len(batches) -> BatchType]
    <3>1. batches' = [b \in 1 .. Len(batches) |-> batches'[b]] BY <1>2, <1>3
    <3> QED BY <1>3, <1>4, <3>1
  <2> QED BY <1>3, <2>1, SeqDef
<1>6. /\ StoreShape' /\ LogInOrder' /\ BatchesApart' /\ EntriesOne' /\ HiddenFiled'
  BY <1>0, <1>1, <1>4, <1>5, BatchComesFurther
<1>7. /\ Cold' = Cold /\ \A turns : EventsOf(turns)' = EventsOf(turns)
      /\ \A b \in DOMAIN batches : Turns(b)' = Turns(b)
  BY <1>0, <1>1, <1>4 DEF EventsOf, Cold, Turns
<1>8. PhaseIsTrue' BY <1>0, <1>1, <1>4, <1>7 DEF StoresInv, PhaseIsTrue
<1>9. JobShape(job)' BY <1>0, <1>1, <1>4 DEF JobShape
<1>10. WorkDone' BY <1>0, <1>1, <1>4, <1>7 DEF WorkDone, Carrying
<1> QED BY <1>6, <1>8, <1>9, <1>10 DEF ArcInv, StoresInv

\* The phase that is written is one whose work is done.
LEMMA WritesPhaseKeeps ==
  ASSUME ArcInv, WritesPhase
  PROVE  ArcInv'
<1>0. /\ StoresInv /\ StoreShape /\ JobShape(job) /\ WorkDone
      /\ UNCHANGED <<summary, projection, context, rotated, eventLog, asked, mishap>>
  BY DEF ArcInv, StoresInv, WritesPhase, Outside
<1>1. Carrying /\ InHand \in DOMAIN batches /\ Work(InHand) \subseteq job.did
  BY <1>0, InHandIsBatch DEF WritesPhase, Carrying
<1>2. /\ batches \in Seq(BatchType) /\ DOMAIN batches = 1 .. Len(batches) /\ Len(batches) \in Nat
      /\ \A b \in DOMAIN batches : batches[b] \in BatchType
  BY <1>0, ArchiveBasics DEF StoreShape
<1>3. /\ batches[InHand].phase \in 0 .. 4
      /\ batches' = IF batches[InHand].phase = 4 THEN batches
                    ELSE [batches EXCEPT ![InHand].phase = @ + 1]
  BY <1>1, <1>2 DEF WritesPhase, Finished, BatchType
<1>4. \/ job' = [job EXCEPT !.did = {}] /\ Carrying
      \/ job' = [job EXCEPT !.at = "reveal", !.todo = <<>>, !.did = {}]
      \/ job' = Left(job)
  BY <1>1 DEF WritesPhase
<1>5. /\ batches[InHand].phase = 0 => \A t \in Turns(InHand) : summary[t] # 0
      /\ batches[InHand].phase = 1 /\ mishap.losses = 0 => EventsOf(Turns(InHand)) \subseteq Cold
      /\ batches[InHand].phase = 2 => \A s \in Scopes : \A entry \in context[s] :
                                        entry.turn \in Turns(InHand) => entry.by = InHand
      /\ batches[InHand].phase = 3 => batches[InHand].state = "committed"
  BY <1>0, <1>1 DEF WorkDone, Work
<1> HIDE DEF InHand
<1>6. /\ DOMAIN batches' = DOMAIN batches
      /\ \A b \in DOMAIN batches :
           /\ batches'[b] \in BatchType
           /\ batches'[b].id = batches[b].id /\ batches'[b].turns = batches[b].turns
           /\ batches'[b].cutoff = batches[b].cutoff /\ batches'[b].state = batches[b].state
           /\ batches'[b].phase = IF b = InHand /\ batches[b].phase < 4 THEN batches[b].phase + 1
                                  ELSE batches[b].phase
  <2>1. CASE batches[InHand].phase = 4 BY <1>1, <1>2, <1>3, <2>1
  <2>2. CASE batches[InHand].phase # 4
    <3> DEFINE n == batches[InHand].phase + 1
    <3>1. n \in 0 .. 4 /\ batches[InHand].phase < 4 BY <1>3, <2>2
    <3>2. batches' = [batches EXCEPT ![InHand].phase = n] BY <1>3, <2>2
    <3> HIDE DEF n
    <3>3. /\ DOMAIN batches' = DOMAIN batches
          /\ \A b \in DOMAIN batches : b # InHand => batches'[b] = batches[b]
          /\ batches'[InHand] = [batches[InHand] EXCEPT !.phase = n]
      BY <1>1, <1>2, <3>2
    <3>4. batches[InHand] \in BatchType BY <1>1, <1>2
    <3>5. /\ batches'[InHand] \in BatchType /\ batches'[InHand].phase = n
          /\ batches'[InHand].id = batches[InHand].id
          /\ batches'[InHand].turns = batches[InHand].turns
          /\ batches'[InHand].cutoff = batches[InHand].cutoff
          /\ batches'[InHand].state = batches[InHand].state
      BY <3>1, <3>3, <3>4 DEF BatchType
    <3> QED BY <1>2, <3>1, <3>3, <3>5 DEF n
  <2> QED BY <2>1, <2>2
<1>7. batches' \in Seq(BatchType)
  <2>1. batches' \in [1 .. Len(batches) -> BatchType]
    <3>0. batches = [b \in 1 .. Len(batches) |-> batches[b]] BY <1>2, SeqDef
    <3>1. batches' = [b \in 1 .. Len(batches) |-> batches'[b]] BY <1>2, <1>3, <3>0
    <3> QED BY <1>2, <1>6, <3>1
  <2> QED BY <1>2, <2>1, SeqDef
<1>8. /\ StoreShape' /\ LogInOrder' /\ BatchesApart' /\ EntriesOne' /\ HiddenFiled'
  <2>1. \A b \in DOMAIN batches : batches[b].phase \in 0 .. 4 BY <1>2 DEF BatchType
  <2>2. \A b \in DOMAIN batches : batches[b].phase >= 1 => batches'[b].phase >= 1
    BY <1>6, <2>1
  <2> QED BY <1>0, <1>6, <1>7, <2>2, BatchComesFurther
<1>9. /\ Cold' = Cold /\ \A turns : EventsOf(turns)' = EventsOf(turns)
      /\ \A b \in DOMAIN batches : Turns(b)' = Turns(b)
  BY <1>0, <1>6 DEF EventsOf, Cold, Turns
<1>10. PhaseIsTrue'
  <2> SUFFICES ASSUME NEW b \in DOMAIN batches
               PROVE  /\ batches'[b].phase >= 1 => \A t \in batches[b].turns : summary[t] # 0
                      /\ batches'[b].phase >= 2 /\ mishap.losses = 0
                           => EventsOf(batches[b].turns) \subseteq Cold
                      /\ batches'[b].phase >= 3 => \A s \in Scopes : \A entry \in context[s] :
                           entry.turn \in batches[b].turns => entry.by = b
                      /\ batches'[b].state = "committed" => batches'[b].phase >= 3
                      /\ batches'[b].phase = 4 => batches'[b].state = "committed"
    BY <1>0, <1>6, <1>9 DEF PhaseIsTrue
  <2>1. batches[b].phase \in 0 .. 4 BY <1>2 DEF BatchType
  <2>2. /\ batches[b].phase >= 1 => \A t \in batches[b].turns : summary[t] # 0
        /\ batches[b].phase >= 2 /\ mishap.losses = 0 => EventsOf(batches[b].turns) \subseteq Cold
        /\ batches[b].phase >= 3 => \A s \in Scopes : \A entry \in context[s] :
             entry.turn \in batches[b].turns => entry.by = b
        /\ batches[b].state = "committed" => batches[b].phase >= 3
        /\ batches[b].phase = 4 => batches[b].state = "committed"
    BY <1>0 DEF StoresInv, PhaseIsTrue
  <2>3. CASE b # InHand \/ batches[b].phase = 4 BY <1>6, <2>1, <2>2, <2>3
  <2>4. CASE b = InHand /\ batches[b].phase = 0 BY <1>5, <1>6, <2>2, <2>4 DEF Turns
  <2>5. CASE b = InHand /\ batches[b].phase = 1 BY <1>5, <1>6, <2>2, <2>5 DEF Turns
  <2>6. CASE b = InHand /\ batches[b].phase = 2 BY <1>5, <1>6, <2>2, <2>6 DEF Turns
  <2>7. CASE b = InHand /\ batches[b].phase = 3 BY <1>5, <1>6, <2>2, <2>7 DEF Turns
  <2> QED BY <2>1, <2>3, <2>4, <2>5, <2>6, <2>7
<1>11. FreshJob(job')
  <2>1. CASE job' = [job EXCEPT !.did = {}] /\ Carrying
    <3>1. job' = [mode |-> job.mode, at |-> job.at, todo |-> job.todo, did |-> {},
                  of |-> job.of, upto |-> job.upto]
      BY <1>0, <2>1 DEF JobShape
    <3> QED BY <1>0, <2>1, <3>1 DEF FreshJob, JobShape, Carrying
  <2>2. CASE job' = [job EXCEPT !.at = "reveal", !.todo = <<>>, !.did = {}]
    <3>1. job' = [mode |-> job.mode, at |-> "reveal", todo |-> <<>>, did |-> {},
                  of |-> job.of, upto |-> job.upto]
      BY <1>0, <2>2 DEF JobShape
    <3> QED BY <1>0, <3>1, EmptyTodo DEF FreshJob, JobShape
  <2>3. CASE job' = Left(job) BY <1>0, <1>1, <2>3, LeftIsFresh
  <2> QED BY <1>4, <2>1, <2>2, <2>3
<1>12. JobShape(job)' /\ WorkDone'
  BY <1>0, <1>6, <1>11 DEF FreshJob, JobShape, WorkDone
<1> QED BY <1>8, <1>10, <1>12 DEF ArcInv, StoresInv

\* A transcript that is rotated has the summaries of the batch in the places of
\* its turns.
LEMMA RotatesKeeps ==
  ASSUME ArcInv, NEW s \in Scopes, Rotates(s)
  PROVE  ArcInv'
<1>0. /\ StoresInv /\ StoreShape /\ JobShape(job) /\ WorkDone
      /\ UNCHANGED <<batches, summary, projection>>
  BY DEF ArcInv, StoresInv, Rotates
<1>1. /\ Carrying /\ InHand \in DOMAIN batches /\ batches[InHand].phase = 2
      /\ job'.todo = job.todo /\ job'.at = job.at /\ job'.did = job.did \union {s}
      /\ InHand' = InHand /\ job'.at # "reconcile" /\ JobShape(job')
      /\ UNCHANGED <<eventLog, asked, mishap>>
  BY <1>0, DoesOne DEF Rotates
<1> DEFINE old == {entry \in context[s] : entry.turn \in Turns(InHand)}
           new == {[turn |-> entry.turn, by |-> InHand] : entry \in old}
           Entries == [turn : ArcTurns, by : 0 .. Len(batches)]
<1>2. \/ /\ old = {} \/ <<InHand, s>> \in rotated
         /\ context' = context /\ rotated' = rotated
      \/ /\ context' = [context EXCEPT ![s] = (@ \ old) \union new]
         /\ rotated' = rotated \union {<<InHand, s>>}
  BY DEF Rotates
<1>3. InHand \in 1 .. Len(batches) /\ Len(batches) \in Nat BY <1>0, <1>1, ArchiveBasics
<1>4. \A r \in Scopes : context[r] \subseteq Entries BY <1>0 DEF StoreShape
<1>5. ASSUME NEW entry \in new
      PROVE  /\ entry \in Entries /\ entry.by = InHand /\ entry.turn \in Turns(InHand)
             /\ \E was \in old : was.turn = entry.turn
             /\ \A other \in new : other.turn = entry.turn => other = entry
  <2>1. PICK was \in old : entry = [turn |-> was.turn, by |-> InHand] OBVIOUS
  <2>2. was \in Entries BY <1>4
  <2>3. entry \in Entries /\ entry.by = InHand /\ entry.turn = was.turn BY <1>3, <2>1, <2>2
  <2>4. was.turn \in Turns(InHand) OBVIOUS
  <2>5. ASSUME NEW other \in new, other.turn = entry.turn PROVE other = entry
    <3>1. PICK else \in old : other = [turn |-> else.turn, by |-> InHand] OBVIOUS
    <3>2. other.turn = else.turn BY <3>1
    <3> QED BY <2>1, <2>3, <2>5, <3>1, <3>2
  <2> QED BY <2>3, <2>4, <2>5
<1>6. /\ \A entry \in old : entry \in context[s] /\ entry.turn \in Turns(InHand)
      /\ \A entry \in context[s] \ old : entry.turn \notin Turns(InHand)
  OBVIOUS
<1> HIDE DEF InHand, old, new, Entries
<1>7. /\ context' \in [Scopes -> SUBSET Entries]
      /\ \A r \in Scopes : \/ context'[r] = context[r]
                           \/ /\ r = s
                              /\ context'[r] = (context[s] \ old) \union new
  <2>1. context \in [Scopes -> SUBSET Entries] BY <1>0 DEF StoreShape, Entries
  <2>2. CASE context' = context BY <2>1, <2>2
  <2>3. CASE context' = [context EXCEPT ![s] = (@ \ old) \union new]
    <3>1. (context[s] \ old) \union new \in SUBSET Entries BY <1>4, <1>5
    <3> QED BY <2>1, <2>3, <3>1
  <2> QED BY <1>2, <2>2, <2>3
<1>8. \A r \in Scopes : \A entry \in context'[r] :
        \/ entry \in context[r] /\ (r = s /\ context' # context => entry \notin old)
        \/ r = s /\ entry \in new
  <2>1. context' # context => context'[s] = (context[s] \ old) \union new
    BY <1>0, <1>2 DEF StoreShape
  <2> QED BY <1>7, <2>1
<1>9. StoreShape'
  <2>2. rotated' \subseteq (DOMAIN batches) \X Scopes BY <1>0, <1>1, <1>2 DEF StoreShape
  <2> QED BY <1>0, <1>1, <1>7, <2>2 DEF StoreShape, Entries
<1>10. /\ ToSet(eventLog)' = ToSet(eventLog) /\ Cold' = Cold
       /\ \A turns : EventsOf(turns)' = EventsOf(turns)
       /\ \A b : Turns(b)' = Turns(b)
  BY <1>0, <1>1 DEF EventsOf, Cold, Turns
<1>11. LogInOrder' BY <1>0, <1>1 DEF StoresInv, LogInOrder, Opened, Closed
<1>12. BatchesApart' BY <1>0, <1>10 DEF StoresInv, BatchesApart
\* The summaries are of no other batch.
<1>13. \A b \in DOMAIN batches : \A entry \in new : entry.turn \in Turns(b) => b = InHand
  BY <1>0, <1>1, <1>5 DEF StoresInv, BatchesApart
<1>14. \A r \in Scopes : \A one, other \in context[r] : other.turn = one.turn => other = one
  BY <1>0 DEF StoresInv, EntriesOne
<1>15. \A r \in Scopes : \A one, other \in context'[r] : other.turn = one.turn => other = one
  <2> SUFFICES ASSUME NEW r \in Scopes, NEW one \in context'[r], NEW other \in context'[r],
                      other.turn = one.turn
               PROVE  other = one
    OBVIOUS
  <2>1. CASE context'[r] = context[r] BY <1>14, <2>1
  <2>2. CASE r = s /\ context'[r] = (context[s] \ old) \union new
    <3>1. \A a \in context[s] \ old : \A c \in new : a.turn # c.turn BY <1>5, <1>6
    <3> QED BY <1>5, <1>14, <2>2, <3>1
  <2> QED BY <1>7, <2>1, <2>2
<1>16. \A r \in Scopes : \A one \in context'[r] : \A b \in DOMAIN batches :
         <<b, r>> \in rotated' /\ one.turn \in Turns(b) => one.by = b
  <2> SUFFICES ASSUME NEW r \in Scopes, NEW one \in context'[r], NEW b \in DOMAIN batches,
                      <<b, r>> \in rotated', one.turn \in Turns(b)
               PROVE  one.by = b
    OBVIOUS
  <2>1. CASE r = s /\ one \in new BY <1>5, <1>13, <2>1
  <2>2. CASE one \in context[r] /\ <<b, r>> \in rotated
    BY <1>0, <2>2 DEF StoresInv, EntriesOne
  <2>3. CASE one \in context[r] /\ <<b, r>> \notin rotated /\ ~(r = s /\ one \in new)
    <3>1. b = InHand /\ r = s BY <1>2, <2>3
    <3>2. context'[s] = (context[s] \ old) \union new BY <1>0, <1>2, <2>3, <3>1 DEF StoreShape
    <3> QED BY <1>6, <2>3, <3>1, <3>2
  <2> QED BY <1>8, <2>1, <2>2, <2>3
<1>17. EntriesOne' BY <1>0, <1>10, <1>15, <1>16 DEF EntriesOne
<1>18. HiddenFiled'
  <2>1. Filed' = Filed BY <1>0, <1>10 DEF Filed
  <2> QED BY <1>0, <1>1, <1>10, <2>1 DEF StoresInv, HiddenFiled, FiledOperation, Repairing
<1>19. PhaseIsTrue'
  <2>1. ASSUME NEW b \in DOMAIN batches, batches[b].phase >= 3, NEW r \in Scopes,
               NEW entry \in context'[r], entry.turn \in batches[b].turns
        PROVE  entry.by = b
    <3>1. b # InHand BY <1>1, <2>1
    <3>2. entry \in context[r] BY <1>8, <1>13, <2>1, <3>1 DEF Turns
    <3> QED BY <1>0, <2>1, <3>2 DEF StoresInv, PhaseIsTrue
  <2> QED BY <1>0, <1>1, <1>10, <2>1 DEF StoresInv, PhaseIsTrue
<1>20. \A entry \in context'[s] : entry.turn \in Turns(InHand) => entry.by = InHand
  <2>1. CASE old = {} /\ context' = context BY <1>6, <2>1 DEF old
  <2>2. CASE <<InHand, s>> \in rotated' BY <1>1, <1>16, <2>2
  <2> QED BY <1>2, <2>1, <2>2
<1>21. WorkDone'
  <2>1. ASSUME NEW r \in Scopes \intersect job'.did, NEW entry \in context'[r],
               entry.turn \in Turns(InHand)
        PROVE  entry.by = InHand
    <3>1. CASE r = s BY <1>20, <2>1, <3>1
    <3>2. CASE r # s
      <4>1. r \in Scopes \intersect job.did /\ entry \in context[r] BY <1>1, <1>8, <2>1, <3>2
      <4> QED BY <1>0, <1>1, <2>1, <4>1 DEF WorkDone
    <3> QED BY <3>1, <3>2
  <2> QED BY <1>0, <1>1, <1>10, <2>1 DEF WorkDone, Carrying
<1>22. JobShape(job)' BY <1>0, <1>1 DEF JobShape
<1> QED BY <1>9, <1>11, <1>12, <1>17, <1>18, <1>19, <1>21, <1>22 DEF ArcInv, StoresInv

\* An operation that is accepted is on record afterwards.
LEMMA AcceptedIsThere ==
  ASSUME StoreShape, NEW op \in OperationType, Accepts(op)
  PROVE  op \in Retained(op).operations
<1>1. Retained(op).operations
        = projection.operations \union (IF Known(op.id) = {} THEN {op} ELSE {})
  BY DEF Retained
<1>2. CASE Known(op.id) = {} BY <1>1, <1>2
<1>3. CASE Known(op.id) # {}
  <2>1. PICK old \in projection.operations : old.id = op.id /\ old \in Known(op.id)
    BY <1>3 DEF Known
  <2>2. old.hidden = op.hidden /\ old.retained = op.retained /\ old.cutoff = op.cutoff
    BY <1>3, <2>1 DEF Accepts, SameMembers
  <2>3. old \in OperationType BY <2>1 DEF StoreShape
  <2>4. old = op BY <2>1, <2>2, <2>3 DEF OperationType
  <2> QED BY <1>1, <2>1, <2>4
<1> QED BY <1>2, <1>3

\* An operation that hides what is filed, and whole turns unless it is of the
\* repair command, keeps what is hidden so.
LEMMA ProjectedKeeps ==
  ASSUME StoresInv, NEW op \in OperationType, FiledOperation(op),
         projection' = Retained(op), op \in projection'.operations,
         UNCHANGED <<eventLog, batches, summary, context, rotated, asked, mishap>>
  PROVE  StoresInv' /\ Cold \subseteq Cold' /\ op.hidden \subseteq Cold'
<1>0. StoreShape BY DEF StoresInv
<1>1. projection' = [rows |-> Restored(projection.rows, op), mark |-> Raised(op),
          operations |-> projection.operations \union (IF Known(op.id) = {} THEN {op} ELSE {})]
  BY DEF Retained
<1>2. /\ projection.rows \in [LogEvents -> {"none", "hot", "cold"}]
      /\ projection.operations \subseteq OperationType /\ projection.mark \in OperationType
      /\ projection.mark = NoOperation \/ projection.mark \in projection.operations
  BY <1>0 DEF StoreShape
<1>3. /\ projection'.rows \in [LogEvents -> {"none", "hot", "cold"}]
      /\ \A e \in LogEvents :
           (projection'.rows[e] = "cold") <=> (e \in op.hidden \/ projection.rows[e] = "cold")
  <2>1. projection'.rows = [e \in LogEvents |->
           IF e \in op.hidden THEN "cold"
           ELSE IF e \in op.retained /\ projection.rows[e] = "none" THEN "hot"
           ELSE projection.rows[e]]
    BY <1>1, <1>2 DEF Restored
  <2>2. ASSUME NEW e \in LogEvents
        PROVE  /\ projection'.rows[e] \in {"none", "hot", "cold"}
               /\ (projection'.rows[e] = "cold") <=> (e \in op.hidden \/ projection.rows[e] = "cold")
    <3>1. projection'.rows[e] = IF e \in op.hidden THEN "cold"
             ELSE IF e \in op.retained /\ projection.rows[e] = "none" THEN "hot"
             ELSE projection.rows[e]
      BY <2>1
    <3>2. projection.rows[e] \in {"none", "hot", "cold"} BY <1>2
    <3>3. CASE e \in op.hidden BY <3>1, <3>3
    <3>4. CASE e \notin op.hidden BY <3>1, <3>2, <3>4
    <3> QED BY <3>3, <3>4
  <2>3. projection'.rows = [e \in LogEvents |-> projection'.rows[e]] BY <2>1
  <2> QED BY <2>2, <2>3
<1>4. /\ projection'.operations \subseteq projection.operations \union {op}
      /\ projection.operations \subseteq projection'.operations
  BY <1>1
<1>5. /\ projection'.mark \in {op, projection.mark}
      /\ projection' = [rows |-> projection'.rows, mark |-> projection'.mark,
                        operations |-> projection'.operations]
  BY <1>1 DEF Raised
<1>6. StoreShape'
  <2>1. /\ projection'.operations \subseteq OperationType /\ projection'.mark \in OperationType
        /\ projection'.mark = NoOperation \/ projection'.mark \in projection'.operations
    BY <1>2, <1>4, <1>5
  <2>2. projection' \in [rows : [LogEvents -> {"none", "hot", "cold"}],
                         operations : SUBSET OperationType, mark : OperationType]
    BY <1>3, <1>5, <2>1
  <2> QED BY <1>0, <2>1, <2>2 DEF StoreShape
<1>7. /\ ToSet(eventLog)' = ToSet(eventLog) /\ ToSet(eventLog) \subseteq LogEvents
      /\ \A turns : EventsOf(turns)' = EventsOf(turns)
      /\ \A b : Turns(b)' = Turns(b)
      /\ Filed' = Filed
  BY <1>0, ArchiveBasics DEF EventsOf, Turns, Filed
<1>8. Cold \subseteq Cold' /\ op.hidden \subseteq Cold'
  <2>1. op.hidden \subseteq ToSet(eventLog) BY DEF FiledOperation, Filed
  <2>2. Cold \subseteq ToSet(eventLog) /\ \A e \in Cold : projection.rows[e] = "cold" BY DEF Cold
  <2>3. \A e \in ToSet(eventLog) : projection'.rows[e] = "cold" => e \in Cold'
    BY DEF Cold
  <2> QED BY <1>3, <1>7, <2>1, <2>2, <2>3
<1>9. LogInOrder' BY DEF StoresInv, LogInOrder, Opened, Closed
<1>10. BatchesApart' BY <1>7 DEF StoresInv, BatchesApart
<1>11. EntriesOne' BY <1>7 DEF StoresInv, EntriesOne
<1>12. HiddenFiled'
  <2>1. \A p : FiledOperation(p)' <=> FiledOperation(p)
    BY <1>7 DEF FiledOperation, Repairing
  <2>2. \A p \in projection'.operations : FiledOperation(p)
    BY <1>4 DEF StoresInv, HiddenFiled
  <2>3. ASSUME NEW e \in LogEvents, projection'.rows[e] = "cold"
        PROVE  /\ e \in Filed
               /\ \/ EventsOf({e[1]}) \subseteq Cold'
                  \/ \E p \in projection'.operations : Repairing(p) /\ e \in p.hidden
    <3>1. CASE projection.rows[e] = "cold"
      BY <1>4, <1>8, <3>1 DEF StoresInv, HiddenFiled
    <3>2. CASE e \in op.hidden
      <4>1. e \in Filed BY <3>2 DEF FiledOperation
      <4>2. Repairing(op) \/ EventsOf({e[1]}) \subseteq op.hidden BY <3>2 DEF FiledOperation
      <4> QED BY <1>8, <3>2, <4>1, <4>2
    <3> QED BY <1>3, <2>3, <3>1, <3>2
  <2> QED BY <1>7, <2>1, <2>2, <2>3 DEF HiddenFiled, Repairing
<1>13. PhaseIsTrue' BY <1>7, <1>8 DEF StoresInv, PhaseIsTrue
<1> QED BY <1>6, <1>8, <1>9, <1>10, <1>11, <1>12, <1>13 DEF StoresInv

\* The two operations of a batch hide its turns.
LEMMA BatchOperations ==
  ASSUME StoresInv, NEW b \in DOMAIN batches, batches[b].phase >= 1,
         NEW op \in {Operation(b), Reconciling(b)}
  PROVE  op \in OperationType /\ FiledOperation(op) /\ op.hidden = EventsOf(Turns(b))
<1>0. /\ StoreShape /\ ToSet(eventLog) \subseteq LogEvents /\ batches[b] \in BatchType
      /\ Len(eventLog) \in Nat /\ batches[b].cutoff <= Len(eventLog)
  BY ArchiveBasics DEF StoresInv, StoreShape
<1>1. batches[b].cutoff \in 0 .. Len(eventLog) /\ batches[b].id \in BatchIds BY <1>0 DEF BatchType
<1>2. UpTo(batches[b].cutoff) \subseteq LogEvents BY <1>0, <1>1, UpToInLog
<1> DEFINE hidden == EventsOf(Turns(b))
           retained == (UpTo(batches[b].cutoff) \ EventsOf(Turns(b))) \ Cold
<1>3. hidden \subseteq LogEvents /\ hidden \subseteq Filed /\ retained \subseteq LogEvents
      /\ \A e \in hidden : EventsOf({e[1]}) \subseteq hidden
  BY <1>0, <1>2 DEF EventsOf, Filed
<1>4. /\ Operation(b) = [id |-> batches[b].id, cutoff |-> batches[b].cutoff, hidden |-> hidden,
                         retained |-> retained]
      /\ Reconciling(b) = [id |-> <<"reconcile", batches[b].id>>, cutoff |-> batches[b].cutoff,
                           hidden |-> hidden, retained |-> {}]
  BY DEF Operation, Reconciling
<1> HIDE DEF hidden, retained
<1>5. /\ batches[b].id \in OperationIds /\ batches[b].id[1] # "visibility"
  BY <1>1 DEF OperationIds, BatchIds
<1>6. /\ <<"reconcile", batches[b].id>> \in OperationIds
      /\ <<"reconcile", batches[b].id>>[1] # "visibility"
  BY <1>1 DEF OperationIds
<1>7. CASE op = Operation(b)
  <2>1. op \in OperationType /\ op.hidden = hidden /\ ~Repairing(op)
    BY <1>0, <1>1, <1>3, <1>4, <1>5, <1>7 DEF OperationType, Repairing
  <2> QED BY <1>3, <2>1 DEF FiledOperation, hidden
<1>8. CASE op = Reconciling(b)
  <2>1. op \in OperationType /\ op.hidden = hidden /\ ~Repairing(op)
    BY <1>0, <1>1, <1>3, <1>4, <1>6, <1>8 DEF OperationType, Repairing
  <2> QED BY <1>3, <2>1 DEF FiledOperation, hidden
<1> QED BY <1>7, <1>8

LEMMA HidesKeeps ==
  ASSUME ArcInv, Hides
  PROVE  ArcInv'
<1>0. /\ StoresInv /\ StoreShape /\ JobShape(job) /\ WorkDone
      /\ UNCHANGED <<batches, summary, context, rotated>>
  BY DEF ArcInv, StoresInv, Hides
<1>1. /\ Carrying /\ InHand \in DOMAIN batches /\ batches[InHand].phase = 1
      /\ job'.todo = job.todo /\ job'.at = job.at /\ job'.did = job.did \union {"projection"}
      /\ InHand' = InHand /\ job'.at # "reconcile" /\ JobShape(job')
      /\ UNCHANGED <<eventLog, asked, mishap>>
  BY <1>0, DoesOne DEF Hides
<1> DEFINE op == Operation(InHand)
<1>2. op \in OperationType /\ FiledOperation(op) /\ op.hidden = EventsOf(Turns(InHand))
  BY <1>0, <1>1, BatchOperations
<1>3. Accepts(op) /\ projection' = Retained(op) BY DEF Hides
<1> HIDE DEF op, InHand
<1>4. op \in projection'.operations BY <1>0, <1>2, <1>3, AcceptedIsThere
<1>5. StoresInv' /\ Cold \subseteq Cold' /\ op.hidden \subseteq Cold'
  BY <1>0, <1>1, <1>2, <1>3, <1>4, ProjectedKeeps
<1>6. /\ \A turns : EventsOf(turns)' = EventsOf(turns)
      /\ \A b : Turns(b)' = Turns(b)
  BY <1>0, <1>1 DEF EventsOf, Turns
<1>7. JobShape(job)' BY <1>0, <1>1 DEF JobShape
<1>8. WorkDone' BY <1>0, <1>1, <1>2, <1>5, <1>6 DEF WorkDone, Carrying
<1> QED BY <1>5, <1>7, <1>8 DEF ArcInv

\* An operation outside of a batch, after which the job has done nothing yet.
LEMMA OperationKeeps ==
  ASSUME ArcInv, UNCHANGED <<eventLog, batches, summary, context, rotated, asked, mishap>>,
         FreshJob(job'),
         \/ projection' = projection
         \/ \E op \in OperationType : /\ FiledOperation(op) /\ projection' = Retained(op)
                                      /\ op \in projection'.operations
  PROVE  ArcInv'
<1>0. StoresInv /\ StoreShape BY DEF ArcInv, StoresInv
<1>1. StoresInv'
  <2>1. CASE projection' = projection
    <3>1. asked' \in 0 .. LastTurn /\ mishap' \in [failures : Nat, stops : Nat, losses : Nat]
      BY <1>0 DEF StoreShape
    <3> QED BY <1>0, <2>1, <3>1, StoresStay DEF Stores
  <2>2. CASE projection' # projection BY <1>0, <2>2, ProjectedKeeps
  <2> QED BY <2>1, <2>2
<1>2. JobShape(job)' /\ WorkDone' BY DEF FreshJob, JobShape, WorkDone
<1> QED BY <1>1, <1>2 DEF ArcInv

LEMMA ReconcilesKeeps ==
  ASSUME ArcInv, Reconciles
  PROVE  ArcInv'
<1>0. /\ StoresInv /\ StoreShape /\ JobShape(job) /\ WorkDone
      /\ job.at = "reconcile" /\ job.todo # <<>>
      /\ UNCHANGED <<eventLog, batches, summary, context, rotated, asked, mishap>>
  BY DEF ArcInv, StoresInv, Reconciles, Outside
<1>1. InHand \in DOMAIN batches /\ batches[InHand].phase >= 1
  <2>1. InHand \in DOMAIN batches /\ InHand \in ToSet(job.todo) BY <1>0, InHandIsBatch
  <2>2. batches[InHand].state = "committed" BY <1>0, <2>1 DEF WorkDone
  <2>3. batches[InHand].phase >= 3 BY <1>0, <2>1, <2>2 DEF StoresInv, PhaseIsTrue
  <2>4. batches[InHand].phase \in 0 .. 4 BY <1>0, <2>1, ArchiveBasics DEF BatchType
  <2> QED BY <2>1, <2>3, <2>4
<1>2. FreshJob(job')
  <2>1. job.did = {} BY <1>0 DEF WorkDone, Carrying
  <2>2. job' = [mode |-> job.mode, at |-> job.at, todo |-> Tail(job.todo), did |-> {},
                of |-> job.of, upto |-> job.upto]
    BY <1>0, <2>1 DEF Reconciles, JobShape
  <2>3. Tail(job.todo) \in Seq(Nat) /\ ToSet(Tail(job.todo)) \subseteq ToSet(job.todo)
    BY <1>0, TailOfTodo DEF JobShape
  <2> QED BY <1>0, <2>2, <2>3 DEF FreshJob, JobShape, WorkDone
<1> DEFINE op == Operation(InHand)
           anew == Reconciling(InHand)
<1>3. \/ projection' = projection
      \/ /\ Known(op.id) # {}
         /\ projection' = Retained(CHOOSE old \in Known(op.id) : TRUE)
      \/ Accepts(anew) /\ projection' = Retained(anew)
  BY DEF Reconciles
<1> HIDE DEF op, InHand
<1>4. CASE /\ Known(op.id) # {}
           /\ projection' = Retained(CHOOSE old \in Known(op.id) : TRUE)
  <2> DEFINE old == CHOOSE old \in Known(op.id) : TRUE
  <2>1. old \in Known(op.id) BY <1>4
  <2> HIDE DEF old
  <2>2. old \in projection.operations /\ projection' = Retained(old) BY <1>4, <2>1 DEF Known, old
  <2>3. old \in OperationType BY <1>0, <2>2 DEF StoreShape
  <2>4. FiledOperation(old) BY <1>0, <2>2 DEF StoresInv, HiddenFiled
  <2>5. old \in projection'.operations BY <2>2 DEF Retained
  <2> QED BY <1>0, <1>2, <2>2, <2>3, <2>4, <2>5, OperationKeeps
<1>5. CASE Accepts(anew) /\ projection' = Retained(anew)
  <2>1. anew \in OperationType /\ FiledOperation(anew) BY <1>0, <1>1, BatchOperations
  <2> HIDE DEF anew
  <2>2. anew \in projection'.operations BY <1>0, <1>5, <2>1, AcceptedIsThere
  <2> QED BY <1>0, <1>2, <1>5, <2>1, <2>2, OperationKeeps
<1>6. CASE projection' = projection BY <1>0, <1>2, <1>6, OperationKeeps
<1> QED BY <1>3, <1>4, <1>5, <1>6

\* A new batch at the end of the index, of turns that ended well and that no
\* other has.
LEMMA BatchIsAdded ==
  ASSUME StoresInv, UNCHANGED <<eventLog, summary, projection, context, rotated, asked, mishap>>,
         NEW new \in BatchType, batches' = Append(batches, new),
         new.phase = 0, new.state = "prepared", new.cutoff <= Len(eventLog),
         \A t \in new.turns : <<t, "done">> \in ToSet(eventLog),
         \A b \in DOMAIN batches : batches[b].id # new.id /\ Turns(b) \intersect new.turns = {}
  PROVE  StoresInv' /\ DOMAIN batches' = DOMAIN batches \union {Len(batches) + 1}
         /\ \A b \in DOMAIN batches : batches'[b] = batches[b]
<1>0. /\ StoreShape /\ batches \in Seq(BatchType) /\ DOMAIN batches = 1 .. Len(batches)
      /\ Len(batches) \in Nat /\ \A b \in DOMAIN batches : batches[b] \in BatchType
  BY ArchiveBasics DEF StoresInv, StoreShape
<1>n. PICK n \in Nat : n = Len(batches) + 1 BY <1>0
<1>1. /\ batches' \in Seq(BatchType) /\ Len(batches') = n
      /\ \A b \in DOMAIN batches : batches'[b] = batches[b]
      /\ batches'[n] = new
  BY <1>0, <1>n, AppendProperties
<1>2. DOMAIN batches' = DOMAIN batches \union {n} /\ n \notin DOMAIN batches
  BY <1>0, <1>n, <1>1, LenProperties
<1>3. Len(batches) <= n BY <1>0, <1>n
<1>4. StoreShape'
  <2>1. \A b \in DOMAIN batches' : batches'[b].cutoff <= Len(eventLog)
    BY <1>0, <1>1, <1>2 DEF StoreShape
  <2>2. summary \in [ArcTurns -> 0 .. Len(batches')]
    BY <1>0, <1>1, <1>3 DEF StoreShape
  <2>3. context \in [Scopes -> SUBSET [turn : ArcTurns, by : 0 .. Len(batches')]]
    <3>1. [turn : ArcTurns, by : 0 .. Len(batches)] \subseteq [turn : ArcTurns, by : 0 .. Len(batches')]
      BY <1>0, <1>1, <1>3
    <3>2. context \in [Scopes -> SUBSET [turn : ArcTurns, by : 0 .. Len(batches)]]
      BY <1>0 DEF StoreShape
    <3> QED BY <3>1, <3>2
  <2>4. rotated \subseteq (DOMAIN batches') \X Scopes BY <1>0, <1>2 DEF StoreShape
  <2> QED BY <1>0, <1>1, <2>1, <2>2, <2>3, <2>4 DEF StoreShape
<1>5. /\ ToSet(eventLog)' = ToSet(eventLog) /\ Cold' = Cold
      /\ \A turns : EventsOf(turns)' = EventsOf(turns)
      /\ \A b \in DOMAIN batches : Turns(b)' = Turns(b)
      /\ Turns(n)' = new.turns
  BY <1>1 DEF EventsOf, Cold, Turns
<1>6. LogInOrder' BY DEF StoresInv, LogInOrder, Opened, Closed
<1>7. BatchesApart'
  <2> SUFFICES ASSUME NEW b \in DOMAIN batches'
               PROVE  /\ \A t \in Turns(b)' : <<t, "done">> \in ToSet(eventLog)
                      /\ \A c \in DOMAIN batches' :
                           (\/ batches'[c].id = batches'[b].id
                            \/ Turns(b)' \intersect Turns(c)' # {}) => b = c
    BY <1>5 DEF BatchesApart
  <2>1. \A t \in Turns(b)' : <<t, "done">> \in ToSet(eventLog)
    <3>1. CASE b = n BY <1>5, <3>1
    <3>2. CASE b \in DOMAIN batches
      <4>1. \A t \in Turns(b) : <<t, "done">> \in ToSet(eventLog) BY <3>2 DEF StoresInv, BatchesApart
      <4> QED BY <1>5, <3>2, <4>1
    <3> QED BY <1>2, <3>1, <3>2
  <2>2. ASSUME NEW c \in DOMAIN batches',
               batches'[c].id = batches'[b].id \/ Turns(b)' \intersect Turns(c)' # {}
        PROVE  b = c
    <3>1. CASE b \in DOMAIN batches /\ c \in DOMAIN batches
      BY <1>1, <1>5, <2>2, <3>1 DEF StoresInv, BatchesApart
    <3>2. CASE b = n /\ c \in DOMAIN batches
      <4>1. batches[c].id # new.id /\ Turns(c) \intersect new.turns = {} BY <3>2
      <4> QED BY <1>1, <1>5, <2>2, <3>2, <4>1
    <3>3. CASE c = n /\ b \in DOMAIN batches
      <4>1. batches[b].id # new.id /\ Turns(b) \intersect new.turns = {} BY <3>3
      <4> QED BY <1>1, <1>5, <2>2, <3>3, <4>1
    <3> QED BY <1>2, <3>1, <3>2, <3>3
  <2> QED BY <2>1, <2>2
<1>8. EntriesOne'
  <2>1. \A s \in Scopes : <<n, s>> \notin rotated BY <1>0, <1>2 DEF StoreShape
  <2>2. \A s \in Scopes : \A one \in context[s] : \A b \in DOMAIN batches' :
          <<b, s>> \in rotated /\ one.turn \in Turns(b)' => one.by = b
    BY <1>2, <1>5, <2>1 DEF StoresInv, EntriesOne
  <2> QED BY <2>2 DEF StoresInv, EntriesOne
<1>9. Filed' = Filed
  <2>1. \A b \in DOMAIN batches' : batches'[b].phase >= 1 => b \in DOMAIN batches
    BY <1>1, <1>2
  <2> QED BY <1>1, <1>2, <1>5, <2>1 DEF Filed
<1>10. HiddenFiled' BY <1>5, <1>9 DEF StoresInv, HiddenFiled, FiledOperation, Repairing
<1>11. PhaseIsTrue'
  <2> SUFFICES ASSUME NEW b \in DOMAIN batches'
               PROVE  /\ batches'[b].phase >= 1 => \A t \in batches'[b].turns : summary[t] # 0
                      /\ batches'[b].phase >= 2 /\ mishap.losses = 0
                           => EventsOf(batches'[b].turns) \subseteq Cold
                      /\ batches'[b].phase >= 3 => \A s \in Scopes : \A entry \in context[s] :
                           entry.turn \in batches'[b].turns => entry.by = b
                      /\ batches'[b].state = "committed" => batches'[b].phase >= 3
                      /\ batches'[b].phase = 4 => batches'[b].state = "committed"
    BY <1>5 DEF PhaseIsTrue
  <2>1. CASE b = n BY <1>1, <2>1
  <2>2. CASE b \in DOMAIN batches BY <1>1, <2>2 DEF StoresInv, PhaseIsTrue
  <2> QED BY <1>2, <2>1, <2>2
<1> QED BY <1>1, <1>2, <1>4, <1>6, <1>7, <1>8, <1>10, <1>11, <1>n DEF StoresInv

LEMMA OneTodo ==
  ASSUME NEW b \in Nat
  PROVE  <<b>> \in Seq(Nat) /\ ToSet(<<b>>) = {b}
<1>1. <<b>> \in [1 .. 1 -> Nat] OBVIOUS
<1>2. <<b>> \in Seq(Nat) BY <1>1, SeqDef
<1>3. DOMAIN <<b>> = {1} /\ <<b>>[1] = b OBVIOUS
<1> QED BY <1>2, <1>3 DEF ToSet

LEMMA PreparesKeeps ==
  ASSUME ArcInv, job.at = "reconcile", job.todo = <<>>,
         UNCHANGED <<eventLog, summary, projection, context, rotated, asked, mishap>>,
         NEW id \in BatchIds, NEW turns \in SUBSET ArcTurns, Prepares(id, turns),
         \A t \in turns : <<t, "done">> \in ToSet(eventLog)
  PROVE  ArcInv'
<1>0. /\ StoresInv /\ StoreShape /\ JobShape(job) /\ WorkDone
      /\ Len(batches) \in Nat /\ DOMAIN batches = 1 .. Len(batches) /\ Len(eventLog) \in Nat
  BY ArchiveBasics DEF ArcInv, StoresInv
<1> DEFINE same == {b \in DOMAIN batches : batches[b].id = id}
           of == IF same = {} THEN Len(batches) + 1 ELSE CHOOSE c \in same : TRUE
           new == [id |-> id, turns |-> turns, phase |-> 0, cutoff |-> Len(eventLog),
                   state |-> "prepared"]
<1>1. \/ job' = Idle /\ batches' = batches
      \/ /\ job' = [job EXCEPT !.at = "finish", !.todo = <<of>>, !.upto = Len(eventLog)]
         /\ \/ same # {} /\ batches' = batches
            \/ /\ same = {} /\ batches' = Append(batches, new)
               /\ \A c \in DOMAIN batches : Turns(c) \intersect turns = {}
  BY DEF Prepares
<1>2. CASE job' = Idle /\ batches' = batches
  BY <1>0, <1>2, IdleIsFresh, OperationKeeps
<1>3. CASE job' = [job EXCEPT !.at = "finish", !.todo = <<of>>, !.upto = Len(eventLog)]
  <2>1. job.did = {} BY <1>0 DEF WorkDone, Carrying
  <2>2. job' = [mode |-> job.mode, at |-> "finish", todo |-> <<of>>, did |-> {},
                of |-> job.of, upto |-> Len(eventLog)]
    <3> HIDE DEF of
    <3> QED BY <1>0, <1>3, <2>1 DEF JobShape
  <2>3. same # {} => of \in DOMAIN batches /\ of \in Nat
    <3> DEFINE one == CHOOSE c \in same : TRUE
    <3>1. same # {} => one \in same OBVIOUS
    <3> QED BY <1>0, <3>1
  <2>4. CASE same # {} /\ batches' = batches
    <3> HIDE DEF of, same
    <3>1. <<of>> \in Seq(Nat) /\ ToSet(<<of>>) \subseteq DOMAIN batches
      BY <2>3, <2>4, OneTodo
    <3>2. FreshJob(job') BY <1>0, <2>2, <3>1 DEF FreshJob, JobShape
    <3> QED BY <2>4, <3>2, OperationKeeps
  <2>5. CASE /\ same = {} /\ batches' = Append(batches, new)
             /\ \A c \in DOMAIN batches : Turns(c) \intersect turns = {}
    <3>1. new \in BatchType /\ new.phase = 0 /\ new.state = "prepared" /\ new.turns = turns
          /\ new.cutoff = Len(eventLog) /\ new.id = id
      BY <1>0 DEF BatchType
    <3>2. \A b \in DOMAIN batches : batches[b].id # id BY <2>5
    <3>3. of = Len(batches) + 1 BY <2>5
    <3> HIDE DEF new, of, same
    <3>4. StoresInv' /\ DOMAIN batches' = DOMAIN batches \union {of}
      BY <1>0, <2>5, <3>1, <3>2, <3>3, BatchIsAdded
    <3>5. <<of>> \in Seq(Nat) /\ ToSet(<<of>>) = {of} BY <1>0, <3>3, OneTodo
    <3>6. JobShape(job)' BY <1>0, <2>2, <3>4, <3>5 DEF JobShape
    <3>7. WorkDone' BY <2>2 DEF WorkDone
    <3> QED BY <3>4, <3>6, <3>7 DEF ArcInv
  <2> QED BY <1>1, <1>3, <2>4, <2>5, IdleIsFresh, <1>2
<1> QED BY <1>1, <1>2, <1>3

\* What is archived ended well.
LEMMA ArchivableEnded ==
  /\ Archivable \subseteq ArcTurns
  /\ \A t \in Archivable : <<t, "done">> \in ToSet(eventLog)
BY DEF Archivable

LEMMA SelectsKeeps ==
  ASSUME ArcInv, Selects
  PROVE  ArcInv'
<1>0. /\ job.at = "reconcile" /\ job.todo = <<>>
      /\ UNCHANGED <<eventLog, summary, projection, context, rotated, asked, mishap>>
  BY DEF Selects, Errand, Outside
<1>1. Len(eventLog) \in Nat BY ArchiveBasics DEF ArcInv, StoresInv
<1>2. ASSUME NEW turns \in SUBSET Archivable, Prepares(<<"archive", Len(eventLog), turns>>, turns)
      PROVE  ArcInv'
  <2>1. turns \in SUBSET ArcTurns /\ \A t \in turns : <<t, "done">> \in ToSet(eventLog)
    BY ArchivableEnded
  <2>2. <<"archive", Len(eventLog), turns>> \in BatchIds BY <1>1, <2>1 DEF BatchIds
  <2> QED BY <1>0, <1>2, <2>1, <2>2, PreparesKeeps
<1>3. \/ Prepares(<<"archive", Len(eventLog), Archivable>>, Archivable)
      \/ \E n \in 0 .. LastTurn : LET turns == {t \in Archivable : t <= n}
                                 IN Prepares(<<"archive", Len(eventLog), turns>>, turns)
  BY DEF Selects
<1>4. CASE Prepares(<<"archive", Len(eventLog), Archivable>>, Archivable) BY <1>2, <1>4
<1>5. CASE \E n \in 0 .. LastTurn : LET turns == {t \in Archivable : t <= n}
                                    IN Prepares(<<"archive", Len(eventLog), turns>>, turns)
  <2>1. PICK n \in 0 .. LastTurn :
          Prepares(<<"archive", Len(eventLog), {t \in Archivable : t <= n}>>,
                   {t \in Archivable : t <= n})
    BY <1>5
  <2> QED BY <1>2, <2>1
<1> QED BY <1>3, <1>4, <1>5

\* The operations of the repair command hide only what is filed; while nothing
\* is lost, that is hidden already.
LEMMA VisibilityIsFiled ==
  ASSUME ArcInv, NEW scope \in SUBSET LogEvents, NEW retained \in SUBSET LogEvents,
         NEW n \in 0 .. Len(eventLog), NEW shown \in SUBSET LogEvents
  PROVE  LET op == Visibility(shown, Rowless(scope) \intersect Kept, retained, n)
         IN op \in OperationType /\ FiledOperation(op)
<1>0. /\ StoresInv /\ StoreShape /\ JobShape(job)
      /\ ToSet(eventLog) \subseteq LogEvents /\ Len(eventLog) \in Nat
      /\ \A b \in DOMAIN batches : batches[b] \in BatchType
  BY ArchiveBasics DEF ArcInv, StoresInv
<1> DEFINE hidden == Rowless(scope) \intersect Kept
           op == Visibility(shown, hidden, retained, n)
<1>1. hidden \subseteq Filed
  <2> SUFFICES ASSUME NEW e \in Kept PROVE e \in Filed
    OBVIOUS
  <2>1. PICK b \in DOMAIN batches : batches[b].state = "committed" /\ e \in EventsOf(Turns(b))
    BY DEF Kept
  <2>2. batches[b].phase >= 3 BY <1>0, <2>1 DEF StoresInv, PhaseIsTrue
  <2>3. batches[b].phase >= 1 BY <1>0, <2>2 DEF BatchType
  <2> QED BY <2>1, <2>3 DEF Filed, EventsOf
<1>2. mishap.losses = 0 => hidden = {}
  <2> SUFFICES ASSUME mishap.losses = 0, NEW e \in hidden PROVE FALSE
    OBVIOUS
  <2>1. PICK b \in DOMAIN batches : batches[b].state = "committed" /\ e \in EventsOf(Turns(b))
    BY DEF Kept
  <2>2. batches[b].phase >= 3 BY <1>0, <2>1 DEF StoresInv, PhaseIsTrue
  <2>3. batches[b].phase >= 2 BY <1>0, <2>2 DEF BatchType
  <2>4. EventsOf(Turns(b)) \subseteq Cold BY <1>0, <2>3 DEF StoresInv, PhaseIsTrue, Turns
  <2>5. projection.rows[e] = "cold" BY <2>1, <2>4 DEF Cold
  <2> QED BY <2>5 DEF Rowless
<1>3. hidden \subseteq LogEvents BY DEF Rowless
<1> HIDE DEF hidden
<1>4. op = [id |-> <<"visibility", job.of, shown>>, cutoff |-> n, hidden |-> hidden,
            retained |-> retained]
  BY DEF Visibility
<1> HIDE DEF op
<1>5. <<"visibility", job.of, shown>> \in OperationIds BY <1>0 DEF OperationIds, JobShape
<1>6. op \in OperationType /\ op.hidden = hidden /\ op.id = <<"visibility", job.of, shown>>
  BY <1>0, <1>3, <1>4, <1>5 DEF OperationType
<1>7. Repairing(op) BY <1>6 DEF Repairing
<1>8. op \in OperationType /\ FiledOperation(op) BY <1>1, <1>2, <1>6, <1>7 DEF FiledOperation
<1> QED BY <1>8 DEF op, hidden

LEMMA ProjectsKeeps ==
  ASSUME ArcInv, NEW op \in OperationType, FiledOperation(op), Projects(op),
         UNCHANGED <<eventLog, summary, context, rotated, asked, mishap>>
  PROVE  ArcInv'
<1>0. StoreShape BY DEF ArcInv, StoresInv
<1>1. /\ job' = Idle /\ batches' = batches
      /\ \/ Accepts(op) /\ projection' = Retained(op)
         \/ projection' = projection
  BY DEF Projects
<1>2. FreshJob(job') BY <1>0, <1>1, IdleIsFresh
<1>3. Accepts(op) /\ projection' = Retained(op) => op \in projection'.operations
  BY <1>0, AcceptedIsThere
<1> QED BY <1>1, <1>2, <1>3, OperationKeeps

\* The start, the repair command, and its end.
LEMMA RepairsKeep ==
  ASSUME ArcInv, Serves \/ Restores \/ Reveals
  PROVE  ArcInv'
<1>0. /\ StoresInv /\ StoreShape /\ JobShape(job)
      /\ ToSet(eventLog) \subseteq LogEvents /\ Len(eventLog) \in Nat
      /\ UNCHANGED <<eventLog, summary, context, rotated, asked, mishap>>
  BY ArchiveBasics DEF ArcInv, StoresInv, Serves, Restores, Reveals, Errand, Outside
<1>1. ASSUME job' = Idle, UNCHANGED <<projection, batches>> PROVE ArcInv'
  <2>1. FreshJob(job') BY <1>0, <1>1, IdleIsFresh
  <2> QED BY <1>0, <1>1, <2>1, OperationKeeps
<1>2. ASSUME NEW k \in 0 .. LastTurn, NEW n \in 0 .. Len(eventLog)
      PROVE  Before(k, n) \subseteq LogEvents
  BY <1>0, <1>2, UpToInLog DEF Before
<1>3. CASE Serves
  <2> DEFINE missing == {e \in ToSet(eventLog) : projection.rows[e] = "none"}
             op == [id |-> <<"repair", missing>>, cutoff |-> Len(eventLog), hidden |-> {},
                    retained |-> missing]
  <2>1. \/ job' = Idle /\ UNCHANGED <<projection, batches>>
        \/ Projects(op)
    BY <1>3 DEF Serves
  <2>2. missing \subseteq LogEvents BY <1>0
  <2> HIDE DEF missing
  <2>3. <<"repair", missing>> \in OperationIds /\ <<"repair", missing>>[1] # "visibility"
    BY <2>2 DEF OperationIds
  <2>4. op \in OperationType /\ op.hidden = {} /\ ~Repairing(op)
    BY <1>0, <2>2, <2>3 DEF OperationType, Repairing
  <2>5. FiledOperation(op) BY <2>4 DEF FiledOperation
  <2> HIDE DEF op
  <2> QED BY <1>0, <1>1, <2>1, <2>4, <2>5, ProjectsKeeps
<1>4. CASE Restores
  <2> DEFINE scope == Before(job.of, Len(eventLog))
             turns == {t \in 1 .. job.of : t \in Archivable /\ EventsOf({t}) \intersect Kept = {}}
             shown == (scope \ Cold) \ Kept
             op == Visibility(shown, Rowless(scope) \intersect Kept, shown, Len(eventLog))
  <2>1. \/ Prepares(<<"restore", EventsOf(turns)>>, turns) /\ UNCHANGED projection
        \/ job' = Idle /\ UNCHANGED <<projection, batches>>
        \/ Projects(op)
    BY <1>4 DEF Restores
  <2>2. scope \in SUBSET LogEvents /\ shown \in SUBSET LogEvents
    BY <1>0, <1>2 DEF JobShape
  <2>3. /\ turns \in SUBSET ArcTurns /\ \A t \in turns : <<t, "done">> \in ToSet(eventLog)
        /\ EventsOf(turns) \in SUBSET LogEvents
    BY <1>0, ArchivableEnded DEF EventsOf
  <2>4. op \in OperationType /\ FiledOperation(op)
    <3>1. Len(eventLog) \in 0 .. Len(eventLog) BY <1>0
    <3> HIDE DEF scope, shown
    <3> QED BY <2>2, <3>1, VisibilityIsFiled
  <2>5. job.at = "reconcile" /\ job.todo = <<>> BY <1>4 DEF Restores, Errand
  <2> HIDE DEF op, turns
  <2>6. <<"restore", EventsOf(turns)>> \in BatchIds BY <2>3 DEF BatchIds
  <2>7. CASE Prepares(<<"restore", EventsOf(turns)>>, turns) /\ UNCHANGED projection
    BY <1>0, <2>3, <2>5, <2>6, <2>7, PreparesKeeps
  <2>8. CASE Projects(op) BY <1>0, <2>4, <2>8, ProjectsKeeps
  <2> QED BY <1>1, <2>1, <2>7, <2>8
<1>5. CASE Reveals
  <2> DEFINE scope == Before(job.of, job.upto)
             rest == Rowless(scope) \ Kept
             op == Visibility(scope, Rowless(scope) \intersect Kept, rest, job.upto)
  <2>1. \/ job' = Idle /\ UNCHANGED <<projection, batches>>
        \/ Projects(op)
    BY <1>5 DEF Reveals
  <2>2. scope \in SUBSET LogEvents /\ rest \in SUBSET LogEvents /\ job.upto \in 0 .. Len(eventLog)
    BY <1>0, <1>2 DEF JobShape, Rowless
  <2>3. op \in OperationType /\ FiledOperation(op)
    <3> HIDE DEF scope, rest
    <3> QED BY <2>2, VisibilityIsFiled
  <2> HIDE DEF op
  <2> QED BY <1>0, <1>1, <2>1, <2>3, ProjectsKeeps
<1> QED BY <1>3, <1>4, <1>5

\* Without rows nothing is hidden, and of what was nothing is promised.
LEMMA LosesKeeps ==
  ASSUME ArcInv, Loses
  PROVE  ArcInv'
<1>0. /\ StoresInv /\ StoreShape /\ JobShape(job) /\ job = Down
      /\ UNCHANGED <<eventLog, batches, summary, context, rotated, job, asked>>
  BY DEF ArcInv, StoresInv, Loses
<1>1. /\ mishap' = [mishap EXCEPT !.losses = @ + 1]
      /\ projection' \in {Empty, [projection EXCEPT !.rows = Empty.rows]}
  BY DEF Loses
<1>2. mishap' \in [failures : Nat, stops : Nat, losses : Nat] /\ mishap'.losses > 0
  BY <1>0, <1>1 DEF StoreShape
<1>3. NoOperation \in OperationType
  BY DEF NoOperation, OperationType, OperationIds
<1>4. /\ projection' \in [rows : [LogEvents -> {"none", "hot", "cold"}],
                          operations : SUBSET OperationType, mark : OperationType]
      /\ \A e \in LogEvents : projection'.rows[e] = "none"
      /\ projection'.operations \subseteq projection.operations
      /\ projection'.mark = NoOperation \/ projection'.mark \in projection'.operations
  <2>1. /\ Empty = [rows |-> [e \in LogEvents |-> "none"], operations |-> {}, mark |-> NoOperation]
        /\ Empty.rows = [e \in LogEvents |-> "none"]
    BY DEF Empty, LogEvents
  <2> HIDE DEF Empty
  <2>2. Empty.rows \in [LogEvents -> {"none", "hot", "cold"}]
        /\ \A e \in LogEvents : Empty.rows[e] = "none"
    BY <2>1
  <2>3. CASE projection' = Empty
    <3>1. Empty.operations = {} /\ Empty.mark = NoOperation BY <2>1
    <3> QED BY <1>3, <2>1, <2>2, <2>3, <3>1
  <2>4. CASE projection' = [projection EXCEPT !.rows = Empty.rows]
    BY <1>0, <2>2, <2>4 DEF StoreShape
  <2> QED BY <1>1, <2>3, <2>4
<1>5. StoreShape' BY <1>0, <1>2, <1>4 DEF StoreShape
<1>6. /\ ToSet(eventLog)' = ToSet(eventLog) /\ Filed' = Filed
      /\ \A turns : EventsOf(turns)' = EventsOf(turns)
      /\ \A b : Turns(b)' = Turns(b)
  BY <1>0 DEF EventsOf, Turns, Filed
<1>7. LogInOrder' BY <1>0 DEF StoresInv, LogInOrder, Opened, Closed
<1>8. BatchesApart' BY <1>0, <1>6 DEF StoresInv, BatchesApart
<1>9. EntriesOne' BY <1>0, <1>6 DEF StoresInv, EntriesOne
<1>10. HiddenFiled'
  <2>1. \A op \in projection.operations : FiledOperation(op)'
    BY <1>0, <1>2, <1>6 DEF StoresInv, HiddenFiled, FiledOperation, Repairing
  <2> QED BY <1>4, <2>1 DEF HiddenFiled
<1>11. PhaseIsTrue' BY <1>0, <1>2, <1>6 DEF StoresInv, PhaseIsTrue
<1>12. FreshJob(job')
  BY <1>0, IdleIsFresh
<1>13. JobShape(job)' /\ WorkDone' BY <1>0, <1>12 DEF FreshJob, JobShape, WorkDone
<1> QED BY <1>5, <1>7, <1>8, <1>9, <1>10, <1>11, <1>13 DEF ArcInv, StoresInv

LEMMA ArchiveStart == ArcInit => ArcInv
<1> SUFFICES ASSUME ArcInit PROVE ArcInv
  OBVIOUS
<1>0. LastTurn \in Nat /\ 0 \in 0 .. LastTurn BY ArchiveAssumption
<1>1. /\ <<>> \in Seq(LogEvents) /\ <<>> \in Seq(BatchType) /\ Len(<<>>) = 0 /\ DOMAIN <<>> = {}
      /\ ToSet(<<>>) = {}
  BY EmptySeq DEF ToSet
<1>2. eventLog = <<>> /\ batches = <<>> /\ projection = Empty /\ job = Idle BY DEF ArcInit
<1>3. /\ projection \in [rows : [LogEvents -> {"none", "hot", "cold"}],
                         operations : SUBSET OperationType, mark : OperationType]
      /\ projection.mark = NoOperation /\ projection.operations = {}
      /\ \A e \in LogEvents : projection.rows[e] = "none"
  <2>1. NoOperation \in OperationType
    BY DEF NoOperation, OperationType, OperationIds
  <2> QED BY <1>2, <2>1 DEF Empty, LogEvents
<1>4. StoreShape
  <2>1. IsFiniteSet({}) /\ Cardinality({}) = 0 BY FS_EmptySet
  <2>2. summary \in [ArcTurns -> 0 .. Len(batches)] BY <1>1, <1>2 DEF ArcInit
  <2>3. context \in [Scopes -> SUBSET [turn : ArcTurns, by : 0 .. Len(batches)]]
    BY DEF ArcInit
  <2>4. mishap \in [failures : Nat, stops : Nat, losses : Nat] BY DEF ArcInit
  <2>5. asked \in 0 .. LastTurn /\ rotated = {} BY <1>0 DEF ArcInit
  <2> QED BY <1>1, <1>2, <1>3, <2>1, <2>2, <2>3, <2>4, <2>5 DEF StoreShape
<1>5. LogInOrder BY <1>1, <1>2 DEF LogInOrder, Closed
<1>6. BatchesApart /\ PhaseIsTrue BY <1>1, <1>2 DEF BatchesApart, PhaseIsTrue
<1>7. EntriesOne BY DEF EntriesOne, ArcInit
<1>8. HiddenFiled BY <1>3 DEF HiddenFiled
<1>9. FreshJob(job) BY <1>2, <1>4, IdleIsFresh
<1>10. JobShape(job) /\ WorkDone BY <1>9 DEF FreshJob, WorkDone
<1> QED BY <1>4, <1>5, <1>6, <1>7, <1>8, <1>10 DEF ArcInv, StoresInv

LEMMA ArchiveStep == ArcInv /\ [ArcNext]_arcVars => ArcInv'
<1> SUFFICES ASSUME ArcInv, [ArcNext]_arcVars PROVE ArcInv'
  OBVIOUS
<1>0. StoresInv /\ StoreShape BY DEF ArcInv, StoresInv
<1>1. ASSUME NEW t \in ArcTurns, TurnOpens(t) \/ Materialises(t) \/ TurnCloses(t) \/ Summarises(t)
      PROVE  ArcInv'
  BY <1>1, TurnsKeep, MaterialisesKeeps, SummarisesKeeps
<1>2. ASSUME NEW s \in Scopes, Rotates(s) PROVE ArcInv'
  BY <1>2, RotatesKeeps
<1>3. CASE \/ \E day \in Days : Repairs(day)
           \/ ArchivesStale \/ ArchivesManually \/ Starts
           \/ Refused \/ StepFails \/ ArcStops \/ Recovered
  BY <1>3, ErrandsKeep
<1>4. CASE Hides \/ MarksCommitted \/ WritesPhase \/ Reconciles \/ Selects \/ Loses
  BY <1>4, HidesKeeps, MarksCommittedKeeps, WritesPhaseKeeps, ReconcilesKeeps, SelectsKeeps,
     LosesKeeps
<1>5. CASE Serves \/ Restores \/ Reveals BY <1>5, RepairsKeep
<1>6. CASE UNCHANGED arcVars
  <2>1. asked' \in 0 .. LastTurn /\ mishap' \in [failures : Nat, stops : Nat, losses : Nat]
    BY <1>0, <1>6 DEF StoreShape
  <2>2. StoresInv' BY <1>0, <1>6, <2>1, StoresStay DEF Stores
  <2>3. JobShape(job)' BY <1>6 DEF ArcInv, JobShape
  <2>4. WorkDone'
    BY <1>6 DEF ArcInv, WorkDone, Carrying, InHand, Turns, EventsOf, Cold
  <2> QED BY <2>2, <2>3, <2>4 DEF ArcInv
<1> QED BY <1>1, <1>2, <1>3, <1>4, <1>5, <1>6 DEF ArcNext

\* The inductive invariant: what is on record of a batch, of what is hidden and
\* of the work in hand.
THEOREM ArchiveInvariant == ArcSpec => []ArcInv
BY ArchiveStart, ArchiveStep, PTL DEF ArcSpec

\* The stores and the job keep to their types: a log without repetition, batches
\* that reach no further than it does, and a watermark that is on record.
THEOREM ArchiveTyped == ArcSpec => []ArcTypeOK
<1>1. ASSUME ArcInv PROVE ArcTypeOK
  <2>1. /\ StoreShape /\ JobShape(job) /\ ToSet(eventLog) \subseteq LogEvents
        /\ Len(eventLog) \in Nat /\ \A b \in DOMAIN batches : batches[b] \in BatchType
    BY <1>1, ArchiveBasics DEF ArcInv, StoresInv
  <2>2. \A b \in DOMAIN batches :
          /\ batches[b].turns \subseteq ArcTurns /\ batches[b].phase \in 0 .. 4
          /\ batches[b].cutoff \in 0 .. Len(eventLog)
          /\ batches[b].state \in {"prepared", "committed"}
    BY <2>1 DEF BatchType, StoreShape
  <2> QED BY <2>1, <2>2 DEF ArcTypeOK, StoreShape, JobShape, LogEvents
<1> QED BY <1>1, ArchiveInvariant, PTL

\* However steps fail, the process ends and files are lost: what the prompt does
\* not see is kept, a transcript has each turn once, and the manifest and the
\* index tell what the other stores have.
THEOREM ArchiveIsTrue == ArcSpec => []ArchiveTellsTruth
<1>1. ASSUME ArcInv PROVE ArchiveTellsTruth
  <2>0. /\ StoresInv /\ ToSet(eventLog) \subseteq LogEvents
        /\ \A b \in DOMAIN batches : batches[b] \in BatchType
        /\ context \in [Scopes -> SUBSET [turn : ArcTurns, by : 0 .. Len(batches)]]
        /\ mishap \in [failures : Nat, stops : Nat, losses : Nat]
    BY <1>1, ArchiveBasics DEF ArcInv, StoresInv, StoreShape
  <2>1. HiddenIsKept
    <3> SUFFICES ASSUME NEW e \in Cold
                 PROVE  /\ summary[e[1]] # 0
                        /\ \E b \in DOMAIN batches : e[1] \in Turns(b)
                        /\ \/ EventsOf({e[1]}) \subseteq Cold
                           \/ /\ mishap.losses > 0
                              /\ \E op \in projection.operations :
                                   op.id[1] = "visibility" /\ e \in op.hidden
      BY DEF HiddenIsKept
    <3>1. e \in LogEvents /\ projection.rows[e] = "cold" BY <2>0 DEF Cold
    <3>2. /\ e \in Filed
          /\ \/ EventsOf({e[1]}) \subseteq Cold
             \/ \E op \in projection.operations : Repairing(op) /\ e \in op.hidden
      BY <2>0, <3>1 DEF StoresInv, HiddenFiled
    <3>3. PICK b \in DOMAIN batches : e[1] \in Turns(b) /\ batches[b].phase >= 1
      BY <3>2 DEF Filed
    <3>4. summary[e[1]] # 0 BY <2>0, <3>3 DEF StoresInv, PhaseIsTrue, Turns
    <3>5. ASSUME NEW op \in projection.operations, Repairing(op), e \in op.hidden
          PROVE  mishap.losses > 0
      <4>1. mishap.losses # 0 BY <2>0, <3>5 DEF StoresInv, HiddenFiled, FiledOperation
      <4> QED BY <2>0, <4>1
    <3> QED BY <3>2, <3>3, <3>4, <3>5 DEF Repairing
  <2>2. SeenOnce
    <3> SUFFICES ASSUME NEW s \in Scopes, NEW t \in ArcTurns
                 PROVE  Cardinality({entry \in context[s] : entry.turn = t}) <= 1
      BY DEF SeenOnce
    <3> DEFINE of == {entry \in context[s] : entry.turn = t}
    <3>1. \A one, other \in of : one = other BY <2>0 DEF StoresInv, EntriesOne
    <3> HIDE DEF of
    <3>2. CASE of = {} BY <3>2, FS_EmptySet DEF of
    <3>3. CASE of # {}
      <4>1. PICK one \in of : of = {one} BY <3>1, <3>3
      <4>2. Cardinality(of) = 1 BY <4>1, FS_Singleton
      <4> QED BY <4>2 DEF of
    <3> QED BY <3>2, <3>3
  <2> QED BY <2>0, <2>1, <2>2 DEF ArchiveTellsTruth, StoresInv
<1> QED BY <1>1, ArchiveInvariant, PTL
=============================================================================
