----------------------- MODULE ConversationScheduler -----------------------
(***************************************************************************)
(* Scheduling of one conversation: core/engine/conversation_scheduler.py   *)
(* driven by AgentEngine.dispatch and AgentEngine._consumer               *)
(* (core/engine/agent_engine.py), over the inbox of module SessionInbox.   *)
(*                                                                         *)
(* Each consumer token is one consumer task.  Its program counter names    *)
(* the await it is suspended at; whatever runs between two awaits is one   *)
(* action.  A turn (TurnState) is named by the message at the head of its  *)
(* work.  Planner, tools, media and prompts are reduced to how a run ends: *)
(* it finishes, fails, or asks to wait.                                    *)
(***************************************************************************)
EXTENDS SessionInbox

CONSTANTS
  Quiet,        \* a collect_idle window is configured
  AmbientQuiet, \* an ambient_collect_idle window is configured
  MaxCollect,   \* collect_max_messages
  Features      \* which of the optional events below can happen

Optional ==
  {"fail",     \* a run, an admission or a provider raises
   "expire",   \* an ambient decision expires before the provider starts
   "steer",    \* the tool loop drains follow-ups into the running turn
   "wait",     \* the planner asks to wait for more messages
   "stop",     \* the engine is stopped and started again
   "hint",     \* a work-plan hint makes _refresh_mode_routing do I/O
   "recover"}  \* dispatch() awaits ambient delivery recovery, which may raise

LeaseKinds == {"head", "follow", "wait", "drain"}

ASSUME SchedulerAssumption ==
  /\ Messages \subseteq Nat \ {0}
  /\ Slots = Tokens \X LeaseKinds
  /\ Quiet \in BOOLEAN /\ AmbientQuiet \in BOOLEAN
  /\ MaxCollect \in Nat \ {0}
  /\ Features \subseteq Optional

VARIABLES
  cons,    \* what each consumer task is doing
  turn,    \* _turn_states: the phase of the turn each message heads
  history, \* messages in the local history (_admitted_ids)
  engine   \* the engine's life: up, stopping, down, up again

schedVars == <<inboxVars, cons, turn, history, engine>>

NoMessage == 0
Phases == {"absent", "active", "waiting", "cancelled"}
Selecting == {"start", "select", "idle", "collect", "claim"}
Working == {"begin", "run", "drain", "ran", "wait", "woken", "steered",
            "commit", "finish", "finalize", "cancelTurn", "cas", "settle",
            "requeue"}
ConsumerStates == {"off", "launch", "exit"} \cup Selecting \cup Working

Fresh(pc) == [pc |-> pc, first |-> NoMessage, mode |-> "direct",
              todo |-> <<>>, retried |-> FALSE, after |-> "ran"]

HeadLease(t) == lease[<<t, "head">>]
FollowLease(t) == lease[<<t, "follow">>]
WaitLease(t) == lease[<<t, "wait">>]
DrainLease(t) == lease[<<t, "drain">>]

\* ScheduledWork.items
WorkItems(t) == HeadLease(t).items \o FollowLease(t).items
SlotOf(t, m) == <<t, IF m \in ItemsOf(HeadLease(t).items) THEN "head" ELSE "follow">>
NextOf(l) == l.items[l.committed + 1]

SchedInit ==
  /\ InboxInit
  /\ cons = [t \in Tokens |-> Fresh("off")]
  /\ turn = [m \in Messages |-> "absent"]
  /\ history = {}
  /\ engine = "up"

At(t, pc) == cons[t].pc = pc
Go(t, pc) == cons' = [cons EXCEPT ![t].pc = pc]
DropLeases(t) ==
  lease' = [s \in Slots |-> IF s[1] = t THEN NoLease ELSE lease[s]]
NextTurn(t) == cons' = [cons EXCEPT ![t] = Fresh("select")]

\* An exception ("error") or a cancellation ("abort") leaves the turn's body.
Raise(c, how) == [c EXCEPT !.pc = "cancelTurn", !.after = how, !.todo = <<>>]

(***************************************************************************)
(* dispatch(): messages are numbered in the order they arrive.  Accepting  *)
(* a direct task cancels the active ambient turns in the same step.        *)
(***************************************************************************)
Arrives(m) ==
  /\ mstate[m] = "none"
  /\ \A n \in Messages : n < m => mstate[n] # "none"

\* Mutant of AmbientCancelled.
NothingCancelled == turn

AmbientCancelled ==
  [n \in Messages |-> IF n \in Ambient /\ turn[n] = "active"
                      THEN "cancelled" ELSE turn[n]]

Dispatch(m) ==
  /\ Arrives(m)
  /\ Enqueue(m)
  /\ turn' = IF m \in Direct /\ mstate'[m] = "accepted"
             THEN AmbientCancelled ELSE turn
  /\ cons' = IF nextToken' = nextToken
             THEN cons ELSE [cons EXCEPT ![nextToken'].pc = "launch"]
  /\ UNCHANGED <<history, engine>>

Launch(t) ==
  /\ At(t, "launch")
  /\ Go(t, "start")
  /\ UNCHANGED <<inboxVars, turn, history, engine>>

\* An exception between claiming the token and creating its task.
LaunchFails(t) ==
  /\ "recover" \in Features
  /\ At(t, "launch")
  /\ Go(t, "off")
  /\ UNCHANGED <<inboxVars, turn, history, engine>>

(***************************************************************************)
(* next_work(): peek at the head under the selection lock, let follow-ups  *)
(* settle, lease them, then lease the head itself.                         *)
(***************************************************************************)
QuietFor(m) == IF m \in Ambient THEN AmbientQuiet ELSE Quiet

Peek(t) ==
  /\ cons[t].pc \in {"start", "select"}
  /\ \A u \in Tokens : cons[u].pc \notin {"collect", "claim"}
  /\ cons' = [cons EXCEPT
       ![t] = IF running # t \/ inbox = <<>> THEN Fresh("idle")
              ELSE [Fresh(IF QuietFor(Head(inbox)) THEN "collect" ELSE "claim")
                      EXCEPT !.first = Head(inbox)]]
  /\ UNCHANGED <<inboxVars, turn, history, engine>>

HasFollowup(t) ==
  /\ running = t
  /\ MaxCollect > 1
  /\ Steerable(2, 1, cons[t].first, Messages)

Collect(t) ==
  /\ At(t, "collect")
  /\ IF HasFollowup(t)
     THEN \E n \in 1 .. MaxCollect - 1 :
            ClaimSteer(<<t, "follow">>, 1, n, cons[t].first, Messages)
     ELSE UNCHANGED inboxVars
  /\ Go(t, "claim")
  /\ UNCHANGED <<turn, history, engine>>

\* The slot is still the consumer's: only cleanup_all() takes it away, and
\* stop() has cancelled the consumer by then.
ClaimHead(t) ==
  /\ At(t, "claim")
  /\ ClaimNext(<<t, "head">>, t)
  /\ Head(inbox) = cons[t].first
  /\ cons' = [cons EXCEPT
       ![t].pc = "begin",
       ![t].mode = IF cons[t].first \notin Ambient THEN "direct"
                   ELSE IF \E i \in DOMAIN inbox' : inbox'[i] \in Direct THEN "passive"
                   ELSE "active"]
  /\ UNCHANGED <<turn, history, engine>>

\* StaleScheduledWork: the popped head and the follow-ups belong to no one.
ClaimStaleHead(t) ==
  /\ At(t, "claim")
  /\ running = t
  /\ inbox # <<>>
  /\ Head(inbox) # cons[t].first
  /\ inbox' = Tail(inbox)
  /\ leasedCount' = leasedCount + 1
  /\ DropLeases(t)
  /\ Go(t, "exit")
  /\ UNCHANGED <<running, nextToken, mstate, turn, history, engine>>

Idle(t) ==
  /\ At(t, "idle")
  /\ \/ /\ ReleaseIfIdle(t)
        /\ Go(t, "off")
     \/ /\ running # t
        /\ Go(t, "off")
        /\ UNCHANGED inboxVars
     \/ /\ running = t
        /\ inbox # <<>>
        /\ Go(t, "select")
        /\ UNCHANGED inboxVars
  /\ UNCHANGED <<turn, history, engine>>

(***************************************************************************)
(* start_turn().  An ambient turn that finds a direct task queued is born  *)
(* cancelled; the engagement gate decides whether a live one may speak.    *)
(***************************************************************************)
BeginTurn(t) ==
  LET m == cons[t].first
      yields == m \in Ambient /\ HasPending(Direct) IN
  /\ At(t, "begin")
  /\ running = t
  /\ turn[m] = "absent"
  /\ turn' = [turn EXCEPT ![m] = IF yields THEN "cancelled" ELSE "active"]
  /\ \E mode \in IF cons[t].mode = "direct" THEN {"direct"}
                  ELSE IF cons[t].mode = "passive" \/ yields THEN {"passive"}
                  ELSE {"active", "passive"} :
       cons' = [cons EXCEPT ![t].pc = "run", ![t].mode = mode,
                            ![t].todo = WorkItems(t)]
  /\ UNCHANGED <<inboxVars, history, engine>>

\* StaleScheduledWork, or TurnStateError: a turn of that id already exists.
BeginRefused(t) ==
  /\ At(t, "begin")
  /\ running # t \/ turn[cons[t].first] # "absent"
  /\ cons' = [cons EXCEPT ![t] = Raise(@, "error")]
  /\ UNCHANGED <<inboxVars, turn, history, engine>>

\* _refresh_mode_routing() runs outside the turn's try block.
RefreshFails(t) ==
  /\ {"hint", "fail"} \subseteq Features
  /\ At(t, "begin")
  /\ Go(t, "exit")
  /\ UNCHANGED <<inboxVars, turn, history, engine>>

(***************************************************************************)
(* The run: admit every item of the batch, then plan and call tools.       *)
(***************************************************************************)
Admit(t) ==
  /\ At(t, "run")
  /\ cons[t].todo # <<>>
  /\ history' = history \cup {Head(cons[t].todo)}
  /\ cons' = [cons EXCEPT ![t].todo = Tail(@)]
  /\ UNCHANGED <<inboxVars, turn, engine>>

\* group_engagement.start() refuses: the ambient run returns at once.
Expire(t) ==
  /\ "expire" \in Features
  /\ At(t, "run")
  /\ cons[t].mode = "active"
  /\ cons[t].todo = WorkItems(t)
  /\ cons' = [cons EXCEPT ![t].pc = "commit", ![t].todo = <<>>]
  /\ UNCHANGED <<inboxVars, turn, history, engine>>

\* Mutant of AfterRun: no finally around the waiting-loop batch.
AfterRunNoFinally(t, how) ==
  cons' = [cons EXCEPT ![t] = IF how = "ran" THEN [@ EXCEPT !.pc = "ran"]
                              ELSE Raise(@, how)]

\* A waiting-loop batch is committed in a finally, however its run ended.
AfterRun(t, how) ==
  IF WaitLease(t).active
  THEN cons' = [cons EXCEPT ![t].pc = "steered", ![t].after = how, ![t].todo = <<>>]
  ELSE cons' = [cons EXCEPT ![t] = IF how = "ran" THEN [@ EXCEPT !.pc = "ran"]
                                   ELSE Raise(@, how)]

RunEnds(t) ==
  /\ At(t, "run")
  /\ cons[t].todo = <<>>
  /\ AfterRun(t, "ran")
  /\ UNCHANGED <<inboxVars, turn, history, engine>>

\* The batch of the current planner call, and the message _run_turn's
\* rollback removes from history: an ambient run's first, always; another
\* run's last, when the prompt was not built yet.
Batch(t) ==
  IF WaitLease(t).items = <<>> THEN WorkItems(t)
  ELSE IF cons[t].mode = "active" THEN WaitLease(t).items
  ELSE <<cons[t].first>> \o WaitLease(t).items

RolledBack(t) ==
  LET batch == Batch(t) IN
  IF cons[t].mode = "passive" THEN {{}}
  ELSE IF cons[t].mode = "active" THEN {{batch[1]}}
  ELSE IF cons[t].todo # <<>> THEN {{batch[Len(batch)]}}
  ELSE {{}, {batch[Len(batch)]}}

RunFails(t) ==
  /\ "fail" \in Features
  /\ At(t, "run")
  /\ \E undone \in RolledBack(t) : history' = history \ undone
  /\ AfterRun(t, "error")
  /\ UNCHANGED <<inboxVars, turn, engine>>

(***************************************************************************)
(* Steering: claim_steer() leases the queued prefix of the turn's intent   *)
(* and sender.  The tool loop admits and commits it item by item.          *)
(***************************************************************************)
SameSender(t) == {m \in Messages : Sender[m] = Sender[cons[t].first]}

SteerablePrefix(t) ==
  {n \in 1 .. Len(inbox) : Steerable(1, n, cons[t].first, SameSender(t))}

ClaimPrefix(t, kind) ==
  /\ turn[cons[t].first] \in {"active", "waiting"}
  /\ \E n \in SteerablePrefix(t) :
       /\ n + 1 \notin SteerablePrefix(t)
       /\ ClaimSteer(<<t, kind>>, 0, n, cons[t].first, SameSender(t))

DrainClaim(t) ==
  /\ "steer" \in Features
  /\ At(t, "run")
  /\ cons[t].mode = "direct"
  /\ cons[t].todo = <<>>
  /\ ClaimPrefix(t, "drain")
  /\ Go(t, "drain")
  /\ UNCHANGED <<turn, history, engine>>

DrainOne(t) ==
  /\ At(t, "drain")
  /\ history' = history \cup {NextOf(DrainLease(t))}
  /\ Commit(<<t, "drain">>)
  /\ Go(t, IF lease'[<<t, "drain">>].active THEN "drain" ELSE "run")
  /\ UNCHANGED <<turn, engine>>

DrainFails(t) ==
  /\ "fail" \in Features
  /\ At(t, "drain")
  /\ RequeueFront(<<t, "drain">>)
  /\ Go(t, "run")
  /\ UNCHANGED <<turn, history, engine>>

(***************************************************************************)
(* The waiting loop: the planner asks for more messages.  A wake claims    *)
(* them as a new batch; the loop commits that batch after the run of a     *)
(* direct turn, and before the run of an ambient one.                      *)
(***************************************************************************)
PlanWait(t) ==
  /\ "wait" \in Features
  /\ At(t, "ran")
  /\ cons[t].mode # "passive"
  /\ turn[cons[t].first] = "active"
  /\ turn' = [turn EXCEPT ![cons[t].first] = "waiting"]
  /\ Go(t, "wait")
  /\ UNCHANGED <<inboxVars, history, engine>>

PlanDone(t) ==
  /\ At(t, "ran")
  /\ Go(t, "commit")
  /\ UNCHANGED <<inboxVars, turn, history, engine>>

\* A private wait ends on any revision, even of a message steered since.
MayWake(t) ==
  LET m == cons[t].first IN
  CASE m \in Ambient -> HasPending(Ambient)
    [] m \in Direct -> HasPending(Direct)
    [] OTHER -> TRUE

Wake(t) ==
  /\ At(t, "wait")
  /\ MayWake(t)
  /\ turn' = [turn EXCEPT ![cons[t].first] = "active"]
  /\ Go(t, "woken")
  /\ UNCHANGED <<inboxVars, history, engine>>

\* A timed-out private wait runs the planner once more; a timed-out ambient
\* turn goes to its end while still waiting.
WaitTimesOut(t) ==
  LET m == cons[t].first
      retries == m \notin Ambient \cup Direct /\ ~cons[t].retried IN
  /\ At(t, "wait")
  /\ turn' = [turn EXCEPT ![m] = IF m \in Ambient THEN @ ELSE "active"]
  /\ IF retries
     THEN /\ cons' = [cons EXCEPT ![t].pc = "run", ![t].retried = TRUE,
                                  ![t].todo = <<m>>]
          /\ lease' = [lease EXCEPT ![<<t, "wait">>] = NoLease]
     ELSE Go(t, "commit") /\ UNCHANGED lease
  /\ UNCHANGED <<inbox, leasedCount, running, nextToken, mstate, history, engine>>

WokenClaims(t) ==
  LET m == cons[t].first IN
  /\ At(t, "woken")
  /\ ClaimPrefix(t, "wait")
  /\ LET items == lease'[<<t, "wait">>].items IN
     cons' = [cons EXCEPT
       ![t].pc = IF m \in Ambient THEN "steered" ELSE "run",
       ![t].after = "run",
       ![t].todo = IF m \in Ambient THEN items ELSE <<m>> \o items]
  /\ UNCHANGED <<turn, history, engine>>

WokenFindsNothing(t) ==
  /\ At(t, "woken")
  /\ turn[cons[t].first] = "cancelled" \/ SteerablePrefix(t) = {}
  /\ Go(t, "commit")
  /\ UNCHANGED <<inboxVars, turn, history, engine>>

CommitSteer(t) ==
  LET last == WaitLease(t).committed + 1 = Len(WaitLease(t).items)
      how == cons[t].after IN
  /\ At(t, "steered")
  /\ turn[cons[t].first] \in {"active", "waiting"}
  /\ Commit(<<t, "wait">>)
  /\ cons' = [cons EXCEPT ![t] =
                IF ~last THEN @
                ELSE IF how \in {"error", "abort"} THEN Raise(@, how)
                ELSE [@ EXCEPT !.pc = how]]
  /\ UNCHANGED <<turn, history, engine>>

\* StaleScheduledWork: the turn was cancelled before its batch was committed.
CommitSteerStale(t) ==
  /\ At(t, "steered")
  /\ turn[cons[t].first] = "cancelled"
  /\ cons' = [cons EXCEPT ![t] = Raise(@, "error")]
  /\ UNCHANGED <<inboxVars, turn, history, engine>>

(***************************************************************************)
(* The turn's end: commit each item, then finalize the turn.               *)
(***************************************************************************)
CommitItem(t) ==
  LET kind == IF HeadLease(t).active THEN "head" ELSE "follow" IN
  /\ At(t, "commit")
  /\ running = t
  /\ Commit(<<t, kind>>)
  /\ Go(t, IF lease'[<<t, "head">>].active \/ lease'[<<t, "follow">>].active
           THEN "commit" ELSE "finish")
  /\ UNCHANGED <<turn, history, engine>>

Finish(t) ==
  /\ At(t, "finish")
  /\ IF turn[cons[t].first] = "cancelled"
     THEN /\ turn' = [turn EXCEPT ![cons[t].first] = "absent"]
          /\ NextTurn(t)
          /\ DropLeases(t)
     ELSE /\ Go(t, "finalize")
          /\ UNCHANGED <<turn, lease>>
  /\ UNCHANGED <<inbox, leasedCount, running, nextToken, mstate, history, engine>>

\* The compare-and-swap to FINALIZING; COMPLETED and drop_turn() follow it.
Finalize(t) ==
  /\ At(t, "finalize")
  /\ turn[cons[t].first] # "cancelled"
  /\ turn' = [turn EXCEPT ![cons[t].first] = "absent"]
  /\ NextTurn(t)
  /\ DropLeases(t)
  /\ UNCHANGED <<inbox, leasedCount, running, nextToken, mstate, history, engine>>

FinalizeRefused(t) ==
  /\ At(t, "finalize")
  /\ turn[cons[t].first] = "cancelled"
  /\ cons' = [cons EXCEPT ![t] = Raise(@, "error")]
  /\ UNCHANGED <<inboxVars, turn, history, engine>>

(***************************************************************************)
(* The handlers of an exception and of a cancellation: cancel the turn,    *)
(* commit what reached history, fail the first item that did not (only     *)
(* after an exception), requeue the rest.                                  *)
(***************************************************************************)
\* _cancel_scheduler_turn() reads the turn, then swaps it.
ReadTurn(t) ==
  LET m == cons[t].first IN
  /\ At(t, "cancelTurn")
  /\ turn' = [turn EXCEPT ![m] = IF @ = "cancelled" THEN "absent" ELSE @]
  /\ cons' = [cons EXCEPT
       ![t].pc = IF turn[m] \in {"active", "waiting"} THEN "cas" ELSE "settle",
       ![t].todo = WorkItems(t)]
  /\ UNCHANGED <<inboxVars, history, engine>>

\* Mutant of SwapTurn: the turn is not cancelled.
SwapForgotten(t) ==
  /\ At(t, "cas")
  /\ Go(t, "settle")
  /\ UNCHANGED <<inboxVars, turn, history, engine>>

\* The swap fails, and leaves the turn behind, if a direct task came first.
SwapTurn(t) ==
  /\ At(t, "cas")
  /\ turn' = [turn EXCEPT ![cons[t].first] = IF @ = "cancelled" THEN @ ELSE "absent"]
  /\ Go(t, "settle")
  /\ UNCHANGED <<inboxVars, history, engine>>

Reached(m) == mstate[m] = "admitted" \/ m \in history
IsNext(t, m) == LET l == lease[SlotOf(t, m)] IN l.active /\ NextOf(l) = m

SettleCommit(t) ==
  /\ At(t, "settle")
  /\ cons[t].todo # <<>>
  /\ running = t
  /\ LET m == Head(cons[t].todo) IN
     /\ Reached(m)
     /\ IsNext(t, m)
     /\ Commit(SlotOf(t, m))
  /\ cons' = [cons EXCEPT ![t].todo = Tail(@)]
  /\ UNCHANGED <<turn, history, engine>>

\* Committing an item again raises, as does settling for a lost slot.
SettleRaises(t) ==
  /\ At(t, "settle")
  /\ cons[t].todo # <<>>
  /\ LET m == Head(cons[t].todo) IN
     \/ Reached(m) /\ ~IsNext(t, m)
     \/ (Reached(m) \/ cons[t].after = "error") /\ running # t
  /\ Go(t, "exit")
  /\ UNCHANGED <<inboxVars, turn, history, engine>>

\* Mutant of SettleRest: the failing item is committed.
SettleRestCommits(t) ==
  /\ At(t, "settle")
  /\ cons[t].todo # <<>>
  /\ LET m == Head(cons[t].todo) IN
     /\ ~Reached(m)
     /\ \/ cons[t].after = "error" /\ running = t /\ Commit(SlotOf(t, m))
        \/ cons[t].after = "abort" /\ UNCHANGED inboxVars
  /\ Go(t, "requeue")
  /\ UNCHANGED <<turn, history, engine>>

SettleRest(t) ==
  /\ At(t, "settle")
  /\ cons[t].todo # <<>>
  /\ LET m == Head(cons[t].todo) IN
     /\ ~Reached(m)
     /\ \/ cons[t].after = "error" /\ running = t /\ Fail(SlotOf(t, m))
        \/ cons[t].after = "abort" /\ UNCHANGED inboxVars
  /\ Go(t, "requeue")
  /\ UNCHANGED <<turn, history, engine>>

\* What Requeue does with the work's leases, given what it puts into the
\* queue, how many reservations it gives back and which leases it ends.
RequeueAs(t, owns, queue, released, Ended) ==
  /\ At(t, "requeue")
  /\ IF owns
     THEN inbox' = queue /\ leasedCount' = Release(released)
     ELSE UNCHANGED <<inbox, leasedCount>>
  /\ lease' = [s \in Slots |-> IF s \in Ended THEN NoLease ELSE lease[s]]
  /\ IF owns /\ cons[t].after = "error" THEN NextTurn(t) ELSE Go(t, "exit")
  /\ UNCHANGED <<running, nextToken, mstate, turn, history, engine>>

Rest(l) == IF l.active THEN Uncommitted(l) ELSE <<>>
WorkRest(t) == Rest(HeadLease(t)) \o Rest(FollowLease(t))
SlotsOf(t) == {s \in Slots : s[1] = t}

\* Mutants of Requeue: the queue's end instead of its front; no owner check.
RequeueBehind(t) ==
  RequeueAs(t, running = t, inbox \o WorkRest(t), Len(WorkRest(t)), SlotsOf(t))
RequeueUnowned(t) ==
  RequeueAs(t, TRUE, WorkRest(t) \o inbox, Len(WorkRest(t)), SlotsOf(t))

\* ConversationScheduler.requeue_front() refuses a consumer without the slot.
Requeue(t) ==
  RequeueAs(t, running = t, WorkRest(t) \o inbox, Len(WorkRest(t)), SlotsOf(t))

SettleDone(t) ==
  /\ At(t, "settle")
  /\ cons[t].todo = <<>>
  /\ IF cons[t].after = "error" THEN NextTurn(t) ELSE Go(t, "exit")
  /\ DropLeases(t)
  /\ UNCHANGED <<inbox, leasedCount, running, nextToken, mstate, turn, history,
                 engine>>

\* The finally of _consumer(): hand the slot to a new task, or free it.
Exit(t) ==
  /\ At(t, "exit")
  /\ IF running = t THEN HandSlotOn ELSE UNCHANGED <<running, nextToken>>
  /\ DropLeases(t)
  /\ cons' = [u \in Tokens |-> IF u = t THEN Fresh("off")
                               ELSE IF u = nextToken' /\ nextToken' # nextToken
                               THEN Fresh("start") ELSE cons[u]]
  /\ UNCHANGED <<inbox, leasedCount, mstate, turn, history, engine>>

(***************************************************************************)
(* stop() cancels the consumer tasks until none is left, or until its      *)
(* deadline passes while a replacement is just starting; it then clears    *)
(* owners and counts.  start() gives preserved inboxes a consumer again.   *)
(***************************************************************************)
BeginStop ==
  /\ "stop" \in Features
  /\ engine = "up"
  /\ engine' = "stopping"
  /\ UNCHANGED <<inboxVars, cons, turn, history>>

\* CancelledError at a point where the task is really suspended.
Cancelled(c) ==
  CASE c.pc = "start" -> Fresh("off")
    [] c.pc \in {"run", "wait", "finalize"} -> Raise(c, "abort")
    [] OTHER -> [c EXCEPT !.pc = "exit"]

CancelPoint(c) ==
  \/ c.pc \in {"start", "select", "collect", "run", "wait", "finalize"}
  \/ c.pc = "begin" /\ "hint" \in Features
  \/ c.pc \in {"cancelTurn", "cas", "settle"} /\ c.after = "error"

Cancel(t) ==
  /\ engine = "stopping"
  /\ CancelPoint(cons[t])
  /\ IF At(t, "run") THEN AfterRun(t, "abort")
     ELSE cons' = [cons EXCEPT ![t] = Cancelled(@)]
  /\ UNCHANGED <<inboxVars, turn, history, engine>>

CancelDrain(t) ==
  /\ engine = "stopping"
  /\ At(t, "drain")
  /\ RequeueFront(<<t, "drain">>)
  /\ cons' = [cons EXCEPT ![t] =
       IF WaitLease(t).active THEN [@ EXCEPT !.pc = "steered", !.after = "abort"]
       ELSE Raise(@, "abort")]
  /\ UNCHANGED <<turn, history, engine>>

\* A replacement runs up to its first suspension before it is cancelled.
JustStarted(t) ==
  \/ cons[t].pc \in {"start", "select", "collect"}
  \/ At(t, "run") /\ cons[t].todo = WorkItems(t)

EndStop ==
  /\ engine = "stopping"
  /\ \A t \in Tokens :
       cons[t].pc \in {"off", "launch"} \/ (~OrderlyStop /\ JustStarted(t))
  /\ CleanupAll
  /\ cons' = [t \in Tokens |-> IF cons[t].pc \in {"off", "launch"} THEN cons[t]
                               ELSE Cancelled(cons[t])]
  /\ engine' = "down"
  /\ UNCHANGED <<turn, history>>

\* Mutant of Restart: preserved inboxes are not resumed.
RestartIdle ==
  /\ engine = "down"
  /\ engine' = "up again"
  /\ UNCHANGED <<inboxVars, cons, turn, history>>

\* start(): _resume_preserved_consumers().
Restart ==
  /\ engine = "down"
  /\ engine' = "up again"
  /\ IF running = NoOwner /\ inbox # <<>>
     THEN /\ ClaimExisting
          /\ cons' = [cons EXCEPT ![nextToken'] = Fresh("start")]
     ELSE UNCHANGED <<inboxVars, cons>>
  /\ UNCHANGED <<turn, history>>

-----------------------------------------------------------------------------
Select(t) == Peek(t) \/ Collect(t) \/ ClaimHead(t) \/ ClaimStaleHead(t)
             \/ Idle(t)
Steer(t) == DrainClaim(t) \/ DrainOne(t) \/ DrainFails(t)
Run(t) == BeginTurn(t) \/ BeginRefused(t) \/ RefreshFails(t) \/ Admit(t)
          \/ Expire(t) \/ RunEnds(t) \/ RunFails(t)
WaitingLoop(t) == PlanWait(t) \/ PlanDone(t) \/ Wake(t) \/ WaitTimesOut(t)
                  \/ WokenClaims(t) \/ WokenFindsNothing(t)
                  \/ CommitSteer(t) \/ CommitSteerStale(t)
EndTurn(t) == CommitItem(t) \/ Finish(t) \/ Finalize(t) \/ FinalizeRefused(t)
Recover(t) == ReadTurn(t) \/ SwapTurn(t) \/ SettleCommit(t) \/ SettleRaises(t)
              \/ SettleRest(t) \/ Requeue(t) \/ SettleDone(t)

ConsumerStep(t) == Launch(t) \/ Select(t) \/ Run(t) \/ Steer(t)
                   \/ WaitingLoop(t) \/ EndTurn(t) \/ Recover(t) \/ Exit(t)

SchedNext ==
  \/ \E m \in Messages : Dispatch(m)
  \/ \E t \in Tokens : \/ ConsumerStep(t) \/ LaunchFails(t)
                       \/ Cancel(t) \/ CancelDrain(t)
  \/ BeginStop \/ EndStop \/ Restart

SchedSpec == SchedInit /\ [][SchedNext]_schedVars

\* Tasks are scheduled fairly; waits and provider calls time out; the tool
\* loop has a bounded number of rounds, so a run cannot steer for ever.
SchedFairness ==
  \A t \in Tokens : WF_schedVars(ConsumerStep(t)) /\ SF_schedVars(RunEnds(t))

FairSchedSpec == SchedSpec /\ SchedFairness

-----------------------------------------------------------------------------
SchedTypeOK ==
  /\ InboxTypeOK
  /\ cons \in [Tokens -> [pc : ConsumerStates, first : Messages \cup {NoMessage},
                          mode : {"direct", "active", "passive"},
                          todo : Seq(Messages), retried : BOOLEAN,
                          after : {"ran", "run", "error", "abort"}]]
  /\ turn \in [Messages -> Phases]
  /\ history \subseteq Messages
  /\ engine \in {"up", "stopping", "down", "up again"}

\* Every accepted message is still queued, or leased by a consumer that will
\* settle it, or at least in the history already.  A lease dies with its
\* consumer, so a path that leaves the turn without settling loses a message
\* the user was told nothing about.
Holders == {s \in Slots : cons[s[1]].pc \notin {"off", "launch", "exit"}}

AcceptedHasHolder ==
  \A m \in Messages : mstate[m] = "accepted" =>
    \/ m \in history
    \/ m \in ItemsOf(inbox) \cup UNION {LeasedItems(s) : s \in Holders}

\* The part of AcceptedHasHolder the overflow policy promises: an explicit or
\* private message that was accepted is not silently discarded.
ExplicitNeverDiscarded ==
  \A m \in Messages \ Ambient : mstate[m] = "accepted" =>
    \/ m \in history
    \/ m \in ItemsOf(inbox) \cup UNION {LeasedItems(s) : s \in Holders}

\* The reservation counts exactly the leases of live consumers.  A leaked
\* reservation shrinks the inbox for the rest of the process's life.
NoLeaseLeak ==
  leasedCount = Cardinality(UNION {LeasedItems(s) : s \in Holders})

\* Neither a message nor the room it takes is ever lost, on no path by which
\* a consumer leaves its turn.
NoAcceptedLost == AcceptedHasHolder /\ NoLeaseLeak

\* The manager counts a message as admitted only when it is in the history.
CommitMeansAdmitted ==
  \A m \in Messages : mstate[m] = "admitted" => m \in history

\* A message enters the history only after every earlier message of the chat
\* that is still accepted has: batching, steering, requeueing after an error
\* and passive admission keep the order in which users spoke.
AdmitsInOrder ==
  \A m \in history' \ history, n \in Messages :
    n < m /\ mstate[n] = "accepted" => n \in history
AdmissionFIFO == [][AdmitsInOrder]_schedVars

\* Nobody is served out of turn: the queue is in arrival order, and leased
\* messages are older than queued ones, the head of a batch whose follow-ups
\* are already leased excepted.  Rotating and requeueing must restore this.
PipelineSorted ==
  /\ \A i, j \in DOMAIN inbox : i < j => inbox[i] < inbox[j]
  /\ \A s \in Holders : \A m \in LeasedItems(s), n \in ItemsOf(inbox) :
       m < n \/ (cons[s[1]].pc = "claim" /\ cons[s[1]].first = n)

\* No ambient turn stays active while a direct task is queued behind it.
AmbientYields ==
  \A m \in Ambient : turn[m] = "active" => ~HasPending(Direct)

\* At most one consumer works on the chat at a time.
OneWorker ==
  \A t, u \in Tokens :
    cons[t].pc \in Working /\ cons[u].pc \in Working => t = u

\* Queued messages are attended: while the engine is up the slot has an
\* owner, and the owner is a live consumer (or one about to be created).
InboxAttended ==
  inbox # <<>> /\ engine \in {"up", "up again"} =>
    running # NoOwner /\ cons[running].pc # "off"

\* Whatever stops, fails or restarts, one consumer serves the chat: not two,
\* and not none while a message waits.
ServedByOne == OneWorker /\ InboxAttended

\* A turn that may still act (steer, call tools, deliver) has a consumer
\* working on it: no error path leaves a live turn behind.
LiveTurnOwned ==
  \A m \in Messages : turn[m] \in {"active", "waiting"} =>
    \E t \in Tokens : cons[t].pc \in Working /\ cons[t].first = m

\* A consumer that lost the slot (to the stop deadline) no longer touches the
\* queue or a message's state through its work: neither commits nor requeues.
Inert ==
  \A t \in Tokens :
    /\ running # t
    /\ cons[t].pc \in {"claim", "commit", "settle", "requeue"}
    /\ cons'[t] # cons[t]
    => UNCHANGED <<inbox, mstate>>

\* Every message is eventually admitted, or reported as dropped or failed.
EverySettles ==
  \A m \in Messages :
    mstate[m] = "accepted" ~> mstate[m] \in {"admitted", "dropped", "failed"}
=============================================================================
