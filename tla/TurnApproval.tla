---------------------------- MODULE TurnApproval ----------------------------
(***************************************************************************)
(* Approvals of tool calls and the records of their turns:                 *)
(* core/approval/approval_manager.py and pending_store.py, the callers in  *)
(* core/tools/impl/exec_process.py and file.py, and the records that       *)
(* core/tasks/task_state_store.py keeps of the scheduler's turns.          *)
(*                                                                         *)
(* A call that must be approved moves its turn to AWAITING_APPROVAL, files *)
(* the request, sends cards to the administrators, and waits for the       *)
(* future that an answer or the timeout resolves.  Records and filed       *)
(* requests survive a restart; futures, timers and turns do not.           *)
(*                                                                         *)
(* A transition holds the scheduler's lock until the record is written, so *)
(* the two are one step.  The calls of a turn are made one by one.         *)
(***************************************************************************)
EXTENDS Naturals

CONSTANTS
  Turns,       \* turns of different chats, private or direct
  Calls,       \* tool calls that must be approved
  TurnOf,      \* TurnOf[c]: the turn that makes call c
  CardTargets, \* number of chats a card is sent to
  Fallback,    \* what ask_fallback comes to: "allow" or "deny"
  MaxWaits,    \* bound of the model: waits of a turn
  MaxRestarts  \* bound of the model

ASSUME ApprovalAssumption ==
  /\ TurnOf \in [Calls -> Turns]
  /\ CardTargets \in Nat \ {0}
  /\ Fallback \in {"allow", "deny"}
  /\ MaxWaits \in Nat /\ MaxRestarts \in Nat

VARIABLES
  phase,     \* _turn_states; "none" when the turn is not in memory
  record,    \* the record of each turn in TaskStateStore
  request,   \* what each call has reached in request_approval
  awaited,      \* _pending: the requests with a future to resolve
  answer,    \* the value of each future
  listed,    \* _pending_info
  filed,     \* the requests in the pending store
  recovered, \* _recovered_pending
  armed,     \* the requests whose timeout is armed
  ran,       \* the calls that were carried out
  restarts,
  told,      \* history: the answers the administrators were told took effect
  cut,       \* history: requests cancelled while their cards were sent
  delivered  \* history: turns one of whose deliveries was recorded

approvalVars == <<phase, record, request, awaited, answer, listed, filed,
                  recovered, armed, ran, restarts, told, cut, delivered>>

books == <<awaited, answer, listed, filed, recovered, armed, told>>
rest == <<restarts, cut, delivered>>

TurnPhases == {"active", "waiting", "approving", "finalizing", "completed", "cancelled"}
Terminal == {"completed", "cancelled"}
Answers == {"allow", "deny"}
NoRequest == [pc |-> "idle", left |-> CardTargets, sent |-> FALSE, verdict |-> "none"]
NoRecord == [phase |-> "none", marked |-> FALSE, evidence |-> FALSE, waits |-> 0]

ApprovalTypeOK ==
  /\ phase \in [Turns -> TurnPhases \cup {"none"}]
  /\ record \in [Turns -> [phase : TurnPhases \cup {"none"}, marked : BOOLEAN,
                           evidence : BOOLEAN, waits : 0 .. MaxWaits]]
  /\ request \in [Calls ->
       [pc : {"idle", "sending", "waiting", "decided", "over"},
        left : 0 .. CardTargets, sent : BOOLEAN, verdict : Answers \cup {"none"}]]
  /\ answer \in [Calls -> Answers \cup {"none"}]
  /\ told \in [Calls -> SUBSET Answers]
  /\ awaited \subseteq Calls /\ listed \subseteq Calls /\ filed \subseteq Calls
  /\ recovered \subseteq Calls /\ armed \subseteq Calls
  /\ ran \subseteq Calls /\ cut \subseteq Calls
  /\ delivered \subseteq Turns
  /\ restarts \in 0 .. MaxRestarts

ApprovalInit ==
  /\ phase = [t \in Turns |-> "none"]
  /\ record = [t \in Turns |-> NoRecord]
  /\ request = [c \in Calls |-> NoRequest]
  /\ answer = [c \in Calls |-> "none"]
  /\ told = [c \in Calls |-> {}]
  /\ awaited = {} /\ listed = {} /\ filed = {} /\ recovered = {} /\ armed = {}
  /\ ran = {} /\ cut = {} /\ delivered = {}
  /\ restarts = 0

(***************************************************************************)
(* Turns: transition_turn and the record it puts.                          *)
(***************************************************************************)
\* put() writes the record anew, from the state of the turn.
Put(t, p) ==
  record' = [record EXCEPT ![t] =
    [phase |-> p, marked |-> FALSE, evidence |-> FALSE,
     waits |-> IF p = "waiting" THEN @.waits + 1 ELSE @.waits]]

Moves(t, from, to) ==
  /\ phase[t] \in from
  /\ phase' = [phase EXCEPT ![t] = to]
  /\ Put(t, to)

CallUnderWay(t) ==
  \E c \in Calls : TurnOf[c] = t /\ request[c].pc \in {"sending", "waiting", "decided"}

StartsTurn(t) ==
  /\ record[t].phase = "none"
  /\ Moves(t, {"none"}, "active")
  /\ UNCHANGED <<request, books, ran, rest>>

WaitsTurn(t) ==
  /\ record[t].waits < MaxWaits
  /\ Moves(t, {"active"}, "waiting")
  /\ ~CallUnderWay(t)
  /\ UNCHANGED <<request, books, ran, rest>>

ResumesTurn(t) ==
  /\ Moves(t, {"waiting"}, "active")
  /\ UNCHANGED <<request, books, ran, rest>>

FinishesTurn(t) ==
  /\ \/ Moves(t, {"active"}, "finalizing") /\ ~CallUnderWay(t)
     \/ Moves(t, {"finalizing"}, "completed")
  /\ UNCHANGED <<request, books, ran, rest>>

DropsTurn(t) ==
  /\ phase[t] \in Terminal
  /\ phase' = [phase EXCEPT ![t] = "none"]
  /\ UNCHANGED <<record, request, books, ran, rest>>

\* The delivery controller reports a delivery of the turn: record_delivery.
RecordDelivery(t) ==
  /\ phase[t] \in {"active", "finalizing"}
  /\ record' = [record EXCEPT ![t].evidence = TRUE]
  /\ delivered' = delivered \cup {t}
  /\ UNCHANGED <<phase, request, books, ran, restarts, cut>>

\* A new message of the chat: claim_waiting_recoveries.
ClaimWaitingRecoveries(t) ==
  /\ record[t].phase = "waiting"
  /\ record' = [record EXCEPT ![t].phase = "cancelled", ![t].marked = TRUE]
  /\ UNCHANGED <<phase, request, books, ran, rest>>

(***************************************************************************)
(* A request: request_approval.                                            *)
(***************************************************************************)
Unfiles(c) == listed' = listed \ {c} /\ filed' = filed \ {c}

Registers(c) ==
  /\ awaited' = awaited \cup {c} /\ listed' = listed \cup {c} /\ filed' = filed \cup {c}
  /\ request' = [request EXCEPT ![c].pc = "sending"]
  /\ UNCHANGED <<answer, recovered, armed, told>>

\* The pending store cannot be written: the call is denied.
RegisterFails(c) ==
  /\ request' = [request EXCEPT ![c].pc = "decided", ![c].verdict = "deny"]
  /\ UNCHANGED books

RequestApproval(c) ==
  /\ request[c].pc = "idle"
  /\ ~CallUnderWay(TurnOf[c])
  /\ Moves(TurnOf[c], {"active"}, "approving")
  /\ Registers(c) \/ RegisterFails(c)
  /\ UNCHANGED <<ran, rest>>

SendCard(c, accepted) ==
  LET sent == request[c].sent \/ accepted IN
  /\ request[c].pc = "sending"
  /\ \/ \* another card is to be sent
        /\ request[c].left > 1
        /\ request' = [request EXCEPT ![c].left = @ - 1, ![c].sent = sent]
        /\ UNCHANGED books
     \/ \* somebody may answer: the timeout is armed
        /\ request[c].left = 1 /\ sent
        /\ request' = [request EXCEPT ![c].left = 0, ![c].sent = TRUE, ![c].pc = "waiting"]
        /\ armed' = armed \cup {c}
        /\ UNCHANGED <<awaited, answer, listed, filed, recovered, told>>
     \/ \* nobody was reached
        /\ request[c].left = 1 /\ ~sent
        /\ request' = [request EXCEPT ![c].left = 0, ![c].pc = "decided",
                                      ![c].verdict = Fallback]
        /\ awaited' = awaited \ {c}
        /\ Unfiles(c)
        /\ UNCHANGED <<answer, recovered, armed, told>>
  /\ UNCHANGED <<phase, record, ran, rest>>

\* resolve() returns True.
AnswersLive(c, d) ==
  /\ c \in awaited /\ c \notin recovered
  /\ awaited' = awaited \ {c}
  /\ Unfiles(c)
  /\ answer' = [answer EXCEPT ![c] = d]
  /\ told' = [told EXCEPT ![c] = @ \cup {d}]
  /\ UNCHANGED <<recovered, armed>>

\* A request of an earlier process can only be denied.
AnswersRecovered(c, d) ==
  /\ c \in recovered /\ d = "deny"
  /\ recovered' = recovered \ {c}
  /\ Unfiles(c)
  /\ UNCHANGED <<awaited, answer, armed, told>>

Resolve(c, d) ==
  /\ AnswersLive(c, d) \/ AnswersRecovered(c, d)
  /\ UNCHANGED <<phase, record, request, ran, rest>>

\* Mutants of Expires: an answer that came before the timeout is overwritten;
\* nobody is told that the time is over.
ExpiresAnyway(c) ==
  /\ answer' = [answer EXCEPT ![c] = Fallback]
  /\ Unfiles(c)

ExpiresMute(c) == Unfiles(c) /\ UNCHANGED answer

Expires(c) ==
  /\ answer' = [answer EXCEPT ![c] = IF c \in awaited THEN Fallback ELSE @]
  /\ Unfiles(c)

OnTimeout(c) ==
  /\ c \in armed
  /\ armed' = armed \ {c}
  /\ awaited' = awaited \ {c}
  /\ Expires(c)
  /\ UNCHANGED <<phase, record, request, recovered, ran, told, rest>>

\* The requester resumes from the future: the timer is cancelled.
Decide(c) ==
  /\ request[c].pc = "waiting" /\ answer[c] # "none"
  /\ request' = [request EXCEPT ![c].pc = "decided", ![c].verdict = answer[c]]
  /\ armed' = armed \ {c}
  /\ awaited' = awaited \ {c}
  /\ recovered' = recovered \ {c}
  /\ Unfiles(c)
  /\ UNCHANGED <<phase, record, answer, ran, told, rest>>

\* The turn is ACTIVE again, and an allowed call is carried out unless the
\* role of the principal was lowered meanwhile.
Proceeds(c) ==
  /\ request[c].pc = "decided"
  /\ Moves(TurnOf[c], {"approving"}, "active")
  /\ request' = [request EXCEPT ![c].pc = "over"]
  /\ ran' \in {ran} \cup (IF request[c].verdict = "allow" THEN {ran \cup {c}} ELSE {})
  /\ UNCHANGED <<books, rest>>

\* The consumer is cancelled.  Only the wait for the future cleans up: what
\* is cut off among the cards stays listed, filed and open.
CancelTurn(t) ==
  LET calls == {c \in Calls : TurnOf[c] = t /\ request[c].pc \in {"sending", "waiting", "decided"}}
      waiting == {c \in calls : request[c].pc = "waiting"}
      sending == {c \in calls : request[c].pc = "sending"}
  IN
  /\ Moves(t, TurnPhases \ Terminal, "cancelled")
  /\ request' = [c \in Calls |-> IF c \in calls THEN [request[c] EXCEPT !.pc = "over"]
                                 ELSE request[c]]
  /\ awaited' = awaited \ waiting /\ listed' = listed \ waiting /\ filed' = filed \ waiting
  /\ armed' = armed \ waiting
  /\ cut' = cut \cup sending
  /\ UNCHANGED <<answer, recovered, ran, restarts, told, delivered>>

(***************************************************************************)
(* A crash and a restart: futures, timers and turns are lost; filed        *)
(* requests that have not expired come back, to be denied only; the        *)
(* records of turns that were under way are closed.                        *)
(***************************************************************************)
\* Mutant of Interrupted: a turn that awaits an approval is left as it is.
InterruptedActive == {t \in Turns : record[t].phase \in {"active", "finalizing"}}

\* mark_interrupted_on_restart keeps a WAITING record as a hint.
Interrupted == {t \in Turns : record[t].phase \in {"active", "approving", "finalizing"}}

ApprovalRestart ==
  /\ restarts < MaxRestarts
  /\ restarts' = restarts + 1
  /\ phase' = [t \in Turns |-> "none"]
  /\ \E expired \in SUBSET {t \in Turns : record[t].phase = "waiting"} :
       record' = [t \in Turns |->
         IF t \in Interrupted
         THEN [record[t] EXCEPT !.phase = "cancelled", !.marked = TRUE]
         ELSE IF t \in expired THEN [record[t] EXCEPT !.phase = "cancelled"]
         ELSE record[t]]
  /\ request' = [c \in Calls |->
       IF request[c].pc \in {"sending", "waiting", "decided"}
       THEN [request[c] EXCEPT !.pc = "over"] ELSE request[c]]
  /\ awaited' = {} /\ armed' = {}
  /\ \E kept \in SUBSET filed : recovered' = kept /\ listed' = kept /\ filed' = kept
  /\ UNCHANGED <<answer, ran, told, cut, delivered>>

TurnMoves(t) ==
  \/ StartsTurn(t) \/ WaitsTurn(t) \/ ResumesTurn(t) \/ FinishesTurn(t)
  \/ DropsTurn(t) \/ RecordDelivery(t) \/ ClaimWaitingRecoveries(t) \/ CancelTurn(t)

CallMoves(c) ==
  \/ RequestApproval(c) \/ Decide(c) \/ Proceeds(c) \/ OnTimeout(c)
  \/ \E accepted \in BOOLEAN : SendCard(c, accepted)
  \/ \E d \in Answers : Resolve(c, d)

ApprovalNext ==
  \/ \E t \in Turns : TurnMoves(t)
  \/ \E c \in Calls : CallMoves(c)
  \/ ApprovalRestart

ApprovalSpec == ApprovalInit /\ [][ApprovalNext]_approvalVars

\* Cards are sent with a timeout, timers fire, and tasks that can run do.
CardSent(c) == \E accepted \in BOOLEAN : SendCard(c, accepted)

ApprovalFairness ==
  \A c \in Calls : /\ WF_approvalVars(CardSent(c)) /\ WF_approvalVars(OnTimeout(c))
                   /\ WF_approvalVars(Decide(c)) /\ WF_approvalVars(Proceeds(c))

FairApprovalSpec == ApprovalSpec /\ ApprovalFairness

(***************************************************************************)
(* Properties.                                                             *)
(***************************************************************************)
\* An administrator who was told that the answer took effect decided: no
\* second answer, no timeout and no restart changes it, once a card was
\* confirmed as sent.
AnswerDecides ==
  \A c \in Calls : told[c] # {} /\ request[c].sent /\ request[c].verdict # "none"
    => told[c] = {request[c].verdict}

\* A request that can still be allowed has a requester that waits for it, in
\* a turn that awaits it; one from before a restart belongs to a turn that is
\* closed.  (A request whose cards were cut off stays open.)
OpenIsAwaited ==
  /\ \A c \in awaited \ cut : /\ request[c].pc \in {"sending", "waiting"}
                           /\ phase[TurnOf[c]] = "approving"
  /\ \A c \in recovered : record[TurnOf[c]].phase \in Terminal /\ c \notin awaited

\* What is listed is what is filed, and what waits for its timeout is either
\* listed or answered: a restart brings back nothing that was decided.
BooksAgree ==
  /\ listed = filed
  /\ awaited \cup recovered = listed
  /\ \A c \in Calls : request[c].pc = "waiting" => c \in armed \/ answer[c] # "none"

\* A record whose turn is not in memory is closed, or is the hint of a wait.
NoOrphanRecord ==
  \A t \in Turns : phase[t] = "none" =>
    record[t].phase \in Terminal \cup {"none", "waiting"}

\* What is pending in one of the books is pending in the others, and somebody
\* will end it: no cancellation, timeout or restart leaves a request that
\* nobody waits for, or a turn that seems to wait.
NothingLeftOver == OpenIsAwaited /\ BooksAgree /\ NoOrphanRecord

\* A call that asked is decided in the end, whoever answers.
EveryRequestEnds ==
  \A c \in Calls : request[c].pc = "sending" ~> request[c].pc = "over"
=============================================================================
