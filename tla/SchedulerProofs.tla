-------------------------- MODULE SchedulerProofs --------------------------
(***************************************************************************)
(* Theorems about ConversationScheduler, for any messages, principals,     *)
(* sizes, windows and tokens, and for the features each one names.         *)
(***************************************************************************)
EXTENDS ConversationScheduler, SessionInboxProofs

USE DEF schedVars, inboxVars, At, Fresh, Raise, NextTurn

(***************************************************************************)
(* What is so whatever happens.                                            *)
(***************************************************************************)
Consumers ==
  [pc : ConsumerStates, first : Messages \cup {NoMessage},
   mode : {"direct", "active", "passive"},
   todo : Seq(Messages), retried : BOOLEAN,
   after : {"ran", "run", "error", "abort"}]

\* A token that was not issued yet names no consumer.
TokensInv ==
  /\ running <= nextToken
  /\ \A t \in Tokens : t > nextToken => cons[t].pc = "off"

\* The consumers that have chosen a message, or serve it.
Serving == Working \cup {"collect", "claim"}
Named == \A t \in Tokens : cons[t].pc \in Serving => cons[t].first \in Messages

SchedBase == SchedTypeOK /\ TokensInv /\ Named

\* What a consumer does on its own, and what the engine's stop does to it.
OwnStep(t) ==
  \/ Launch(t) \/ Select(t) \/ Run(t) \/ Steer(t) \/ WaitingLoop(t)
  \/ EndTurn(t) \/ Recover(t)
  \/ LaunchFails(t) \/ Cancel(t) \/ CancelDrain(t)

\* What such a step does to consumers, owner and queue, as others see it.
Moved(t) ==
  /\ cons' = [cons EXCEPT ![t] = cons'[t]] /\ cons'[t] \in Consumers
  /\ nextToken' = nextToken /\ engine' = engine
  /\ \/ running' = running
     \/ running = t /\ running' = NoOwner /\ inbox' = <<>> /\ cons'[t].pc = "off"
  /\ cons[t].pc # "off"
  /\ cons'[t].pc = "off" =>
       running' # t \/ engine = "stopping" \/ "recover" \in Features
  /\ cons'[t].pc \in Serving =>
       \/ cons[t].pc \in Serving /\ cons'[t].first = cons[t].first
       \/ /\ running = t /\ inbox # <<>> /\ cons'[t].pc \notin Working
          /\ cons'[t].first = Head(inbox)
  /\ inbox' # <<>> => inbox # <<>> \/ cons[t].pc \in Working

LEMMA WorkItemsType ==
  ASSUME SchedTypeOK, NEW t \in Tokens
  PROVE  WorkItems(t) \in Seq(Messages)
<1>1. <<t, "head">> \in Slots /\ <<t, "follow">> \in Slots
  BY SchedulerAssumption DEF LeaseKinds
<1>2. HeadLease(t) \in Leases /\ FollowLease(t) \in Leases
  BY <1>1 DEF SchedTypeOK, InboxTypeOK, HeadLease, FollowLease
<1>3. HeadLease(t).items \in Seq(Messages) /\ FollowLease(t).items \in Seq(Messages)
  BY <1>2 DEF Leases
<1> QED BY <1>3, ConcatProperties DEF WorkItems

LEMMA ConsTyped ==
  ASSUME SchedTypeOK
  PROVE  cons \in [Tokens -> Consumers]
BY DEF SchedTypeOK, Consumers

LEMMA FreshTyped ==
  ASSUME NEW pc \in ConsumerStates
  PROVE  Fresh(pc) \in Consumers
BY EmptySeq DEF Consumers

LEMMA RaiseTyped ==
  ASSUME NEW c \in Consumers, NEW how \in {"error", "abort"}
  PROVE  Raise(c, how) \in Consumers
BY EmptySeq DEF Consumers, ConsumerStates, Working

\* The names of the places a consumer task can be.
LEMMA Places ==
  /\ Working \subseteq ConsumerStates /\ Selecting \subseteq ConsumerStates
  /\ {"off", "launch", "exit"} \subseteq ConsumerStates
BY DEF ConsumerStates

LEMMA GoMoves ==
  ASSUME SchedTypeOK, NEW t \in Tokens, NEW pc \in ConsumerStates, Go(t, pc)
  PROVE  /\ cons' = [cons EXCEPT ![t] = cons'[t]] /\ cons'[t] \in Consumers
         /\ cons'[t].pc = pc /\ cons'[t].first = cons[t].first
         /\ cons'[t].mode = cons[t].mode /\ cons'[t].todo = cons[t].todo
         /\ cons'[t].after = cons[t].after
<1>1. cons \in [Tokens -> Consumers] BY ConsTyped
<1>2. cons' = [cons EXCEPT ![t].pc = pc] BY DEF Go
<1> QED BY <1>1, <1>2 DEF Consumers

LEMMA PutMoves ==
  ASSUME SchedTypeOK, NEW t \in Tokens, NEW c \in Consumers,
         cons' = [cons EXCEPT ![t] = c]
  PROVE  cons'[t] = c /\ cons' = [cons EXCEPT ![t] = cons'[t]]
<1>1. cons \in [Tokens -> Consumers] BY ConsTyped
<1> QED BY <1>1

LEMMA SelectMoves ==
  ASSUME SchedBase, NEW t \in Tokens, Launch(t) \/ Select(t) \/ LaunchFails(t)
  PROVE  Moved(t)
<1> USE DEF Moved, SchedBase, ConsumerStates, Selecting, Working, Serving
<1>0. cons \in [Tokens -> Consumers] /\ cons[t] \in Consumers BY ConsTyped
<1>0a. inbox \in Seq(Messages) BY DEF SchedTypeOK, InboxTypeOK
<1>1. CASE Launch(t) BY <1>0, <1>1, GoMoves DEF Launch
<1>2. CASE LaunchFails(t) BY <1>0, <1>2, GoMoves DEF LaunchFails
<1>3. CASE Peek(t)
  <2>1. inbox # <<>> => Head(inbox) \in Messages BY <1>0a, HeadTailProperties
  <2> DEFINE at == IF QuietFor(Head(inbox)) THEN "collect" ELSE "claim"
             c == IF running # t \/ inbox = <<>> THEN Fresh("idle")
                  ELSE [Fresh(at) EXCEPT !.first = Head(inbox)]
  <2>2. at \in {"collect", "claim"} OBVIOUS
  <2> HIDE DEF at
  <2>3. c \in Consumers
    <3>1. CASE running # t \/ inbox = <<>> BY <3>1, FreshTyped
    <3>2. CASE running = t /\ inbox # <<>>
      BY <2>1, <2>2, <3>2, EmptySeq DEF Consumers
    <3> QED BY <3>1, <3>2
  <2>4. c.pc = "idle" \/ (running = t /\ inbox # <<>> /\ c.pc \in {"collect", "claim"}
                          /\ c.first = Head(inbox))
    BY <2>2
  <2>5. cons' = [cons EXCEPT ![t] = c] BY <1>3 DEF Peek, at
  <2> HIDE DEF c
  <2>6. cons'[t] = c /\ cons' = [cons EXCEPT ![t] = cons'[t]]
    BY <2>3, <2>5, PutMoves
  <2> QED BY <1>0, <1>3, <2>3, <2>4, <2>6 DEF Peek
<1>4. CASE Collect(t)
  <2>1. UNCHANGED <<running, nextToken>> BY <1>4 DEF Collect, ClaimSteer
  <2>2. inbox' # <<>> => inbox # <<>>
    <3>1. ASSUME inbox = <<>> PROVE ~HasFollowup(t)
      BY <3>1 DEF HasFollowup, Steerable
    <3> QED BY <1>4, <3>1 DEF Collect
  <2> QED BY <1>0, <1>4, <2>1, <2>2, GoMoves, SMTT(30) DEF Collect
<1>5. CASE ClaimHead(t)
  <2> DEFINE mode == IF cons[t].first \notin Ambient THEN "direct"
                     ELSE IF \E i \in DOMAIN inbox' : inbox'[i] \in Direct THEN "passive"
                     ELSE "active"
  <2>1. mode \in {"direct", "active", "passive"} OBVIOUS
  <2>2. cons' = [cons EXCEPT ![t].pc = "begin", ![t].mode = mode]
    BY <1>5 DEF ClaimHead
  <2> HIDE DEF mode
  <2>3. cons' = [cons EXCEPT ![t] = cons'[t]] /\ cons'[t] \in Consumers
        /\ cons'[t].first = cons[t].first /\ cons'[t].pc = "begin"
    BY <1>0, <2>1, <2>2 DEF Consumers
  <2> QED BY <1>0, <1>5, <2>3 DEF ClaimHead, ClaimNext
<1>6. CASE ClaimStaleHead(t)
  <2>1. Go(t, "exit") BY <1>6 DEF ClaimStaleHead
  <2>2. cons' = [cons EXCEPT ![t] = cons'[t]] /\ cons'[t] \in Consumers /\ cons'[t].pc = "exit"
    BY <1>0, <2>1, GoMoves
  <2> QED BY <1>0, <1>6, <2>2 DEF ClaimStaleHead
<1>7. CASE Idle(t)
  <2>0. t # NoOwner BY DEF Tokens, NoOwner
  <2>1. At(t, "idle") /\ engine' = engine BY <1>7 DEF Idle
  <2>2. CASE ReleaseIfIdle(t) /\ Go(t, "off")
    BY <1>0, <2>0, <2>1, <2>2, GoMoves DEF ReleaseIfIdle
  <2>3. CASE running # t /\ Go(t, "off") /\ UNCHANGED inboxVars
    BY <1>0, <2>1, <2>3, GoMoves
  <2>4. CASE running = t /\ inbox # <<>> /\ Go(t, "select") /\ UNCHANGED inboxVars
    BY <1>0, <2>1, <2>4, GoMoves
  <2> QED BY <1>7, <2>2, <2>3, <2>4 DEF Idle
<1> QED BY <1>1, <1>2, <1>3, <1>4, <1>5, <1>6, <1>7 DEF Select

\* The places that choosing work leads to.
LEMMA SelectPlaces ==
  ASSUME SchedTypeOK, NEW t \in Tokens, Launch(t) \/ Select(t) \/ LaunchFails(t)
  PROVE  cons'[t].pc \in Selecting \cup {"off", "begin", "exit"}
<1> USE DEF Selecting
<1>0. cons \in [Tokens -> Consumers] /\ cons[t] \in Consumers BY ConsTyped
<1>1. CASE \E pc \in {"start", "off", "claim", "exit", "select"} : Go(t, pc)
  BY <1>0, <1>1, GoMoves DEF ConsumerStates
<1>2. CASE Peek(t) BY <1>0, <1>2 DEF Peek
<1>3. CASE ClaimHead(t) BY <1>0, <1>3 DEF ClaimHead, Consumers
<1> QED BY <1>1, <1>2, <1>3
        DEF Launch, LaunchFails, Select, Collect, ClaimStaleHead, Idle

LEMMA RaiseMoves ==
  ASSUME SchedTypeOK, NEW t \in Tokens, NEW how \in {"error", "abort"},
         cons' = [cons EXCEPT ![t] = Raise(@, how)]
  PROVE  /\ cons' = [cons EXCEPT ![t] = cons'[t]] /\ cons'[t] \in Consumers
         /\ cons'[t].first = cons[t].first /\ cons'[t].mode = cons[t].mode
         /\ cons'[t].pc = "cancelTurn" /\ cons'[t].after = how
<1>1. cons \in [Tokens -> Consumers] /\ cons[t] \in Consumers BY ConsTyped
<1>2. Raise(cons[t], how) \in Consumers BY <1>1, RaiseTyped
<1> QED BY <1>1, <1>2, PutMoves DEF Consumers

LEMMA AfterRunMoves ==
  ASSUME SchedTypeOK, NEW t \in Tokens, NEW how \in {"ran", "error", "abort"},
         AfterRun(t, how)
  PROVE  /\ cons' = [cons EXCEPT ![t] = cons'[t]] /\ cons'[t] \in Consumers
         /\ cons'[t].first = cons[t].first
         /\ cons'[t].pc \in {"steered", "ran", "cancelTurn"}
         /\ cons'[t].mode = cons[t].mode
         /\ WaitLease(t).active =>
              cons'[t].pc = "steered" /\ cons'[t].after = how
         /\ ~WaitLease(t).active /\ how = "ran" => cons'[t].pc = "ran"
         /\ ~WaitLease(t).active /\ how # "ran" =>
              cons'[t].pc = "cancelTurn" /\ cons'[t].after = how
<1>1. cons \in [Tokens -> Consumers] /\ cons[t] \in Consumers BY ConsTyped
<1> USE DEF Consumers, ConsumerStates, Working
<1>2. <<>> \in Seq(Messages) BY EmptySeq
<1>3. CASE WaitLease(t).active
  <2> DEFINE c == [cons[t] EXCEPT !.pc = "steered", !.after = how, !.todo = <<>>]
  <2>1. c \in Consumers BY <1>1, <1>2
  <2>2. /\ c.pc = "steered" /\ c.after = how
        /\ c.first = cons[t].first /\ c.mode = cons[t].mode
    BY <1>1
  <2>3. cons' = [cons EXCEPT ![t] = c] BY <1>1, <1>3 DEF AfterRun
  <2> HIDE DEF c
  <2>4. cons'[t] = c /\ cons' = [cons EXCEPT ![t] = cons'[t]]
    BY <2>1, <2>3, PutMoves
  <2> QED BY <1>3, <2>1, <2>2, <2>4
<1>4. CASE ~WaitLease(t).active /\ how = "ran"
  <2> DEFINE c == [cons[t] EXCEPT !.pc = "ran"]
  <2>1. c \in Consumers BY <1>1
  <2>2. c.pc = "ran" /\ c.first = cons[t].first /\ c.mode = cons[t].mode BY <1>1
  <2>3. cons' = [cons EXCEPT ![t] = c] BY <1>1, <1>4 DEF AfterRun
  <2> HIDE DEF c
  <2>4. cons'[t] = c /\ cons' = [cons EXCEPT ![t] = cons'[t]]
    BY <2>1, <2>3, PutMoves
  <2> QED BY <1>4, <2>1, <2>2, <2>4
<1>5. CASE ~WaitLease(t).active /\ how # "ran"
  <2>1. cons' = [cons EXCEPT ![t] = Raise(@, how)] BY <1>5 DEF AfterRun
  <2> QED BY <1>5, <2>1, RaiseMoves
<1> QED BY <1>3, <1>4, <1>5

LEMMA RunMoves ==
  ASSUME SchedBase, NEW t \in Tokens, Run(t)
  PROVE  Moved(t)
<1> USE DEF Moved, SchedBase, ConsumerStates, Selecting, Working, Serving
<1>0. cons \in [Tokens -> Consumers] /\ cons[t] \in Consumers BY ConsTyped
<1>1. CASE BeginTurn(t)
  <2>1. PICK mode \in {"direct", "active", "passive"} :
          cons' = [cons EXCEPT ![t].pc = "run", ![t].mode = mode,
                               ![t].todo = WorkItems(t)]
    BY <1>1 DEF BeginTurn
  <2>2. cons' = [cons EXCEPT ![t] = cons'[t]] /\ cons'[t] \in Consumers
        /\ cons'[t].first = cons[t].first /\ cons'[t].pc = "run"
    BY <1>0, <2>1, WorkItemsType DEF Consumers
  <2> QED BY <1>0, <1>1, <2>2 DEF BeginTurn
<1>2. CASE BeginRefused(t) BY <1>0, <1>2, RaiseMoves DEF BeginRefused
<1>3. CASE RefreshFails(t) BY <1>0, <1>3, GoMoves DEF RefreshFails
<1>4. CASE Admit(t)
  <2>1. Tail(cons[t].todo) \in Seq(Messages)
    BY <1>0, <1>4, HeadTailProperties DEF Admit, Consumers
  <2>2. cons' = [cons EXCEPT ![t] = cons'[t]] /\ cons'[t] \in Consumers
        /\ cons'[t].first = cons[t].first /\ cons'[t].pc = "run"
    BY <1>0, <1>4, <2>1 DEF Admit, Consumers
  <2> QED BY <1>0, <1>4, <2>2 DEF Admit
<1>5. CASE Expire(t)
  <2>1. cons' = [cons EXCEPT ![t] = cons'[t]] /\ cons'[t] \in Consumers
        /\ cons'[t].first = cons[t].first /\ cons'[t].pc = "commit"
    BY <1>0, <1>5, EmptySeq DEF Expire, Consumers
  <2> QED BY <1>0, <1>5, <2>1 DEF Expire
<1>6. CASE RunEnds(t) BY <1>0, <1>6, AfterRunMoves DEF RunEnds
<1>7. CASE RunFails(t) BY <1>0, <1>7, AfterRunMoves DEF RunFails
<1> QED BY <1>1, <1>2, <1>3, <1>4, <1>5, <1>6, <1>7 DEF Run

LEMMA SteerMoves ==
  ASSUME SchedBase, NEW t \in Tokens, Steer(t) \/ CancelDrain(t)
  PROVE  Moved(t)
<1> USE DEF Moved, SchedBase, ConsumerStates, Selecting, Working, Serving
<1>0. cons \in [Tokens -> Consumers] /\ cons[t] \in Consumers BY ConsTyped
<1>1. CASE DrainClaim(t)
  <2>1. Go(t, "drain") /\ cons[t].pc = "run" BY <1>1 DEF DrainClaim
  <2>2. cons' = [cons EXCEPT ![t] = cons'[t]] /\ cons'[t] \in Consumers
        /\ cons'[t].pc = "drain" /\ cons'[t].first = cons[t].first
    BY <1>0, <2>1, GoMoves
  <2> QED BY <1>0, <1>1, <2>1, <2>2 DEF DrainClaim, ClaimPrefix, ClaimSteer
<1>2. CASE DrainOne(t)
  <2>1. \E pc \in {"drain", "run"} : Go(t, pc) BY <1>2 DEF DrainOne
  <2> QED BY <1>0, <1>2, <2>1, GoMoves DEF DrainOne, Commit, Settle
<1>3. CASE DrainFails(t)
  BY <1>0, <1>3, GoMoves, SMTT(30) DEF DrainFails, RequeueFront
<1>4. CASE CancelDrain(t)
  <2>1. cons' = [cons EXCEPT ![t] = cons'[t]] /\ cons'[t] \in Consumers
        /\ cons'[t].first = cons[t].first
        /\ cons'[t].pc \in {"steered", "cancelTurn"}
    <3>1. CASE WaitLease(t).active
      BY <1>0, <1>4, <3>1 DEF CancelDrain, Consumers
    <3>2. CASE ~WaitLease(t).active
      BY <1>0, <1>4, <3>2, RaiseMoves DEF CancelDrain
    <3> QED BY <3>1, <3>2
  <2> QED BY <1>0, <1>4, <2>1 DEF CancelDrain, RequeueFront
<1> QED BY <1>1, <1>2, <1>3, <1>4 DEF Steer

\* A steering claim is one the inbox allows to any client.
LEMMA SteerTakes ==
  ASSUME InboxTypeOK, NEW s \in Slots, NEW skip \in {0, 1}, NEW n \in Nat \ {0},
         NEW like, NEW Allowed, ClaimSteer(s, skip, n, like, Allowed)
  PROVE  /\ n \in 1 .. Len(inbox) /\ skip + n <= Len(inbox)
         /\ ClaimSteer(s, skip, n, inbox[skip + 1], Messages)
<1>1. inbox \in Seq(Messages) /\ Len(inbox) \in Nat
  BY LenProperties DEF InboxTypeOK
<1>2. skip + n <= Len(inbox)
      /\ \A k \in skip + 1 .. skip + n : SameIntent(inbox[k], like)
  BY <1>1 DEF ClaimSteer, Steerable
<1>3. skip + 1 \in skip + 1 .. skip + n OBVIOUS
<1>4. \A k \in skip + 1 .. skip + n :
        SameIntent(inbox[k], inbox[skip + 1]) /\ inbox[k] \in Messages
  BY <1>1, <1>2, <1>3, ElementOfSeq DEF SameIntent
<1>5. Steerable(skip + 1, n, inbox[skip + 1], Messages)
  BY <1>1, <1>2, <1>4 DEF Steerable
<1>6. n \in 1 .. Len(inbox)
  <2>1. skip \in Nat /\ n \in Nat /\ n >= 1 /\ n <= Len(inbox) BY <1>1, <1>2
  <2> QED BY <1>1, <2>1
<1>7. ClaimSteer(s, skip, n, inbox[skip + 1], Messages) BY <1>5 DEF ClaimSteer
<1> QED BY <1>2, <1>6, <1>7

LEMMA PrefixTaken ==
  ASSUME SchedTypeOK, NEW t \in Tokens, NEW kind \in LeaseKinds,
         ClaimPrefix(t, kind)
  PROVE  /\ turn[cons[t].first] \in {"active", "waiting"}
         /\ <<t, kind>> \in Slots
         /\ \E n \in 1 .. Len(inbox) :
              /\ ClaimSteer(<<t, kind>>, 0, n, inbox[1], Messages)
              /\ lease' = [lease EXCEPT ![<<t, kind>>] =
                             [items |-> SubSeq(inbox, 1, n),
                              committed |-> 0, active |-> TRUE]]
              /\ lease'[<<t, kind>>].items = SubSeq(inbox, 1, n)
<1>1. PICK n \in 1 .. Len(inbox) :
        ClaimSteer(<<t, kind>>, 0, n, cons[t].first, SameSender(t))
  BY DEF ClaimPrefix, SteerablePrefix
<1>2. <<t, kind>> \in Slots BY SchedulerAssumption
<1>3. InboxTypeOK /\ Len(inbox) \in Nat
  BY LenProperties DEF SchedTypeOK, InboxTypeOK
<1>4. n \in Nat \ {0} BY <1>3
<1>5. ClaimSteer(<<t, kind>>, 0, n, inbox[1], Messages)
  BY <1>1, <1>2, <1>3, <1>4, SteerTakes
<1>6. lease' = [lease EXCEPT ![<<t, kind>>] =
                  [items |-> SubSeq(inbox, 1, n), committed |-> 0, active |-> TRUE]]
  BY <1>4, <1>5 DEF ClaimSteer
<1>7. lease'[<<t, kind>>].items = SubSeq(inbox, 1, n)
  BY <1>2, <1>3, <1>6 DEF InboxTypeOK
<1> QED BY <1>2, <1>5, <1>6, <1>7 DEF ClaimPrefix

LEMMA WaitMoves ==
  ASSUME SchedBase, NEW t \in Tokens, WaitingLoop(t)
  PROVE  Moved(t)
<1> USE DEF Moved, SchedBase, ConsumerStates, Selecting, Working, Serving
<1>0. cons \in [Tokens -> Consumers] /\ cons[t] \in Consumers BY ConsTyped
<1>1. CASE PlanWait(t) BY <1>0, <1>1, GoMoves DEF PlanWait
<1>2. CASE PlanDone(t) BY <1>0, <1>2, GoMoves DEF PlanDone
<1>3. CASE Wake(t) BY <1>0, <1>3, GoMoves DEF Wake
<1>4. CASE WaitTimesOut(t)
  <2>1. cons' = [cons EXCEPT ![t] = cons'[t]] /\ cons'[t] \in Consumers
        /\ cons'[t].first = cons[t].first /\ cons'[t].pc \in {"run", "commit"}
    <3>1. CASE Go(t, "commit") BY <1>0, <3>1, GoMoves
    <3>2. CASE cons' = [cons EXCEPT ![t].pc = "run", ![t].retried = TRUE,
                                    ![t].todo = <<cons[t].first>>]
      <4>1. cons[t].first \in Messages BY <1>4 DEF WaitTimesOut, Named
      <4>2. <<cons[t].first>> \in Seq(Messages) BY <4>1, SeqDef
      <4> QED BY <1>0, <3>2, <4>2 DEF Consumers
    <3> QED BY <1>4, <3>1, <3>2 DEF WaitTimesOut
  <2> QED BY <1>0, <1>4, <2>1 DEF WaitTimesOut
<1>5. CASE WokenClaims(t)
  <2> DEFINE m == cons[t].first
             items == lease'[<<t, "wait">>].items
             todo == IF m \in Ambient THEN items ELSE <<m>> \o items
             pc == IF m \in Ambient THEN "steered" ELSE "run"
  <2>1. m \in Messages BY <1>5 DEF WokenClaims, Named
  <2>2. <<m>> \in Seq(Messages) BY <2>1, SeqDef
  <2>3. items \in Seq(Messages)
    <3>1. PICK n \in 1 .. Len(inbox) : items = SubSeq(inbox, 1, n)
      BY <1>5, PrefixTaken DEF WokenClaims, LeaseKinds
    <3>2. inbox \in Seq(Messages) BY DEF SchedTypeOK, InboxTypeOK
    <3>3. Len(inbox) \in Nat BY <3>2, LenProperties
    <3>4. n \in Nat /\ 1 <= n /\ n <= Len(inbox) BY <3>3
    <3>5. SubSeq(inbox, 1, n) \in Seq(Messages) BY <3>2, <3>4, PartOfSeq
    <3> QED BY <3>1, <3>5
  <2>4. todo \in Seq(Messages) BY <2>2, <2>3, ConcatProperties
  <2>5. cons' = [cons EXCEPT ![t].pc = pc, ![t].after = "run", ![t].todo = todo]
    BY <1>5 DEF WokenClaims
  <2>6. pc \in {"steered", "run"} OBVIOUS
  <2> HIDE DEF todo, pc
  <2>7. cons' = [cons EXCEPT ![t] = cons'[t]] /\ cons'[t] \in Consumers
        /\ cons'[t].first = cons[t].first /\ cons'[t].pc \in {"steered", "run"}
    BY <1>0, <2>4, <2>5, <2>6 DEF Consumers
  <2> QED BY <1>0, <1>5, <2>7 DEF WokenClaims, ClaimPrefix, ClaimSteer
<1>6. CASE WokenFindsNothing(t)
  BY <1>0, <1>6, GoMoves DEF WokenFindsNothing
<1>7. CASE CommitSteer(t)
  <2>1. cons' = [cons EXCEPT ![t] = cons'[t]] /\ cons'[t] \in Consumers
        /\ cons'[t].first = cons[t].first
        /\ cons'[t].pc \in {"steered", "cancelTurn", "ran", "run"}
    <3> DEFINE how == cons[t].after
    <3>0. how \in {"ran", "run", "error", "abort"} BY <1>0 DEF Consumers
    <3>1. CASE cons' = [cons EXCEPT ![t] = @]
      BY <1>0, <1>7, <3>1 DEF CommitSteer
    <3>2. CASE /\ how \in {"error", "abort"}
               /\ cons' = [cons EXCEPT ![t] = Raise(@, how)]
      BY <1>0, <3>2, RaiseMoves
    <3>3. CASE /\ how \in {"ran", "run"}
               /\ cons' = [cons EXCEPT ![t] = [@ EXCEPT !.pc = how]]
      <4>1. Go(t, how) BY <3>3 DEF Go
      <4> QED BY <1>0, <3>3, <4>1, GoMoves
    <3> QED BY <1>7, <3>0, <3>1, <3>2, <3>3 DEF CommitSteer
  <2> QED BY <1>0, <1>7, <2>1 DEF CommitSteer, Commit, Settle
<1>8. CASE CommitSteerStale(t) BY <1>0, <1>8, RaiseMoves DEF CommitSteerStale
<1> QED BY <1>1, <1>2, <1>3, <1>4, <1>5, <1>6, <1>7, <1>8 DEF WaitingLoop

LEMMA EndMoves ==
  ASSUME SchedBase, NEW t \in Tokens, EndTurn(t)
  PROVE  Moved(t)
<1> USE DEF Moved, SchedBase, ConsumerStates, Selecting, Working, Serving
<1>0. cons \in [Tokens -> Consumers] /\ cons[t] \in Consumers BY ConsTyped
<1>1. CASE CommitItem(t)
  <2>1. \E pc \in {"commit", "finish"} : Go(t, pc) BY <1>1 DEF CommitItem
  <2> QED BY <1>0, <1>1, <2>1, GoMoves DEF CommitItem, Commit, Settle
<1>2. CASE Finish(t)
  <2>1. CASE NextTurn(t)
    BY <1>0, <1>2, <2>1, FreshTyped, PutMoves DEF Finish
  <2>2. CASE Go(t, "finalize") BY <1>0, <1>2, <2>2, GoMoves DEF Finish
  <2> QED BY <1>2, <2>1, <2>2 DEF Finish
<1>3. CASE Finalize(t) BY <1>0, <1>3, FreshTyped, PutMoves DEF Finalize
<1>4. CASE FinalizeRefused(t) BY <1>0, <1>4, RaiseMoves DEF FinalizeRefused
<1> QED BY <1>1, <1>2, <1>3, <1>4 DEF EndTurn

LEMMA RecoverMoves ==
  ASSUME SchedBase, NEW t \in Tokens, Recover(t)
  PROVE  Moved(t)
<1> USE DEF Moved, SchedBase, ConsumerStates, Selecting, Working, Serving
<1>0. cons \in [Tokens -> Consumers] /\ cons[t] \in Consumers BY ConsTyped
<1>1. CASE ReadTurn(t)
  <2> DEFINE pc == IF turn[cons[t].first] \in {"active", "waiting"}
                   THEN "cas" ELSE "settle"
  <2>1. cons' = [cons EXCEPT ![t].pc = pc, ![t].todo = WorkItems(t)]
    BY <1>1 DEF ReadTurn
  <2>2. pc \in {"cas", "settle"} OBVIOUS
  <2> HIDE DEF pc
  <2>3. cons' = [cons EXCEPT ![t] = cons'[t]] /\ cons'[t] \in Consumers
        /\ cons'[t].first = cons[t].first /\ cons'[t].pc \in {"cas", "settle"}
    BY <1>0, <2>1, <2>2, WorkItemsType DEF Consumers
  <2> QED BY <1>0, <1>1, <2>3 DEF ReadTurn
<1>2. CASE SwapTurn(t) BY <1>0, <1>2, GoMoves DEF SwapTurn
<1>3. CASE SettleCommit(t)
  <2>1. Tail(cons[t].todo) \in Seq(Messages)
    BY <1>0, <1>3, HeadTailProperties DEF SettleCommit, Consumers
  <2>2. cons' = [cons EXCEPT ![t] = cons'[t]] /\ cons'[t] \in Consumers
        /\ cons'[t].first = cons[t].first /\ cons'[t].pc = "settle"
    BY <1>0, <1>3, <2>1 DEF SettleCommit, Consumers
  <2> QED BY <1>0, <1>3, <2>2 DEF SettleCommit, Commit, Settle
<1>4. CASE SettleRaises(t)
  <2>1. Go(t, "exit") BY <1>4 DEF SettleRaises
  <2>2. cons' = [cons EXCEPT ![t] = cons'[t]] /\ cons'[t] \in Consumers
        /\ cons'[t].pc = "exit" /\ cons'[t].first = cons[t].first
    BY <1>0, <2>1, GoMoves
  <2> QED BY <1>0, <1>4, <2>2 DEF SettleRaises
<1>5. CASE SettleRest(t)
  <2>1. UNCHANGED <<inbox, running, nextToken>>
    BY <1>5 DEF SettleRest, Fail, Settle
  <2>2. Go(t, "requeue") BY <1>5 DEF SettleRest
  <2>3. cons' = [cons EXCEPT ![t] = cons'[t]] /\ cons'[t] \in Consumers
        /\ cons'[t].pc = "requeue" /\ cons'[t].first = cons[t].first
    BY <1>0, <2>2, GoMoves
  <2> QED BY <1>0, <1>5, <2>1, <2>3 DEF SettleRest
<1>6. CASE Requeue(t)
  <2>1. CASE NextTurn(t)
    BY <1>0, <1>6, <2>1, FreshTyped, PutMoves DEF Requeue, RequeueAs
  <2>2. CASE Go(t, "exit")
    BY <1>0, <1>6, <2>2, GoMoves DEF Requeue, RequeueAs
  <2> QED BY <1>6, <2>1, <2>2 DEF Requeue, RequeueAs
<1>7. CASE SettleDone(t)
  <2>1. CASE NextTurn(t)
    BY <1>0, <1>7, <2>1, FreshTyped, PutMoves DEF SettleDone
  <2>2. CASE Go(t, "exit") BY <1>0, <1>7, <2>2, GoMoves DEF SettleDone
  <2> QED BY <1>7, <2>1, <2>2 DEF SettleDone
<1> QED BY <1>1, <1>2, <1>3, <1>4, <1>5, <1>6, <1>7 DEF Recover

LEMMA CancelMoves ==
  ASSUME SchedBase, NEW t \in Tokens, Cancel(t)
  PROVE  Moved(t)
<1> USE DEF Moved, SchedBase, ConsumerStates, Selecting, Working, Serving
<1>0. cons \in [Tokens -> Consumers] /\ cons[t] \in Consumers BY ConsTyped
<1>1. /\ UNCHANGED <<inboxVars, engine>> /\ engine = "stopping"
      /\ cons[t].pc \in {"start", "select", "collect", "run", "wait", "finalize",
                         "begin", "cancelTurn", "cas", "settle"}
  BY DEF Cancel, CancelPoint
<1>2. CASE At(t, "run")
  BY <1>0, <1>1, <1>2, AfterRunMoves DEF Cancel
<1>3. CASE ~At(t, "run")
  <2>1. cons' = [cons EXCEPT ![t] = Cancelled(cons[t])]
    BY <1>3 DEF Cancel
  <2>2. CASE At(t, "start")
    BY <1>0, <1>1, <2>1, <2>2, FreshTyped, PutMoves DEF Cancelled
  <2>3. CASE cons[t].pc \in {"wait", "finalize"}
    BY <1>0, <1>1, <2>1, <2>3, RaiseMoves DEF Cancelled
  <2>4. CASE cons[t].pc \notin {"start", "run", "wait", "finalize"}
    <3>1. Go(t, "exit") BY <1>0, <2>1, <2>4 DEF Cancelled, Go
    <3> QED BY <1>0, <1>1, <3>1, GoMoves
  <2> QED BY <1>3, <2>2, <2>3, <2>4
<1> QED BY <1>2, <1>3

\* A consumer's own steps, and a stop's, change no other consumer.
LEMMA OwnStepMoves ==
  ASSUME SchedBase, NEW t \in Tokens, OwnStep(t)
  PROVE  Moved(t)
BY SelectMoves, RunMoves, SteerMoves, WaitMoves, EndMoves, RecoverMoves,
   CancelMoves DEF OwnStep

(***************************************************************************)
(* What a consumer's step does to the turns.                               *)
(***************************************************************************)
Live == {"active", "waiting"}

\* A turn that may act is that of a consumer that has begun and not settled it.
Acting == Working \ {"begin", "settle", "requeue"}

\* A stop cuts off the handler of an error.
CutOff(t) ==
  /\ engine = "stopping"
  /\ cons[t].pc \in {"cancelTurn", "cas"} /\ cons[t].after = "error"
  /\ turn' = turn

Turned(t) ==
  LET m == cons[t].first IN
  /\ history' \subseteq history \cup Messages
  /\ turn' # turn => cons[t].pc \in Working
  /\ turn' = [turn EXCEPT ![m] = turn'[m]]
  /\ cons[t].pc \in Working => turn'[m] \in Phases
  /\ cons[t].pc \in Working /\ turn'[m] = "cancelled" =>
       turn[m] = "cancelled" \/ m \in Ambient
  /\ cons[t].pc \in Working /\ turn'[m] \in Live =>
       \/ cons'[t].pc \in Acting \/ CutOff(t)
       \/ turn[m] \in Live /\ cons[t].pc \notin Acting

LEMMA TurnKept ==
  ASSUME SchedBase, NEW t \in Tokens, turn' = turn, history' = history,
         cons[t].pc \in Acting => cons'[t].pc \in Acting \/ CutOff(t)
  PROVE  Turned(t)
<1>1. turn \in [Messages -> Phases] BY DEF SchedBase, SchedTypeOK
<1>2. cons[t].pc \in Working => cons[t].first \in Messages
  BY DEF SchedBase, Named, Serving
<1>3. turn' = [turn EXCEPT ![cons[t].first] = turn'[cons[t].first]] BY <1>1
<1> QED BY <1>1, <1>2, <1>3 DEF Turned, Acting, Live

LEMMA TurnPut ==
  ASSUME SchedBase, NEW t \in Tokens, NEW p \in Phases,
         cons[t].pc \in Working, turn' = [turn EXCEPT ![cons[t].first] = p],
         history' = history,
         p = "cancelled" => turn[cons[t].first] = "cancelled" \/ cons[t].first \in Ambient,
         p \in Live => cons'[t].pc \in Acting
  PROVE  Turned(t)
<1>1. turn \in [Messages -> Phases] BY DEF SchedBase, SchedTypeOK
<1>2. cons[t].first \in Messages BY DEF SchedBase, Named, Serving
<1>3. turn'[cons[t].first] = p BY <1>1, <1>2
<1> QED BY <1>2, <1>3 DEF Turned

LEMMA SelectTurns ==
  ASSUME SchedBase, NEW t \in Tokens, Launch(t) \/ Select(t) \/ LaunchFails(t)
  PROVE  Turned(t)
BY TurnKept DEF Launch, LaunchFails, Select, Peek, Collect, ClaimHead, ClaimStaleHead,
   Idle, Acting, Working

LEMMA RunTurns ==
  ASSUME SchedBase, NEW t \in Tokens, Run(t)
  PROVE  Turned(t)
<1> USE DEF Acting, Working
<1>0. SchedTypeOK /\ cons \in [Tokens -> Consumers] /\ cons[t] \in Consumers
  BY ConsTyped DEF SchedBase
<1>1. CASE BeginTurn(t)
  <2> DEFINE yields == cons[t].first \in Ambient /\ HasPending(Direct)
  <2>1. PICK mode \in {"direct", "active", "passive"} :
          cons' = [cons EXCEPT ![t].pc = "run", ![t].mode = mode,
                               ![t].todo = WorkItems(t)]
    BY <1>1 DEF BeginTurn
  <2>2. cons'[t].pc = "run" BY <1>0, <2>1 DEF Consumers
  <2>3. CASE yields
    <3>1. turn' = [turn EXCEPT ![cons[t].first] = "cancelled"]
      BY <1>1, <2>3 DEF BeginTurn
    <3> QED BY <1>1, <2>3, <3>1, TurnPut DEF BeginTurn, Phases, Live
  <2>4. CASE ~yields
    <3>1. turn' = [turn EXCEPT ![cons[t].first] = "active"]
      BY <1>1, <2>4 DEF BeginTurn
    <3> QED BY <1>1, <2>2, <3>1, TurnPut DEF BeginTurn, Phases, Live
  <2> QED BY <2>3, <2>4
<1>2. CASE BeginRefused(t) BY <1>0, <1>2, TurnKept, RaiseMoves DEF BeginRefused
<1>3. CASE RefreshFails(t) BY <1>0, <1>3, TurnKept DEF RefreshFails
<1>4. CASE Expire(t) BY <1>0, <1>4, TurnKept DEF Expire, Consumers
<1>5. CASE RunEnds(t) BY <1>0, <1>5, TurnKept, AfterRunMoves DEF RunEnds
<1>6. CASE Admit(t)
  <2>1. cons'[t].pc = "run" BY <1>0, <1>6 DEF Admit, Consumers
  <2>2. Head(cons[t].todo) \in Messages
    BY <1>0, <1>6, HeadTailProperties DEF Admit, Consumers
  <2>3. turn \in [Messages -> Phases] BY <1>0 DEF SchedTypeOK
  <2>4. cons[t].first \in Messages BY <1>6 DEF Admit, SchedBase, Named, Serving
  <2> QED BY <1>6, <2>1, <2>2, <2>3, <2>4 DEF Admit, Turned
<1>7. CASE RunFails(t)
  <2>1. cons'[t].pc \in Acting BY <1>0, <1>7, AfterRunMoves DEF RunFails
  <2>2. history' \subseteq history BY <1>7 DEF RunFails
  <2>3. turn \in [Messages -> Phases] BY <1>0 DEF SchedTypeOK
  <2>4. cons[t].first \in Messages BY <1>7 DEF RunFails, SchedBase, Named, Serving
  <2> QED BY <1>7, <2>1, <2>2, <2>3, <2>4 DEF RunFails, Turned
<1> QED BY <1>1, <1>2, <1>3, <1>4, <1>5, <1>6, <1>7 DEF Run

LEMMA SteerTurns ==
  ASSUME SchedBase, NEW t \in Tokens, Steer(t) \/ CancelDrain(t)
  PROVE  Turned(t)
<1> USE DEF Acting, Working
<1>0. SchedTypeOK /\ cons \in [Tokens -> Consumers] /\ cons[t] \in Consumers
  BY ConsTyped DEF SchedBase
<1>1. CASE DrainClaim(t)
  BY <1>0, <1>1, GoMoves, TurnKept DEF DrainClaim, ConsumerStates
<1>2. CASE DrainOne(t)
  <2>1. \E pc \in {"drain", "run"} : Go(t, pc) BY <1>2 DEF DrainOne
  <2>2. cons'[t].pc \in Acting BY <1>0, <2>1, GoMoves DEF ConsumerStates
  <2>3. NextOf(DrainLease(t)) \in Messages
    <3>1. <<t, "drain">> \in Slots BY SchedulerAssumption DEF LeaseKinds
    <3>2. DrainLease(t) \in Leases
      BY <1>0, <3>1 DEF SchedTypeOK, InboxTypeOK, DrainLease
    <3>3. DrainLease(t).items \in Seq(Messages) /\ DrainLease(t).committed \in Nat
      BY <3>2 DEF Leases
    <3>4. Len(DrainLease(t).items) \in Nat BY <3>3, LenProperties
    <3>5. DrainLease(t).committed < Len(DrainLease(t).items)
      BY <1>2 DEF DrainOne, Commit, Settle, DrainLease
    <3>6. DrainLease(t).committed + 1 \in 1 .. Len(DrainLease(t).items)
      BY <3>3, <3>4, <3>5
    <3> QED BY <3>3, <3>6, ElementOfSeq DEF NextOf
  <2>4. turn \in [Messages -> Phases] BY <1>0 DEF SchedTypeOK
  <2>5. cons[t].first \in Messages BY <1>2 DEF DrainOne, SchedBase, Named, Serving
  <2> QED BY <1>2, <2>2, <2>3, <2>4, <2>5 DEF DrainOne, Turned
<1>3. CASE DrainFails(t)
  BY <1>0, <1>3, GoMoves, TurnKept DEF DrainFails, ConsumerStates
<1>4. CASE CancelDrain(t)
  <2>1. CASE WaitLease(t).active
    BY <1>0, <1>4, <2>1, TurnKept DEF CancelDrain, Consumers
  <2>2. CASE ~WaitLease(t).active
    BY <1>0, <1>4, <2>2, RaiseMoves, TurnKept DEF CancelDrain
  <2> QED BY <2>1, <2>2
<1> QED BY <1>1, <1>2, <1>3, <1>4 DEF Steer

LEMMA WaitTurns ==
  ASSUME SchedBase, NEW t \in Tokens, WaitingLoop(t)
  PROVE  Turned(t)
<1> USE DEF Acting, Working, ConsumerStates
<1>0. SchedTypeOK /\ cons \in [Tokens -> Consumers] /\ cons[t] \in Consumers
  BY ConsTyped DEF SchedBase
<1>1. CASE PlanWait(t)
  <2>1. turn' = [turn EXCEPT ![cons[t].first] = "waiting"] BY <1>1 DEF PlanWait
  <2>2. cons'[t].pc \in Acting BY <1>0, <1>1, GoMoves DEF PlanWait
  <2> QED BY <1>1, <2>1, <2>2, TurnPut DEF PlanWait, Phases, Live
<1>2. CASE PlanDone(t) BY <1>0, <1>2, GoMoves, TurnKept DEF PlanDone
<1>3. CASE Wake(t)
  <2>1. turn' = [turn EXCEPT ![cons[t].first] = "active"] BY <1>3 DEF Wake
  <2>2. cons'[t].pc \in Acting BY <1>0, <1>3, GoMoves DEF Wake
  <2> QED BY <1>3, <2>1, <2>2, TurnPut DEF Wake, Phases, Live
<1>4. CASE WaitTimesOut(t)
  <2> DEFINE m == cons[t].first
             p == IF m \in Ambient THEN turn[m] ELSE "active"
  <2>1. cons'[t].pc \in Acting
    <3>1. CASE Go(t, "commit") BY <1>0, <3>1, GoMoves
    <3>2. CASE cons' = [cons EXCEPT ![t].pc = "run", ![t].retried = TRUE,
                                    ![t].todo = <<m>>]
      BY <1>0, <3>2 DEF Consumers
    <3> QED BY <1>4, <3>1, <3>2 DEF WaitTimesOut
  <2>2. m \in Messages BY <1>4 DEF WaitTimesOut, SchedBase, Named, Serving
  <2>3. p \in Phases BY <1>0, <2>2 DEF SchedTypeOK, Phases
  <2>4. turn' = [turn EXCEPT ![m] = p] BY <1>4 DEF WaitTimesOut
  <2>5. p = "cancelled" => turn[m] = "cancelled" OBVIOUS
  <2>6. history' = history /\ cons[t].pc \in Working BY <1>4 DEF WaitTimesOut
  <2> HIDE DEF p
  <2> QED BY <2>1, <2>3, <2>4, <2>5, <2>6, TurnPut
<1>5. CASE WokenClaims(t)
  <2>1. cons'[t].pc \in Acting
    BY <1>0, <1>5 DEF WokenClaims, Consumers
  <2> QED BY <1>0, <1>5, <2>1, TurnKept DEF WokenClaims
<1>6. CASE WokenFindsNothing(t)
  BY <1>0, <1>6, GoMoves, TurnKept DEF WokenFindsNothing
<1>7. CASE CommitSteer(t)
  <2>1. cons'[t].pc \in Acting BY <1>0, <1>7 DEF CommitSteer, Consumers
  <2> QED BY <1>0, <1>7, <2>1, TurnKept DEF CommitSteer
<1>8. CASE CommitSteerStale(t)
  BY <1>0, <1>8, RaiseMoves, TurnKept DEF CommitSteerStale
<1> QED BY <1>1, <1>2, <1>3, <1>4, <1>5, <1>6, <1>7, <1>8 DEF WaitingLoop

LEMMA EndTurns ==
  ASSUME SchedBase, NEW t \in Tokens, EndTurn(t)
  PROVE  Turned(t)
<1> USE DEF Acting, Working, ConsumerStates
<1>0. SchedTypeOK /\ cons \in [Tokens -> Consumers] /\ cons[t] \in Consumers
  BY ConsTyped DEF SchedBase
<1>1. CASE CommitItem(t)
  <2>1. \E pc \in {"commit", "finish"} : Go(t, pc) BY <1>1 DEF CommitItem
  <2> QED BY <1>0, <1>1, <2>1, GoMoves, TurnKept DEF CommitItem
<1>2. CASE Finish(t)
  <2>1. CASE turn[cons[t].first] = "cancelled"
    <3>1. turn' = [turn EXCEPT ![cons[t].first] = "absent"] BY <1>2, <2>1 DEF Finish
    <3> QED BY <1>2, <3>1, TurnPut DEF Finish, Phases, Live
  <2>2. CASE turn[cons[t].first] # "cancelled"
    BY <1>0, <1>2, <2>2, GoMoves, TurnKept DEF Finish
  <2> QED BY <2>1, <2>2
<1>3. CASE Finalize(t)
  <2>1. turn' = [turn EXCEPT ![cons[t].first] = "absent"] BY <1>3 DEF Finalize
  <2> QED BY <1>3, <2>1, TurnPut DEF Finalize, Phases, Live
<1>4. CASE FinalizeRefused(t)
  BY <1>0, <1>4, RaiseMoves, TurnKept DEF FinalizeRefused
<1> QED BY <1>1, <1>2, <1>3, <1>4 DEF EndTurn

LEMMA RecoverTurns ==
  ASSUME SchedBase, NEW t \in Tokens, Recover(t)
  PROVE  Turned(t)
<1> USE DEF Acting, Working, ConsumerStates
<1>0. SchedTypeOK /\ cons \in [Tokens -> Consumers] /\ cons[t] \in Consumers
  BY ConsTyped DEF SchedBase
<1>1. CASE ReadTurn(t)
  <2> DEFINE m == cons[t].first
             p == IF turn[m] = "cancelled" THEN "absent" ELSE turn[m]
             pc == IF turn[m] \in {"active", "waiting"} THEN "cas" ELSE "settle"
  <2>1. m \in Messages BY <1>1 DEF ReadTurn, SchedBase, Named, Serving
  <2>2. p \in Phases /\ p # "cancelled"
    BY <1>0, <2>1 DEF SchedTypeOK, Phases
  <2>3. turn' = [turn EXCEPT ![m] = p] BY <1>1 DEF ReadTurn
  <2>4. cons' = [cons EXCEPT ![t].pc = pc, ![t].todo = WorkItems(t)]
    BY <1>1 DEF ReadTurn
  <2>5. cons'[t].pc = pc BY <1>0, <2>4 DEF Consumers
  <2>6. p \in Live => cons'[t].pc \in Acting BY <2>5 DEF Live
  <2>7. history' = history /\ cons[t].pc \in Working BY <1>1 DEF ReadTurn
  <2> HIDE DEF p
  <2> QED BY <2>2, <2>3, <2>6, <2>7, TurnPut
<1>2. CASE SwapTurn(t)
  <2> DEFINE m == cons[t].first
             p == IF turn[m] = "cancelled" THEN "cancelled" ELSE "absent"
  <2>1. turn' = [turn EXCEPT ![m] = p] BY <1>2 DEF SwapTurn
  <2>2. p \in Phases /\ p \notin Live BY DEF Phases, Live
  <2>3. p = "cancelled" => turn[m] = "cancelled" OBVIOUS
  <2>4. history' = history /\ cons[t].pc \in Working BY <1>2 DEF SwapTurn
  <2> HIDE DEF p
  <2> QED BY <2>1, <2>2, <2>3, <2>4, TurnPut
<1>3. CASE SettleCommit(t) BY <1>0, <1>3, TurnKept DEF SettleCommit
<1>4. CASE SettleRaises(t) BY <1>0, <1>4, TurnKept DEF SettleRaises
<1>5. CASE SettleRest(t) BY <1>0, <1>5, TurnKept DEF SettleRest
<1>6. CASE Requeue(t) BY <1>0, <1>6, TurnKept DEF Requeue, RequeueAs
<1>7. CASE SettleDone(t) BY <1>0, <1>7, TurnKept DEF SettleDone
<1> QED BY <1>1, <1>2, <1>3, <1>4, <1>5, <1>6, <1>7 DEF Recover

LEMMA CancelTurns ==
  ASSUME SchedBase, NEW t \in Tokens, Cancel(t)
  PROVE  Turned(t)
<1> USE DEF Acting, Working, ConsumerStates
<1>0. SchedTypeOK /\ cons \in [Tokens -> Consumers] /\ cons[t] \in Consumers
  BY ConsTyped DEF SchedBase
<1>1. turn' = turn /\ history' = history /\ engine = "stopping" /\ CancelPoint(cons[t])
  BY DEF Cancel
<1>2. CASE At(t, "run")
  BY <1>0, <1>1, <1>2, AfterRunMoves, TurnKept DEF Cancel
<1>3. CASE cons[t].pc \in {"wait", "finalize"}
  <2>1. cons' = [cons EXCEPT ![t] = Raise(@, "abort")]
    BY <1>3 DEF Cancel, Cancelled
  <2> QED BY <1>0, <1>1, <2>1, RaiseMoves, TurnKept
<1>4. CASE cons[t].pc \notin {"run", "wait", "finalize"}
  BY <1>0, <1>1, <1>4, TurnKept DEF CancelPoint, CutOff
<1> QED BY <1>2, <1>3, <1>4

LEMMA OwnStepTurns ==
  ASSUME SchedBase, NEW t \in Tokens, OwnStep(t)
  PROVE  Turned(t)
BY SelectTurns, RunTurns, SteerTurns, WaitTurns, EndTurns, RecoverTurns,
   CancelTurns DEF OwnStep

(***************************************************************************)
(* The types.                                                              *)
(***************************************************************************)
LEMMA InboxKept ==
  ASSUME InboxTypeOK, inboxVars' = inboxVars
  PROVE  InboxTypeOK'
BY DEF InboxTypeOK

LEMMA DropTyped ==
  ASSUME InboxTypeOK, NEW t \in Tokens, DropLeases(t)
  PROVE  lease' \in [Slots -> Leases]
<1>1. NoLease \in Leases BY EmptySeq DEF NoLease, Leases
<1> QED BY <1>1 DEF DropLeases, InboxTypeOK

\* Actions that end a consumer's work and leave the inbox alone.
LEMMA DroppedInbox ==
  ASSUME InboxTypeOK, NEW t \in Tokens, lease' = lease \/ DropLeases(t),
         UNCHANGED <<inbox, leasedCount, running, nextToken, mstate>>
  PROVE  InboxTypeOK'
BY DropTyped DEF InboxTypeOK

LEMMA TailTyped ==
  ASSUME InboxTypeOK, inbox # <<>>
  PROVE  Tail(inbox) \in Seq(Messages)
BY HeadTailProperties DEF InboxTypeOK

LEMMA SelectInbox ==
  ASSUME SchedBase, NEW t \in Tokens, Launch(t) \/ Select(t) \/ LaunchFails(t)
  PROVE  InboxTypeOK'
<1>0. InboxTypeOK BY DEF SchedBase, SchedTypeOK
<1>s. \A kind \in LeaseKinds : <<t, kind>> \in Slots BY SchedulerAssumption
<1>1. CASE Launch(t) \/ Peek(t) \/ LaunchFails(t)
  BY <1>0, <1>1, InboxKept DEF Launch, Peek, LaunchFails
<1>2. CASE Collect(t)
  <2>1. CASE HasFollowup(t)
    <3>1. PICK n \in 1 .. MaxCollect - 1 :
            ClaimSteer(<<t, "follow">>, 1, n, cons[t].first, Messages)
      BY <1>2, <2>1 DEF Collect
    <3>2. n \in Nat \ {0} BY SchedulerAssumption
    <3>3. <<t, "follow">> \in Slots BY <1>s DEF LeaseKinds
    <3>4. 1 + n <= Len(inbox)
      BY <1>0, <3>1, <3>2, <3>3, SteerTakes
    <3> QED BY <1>0, <3>1, <3>2, <3>3, <3>4, ClaimSteerType
  <2>2. CASE ~HasFollowup(t) BY <1>0, <1>2, <2>2, InboxKept DEF Collect
  <2> QED BY <2>1, <2>2
<1>3. CASE ClaimHead(t)
  BY <1>0, <1>s, <1>3, ClaimNextType DEF ClaimHead, LeaseKinds
<1>4. CASE ClaimStaleHead(t)
  <2>1. inbox' \in Seq(Messages) BY <1>0, <1>4, TailTyped DEF ClaimStaleHead
  <2>2. lease' \in [Slots -> Leases] BY <1>0, <1>4, DropTyped DEF ClaimStaleHead
  <2> QED BY <1>0, <1>4, <2>1, <2>2 DEF ClaimStaleHead, InboxTypeOK
<1>5. CASE Idle(t)
  <2>1. CASE ReleaseIfIdle(t) BY <1>0, <2>1, SlotType
  <2>2. CASE UNCHANGED inboxVars BY <1>0, <2>2, InboxKept
  <2> QED BY <1>5, <2>1, <2>2 DEF Idle
<1> QED BY <1>1, <1>2, <1>3, <1>4, <1>5 DEF Select

LEMMA WorkInbox ==
  ASSUME SchedBase, NEW t \in Tokens,
         Run(t) \/ Steer(t) \/ WaitingLoop(t) \/ Cancel(t) \/ CancelDrain(t)
  PROVE  InboxTypeOK'
<1>0. InboxTypeOK /\ SchedTypeOK BY DEF SchedBase, SchedTypeOK
<1>s. \A kind \in LeaseKinds : <<t, kind>> \in Slots BY SchedulerAssumption
<1> USE DEF LeaseKinds
<1>1. CASE Run(t)
  BY <1>0, <1>1, InboxKept
     DEF Run, BeginTurn, BeginRefused, RefreshFails, Admit, Expire, RunEnds, RunFails
<1>2. CASE Cancel(t) BY <1>0, <1>2, InboxKept DEF Cancel
<1>3. CASE \E kind \in LeaseKinds : ClaimPrefix(t, kind)
  <2>1. PICK kind \in LeaseKinds, n \in 1 .. Len(inbox) :
          ClaimSteer(<<t, kind>>, 0, n, inbox[1], Messages)
    BY <1>0, <1>3, PrefixTaken
  <2>2. Len(inbox) \in Nat BY <1>0, LenProperties DEF InboxTypeOK
  <2>3. n \in Nat \ {0} /\ 0 + n <= Len(inbox) BY <2>2
  <2> QED BY <1>0, <1>s, <2>1, <2>3, ClaimSteerType
<1>4. CASE \E kind \in LeaseKinds : Commit(<<t, kind>>)
  BY <1>0, <1>s, <1>4, SettleType DEF Commit, MessageStates
<1>5. CASE \E kind \in LeaseKinds : RequeueFront(<<t, kind>>)
  BY <1>0, <1>s, <1>5, RequeueFrontType
<1>6. CASE WaitTimesOut(t)
  <2>1. NoLease \in Leases BY EmptySeq DEF NoLease, Leases
  <2>2. lease' = lease \/ lease' = [lease EXCEPT ![<<t, "wait">>] = NoLease]
    BY <1>6 DEF WaitTimesOut
  <2>3. lease' \in [Slots -> Leases] BY <1>0, <2>1, <2>2 DEF InboxTypeOK
  <2> QED BY <1>0, <1>6, <2>3 DEF WaitTimesOut, InboxTypeOK
<1>7. CASE PlanWait(t) \/ PlanDone(t) \/ Wake(t) \/ WokenFindsNothing(t)
           \/ CommitSteerStale(t)
  BY <1>0, <1>7, InboxKept
     DEF PlanWait, PlanDone, Wake, WokenFindsNothing, CommitSteerStale
<1>8. CASE Steer(t) BY <1>3, <1>4, <1>5, <1>8 DEF Steer, DrainClaim, DrainOne, DrainFails
<1>9. CASE CancelDrain(t) BY <1>5, <1>9 DEF CancelDrain
<1>10. CASE WaitingLoop(t)
  BY <1>3, <1>4, <1>6, <1>7, <1>10 DEF WaitingLoop, WokenClaims, CommitSteer
<1> QED BY <1>1, <1>2, <1>8, <1>9, <1>10

LEMMA RestTyped ==
  ASSUME InboxTypeOK, NEW t \in Tokens
  PROVE  WorkRest(t) \in Seq(Messages) /\ Len(WorkRest(t)) \in Nat
<1>1. \A l \in Leases : Rest(l) \in Seq(Messages)
  BY UncommittedType, EmptySeq DEF Rest
<1>2. HeadLease(t) \in Leases /\ FollowLease(t) \in Leases
  BY SchedulerAssumption DEF InboxTypeOK, HeadLease, FollowLease, LeaseKinds
<1>3. WorkRest(t) \in Seq(Messages) BY <1>1, <1>2, ConcatProperties DEF WorkRest
<1> QED BY <1>3, LenProperties

LEMMA EndInbox ==
  ASSUME SchedBase, NEW t \in Tokens, EndTurn(t) \/ Recover(t)
  PROVE  InboxTypeOK'
<1>0. InboxTypeOK BY DEF SchedBase, SchedTypeOK
<1>s. \A kind \in LeaseKinds : <<t, kind>> \in Slots BY SchedulerAssumption
<1> USE DEF LeaseKinds
<1>1. CASE \E kind \in LeaseKinds : Commit(<<t, kind>>) \/ Fail(<<t, kind>>)
  BY <1>0, <1>s, <1>1, SettleType DEF Commit, Fail, MessageStates
<1>2. CASE CommitItem(t) BY <1>1, <1>2 DEF CommitItem
<1>3. CASE Finish(t) \/ Finalize(t) \/ SettleDone(t)
  BY <1>0, <1>3, DroppedInbox DEF Finish, Finalize, SettleDone
<1>4. CASE FinalizeRefused(t) \/ ReadTurn(t) \/ SwapTurn(t) \/ SettleRaises(t)
  BY <1>0, <1>4, InboxKept DEF FinalizeRefused, ReadTurn, SwapTurn, SettleRaises
<1>5. \A m : \E kind \in LeaseKinds : SlotOf(t, m) = <<t, kind>>
  BY DEF SlotOf
<1>6. CASE SettleCommit(t)
  BY <1>1, <1>5, <1>6 DEF SettleCommit
<1>7. CASE SettleRest(t)
  <2>1. CASE UNCHANGED inboxVars BY <1>0, <2>1, InboxKept
  <2> QED BY <1>1, <1>5, <1>7, <2>1 DEF SettleRest
<1>8. CASE Requeue(t)
  <2> DEFINE rest == WorkRest(t)
  <2>1. rest \in Seq(Messages) /\ Len(rest) \in Nat BY <1>0, RestTyped
  <2>2. rest \o inbox \in Seq(Messages)
    BY <1>0, <2>1, ConcatProperties DEF InboxTypeOK
  <2>3. Release(Len(rest)) \in Nat BY <1>0, <2>1, ReleaseType
  <2>4. NoLease \in Leases BY EmptySeq DEF NoLease, Leases
  <2>5. lease' = [s \in Slots |-> IF s \in SlotsOf(t) THEN NoLease ELSE lease[s]]
    BY <1>8 DEF Requeue, RequeueAs
  <2>6. lease' \in [Slots -> Leases] BY <1>0, <2>4, <2>5 DEF InboxTypeOK
  <2>7. /\ inbox' = rest \o inbox \/ inbox' = inbox
        /\ leasedCount' = Release(Len(rest)) \/ leasedCount' = leasedCount
        /\ UNCHANGED <<running, nextToken, mstate>>
    BY <1>8 DEF Requeue, RequeueAs
  <2> HIDE DEF rest
  <2> QED BY <1>0, <2>2, <2>3, <2>6, <2>7 DEF InboxTypeOK
<1> QED BY <1>2, <1>3, <1>4, <1>6, <1>7, <1>8 DEF EndTurn, Recover

LEMMA OwnStepInbox ==
  ASSUME SchedBase, NEW t \in Tokens, OwnStep(t)
  PROVE  InboxTypeOK'
BY SelectInbox, WorkInbox, EndInbox DEF OwnStep

\* The steps that concern more than one consumer.
LEMMA SharedInbox ==
  ASSUME SchedBase,
         \/ \E m \in Messages : Dispatch(m)
         \/ \E t \in Tokens : Exit(t)
         \/ BeginStop \/ EndStop \/ Restart
  PROVE  InboxTypeOK' /\ running' \in {running, NoOwner, nextToken + 1}
<1>0. InboxTypeOK BY DEF SchedBase, SchedTypeOK
<1>1. CASE \E m \in Messages : Dispatch(m)
  <2>1. PICK m \in Messages : Enqueue(m) BY <1>1 DEF Dispatch
  <2>2. running' \in {running, NoOwner, nextToken + 1}
    BY <1>0, <2>1, SlotStep DEF Enqueue, EnqueueRoom, EnqueueDropping, EnqueueRefused
  <2> QED BY <1>0, <2>1, <2>2, EnqueueType
<1>2. CASE \E t \in Tokens : Exit(t)
  <2>1. PICK t \in Tokens : Exit(t) BY <1>2
  <2>2. lease' \in [Slots -> Leases] BY <1>0, <2>1, DropTyped DEF Exit
  <2>3. CASE HandSlotOn
    BY <1>0, <2>1, <2>2, <2>3, SlotStep DEF Exit, InboxTypeOK
  <2>4. CASE UNCHANGED <<running, nextToken>>
    BY <1>0, <2>1, <2>2, <2>4 DEF Exit, InboxTypeOK
  <2> QED BY <2>1, <2>3, <2>4 DEF Exit
<1>3. CASE BeginStop BY <1>0, <1>3, InboxKept DEF BeginStop
<1>4. CASE EndStop BY <1>0, <1>4, SlotType DEF EndStop
<1>5. CASE Restart
  <2>1. CASE ClaimExisting BY <1>0, <2>1, SlotType
  <2>2. CASE UNCHANGED inboxVars BY <1>0, <2>2, InboxKept
  <2> QED BY <1>5, <2>1, <2>2 DEF Restart
<1> QED BY <1>1, <1>2, <1>3, <1>4, <1>5

Shared ==
  \/ \E m \in Messages : Dispatch(m)
  \/ \E t \in Tokens : Exit(t)
  \/ BeginStop \/ EndStop \/ Restart

\* A token that was issued in this step.
Issued(u) == u = nextToken' /\ nextToken' = nextToken + 1

SharedMoved ==
  /\ \/ nextToken' = nextToken /\ running' \in {running, NoOwner}
     \/ \E u \in Tokens : Issued(u) /\ running' = u
  /\ cons' \in [Tokens -> Consumers]
  /\ \A u \in Tokens :
       /\ Issued(u) => cons'[u].pc \in {"launch", "start"}
       /\ ~Issued(u) /\ cons'[u].pc \in Serving =>
            cons[u].pc \in Serving /\ cons'[u].first = cons[u].first
       /\ ~Issued(u) /\ cons[u].pc = "off" => cons'[u].pc = "off"

LEMMA DispatchMoves ==
  ASSUME SchedBase, NEW m \in Messages, Dispatch(m)
  PROVE  /\ SharedMoved /\ engine' = engine
         /\ nextToken' = nextToken => cons' = cons /\ running' = running
         /\ nextToken' # nextToken => running = NoOwner
         /\ \A u \in Tokens : Issued(u) => cons'[u].pc = "launch"
         /\ \A u \in Tokens : ~Issued(u) => cons'[u] = cons[u]
<1>1. cons \in [Tokens -> Consumers] /\ nextToken \in 0 .. MaxToken
  BY ConsTyped DEF SchedBase, SchedTypeOK, InboxTypeOK
<1>2. \/ UNCHANGED <<running, nextToken>>
      \/ /\ running = NoOwner /\ nextToken < MaxToken
         /\ nextToken' = nextToken + 1 /\ running' = nextToken + 1
  BY DEF Dispatch, Enqueue, EnqueueRoom, EnqueueDropping, EnqueueRefused,
         TakeSlotIfFree
<1>3. engine' = engine BY DEF Dispatch
<1>4. CASE UNCHANGED <<running, nextToken>>
  <2>1. cons' = cons BY <1>4 DEF Dispatch
  <2> QED BY <1>1, <1>3, <1>4, <2>1 DEF SharedMoved, Issued
<1>5. CASE /\ running = NoOwner /\ nextToken < MaxToken
           /\ nextToken' = nextToken + 1 /\ running' = nextToken + 1
  <2> DEFINE n == nextToken + 1
  <2>1. n \in Tokens /\ nextToken' # nextToken
    BY <1>1, <1>5, InboxAssumption DEF Tokens
  <2>2. cons' = [cons EXCEPT ![n].pc = "launch"] BY <1>5, <2>1 DEF Dispatch
  <2>3. cons' \in [Tokens -> Consumers] /\ cons'[n].pc = "launch"
        /\ \A u \in Tokens : u # n => cons'[u] = cons[u]
    BY <1>1, <2>1, <2>2 DEF Consumers, ConsumerStates
  <2> QED BY <1>1, <1>3, <1>5, <2>1, <2>3 DEF SharedMoved, Issued
<1> QED BY <1>2, <1>4, <1>5

LEMMA ExitMoves ==
  ASSUME SchedBase, NEW t \in Tokens, Exit(t)
  PROVE  /\ SharedMoved /\ engine' = engine
         /\ inbox' = inbox /\ turn' = turn /\ history' = history
         /\ \A u \in Tokens : Issued(u) => running = t /\ cons'[u] = Fresh("start")
         /\ ~Issued(t) => cons'[t] = Fresh("off")
         /\ \A u \in Tokens : ~Issued(u) /\ u # t => cons'[u] = cons[u]
         /\ running # t => running' = running
         /\ running = t /\ inbox # <<>> => \E u \in Tokens : Issued(u)
         /\ running = t /\ inbox = <<>> => running' = NoOwner
         /\ At(t, "exit")
<1>1. cons \in [Tokens -> Consumers] /\ nextToken \in 0 .. MaxToken
  BY ConsTyped DEF SchedBase, SchedTypeOK, InboxTypeOK
<1>2. /\ engine' = engine /\ inbox' = inbox /\ turn' = turn /\ history' = history
      /\ At(t, "exit")
  BY DEF Exit
<1>3. t <= nextToken BY <1>1, <1>2 DEF SchedBase, TokensInv, Tokens
<1>4. Fresh("off") \in Consumers /\ Fresh("start") \in Consumers
  BY FreshTyped, Places DEF ConsumerStates, Selecting
<1>5. cons' = [u \in Tokens |-> IF u = t THEN Fresh("off")
                                ELSE IF u = nextToken' /\ nextToken' # nextToken
                                THEN Fresh("start") ELSE cons[u]]
  BY DEF Exit
<1>6. CASE UNCHANGED nextToken
  <2>1. running # t => running' = running BY DEF Exit
  <2>2. running = t => inbox = <<>> /\ running' = NoOwner
    BY <1>1, <1>6 DEF Exit, HandSlotOn
  <2>3. \A u \in Tokens : ~Issued(u) BY <1>1, <1>6 DEF Issued
  <2>4. cons' = [cons EXCEPT ![t] = Fresh("off")] BY <1>1, <1>5, <1>6
  <2>5. /\ cons' \in [Tokens -> Consumers] /\ cons'[t] = Fresh("off")
        /\ cons'[t].pc \notin Serving
        /\ \A u \in Tokens : u # t => cons'[u] = cons[u]
    BY <1>1, <1>4, <2>4 DEF Serving, Working
  <2>6. SharedMoved BY <1>6, <2>1, <2>2, <2>3, <2>5 DEF SharedMoved
  <2> QED BY <1>2, <2>1, <2>2, <2>3, <2>5, <2>6
<1>7. CASE nextToken' # nextToken
  <2>1. /\ running = t /\ inbox # <<>> /\ nextToken < MaxToken
        /\ nextToken' = nextToken + 1 /\ running' = nextToken + 1
    BY <1>7 DEF Exit, HandSlotOn
  <2>2. nextToken + 1 \in Tokens /\ nextToken + 1 # t
    BY <1>1, <1>3, <2>1, InboxAssumption DEF Tokens
  <2>3. \A u \in Tokens : Issued(u) <=> u = nextToken + 1 BY <1>1, <2>1 DEF Issued
  <2>4. /\ cons' \in [Tokens -> Consumers] /\ cons'[t] = Fresh("off")
        /\ cons'[t].pc \notin Serving /\ cons'[nextToken + 1] = Fresh("start")
        /\ \A u \in Tokens \ {t, nextToken + 1} : cons'[u] = cons[u]
    BY <1>1, <1>4, <1>5, <2>1, <2>2 DEF Serving, Working
  <2>5. SharedMoved BY <2>1, <2>2, <2>3, <2>4 DEF SharedMoved
  <2> QED BY <1>2, <2>1, <2>2, <2>3, <2>4, <2>5
<1> QED BY <1>6, <1>7

LEMMA CancelledTyped ==
  ASSUME NEW c \in Consumers
  PROVE  /\ Cancelled(c) \in Consumers
         /\ Cancelled(c).pc \in Serving => c.pc \in Working /\ Cancelled(c).first = c.first
<1>1. Fresh("off") \in Consumers BY FreshTyped, Places
<1>2. Raise(c, "abort") \in Consumers BY RaiseTyped
<1>3. [c EXCEPT !.pc = "exit"] \in Consumers BY DEF Consumers, ConsumerStates
<1> QED BY <1>1, <1>2, <1>3 DEF Cancelled, Serving, Working, Consumers

LEMMA EngineMoves ==
  ASSUME SchedBase, BeginStop \/ EndStop \/ Restart
  PROVE  /\ SharedMoved /\ engine' \in {"up", "stopping", "down", "up again"}
         /\ inbox' = inbox /\ turn' = turn /\ history' = history
<1>1. cons \in [Tokens -> Consumers] /\ nextToken \in 0 .. MaxToken
  BY ConsTyped DEF SchedBase, SchedTypeOK, InboxTypeOK
<1>2. CASE BeginStop BY <1>1, <1>2 DEF BeginStop, SharedMoved, Issued
<1>3. CASE EndStop
  <2>1. cons' = [t \in Tokens |-> IF cons[t].pc \in {"off", "launch"} THEN cons[t]
                                  ELSE Cancelled(cons[t])]
    BY <1>3 DEF EndStop
  <2>2. cons' \in [Tokens -> Consumers] BY <1>1, <2>1, CancelledTyped
  <2>3. \A u \in Tokens : cons'[u].pc \in Serving =>
          cons[u].pc \in Serving /\ cons'[u].first = cons[u].first
    BY <1>1, <2>1, CancelledTyped DEF Serving
  <2>4. nextToken' = nextToken /\ running' = NoOwner
    BY <1>3 DEF EndStop, CleanupAll
  <2>5. \A u \in Tokens : ~Issued(u) BY <1>1, <2>4 DEF Issued
  <2>6. \A u \in Tokens : cons[u].pc = "off" => cons'[u].pc = "off" BY <2>1
  <2>7. SharedMoved BY <2>2, <2>3, <2>4, <2>5, <2>6 DEF SharedMoved
  <2> QED BY <1>3, <2>7 DEF EndStop, CleanupAll
<1>4. CASE Restart
  <2>1. CASE UNCHANGED <<inboxVars, cons>>
    <3>1. \A u \in Tokens : ~Issued(u) BY <1>1, <2>1 DEF Issued
    <3>2. SharedMoved BY <1>1, <2>1, <3>1 DEF SharedMoved
    <3> QED BY <1>4, <2>1, <3>2 DEF Restart
  <2>2. CASE ClaimExisting /\ cons' = [cons EXCEPT ![nextToken'] = Fresh("start")]
    <3>1. Fresh("start") \in Consumers BY FreshTyped, Places DEF Selecting
    <3>2. nextToken' = nextToken + 1 /\ nextToken + 1 \in Tokens /\ running' = nextToken'
      BY <1>1, <2>2, InboxAssumption DEF ClaimExisting, Tokens
    <3>3. \A u \in Tokens : Issued(u) <=> u = nextToken + 1 BY <1>1, <3>2 DEF Issued
    <3>4. /\ cons' \in [Tokens -> Consumers] /\ cons'[nextToken + 1].pc = "start"
          /\ \A u \in Tokens \ {nextToken + 1} : cons'[u] = cons[u]
      BY <1>1, <2>2, <3>1, <3>2
    <3>5. SharedMoved BY <3>2, <3>3, <3>4 DEF SharedMoved
    <3> QED BY <1>4, <2>2, <3>5 DEF Restart, ClaimExisting
  <2> QED BY <1>4, <2>1, <2>2 DEF Restart
<1> QED BY <1>2, <1>3, <1>4

LEMMA SharedTypes ==
  ASSUME SchedBase, Shared
  PROVE  SharedMoved /\ SchedTypeOK'
<1>1. InboxTypeOK' BY SharedInbox DEF Shared
<1>2. /\ turn \in [Messages -> Phases] /\ history \subseteq Messages
      /\ engine \in {"up", "stopping", "down", "up again"}
  BY DEF SchedBase, SchedTypeOK
<1>3. /\ SharedMoved /\ turn' \in [Messages -> Phases] /\ history' \subseteq Messages
      /\ engine' \in {"up", "stopping", "down", "up again"}
  <2>1. CASE \E m \in Messages : Dispatch(m)
    <3>1. PICK m \in Messages : Dispatch(m) BY <2>1
    <3>2. turn' \in [Messages -> Phases]
      BY <1>2, <3>1 DEF Dispatch, AmbientCancelled, Phases
    <3> QED BY <1>2, <3>1, <3>2, DispatchMoves DEF Dispatch
  <2>2. CASE \E t \in Tokens : Exit(t) BY <1>2, <2>2, ExitMoves
  <2>3. CASE BeginStop \/ EndStop \/ Restart BY <1>2, <2>3, EngineMoves
  <2> QED BY <2>1, <2>2, <2>3 DEF Shared
<1> QED BY <1>1, <1>3 DEF SharedMoved, SchedTypeOK, Consumers

LEMMA OwnStepTypes ==
  ASSUME SchedBase, NEW t \in Tokens, OwnStep(t)
  PROVE  SchedTypeOK'
<1>1. InboxTypeOK' BY OwnStepInbox
<1>2. Moved(t) /\ Turned(t) BY OwnStepMoves, OwnStepTurns
<1>3. /\ turn \in [Messages -> Phases] /\ history \subseteq Messages
      /\ engine \in {"up", "stopping", "down", "up again"}
      /\ cons \in [Tokens -> Consumers]
  BY ConsTyped DEF SchedBase, SchedTypeOK
<1>4. cons' \in [Tokens -> Consumers] BY <1>2, <1>3 DEF Moved
<1>5. turn' \in [Messages -> Phases] BY <1>2, <1>3 DEF Turned
<1>6. history' \subseteq Messages BY <1>2, <1>3 DEF Turned
<1> QED BY <1>1, <1>2, <1>3, <1>4, <1>5, <1>6 DEF Moved, SchedTypeOK, Consumers

LEMMA StepKinds ==
  ASSUME SchedNext
  PROVE  Shared \/ \E t \in Tokens : OwnStep(t)
BY DEF SchedNext, ConsumerStep, OwnStep, Shared

LEMMA SchedBaseInit ==
  ASSUME SchedInit
  PROVE  SchedBase
<1>1. InboxTypeOK BY InboxInitType DEF SchedInit
<1>2. Fresh("off") \in Consumers BY FreshTyped, Places
<1>3. cons \in [Tokens -> Consumers] /\ \A t \in Tokens : cons[t].pc = "off"
  BY <1>2 DEF SchedInit
<1> QED BY <1>1, <1>3
        DEF SchedInit, InboxInit, SchedBase, SchedTypeOK, TokensInv, Named, Serving,
            Working, Phases, Consumers, NoOwner

LEMMA SchedBaseNext ==
  ASSUME SchedBase, [SchedNext]_schedVars
  PROVE  SchedBase'
<1>0. running \in Tokens \cup {NoOwner} /\ nextToken \in 0 .. MaxToken
  BY DEF SchedBase, SchedTypeOK, InboxTypeOK
<1>1. CASE \E t \in Tokens : OwnStep(t)
  <2>1. PICK t \in Tokens : OwnStep(t) BY <1>1
  <2>2. Moved(t) /\ SchedTypeOK' BY <2>1, OwnStepMoves, OwnStepTypes
  <2>3. cons \in [Tokens -> Consumers] BY ConsTyped DEF SchedBase
  <2>4. \A u \in Tokens : u # t => cons'[u] = cons[u] BY <2>2, <2>3 DEF Moved
  <2>5. t <= nextToken BY <1>0, <2>2 DEF SchedBase, TokensInv, Moved, Tokens
  <2>6. TokensInv'
    BY <1>0, <2>2, <2>4, <2>5 DEF SchedBase, TokensInv, Moved, NoOwner, Tokens
  <2>7. cons'[t].pc \in Serving => cons'[t].first \in Messages
    <3>1. inbox # <<>> => Head(inbox) \in Messages
      BY HeadTailProperties DEF SchedBase, SchedTypeOK, InboxTypeOK
    <3> QED BY <2>2, <3>1 DEF Moved, SchedBase, Named
  <2>8. Named' BY <2>4, <2>7 DEF SchedBase, Named
  <2> QED BY <2>2, <2>6, <2>8 DEF SchedBase
<1>2. CASE Shared
  <2>1. SharedMoved /\ SchedTypeOK' BY <1>2, SharedTypes
  <2>3. TokensInv'
    BY <1>0, <2>1 DEF SharedMoved, Issued, SchedBase, TokensInv, Tokens, NoOwner
  <2>4. Named' BY <2>1 DEF SharedMoved, Issued, SchedBase, Named, Serving, Working
  <2> QED BY <2>1, <2>3, <2>4 DEF SchedBase
<1>3. CASE UNCHANGED schedVars
  BY <1>3 DEF SchedBase, SchedTypeOK, InboxTypeOK, TokensInv, Named
<1> QED BY <1>1, <1>2, <1>3, StepKinds

\* Every consumer, turn, lease and count is of its kind, tokens are issued in order,
\* and who serves a message knows which: in all states, whatever stops or fails.
THEOREM SchedTypeCorrect == SchedSpec => []SchedTypeOK
<1>1. SchedInit => SchedBase BY SchedBaseInit
<1>2. SchedBase /\ [SchedNext]_schedVars => SchedBase' BY SchedBaseNext
<1>3. SchedBase => SchedTypeOK BY DEF SchedBase
<1> QED BY <1>1, <1>2, <1>3, PTL DEF SchedSpec

\* A consumer that lost the slot to the stop's deadline changes neither the queue nor
\* the state of a message when it goes on: whatever happens, in every step.
THEOREM StaleIsInert == SchedSpec => [][Inert]_schedVars
<1> DEFINE Places4 == {"claim", "commit", "settle", "requeue"}
<1>1. ASSUME SchedBase, [SchedNext]_schedVars, NEW t \in Tokens,
             running # t, cons[t].pc \in Places4, cons'[t] # cons[t]
      PROVE  UNCHANGED <<inbox, mstate>>
  <2>0. cons \in [Tokens -> Consumers] /\ nextToken \in 0 .. MaxToken
    BY <1>1, ConsTyped DEF SchedBase, SchedTypeOK, InboxTypeOK
  <2>1. CASE \E u \in Tokens : OwnStep(u)
    <3>1. PICK u \in Tokens : OwnStep(u) BY <2>1
    <3>2. Moved(u) BY <1>1, <3>1, OwnStepMoves
    <3>3. u = t BY <1>1, <2>0, <3>2 DEF Moved
    <3>4. ~Launch(t) /\ ~LaunchFails(t) /\ ~CancelDrain(t) /\ ~Run(t) /\ ~Steer(t)
      BY <1>1 DEF Launch, LaunchFails, CancelDrain, Run, BeginTurn, BeginRefused,
         RefreshFails, Admit, Expire, RunEnds, RunFails, Steer, DrainClaim, DrainOne,
         DrainFails
    <3>5. ~WaitingLoop(t) /\ ~EndTurn(t)
      BY <1>1 DEF WaitingLoop, PlanWait, PlanDone, Wake, WaitTimesOut, WokenClaims,
         WokenFindsNothing, CommitSteer, CommitSteerStale, EndTurn, CommitItem, Finish,
         Finalize, FinalizeRefused
    <3>6. ~Select(t)
      BY <1>1 DEF Select, Peek, Collect, ClaimHead, ClaimNext, ClaimStaleHead, Idle
    <3>7. CASE Cancel(t) BY <3>7 DEF Cancel
    <3>8. CASE Recover(t)
      BY <1>1, <3>8 DEF Recover, ReadTurn, SwapTurn, SettleCommit, SettleRaises,
         SettleRest, Requeue, RequeueAs, SettleDone
    <3> QED BY <3>1, <3>3, <3>4, <3>5, <3>6, <3>7, <3>8 DEF OwnStep
  <2>2. CASE Shared
    <3>1. ~Issued(t)
      BY <1>1, <2>0 DEF Issued, SchedBase, TokensInv, Tokens
    <3>2. ~(\E m \in Messages : Dispatch(m)) BY <1>1, <3>1, DispatchMoves
    <3>3. ~(\E u \in Tokens : Exit(u)) BY <1>1, <3>1, ExitMoves
    <3>4. CASE BeginStop \/ Restart BY <3>4 DEF BeginStop, Restart, ClaimExisting
    <3>5. CASE EndStop BY <3>5 DEF EndStop, CleanupAll
    <3> QED BY <2>2, <3>2, <3>3, <3>4, <3>5 DEF Shared
  <2>3. CASE UNCHANGED schedVars BY <2>3
  <2> QED BY <1>1, <2>1, <2>2, <2>3, StepKinds
<1>2. SchedBase /\ [SchedNext]_schedVars => [Inert]_schedVars
  BY <1>1 DEF Inert
<1>3. SchedInit => SchedBase BY SchedBaseInit
<1>4. SchedBase /\ [SchedNext]_schedVars => SchedBase' BY SchedBaseNext
<1> QED BY <1>2, <1>3, <1>4, PTL DEF SchedSpec

(***************************************************************************)
(* What is so of every message, whatever fails, stops or is forgotten.     *)
(***************************************************************************)
\* A message is held in one place at most, and only while it is accepted.  The
\* converse, that an accepted message is held, is what a failure can break.
OnceInv == SchedBase /\ HeldOnce

\* What a step keeps of it, and how it moves the fates of the messages.
KeepsOnce == NoDuplicate' /\ HeldAreAccepted' /\ [Fate!FateNext]_mstate

LEMMA OnceSame ==
  ASSUME OnceInv, UNCHANGED <<inbox, lease, mstate>>
  PROVE  KeepsOnce
<1>1. Distinct(inbox') /\ ItemsOf(inbox') \subseteq ItemsOf(inbox)
  BY DEF OnceInv, HeldOnce, NoDuplicate
<1>2. NoDuplicate' /\ HeldAreAccepted' BY <1>1, ForgetOnce DEF OnceInv
<1> QED BY <1>2 DEF KeepsOnce

LEMMA OnceDropped ==
  ASSUME OnceInv, NEW t \in Tokens, DropLeases(t), mstate' = mstate,
         Distinct(inbox'), ItemsOf(inbox') \subseteq ItemsOf(inbox)
  PROVE  KeepsOnce
<1>1. \A s \in Slots : lease'[s] = lease[s] \/ ~lease'[s].active
  BY DEF DropLeases, NoLease
<1>2. NoDuplicate' /\ HeldAreAccepted' BY <1>1, ForgetOnce DEF OnceInv
<1> QED BY <1>2 DEF KeepsOnce

LEMMA OnceEnded ==
  ASSUME OnceInv, NEW t \in Tokens, lease' = lease \/ DropLeases(t),
         UNCHANGED <<inbox, mstate>>
  PROVE  KeepsOnce
<1>1. Distinct(inbox') /\ ItemsOf(inbox') \subseteq ItemsOf(inbox)
  BY DEF OnceInv, HeldOnce, NoDuplicate
<1> QED BY <1>1, OnceSame, OnceDropped

LEMMA OnceSettled ==
  ASSUME OnceInv, NEW s \in Slots, Commit(s) \/ Fail(s)
  PROVE  KeepsOnce
<1>1. PICK how \in {"admitted", "failed"} : Settle(s, how) BY DEF Commit, Fail
<1>2. how \in MessageStates \ {"accepted"} BY DEF MessageStates
<1>3. NoDuplicate' /\ HeldAreAccepted' BY <1>1, <1>2, SettleOnce DEF OnceInv
<1>4. Fate!FateNext BY <1>1, FateSettle DEF OnceInv
<1> QED BY <1>3, <1>4 DEF KeepsOnce

LEMMA OnceReturned ==
  ASSUME OnceInv, NEW s \in Slots, RequeueFront(s)
  PROVE  KeepsOnce
BY RequeueOnce DEF OnceInv, KeepsOnce

LEMMA OnceClaimed ==
  ASSUME OnceInv, NEW s \in Slots,
         \/ \E t \in Tokens : ClaimNext(s, t)
         \/ \E skip \in {0, 1}, n \in Nat \ {0} : \E like, Allowed :
              ClaimSteer(s, skip, n, like, Allowed)
  PROVE  KeepsOnce
<1>1. HeldOnce /\ InboxTypeOK BY DEF OnceInv, HeldOnce
<1>2. CASE \E t \in Tokens : ClaimNext(s, t)
  BY <1>1, <1>2, ClaimOnce DEF KeepsOnce
<1>3. CASE \E skip \in {0, 1}, n \in Nat \ {0} : \E like, Allowed :
             ClaimSteer(s, skip, n, like, Allowed)
  <2>0. PICK skip \in {0, 1}, n \in Nat \ {0} : \E like, Allowed :
               ClaimSteer(s, skip, n, like, Allowed)
    BY <1>3
  <2>1. PICK like, Allowed : ClaimSteer(s, skip, n, like, Allowed) BY <2>0
  <2>2. /\ n \in 1 .. Len(inbox) /\ skip + n <= Len(inbox)
        /\ ClaimSteer(s, skip, n, inbox[skip + 1], Messages)
    BY <1>1, <2>1, SteerTakes
  <2> QED BY <1>1, <2>2, ClaimOnce DEF KeepsOnce
<1> QED BY <1>2, <1>3

LEMMA SelectOnce ==
  ASSUME OnceInv, NEW t \in Tokens, Launch(t) \/ Select(t) \/ LaunchFails(t)
  PROVE  KeepsOnce
<1>s. \A kind \in LeaseKinds : <<t, kind>> \in Slots BY SchedulerAssumption
<1>1. CASE Launch(t) \/ Peek(t) \/ LaunchFails(t) \/ Idle(t)
  BY <1>1, OnceSame DEF Launch, Peek, LaunchFails, Idle, ReleaseIfIdle
<1>2. CASE Collect(t)
  <2>1. <<t, "follow">> \in Slots BY <1>s DEF LeaseKinds
  <2>2. CASE HasFollowup(t)
    <3>1. PICK n \in 1 .. MaxCollect - 1 :
            ClaimSteer(<<t, "follow">>, 1, n, cons[t].first, Messages)
      BY <1>2, <2>2 DEF Collect
    <3>2. n \in Nat \ {0} BY SchedulerAssumption
    <3> QED BY <2>1, <3>1, <3>2, OnceClaimed
  <2>3. CASE ~HasFollowup(t) BY <1>2, <2>3, OnceSame DEF Collect
  <2> QED BY <2>2, <2>3
<1>3. CASE ClaimHead(t)
  BY <1>s, <1>3, OnceClaimed DEF ClaimHead, LeaseKinds
<1>4. CASE ClaimStaleHead(t)
  <2>1. /\ inbox # <<>> /\ inbox' = Tail(inbox)
        /\ DropLeases(t) /\ mstate' = mstate
    BY <1>4 DEF ClaimStaleHead
  <2>2. inbox \in Seq(Messages) /\ Distinct(inbox)
    BY DEF OnceInv, HeldOnce, InboxTypeOK, NoDuplicate
  <2>3. Len(inbox) \in Nat /\ 1 <= Len(inbox)
    BY <2>1, <2>2, LenProperties, EmptySeq
  <2>4. inbox' = Cut(inbox, 0, 1) BY <2>1, <2>2, TailIsCut
  <2>5. /\ ItemsOf(Cut(inbox, 0, 1)) \subseteq ItemsOf(inbox)
        /\ Distinct(Cut(inbox, 0, 1))
    BY <2>2, <2>3, CutItems
  <2> QED BY <2>1, <2>4, <2>5, OnceDropped
<1> QED BY <1>1, <1>2, <1>3, <1>4 DEF Select

LEMMA WorkOnce ==
  ASSUME OnceInv, NEW t \in Tokens,
         Run(t) \/ Steer(t) \/ WaitingLoop(t) \/ Cancel(t) \/ CancelDrain(t)
  PROVE  KeepsOnce
<1>s. \A kind \in LeaseKinds : <<t, kind>> \in Slots BY SchedulerAssumption
<1> USE DEF LeaseKinds
<1>1. CASE Run(t) \/ Cancel(t)
  BY <1>1, OnceSame
     DEF Run, BeginTurn, BeginRefused, RefreshFails, Admit, Expire, RunEnds,
         RunFails, Cancel
<1>2. CASE \E kind \in LeaseKinds : ClaimPrefix(t, kind)
  <2>1. PICK kind \in LeaseKinds, n \in 1 .. Len(inbox) :
          ClaimSteer(<<t, kind>>, 0, n, cons[t].first, SameSender(t))
    BY <1>2 DEF ClaimPrefix, SteerablePrefix
  <2>2. Len(inbox) \in Nat
    BY LenProperties DEF OnceInv, HeldOnce, InboxTypeOK
  <2>3. n \in Nat \ {0} BY <2>2
  <2> QED BY <1>s, <2>1, <2>3, OnceClaimed
<1>3. CASE \E kind \in LeaseKinds : Commit(<<t, kind>>)
  BY <1>s, <1>3, OnceSettled
<1>4. CASE \E kind \in LeaseKinds : RequeueFront(<<t, kind>>)
  BY <1>s, <1>4, OnceReturned
<1>5. CASE WaitTimesOut(t)
  <2>1. /\ lease' = lease \/ lease' = [lease EXCEPT ![<<t, "wait">>] = NoLease]
        /\ UNCHANGED <<inbox, mstate>>
    BY <1>5 DEF WaitTimesOut
  <2>2. lease \in [Slots -> Leases] BY DEF OnceInv, HeldOnce, InboxTypeOK
  <2>3. \A s \in Slots : lease'[s] = lease[s] \/ ~lease'[s].active
    BY <2>1, <2>2 DEF NoLease
  <2>4. Distinct(inbox') /\ ItemsOf(inbox') \subseteq ItemsOf(inbox)
    BY <2>1 DEF OnceInv, HeldOnce, NoDuplicate
  <2>5. NoDuplicate' /\ HeldAreAccepted'
    BY <2>1, <2>3, <2>4, ForgetOnce DEF OnceInv
  <2> QED BY <2>1, <2>5 DEF KeepsOnce
<1>6. CASE PlanWait(t) \/ PlanDone(t) \/ Wake(t) \/ WokenFindsNothing(t)
           \/ CommitSteerStale(t)
  BY <1>6, OnceSame
     DEF PlanWait, PlanDone, Wake, WokenFindsNothing, CommitSteerStale
<1>7. CASE Steer(t) \/ CancelDrain(t)
  BY <1>2, <1>3, <1>4, <1>7 DEF Steer, DrainClaim, DrainOne, DrainFails, CancelDrain
<1>8. CASE WaitingLoop(t)
  BY <1>2, <1>3, <1>5, <1>6, <1>8 DEF WaitingLoop, WokenClaims, CommitSteer
<1> QED BY <1>1, <1>7, <1>8

\* What two leases owe together.
LEMMA RestsOnce ==
  ASSUME HeldOnce, NEW h \in Slots, NEW f \in Slots, h # f
  PROVE  LET rest == Rest(lease[h]) \o Rest(lease[f]) IN
         /\ rest \in Seq(Messages) /\ Len(rest) \in Nat /\ Distinct(rest)
         /\ ItemsOf(rest) = LeasedItems(h) \cup LeasedItems(f)
         /\ ItemsOf(rest) \cap ItemsOf(inbox) = {}
<1> DEFINE a == Rest(lease[h])
           b == Rest(lease[f])
           rest == a \o b
<1>1. lease[h] \in Leases /\ lease[f] \in Leases /\ NoDuplicate
  BY DEF HeldOnce, InboxTypeOK
<1>2. \A l \in Leases : Rest(l) \in Seq(Messages)
  BY UncommittedType, EmptySeq DEF Rest
<1>3. ItemsOf(<<>>) = {} /\ Distinct(<<>>) BY DEF ItemsOf, Distinct
<1>4. \A s \in Slots : ItemsOf(Rest(lease[s])) = LeasedItems(s)
  BY <1>3 DEF Rest, LeasedItems
<1>5. \A s \in Slots : Distinct(Rest(lease[s]))
  BY <1>1, <1>3, UncommittedItems DEF Rest, NoDuplicate, HeldOnce, InboxTypeOK
<1>6. a \in Seq(Messages) /\ b \in Seq(Messages) BY <1>1, <1>2
<1>7. /\ ItemsOf(a) = LeasedItems(h) /\ ItemsOf(b) = LeasedItems(f)
      /\ Distinct(a) /\ Distinct(b)
  BY <1>4, <1>5
<1> HIDE DEF a, b
<1>8. rest \in Seq(Messages) /\ Len(rest) \in Nat
  BY <1>6, ConcatProperties, LenProperties
<1>9. ItemsOf(rest) = LeasedItems(h) \cup LeasedItems(f) /\ Distinct(rest)
  BY <1>1, <1>6, <1>7, ConcatItems DEF NoDuplicate
<1>10. ItemsOf(rest) \cap ItemsOf(inbox) = {} BY <1>1, <1>9 DEF NoDuplicate
<1> QED BY <1>8, <1>9, <1>10 DEF a, b

\* They come back to the queue's front when both leases end.
LEMMA RequeuedOnce ==
  ASSUME HeldOnce, NEW h \in Slots, NEW f \in Slots, h # f,
         inbox' = (Rest(lease[h]) \o Rest(lease[f])) \o inbox, mstate' = mstate,
         ~lease'[h].active, ~lease'[f].active,
         \A s \in Slots \ {h, f} : lease'[s] = lease[s] \/ ~lease'[s].active
  PROVE  NoDuplicate' /\ HeldAreAccepted'
<1> DEFINE rest == Rest(lease[h]) \o Rest(lease[f])
<1>1. /\ rest \in Seq(Messages) /\ Distinct(rest)
      /\ ItemsOf(rest) = LeasedItems(h) \cup LeasedItems(f)
      /\ ItemsOf(rest) \cap ItemsOf(inbox) = {}
  BY RestsOnce
<1>2. inbox' = rest \o inbox OBVIOUS
<1> HIDE DEF rest
<1>3. inbox \in Seq(Messages) /\ Distinct(inbox)
  BY DEF HeldOnce, InboxTypeOK, NoDuplicate
<1>4. ItemsOf(inbox') = ItemsOf(rest) \cup ItemsOf(inbox) /\ Distinct(inbox')
  BY <1>1, <1>2, <1>3, ConcatItems
<1>5. /\ LeasedItems(h)' = {} /\ LeasedItems(f)' = {}
      /\ \A s \in Slots \ {h, f} : LeasedItems(s)' \subseteq LeasedItems(s)
      /\ \A s \in Slots : lease'[s].active => lease'[s] = lease[s]
  BY DEF LeasedItems
<1>6. NoDuplicate'
  <2>1. \A s \in Slots : LeasedItems(s)' \cap ItemsOf(inbox') = {}
    BY <1>1, <1>4, <1>5 DEF HeldOnce, NoDuplicate
  <2>2. \A s, r \in Slots : s # r => LeasedItems(s)' \cap LeasedItems(r)' = {}
    BY <1>5 DEF HeldOnce, NoDuplicate
  <2>3. \A s \in Slots : lease'[s].active => Distinct(lease'[s].items)
    BY <1>5 DEF HeldOnce, NoDuplicate
  <2> QED BY <1>4, <2>1, <2>2, <2>3 DEF NoDuplicate
<1>7. HeldAreAccepted'
  <2>1. \A m : m \in ItemsOf(inbox') \/ (\E s \in Slots : m \in LeasedItems(s)')
               => m \in ItemsOf(inbox) \/ \E s \in Slots : m \in LeasedItems(s)
    BY <1>1, <1>4, <1>5
  <2> QED BY <2>1 DEF HeldOnce, HeldAreAccepted
<1> QED BY <1>6, <1>7

LEMMA EndOnce ==
  ASSUME OnceInv, NEW t \in Tokens, EndTurn(t) \/ Recover(t)
  PROVE  KeepsOnce
<1>s. \A kind \in LeaseKinds : <<t, kind>> \in Slots BY SchedulerAssumption
<1> USE DEF LeaseKinds
<1>1. CASE \E kind \in LeaseKinds : Commit(<<t, kind>>) \/ Fail(<<t, kind>>)
  BY <1>s, <1>1, OnceSettled
<1>2. CASE CommitItem(t) BY <1>1, <1>2 DEF CommitItem
<1>3. CASE Finish(t) \/ Finalize(t) \/ SettleDone(t)
  BY <1>3, OnceEnded DEF Finish, Finalize, SettleDone
<1>4. CASE FinalizeRefused(t) \/ ReadTurn(t) \/ SwapTurn(t) \/ SettleRaises(t)
  BY <1>4, OnceSame DEF FinalizeRefused, ReadTurn, SwapTurn, SettleRaises
<1>5. \A m : \E kind \in LeaseKinds : SlotOf(t, m) = <<t, kind>>
  BY DEF SlotOf
<1>6. CASE SettleCommit(t) BY <1>1, <1>5, <1>6 DEF SettleCommit
<1>7. CASE SettleRest(t)
  <2>1. CASE UNCHANGED inboxVars BY <2>1, OnceSame
  <2> QED BY <1>1, <1>5, <1>7, <2>1 DEF SettleRest
<1>8. CASE Requeue(t)
  <2> DEFINE h == <<t, "head">>
             f == <<t, "follow">>
  <2>1. h \in Slots /\ f \in Slots /\ h # f BY <1>s
  <2>2. /\ lease' = [s \in Slots |-> IF s \in SlotsOf(t) THEN NoLease ELSE lease[s]]
        /\ mstate' = mstate
        /\ IF running = t THEN inbox' = WorkRest(t) \o inbox ELSE inbox' = inbox
    BY <1>8 DEF Requeue, RequeueAs
  <2>3. \A s \in Slots : lease'[s] = lease[s] \/ ~lease'[s].active
    BY <2>2 DEF NoLease
  <2>4. ~lease'[h].active /\ ~lease'[f].active
    BY <2>1, <2>2 DEF SlotsOf, NoLease
  <2>5. WorkRest(t) = Rest(lease[h]) \o Rest(lease[f])
    BY DEF WorkRest, HeadLease, FollowLease
  <2>6. CASE running = t
    <3> HIDE DEF h, f
    <3>1. NoDuplicate' /\ HeldAreAccepted'
      BY <2>1, <2>2, <2>3, <2>4, <2>5, <2>6, RequeuedOnce DEF OnceInv
    <3> QED BY <2>2, <3>1 DEF KeepsOnce
  <2>7. CASE running # t
    <3>1. Distinct(inbox') /\ ItemsOf(inbox') \subseteq ItemsOf(inbox)
      BY <2>2, <2>7 DEF OnceInv, HeldOnce, NoDuplicate
    <3>2. NoDuplicate' /\ HeldAreAccepted'
      BY <2>2, <2>3, <3>1, ForgetOnce DEF OnceInv
    <3> QED BY <2>2, <3>2 DEF KeepsOnce
  <2> QED BY <2>6, <2>7
<1> QED BY <1>2, <1>3, <1>4, <1>6, <1>7, <1>8 DEF EndTurn, Recover

LEMMA SharedOnce ==
  ASSUME OnceInv, Shared
  PROVE  KeepsOnce
<1>1. CASE \E m \in Messages : Dispatch(m)
  <2>1. PICK m \in Messages : Enqueue(m) /\ Dispatchable(m)
    BY <1>1 DEF Dispatch, Arrives, Dispatchable
  <2>2. NoDuplicate' /\ HeldAreAccepted' BY <2>1, EnqueueOnce DEF OnceInv
  <2>3. Fate!FateNext BY <2>1, FateEnqueue DEF OnceInv
  <2> QED BY <2>2, <2>3 DEF KeepsOnce
<1>2. CASE \E t \in Tokens : Exit(t) BY <1>2, OnceEnded DEF Exit
<1>3. CASE BeginStop \/ EndStop \/ Restart
  BY <1>3, OnceSame DEF BeginStop, EndStop, CleanupAll, Restart, ClaimExisting
<1> QED BY <1>1, <1>2, <1>3 DEF Shared

LEMMA OnceStep ==
  ASSUME OnceInv, [SchedNext]_schedVars
  PROVE  OnceInv' /\ [Fate!FateNext]_mstate
<1>1. SchedBase' BY SchedBaseNext DEF OnceInv
<1>2. KeepsOnce
  <2>1. CASE UNCHANGED schedVars BY <2>1, OnceSame
  <2>2. CASE Shared BY <2>2, SharedOnce
  <2>3. CASE \E t \in Tokens : OwnStep(t)
    BY <2>3, SelectOnce, WorkOnce, EndOnce DEF OwnStep
  <2> QED BY <2>1, <2>2, <2>3, StepKinds
<1> QED BY <1>1, <1>2 DEF KeepsOnce, OnceInv, HeldOnce, SchedBase, SchedTypeOK

LEMMA OnceInit ==
  ASSUME SchedInit
  PROVE  OnceInv
<1>1. InboxInv BY InboxInvInit DEF SchedInit
<1>2. HeldOnce BY <1>1, Halves
<1> QED BY <1>2, SchedBaseInit DEF OnceInv

\* However runs fail, consumers stop and restart, and claims, steering and requeues
\* interleave, no message is held in two places: no consumer answers it twice.
THEOREM NoneTwice == SchedSpec => []NoDuplicate
<1>1. OnceInv => NoDuplicate BY DEF OnceInv, HeldOnce
<1>2. OnceInv /\ [SchedNext]_schedVars => OnceInv' BY OnceStep
<1> QED BY <1>1, <1>2, OnceInit, PTL DEF SchedSpec

\* The consumers, with their shortcuts and forgotten leases, still keep the inbox's
\* promise: a message is settled once, for good if it is admitted, and is given up
\* after its acceptance only if it is ambient.
THEOREM ConsumersKeepFate == SchedSpec => FateOfMessages
<1>1. SchedInit => Fate!FateInit
  BY DEF SchedInit, InboxInit, Fate!FateInit
<1>2. OnceInv /\ [SchedNext]_schedVars => OnceInv' BY OnceStep
<1>3. OnceInv /\ [SchedNext]_schedVars => [Fate!FateNext]_mstate BY OnceStep
<1> QED BY <1>1, <1>2, <1>3, OnceInit, PTL
        DEF SchedSpec, FateOfMessages, Fate!FateSpec

\* A consumer that lost its slot, to an exit or to the stop's deadline, is never the
\* owner again: its token is not issued a second time.
THEOREM SlotStaysLost == SchedSpec => LostSlotStaysLost
<1> DEFINE Lost == \A t \in Tokens :
                     t <= nextToken /\ running # t => running' # t
<1>1. ASSUME SchedBase, [SchedNext]_schedVars
      PROVE  running' \in {running, NoOwner, nextToken + 1}
  <2>1. CASE \E t \in Tokens : OwnStep(t) BY <1>1, <2>1, OwnStepMoves DEF Moved
  <2>2. CASE Shared BY <1>1, <2>2, SharedInbox DEF Shared
  <2> QED BY <1>1, <2>1, <2>2, StepKinds
<1>2. SchedBase /\ [SchedNext]_schedVars => [Lost]_inboxVars
  <2>1. ASSUME SchedBase, [SchedNext]_schedVars PROVE Lost
    <3>0. InboxTypeOK BY <2>1 DEF SchedBase, SchedTypeOK
    <3>1. nextToken \in Nat /\ running' \in {running, NoOwner, nextToken + 1}
      BY <1>1, <2>1, <3>0 DEF InboxTypeOK
    <3> QED BY <3>1 DEF Tokens, NoOwner
  <2> QED BY <2>1
<1>3. SchedBase /\ [SchedNext]_schedVars => SchedBase' BY SchedBaseNext
<1> QED BY <1>2, <1>3, SchedBaseInit, PTL DEF SchedSpec, LostSlotStaysLost

(***************************************************************************)
(* With an orderly stop, who serves owns the slot.                         *)
(***************************************************************************)
ServesOwned == \A t \in Tokens : cons[t].pc \in Serving => running = t

OwnerInv == SchedBase /\ ServesOwned

\* The stop that waits for the consumers changes none of them.
LEMMA StopMoves ==
  ASSUME SchedBase, OrderlyStop, EndStop
  PROVE  /\ cons' = cons /\ running' = NoOwner /\ engine' = "down"
         /\ \A t \in Tokens : cons[t].pc \in {"off", "launch"}
<1>1. \A t \in Tokens : cons[t].pc \in {"off", "launch"} BY DEF EndStop
<1>2. cons \in [Tokens -> Consumers] BY ConsTyped DEF SchedBase
<1>3. cons' = [t \in Tokens |-> cons[t]] BY <1>1 DEF EndStop
<1> QED BY <1>1, <1>2, <1>3 DEF EndStop, CleanupAll

LEMMA OwnerInvInit ==
  ASSUME SchedInit
  PROVE  OwnerInv
BY SchedBaseInit DEF SchedInit, OwnerInv, ServesOwned, Serving, Working

LEMMA OwnerInvNext ==
  ASSUME OwnerInv, OrderlyStop, [SchedNext]_schedVars
  PROVE  OwnerInv'
<1>0. SchedBase /\ SchedBase' BY SchedBaseNext DEF OwnerInv
<1>1. CASE \E t \in Tokens : OwnStep(t)
  <2>1. PICK t \in Tokens : OwnStep(t) BY <1>1
  <2>2. Moved(t) BY <1>0, <2>1, OwnStepMoves
  <2>3. cons \in [Tokens -> Consumers] BY <1>0, ConsTyped DEF SchedBase
  <2>4. \A u \in Tokens : u # t => cons'[u] = cons[u] BY <2>2, <2>3 DEF Moved
  <2>5. \A u \in Tokens : cons'[u].pc \in Serving => running = u
    BY <2>2, <2>4 DEF OwnerInv, ServesOwned, Moved
  <2>6. running' = running \/ (running = t /\ cons'[t].pc = "off")
    BY <2>2 DEF Moved
  <2> QED BY <1>0, <2>5, <2>6 DEF OwnerInv, ServesOwned, Serving, Working
<1>2. CASE \E m \in Messages : Dispatch(m)
  <2>1. PICK m \in Messages : Dispatch(m) BY <1>2
  <2>2. \A u \in Tokens : u # NoOwner BY DEF Tokens, NoOwner
  <2> QED BY <1>0, <2>1, <2>2, DispatchMoves DEF OwnerInv, ServesOwned, Serving, Working
<1>3. CASE \E t \in Tokens : Exit(t)
  <2>1. PICK t \in Tokens : Exit(t) BY <1>3
  <2>2. \A u \in Tokens : cons'[u].pc \in Serving =>
          u # t /\ cons'[u] = cons[u]
    BY <1>0, <2>1, ExitMoves DEF Serving, Working
  <2> QED BY <1>0, <2>1, <2>2, ExitMoves DEF OwnerInv, ServesOwned
<1>4. CASE BeginStop BY <1>0, <1>4 DEF BeginStop, OwnerInv, ServesOwned
<1>5. CASE EndStop
  BY <1>0, <1>5, StopMoves DEF OwnerInv, ServesOwned, Serving, Working
<1>6. CASE Restart
  <2>1. CASE UNCHANGED <<inboxVars, cons>> BY <1>0, <2>1 DEF OwnerInv, ServesOwned
  <2>2. CASE ClaimExisting
    <3>1. \A u \in Tokens : cons'[u].pc \in Serving => cons[u].pc \in Serving
      BY <1>0, <1>6, EngineMoves DEF SharedMoved, Serving, Working
    <3>2. \A u \in Tokens : u # NoOwner BY DEF Tokens, NoOwner
    <3> QED BY <1>0, <2>2, <3>1, <3>2 DEF OwnerInv, ServesOwned, ClaimExisting
  <2> QED BY <1>6, <2>1, <2>2 DEF Restart
<1>7. CASE UNCHANGED schedVars BY <1>0, <1>7 DEF OwnerInv, ServesOwned
<1> QED BY <1>1, <1>2, <1>3, <1>4, <1>5, <1>6, <1>7, StepKinds DEF Shared

LEMMA OwnersAreOne ==
  ASSUME OwnerInv
  PROVE  OneWorker
BY DEF OwnerInv, ServesOwned, OneWorker, Serving

\* The owner of the slot is alive, and a queue has an owner, but for the time in which
\* the engine stops; while it is down a queue may wait for the restart.
Attended ==
  engine # "stopping" =>
    /\ running # NoOwner => cons[running].pc # "off"
    /\ inbox # <<>> /\ engine # "down" => running # NoOwner

LEMMA AttendedNext ==
  ASSUME OwnerInv, OrderlyStop, "recover" \notin Features, Attended,
         [SchedNext]_schedVars
  PROVE  Attended'
<1>0. SchedBase BY DEF OwnerInv
<1>0a. /\ cons \in [Tokens -> Consumers] /\ nextToken \in 0 .. MaxToken
       /\ running \in Tokens \cup {NoOwner}
  BY <1>0, ConsTyped DEF SchedBase, SchedTypeOK, InboxTypeOK
<1>0b. \A u \in Tokens : u # NoOwner BY DEF Tokens, NoOwner
<1>1. CASE \E t \in Tokens : OwnStep(t)
  <2>1. PICK t \in Tokens : OwnStep(t) BY <1>1
  <2>2. Moved(t) BY <1>0, <2>1, OwnStepMoves
  <2>3. \A u \in Tokens : u # t => cons'[u] = cons[u] BY <1>0a, <2>2 DEF Moved
  <2>4. cons[t].pc \in Working => running = t
    BY DEF OwnerInv, ServesOwned, Serving
  <2>5. ASSUME engine' # "stopping", running' # NoOwner PROVE cons'[running'].pc # "off"
    BY <1>0a, <1>0b, <2>2, <2>3, <2>5 DEF Moved, Attended
  <2>6. ASSUME engine' # "stopping", inbox' # <<>>, engine' # "down"
        PROVE  running' # NoOwner
    BY <1>0b, <2>2, <2>4, <2>6 DEF Moved, Attended
  <2> QED BY <2>5, <2>6 DEF Attended
<1>2. CASE \E m \in Messages : Dispatch(m)
  <2>1. PICK m \in Messages : Dispatch(m) BY <1>2
  <2>2. CASE nextToken' = nextToken
    <3>1. cons' = cons /\ running' = running /\ engine' = engine
      BY <1>0, <2>1, <2>2, DispatchMoves
    <3>2. running' # NoOwner \/ inbox' = inbox
      BY <1>0a, <2>1, <2>2
         DEF Dispatch, Enqueue, EnqueueRoom, EnqueueDropping, EnqueueRefused, TakeSlotIfFree
    <3> QED BY <3>1, <3>2 DEF Attended
  <2>3. CASE nextToken' # nextToken
    <3>1. PICK u \in Tokens : Issued(u) /\ running' = u
      BY <1>0, <2>1, <2>3, DispatchMoves DEF SharedMoved
    <3>2. cons'[u].pc = "launch" BY <1>0, <2>1, <3>1, DispatchMoves
    <3> QED BY <1>0b, <3>1, <3>2 DEF Attended
  <2> QED BY <2>2, <2>3
<1>3. CASE \E t \in Tokens : Exit(t)
  <2>1. PICK t \in Tokens : Exit(t) BY <1>3
  <2>2. engine' = engine /\ inbox' = inbox BY <1>0, <2>1, ExitMoves
  <2>3. CASE \E u \in Tokens : Issued(u)
    <3>1. PICK u \in Tokens : Issued(u) BY <2>3
    <3>2. cons'[u].pc = "start" /\ SharedMoved BY <1>0, <2>1, <3>1, ExitMoves
    <3>3. nextToken' # nextToken BY <1>0a, <3>1 DEF Issued
    <3>4. running' = u BY <3>1, <3>2, <3>3 DEF SharedMoved, Issued
    <3> QED BY <1>0b, <3>1, <3>2, <3>4 DEF Attended
  <2>4. CASE ~(\E u \in Tokens : Issued(u))
    <3>1. CASE running = t
      <4>1. inbox = <<>> /\ running' = NoOwner BY <1>0, <2>1, <2>4, <3>1, ExitMoves
      <4> QED BY <2>2, <4>1 DEF Attended
    <3>2. CASE running # t
      <4>1. running' = running BY <1>0, <2>1, <3>2, ExitMoves
      <4>2. running # NoOwner => cons'[running] = cons[running]
        BY <1>0, <1>0a, <2>1, <2>4, <3>2, ExitMoves
      <4> QED BY <2>2, <4>1, <4>2 DEF Attended
    <3> QED BY <3>1, <3>2
  <2> QED BY <2>3, <2>4
<1>4. CASE BeginStop BY <1>4 DEF BeginStop, Attended
<1>5. CASE EndStop BY <1>0, <1>5, StopMoves DEF Attended
<1>6. CASE Restart
  <2>1. engine = "down" /\ inbox' = inbox BY <1>6 DEF Restart, ClaimExisting
  <2>2. CASE running = NoOwner /\ inbox # <<>>
    <3>0. nextToken' # nextToken /\ SharedMoved
      <4>1. ClaimExisting BY <1>6, <2>2 DEF Restart
      <4>2. nextToken' = nextToken + 1 BY <4>1 DEF ClaimExisting
      <4>3. nextToken' # nextToken BY <1>0a, <4>2
      <4>4. SharedMoved BY <1>0, <1>6, EngineMoves
      <4> QED BY <4>3, <4>4
    <3>1. PICK u \in Tokens : Issued(u) /\ running' = u BY <3>0 DEF SharedMoved
    <3>2. cons'[u].pc \in {"launch", "start"}
      BY <1>0, <1>6, <3>1, EngineMoves DEF SharedMoved
    <3> QED BY <1>0b, <3>1, <3>2 DEF Attended
  <2>3. CASE ~(running = NoOwner /\ inbox # <<>>)
    <3>1. UNCHANGED <<inboxVars, cons>> BY <1>6, <2>3 DEF Restart
    <3> QED BY <2>1, <2>3, <3>1 DEF Attended
  <2> QED BY <2>2, <2>3
<1>7. CASE UNCHANGED schedVars BY <1>7 DEF Attended
<1> QED BY <1>1, <1>2, <1>3, <1>4, <1>5, <1>6, <1>7, StepKinds DEF Shared

\* One consumer serves the chat, and none is missing while a message waits, however
\* turns fail, are cancelled by a stop, or are resumed, if stop() sees the consumers
\* end and dispatch() is not cut off between taking the slot and starting the task.
THEOREM OneServes ==
  ASSUME OrderlyStop, "recover" \notin Features
  PROVE  SchedSpec => []ServedByOne
<1>1. SchedInit => OwnerInv /\ Attended
  <2>1. SchedInit => OwnerInv BY OwnerInvInit
  <2>2. SchedInit => Attended BY DEF SchedInit, InboxInit, Attended
  <2> QED BY <2>1, <2>2
<1>2. OwnerInv /\ Attended /\ [SchedNext]_schedVars => OwnerInv' /\ Attended'
  BY OwnerInvNext, AttendedNext
<1>3. OwnerInv /\ Attended => ServedByOne
  <2>1. OwnerInv => OneWorker BY OwnersAreOne
  <2>2. Attended => InboxAttended BY DEF Attended, InboxAttended
  <2> QED BY <2>1, <2>2 DEF ServedByOne
<1> QED BY <1>1, <1>2, <1>3, PTL DEF SchedSpec

(***************************************************************************)
(* Turns and their consumers.                                              *)
(***************************************************************************)
TurnsActed ==
  \A m \in Messages : turn[m] \in Live =>
    \E t \in Tokens : cons[t].pc \in Acting /\ cons[t].first = m

\* Unless runs fail, an error whose handler a stop may cut off comes from a turn
\* that is over.
Handling == {"cancelTurn", "cas", "settle"}
ErrorIsOver(c, now) ==
  /\ c.pc = "steered" => c.after # "error"
  /\ c.pc \in Handling /\ c.after = "error" => now[c.first] \notin Live
ErrorsAreOver ==
  "fail" \notin Features => \A t \in Tokens : ErrorIsOver(cons[t], turn)

TurnsInv ==
  /\ OwnerInv /\ TurnsActed /\ ErrorsAreOver
  /\ "stop" \notin Features => engine = "up"

\* The consumer of a turn that may act is the one that does.
LEMMA ActorIsOne ==
  ASSUME TurnsInv, NEW t \in Tokens, NEW u \in Tokens,
         cons[t].pc \in Working, cons[u].pc \in Working
  PROVE  t = u
BY OwnersAreOne DEF TurnsInv, OneWorker

LEMMA ErrorsEnd ==
  ASSUME TurnsInv, "fail" \notin Features, NEW t \in Tokens, OwnStep(t)
  PROVE  ErrorIsOver(cons'[t], turn')
<1> USE DEF ErrorIsOver, Handling, Live
<1>0. /\ SchedBase /\ SchedTypeOK
      /\ cons \in [Tokens -> Consumers] /\ cons[t] \in Consumers
      /\ turn \in [Messages -> Phases]
  BY ConsTyped DEF TurnsInv, OwnerInv, SchedBase, SchedTypeOK
<1>1. Moved(t) BY <1>0, OwnStepMoves
<1>2. ErrorIsOver(cons[t], turn) BY DEF TurnsInv, ErrorsAreOver
<1>3. cons[t].pc \in Working => cons[t].first \in Messages
  BY <1>0 DEF SchedBase, Named, Serving
<1> USE DEF Working
<1>4. CASE cons'[t].pc \notin {"steered", "cancelTurn", "cas", "settle"}
  BY <1>4
<1>5. CASE cons'[t].pc \in Handling /\ cons'[t].after # "error" BY <1>5
<1>6. CASE BeginRefused(t)
  <2>1. cons'[t].pc = "cancelTurn" /\ cons'[t].first = cons[t].first /\ turn' = turn
    BY <1>0, <1>6, RaiseMoves DEF BeginRefused
  <2>2. running = t /\ cons[t].pc = "begin"
    BY <1>6 DEF BeginRefused, TurnsInv, OwnerInv, ServesOwned, Serving
  <2>3. turn[cons[t].first] \notin Live
    <3>1. SUFFICES ASSUME turn[cons[t].first] \in Live PROVE FALSE OBVIOUS
    <3>2. PICK u \in Tokens : cons[u].pc \in Acting /\ cons[u].first = cons[t].first
      BY <1>3, <2>2, <3>1 DEF TurnsInv, TurnsActed
    <3>3. u = t BY <2>2, <3>2, ActorIsOne DEF Acting
    <3> QED BY <2>2, <3>2, <3>3 DEF Acting
  <2> QED BY <2>1, <2>3
<1>7. CASE CommitSteerStale(t) \/ FinalizeRefused(t)
  BY <1>0, <1>7, RaiseMoves DEF CommitSteerStale, FinalizeRefused
<1>8. CASE RunEnds(t) BY <1>0, <1>8, AfterRunMoves DEF RunEnds
<1>9. CASE WokenClaims(t)
  <2>1. cons'[t].after = "run" /\ cons'[t].pc \in {"steered", "run"}
    BY <1>0, <1>9 DEF WokenClaims, Consumers
  <2> QED BY <2>1
<1>10. CASE CommitSteer(t)
  <2> DEFINE how == cons[t].after
  <2>0. how # "error" /\ how \in {"ran", "run", "abort"}
    BY <1>0, <1>2, <1>10 DEF CommitSteer, Consumers
  <2>1. CASE cons' = [cons EXCEPT ![t] = @]
    BY <1>0, <1>2, <1>10, <2>1 DEF CommitSteer
  <2>2. CASE how = "abort" /\ cons' = [cons EXCEPT ![t] = Raise(@, how)]
    BY <1>0, <2>2, RaiseMoves
  <2>3. CASE how \in {"ran", "run"} /\ cons' = [cons EXCEPT ![t] = [@ EXCEPT !.pc = how]]
    BY <1>0, <2>3 DEF Consumers
  <2> QED BY <1>10, <2>0, <2>1, <2>2, <2>3 DEF CommitSteer
<1>11. CASE ReadTurn(t)
  <2> DEFINE m == cons[t].first
  <2>1. cons'[t].after = cons[t].after /\ cons'[t].first = m /\ cons[t].pc = "cancelTurn"
    BY <1>0, <1>11 DEF ReadTurn, Consumers
  <2>2. turn[m] \notin Live => turn'[m] \notin Live
    BY <1>0, <1>3, <1>11 DEF ReadTurn
  <2>3. cons'[t].pc \in {"cas", "settle"} BY <1>0, <1>11 DEF ReadTurn, Consumers
  <2> QED BY <1>2, <2>1, <2>2, <2>3
<1>12. CASE SwapTurn(t)
  <2>1. turn'[cons[t].first] \notin Live BY <1>0, <1>3, <1>12 DEF SwapTurn
  <2>2. cons'[t].first = cons[t].first /\ cons'[t].pc = "settle"
    BY <1>0, <1>12, GoMoves DEF SwapTurn, ConsumerStates
  <2> QED BY <2>1, <2>2
<1>13. CASE SettleCommit(t)
  <2>1. /\ cons'[t].after = cons[t].after /\ cons'[t].first = cons[t].first
        /\ cons'[t].pc = "settle" /\ cons[t].pc = "settle" /\ turn' = turn
    BY <1>0, <1>13 DEF SettleCommit, Consumers
  <2> QED BY <1>2, <2>1
<1>14. CASE Cancel(t)
  <2>1. CASE At(t, "run") BY <1>0, <1>14, <2>1, AfterRunMoves DEF Cancel
  <2>2. CASE cons[t].pc \in {"wait", "finalize"}
    <3>1. cons' = [cons EXCEPT ![t] = Raise(@, "abort")]
      BY <1>14, <2>2 DEF Cancel, Cancelled
    <3> QED BY <1>0, <3>1, RaiseMoves
  <2>3. CASE cons[t].pc \notin {"run", "wait", "finalize"}
    <3>1. cons'[t].pc \in {"off", "exit"}
      BY <1>0, <1>14, <2>3 DEF Cancel, Cancelled, Consumers
    <3> QED BY <3>1
  <2> QED BY <2>1, <2>2, <2>3
<1>15. CASE CancelDrain(t)
  <2>1. CASE WaitLease(t).active BY <1>0, <1>15, <2>1 DEF CancelDrain, Consumers
  <2>2. CASE ~WaitLease(t).active BY <1>0, <1>15, <2>2, RaiseMoves DEF CancelDrain
  <2> QED BY <2>1, <2>2
<1>16. CASE Launch(t) \/ Select(t) \/ LaunchFails(t)
  <2>1. cons'[t].pc \notin {"steered", "cancelTurn", "cas", "settle"}
    BY <1>0, <1>16, SelectPlaces DEF Selecting
  <2> QED BY <2>1
<1>17. CASE BeginTurn(t) \/ Admit(t) \/ Expire(t) \/ RefreshFails(t)
  <2>1. cons'[t].pc \in {"run", "commit", "exit"}
    <3>1. CASE BeginTurn(t)
      <4>1. PICK mode \in {"direct", "active", "passive"} :
              cons' = [cons EXCEPT ![t].pc = "run", ![t].mode = mode,
                                   ![t].todo = WorkItems(t)]
        BY <3>1 DEF BeginTurn
      <4> QED BY <1>0, <4>1 DEF Consumers
    <3>2. CASE Admit(t) \/ Expire(t) \/ RefreshFails(t)
      BY <1>0, <3>2 DEF Admit, Expire, RefreshFails, Go, Consumers
    <3> QED BY <1>17, <3>1, <3>2
  <2> QED BY <2>1
<1>18. CASE Steer(t)
  <2>1. \E pc \in {"drain", "run"} : Go(t, pc)
    BY <1>18 DEF Steer, DrainClaim, DrainOne, DrainFails
  <2>2. cons'[t].pc \in {"drain", "run"} BY <1>0, <2>1, GoMoves DEF ConsumerStates
  <2> QED BY <2>2
<1>19. CASE PlanWait(t) \/ PlanDone(t) \/ Wake(t) \/ WokenFindsNothing(t)
  <2>1. cons'[t].pc \in {"wait", "commit", "woken"}
    BY <1>0, <1>19 DEF PlanWait, PlanDone, Wake, WokenFindsNothing, Go, Consumers
  <2> QED BY <2>1
<1>20. CASE WaitTimesOut(t)
  <2>1. cons'[t].pc \in {"run", "commit"}
    BY <1>0, <1>20 DEF WaitTimesOut, Go, Consumers
  <2> QED BY <2>1
<1>21. CASE CommitItem(t) \/ Finish(t) \/ Finalize(t)
  <2>1. CASE NextTurn(t) BY <1>0, <2>1
  <2>2. CASE \E pc \in {"commit", "finish", "finalize"} : Go(t, pc)
    BY <1>0, <2>2, GoMoves DEF ConsumerStates
  <2> QED BY <1>21, <2>1, <2>2 DEF CommitItem, Finish, Finalize
<1>22. CASE SettleRaises(t) \/ SettleRest(t) \/ Requeue(t) \/ SettleDone(t)
  <2>1. CASE NextTurn(t) BY <1>0, <2>1
  <2>2. CASE \E pc \in {"exit", "requeue"} : Go(t, pc)
    BY <1>0, <2>2, GoMoves DEF ConsumerStates
  <2> QED BY <1>22, <2>1, <2>2
          DEF SettleRaises, SettleRest, Requeue, RequeueAs, SettleDone
<1>23. ~RunFails(t) BY DEF RunFails
<1> QED BY <1>6, <1>7, <1>8, <1>9, <1>10, <1>11, <1>12, <1>13, <1>14, <1>15, <1>16,
           <1>17, <1>18, <1>19, <1>20, <1>21, <1>22, <1>23
        DEF OwnStep, Run, WaitingLoop, EndTurn, Recover

LEMMA TurnsInvInit ==
  ASSUME SchedInit
  PROVE  TurnsInv
<1>1. OwnerInv BY OwnerInvInit
<1> QED BY <1>1 DEF SchedInit, TurnsInv, TurnsActed, ErrorsAreOver, ErrorIsOver,
                    Handling, Live

\* Where an owner of a live turn is kept by a step of one consumer.
LEMMA OwnStepActs ==
  ASSUME TurnsInv, ~({"stop", "fail"} \subseteq Features), NEW t \in Tokens, OwnStep(t)
  PROVE  TurnsActed'
<1>0. SchedBase /\ cons \in [Tokens -> Consumers] /\ turn \in [Messages -> Phases]
  BY ConsTyped DEF TurnsInv, OwnerInv, SchedBase, SchedTypeOK
<1>1. Moved(t) /\ Turned(t) BY <1>0, OwnStepMoves, OwnStepTurns
<1>2. \A u \in Tokens : u # t => cons'[u] = cons[u] BY <1>0, <1>1 DEF Moved
<1>3. SUFFICES ASSUME NEW m \in Messages, turn'[m] \in Live
               PROVE  \E u \in Tokens : cons'[u].pc \in Acting /\ cons'[u].first = m
  BY DEF TurnsActed
<1>4. CutOff(t) => turn[cons[t].first] \notin Live
  <2>1. engine = "stopping" => "fail" \notin Features BY DEF TurnsInv
  <2> QED BY <2>1 DEF CutOff, TurnsInv, ErrorsAreOver, ErrorIsOver, Handling
<1>5. ASSUME cons[t].first = m, cons[t].pc \in Working, cons'[t].pc \in Acting
      PROVE  cons'[t].first = m
  BY <1>1, <1>5 DEF Moved, Serving, Acting
<1>6. CASE turn'[m] = turn[m]
  <2>1. PICK u \in Tokens : cons[u].pc \in Acting /\ cons[u].first = m
    BY <1>3, <1>6 DEF TurnsInv, TurnsActed
  <2>2. CASE u # t BY <1>2, <2>1, <2>2
  <2>3. CASE u = t
    <3>1. cons[t].pc \in Working BY <2>1, <2>3 DEF Acting
    <3>2. cons'[t].pc \in Acting
      BY <1>1, <1>3, <1>4, <1>6, <2>1, <2>3, <3>1 DEF Turned, CutOff
    <3> QED BY <1>5, <2>1, <2>3, <3>1, <3>2
  <2> QED BY <2>2, <2>3
<1>7. CASE turn'[m] # turn[m]
  <2>1. cons[t].pc \in Working /\ cons[t].first = m
    BY <1>0, <1>1, <1>7 DEF Turned
  <2>2. CASE cons'[t].pc \in Acting BY <1>5, <2>1, <2>2
  <2>3. CASE CutOff(t) BY <1>7, <2>3 DEF CutOff
  <2>4. CASE turn[m] \in Live /\ cons[t].pc \notin Acting
    <3>1. PICK u \in Tokens : cons[u].pc \in Acting /\ cons[u].first = m
      BY <2>4 DEF TurnsInv, TurnsActed
    <3>2. u = t BY <2>1, <3>1, ActorIsOne DEF Acting
    <3> QED BY <2>4, <3>1, <3>2
  <2> QED BY <1>1, <1>3, <2>1, <2>2, <2>3, <2>4 DEF Turned
<1> QED BY <1>6, <1>7

LEMMA TurnsInvNext ==
  ASSUME TurnsInv, OrderlyStop, ~({"stop", "fail"} \subseteq Features),
         [SchedNext]_schedVars
  PROVE  TurnsInv'
<1>0. /\ OwnerInv /\ OwnerInv' /\ SchedBase
      /\ cons \in [Tokens -> Consumers] /\ turn \in [Messages -> Phases]
      /\ nextToken \in 0 .. MaxToken
  BY OwnerInvNext, ConsTyped DEF TurnsInv, OwnerInv, SchedBase, SchedTypeOK, InboxTypeOK
<1>1. CASE \E t \in Tokens : OwnStep(t)
  <2>1. PICK t \in Tokens : OwnStep(t) BY <1>1
  <2>2. Moved(t) /\ Turned(t) BY <1>0, <2>1, OwnStepMoves, OwnStepTurns
  <2>3. TurnsActed' BY <2>1, OwnStepActs
  <2>4. ErrorsAreOver'
    <3>1. SUFFICES ASSUME "fail" \notin Features, NEW u \in Tokens
                   PROVE  ErrorIsOver(cons'[u], turn')
      BY DEF ErrorsAreOver
    <3>2. CASE u = t BY <2>1, <3>1, <3>2, ErrorsEnd
    <3>3. CASE u # t
      <4>1. cons'[u] = cons[u] /\ ErrorIsOver(cons[u], turn)
        BY <1>0, <2>2, <3>1, <3>3 DEF Moved, TurnsInv, ErrorsAreOver
      <4>2. cons[u].pc \in Handling => turn' = turn
        BY <2>2, <3>3, ActorIsOne DEF Turned, Handling, Working
      <4> QED BY <4>1, <4>2 DEF ErrorIsOver
    <3> QED BY <3>2, <3>3
  <2> QED BY <1>0, <2>2, <2>3, <2>4 DEF TurnsInv, Moved
<1>2. CASE \E m \in Messages : Dispatch(m)
  <2>1. PICK m \in Messages : Dispatch(m) BY <1>2
  <2>2. \A n \in Messages : turn'[n] \in Live => turn[n] \in Live
    BY <1>0, <2>1 DEF Dispatch, AmbientCancelled, Live
  <2>3. /\ engine' = engine /\ SharedMoved
        /\ \A u \in Tokens : ~Issued(u) => cons'[u] = cons[u]
        /\ \A u \in Tokens : Issued(u) => cons'[u].pc = "launch"
    BY <1>0, <2>1, DispatchMoves
  <2>4. \A u \in Tokens : Issued(u) => cons[u].pc = "off"
    BY <1>0 DEF Issued, SchedBase, TokensInv, Tokens
  <2>5. TurnsActed'
    <3>1. \A u \in Tokens : cons[u].pc \in Acting => cons'[u] = cons[u]
      BY <2>3, <2>4 DEF Acting, Working
    <3> QED BY <2>2, <3>1 DEF TurnsInv, TurnsActed
  <2>6. ErrorsAreOver'
    <3>1. SUFFICES ASSUME "fail" \notin Features, NEW u \in Tokens
                   PROVE  ErrorIsOver(cons'[u], turn')
      BY DEF ErrorsAreOver
    <3>2. CASE Issued(u) BY <2>3, <3>2 DEF ErrorIsOver, Handling
    <3>3. CASE ~Issued(u)
      <4>1. cons'[u] = cons[u] /\ ErrorIsOver(cons[u], turn)
        BY <2>3, <3>1, <3>3 DEF TurnsInv, ErrorsAreOver
      <4>2. cons[u].pc \in Handling => cons[u].first \in Messages
        BY <1>0 DEF SchedBase, Named, Serving, Handling, Working
      <4> QED BY <2>2, <4>1, <4>2 DEF ErrorIsOver
    <3> QED BY <3>2, <3>3
  <2> QED BY <1>0, <2>3, <2>5, <2>6 DEF TurnsInv
<1>3. CASE \E t \in Tokens : Exit(t)
  <2>1. PICK t \in Tokens : Exit(t) BY <1>3
  <2>2. turn' = turn /\ engine' = engine /\ At(t, "exit") BY <1>0, <2>1, ExitMoves
  <2>3. \A u \in Tokens : Issued(u) => cons[u].pc = "off"
    BY <1>0 DEF Issued, SchedBase, TokensInv, Tokens
  <2>4. \A u \in Tokens : cons[u].pc \in Acting => cons'[u] = cons[u]
    BY <1>0, <2>1, <2>2, <2>3, ExitMoves DEF Acting, Working
  <2>5. \A u \in Tokens : cons'[u].pc \in Handling \cup {"steered"} => cons'[u] = cons[u]
    BY <1>0, <2>1, ExitMoves DEF Handling
  <2>6. TurnsActed' BY <2>2, <2>4 DEF TurnsInv, TurnsActed
  <2>7. ErrorsAreOver' BY <2>2, <2>5 DEF TurnsInv, ErrorsAreOver, ErrorIsOver
  <2> QED BY <1>0, <2>2, <2>6, <2>7 DEF TurnsInv
<1>4. CASE BeginStop
  BY <1>0, <1>4 DEF BeginStop, TurnsInv, TurnsActed, ErrorsAreOver
<1>5. CASE EndStop
  <2>1. cons' = cons /\ turn' = turn BY <1>0, <1>5, StopMoves, EngineMoves
  <2> QED BY <1>0, <1>5, <2>1 DEF EndStop, TurnsInv, TurnsActed, ErrorsAreOver
<1>6. CASE Restart
  <2>1. turn' = turn /\ (engine = "down") BY <1>6 DEF Restart
  <2>2. "stop" \in Features BY <2>1 DEF TurnsInv
  <2>3. \A u \in Tokens : cons'[u] = cons[u] \/ (cons[u].pc = "off" /\ cons'[u].pc = "start")
    <3>1. CASE UNCHANGED <<inboxVars, cons>> BY <3>1
    <3>2. CASE ClaimExisting /\ cons' = [cons EXCEPT ![nextToken'] = Fresh("start")]
      <4>1. nextToken' = nextToken + 1 BY <3>2 DEF ClaimExisting
      <4>2. \A u \in Tokens : u = nextToken + 1 => cons[u].pc = "off"
        BY <1>0 DEF SchedBase, TokensInv, Tokens
      <4> QED BY <1>0, <3>2, <4>1, <4>2
    <3> QED BY <1>6, <3>1, <3>2 DEF Restart
  <2>4. TurnsActed' BY <2>1, <2>3 DEF TurnsInv, TurnsActed, Acting, Working
  <2>5. ErrorsAreOver'
    BY <2>1, <2>3 DEF TurnsInv, ErrorsAreOver, ErrorIsOver, Handling
  <2> QED BY <1>0, <2>2, <2>4, <2>5 DEF TurnsInv
<1>7. CASE UNCHANGED schedVars
  BY <1>0, <1>7 DEF TurnsInv, TurnsActed, ErrorsAreOver
<1> QED BY <1>1, <1>2, <1>3, <1>4, <1>5, <1>6, <1>7, StepKinds DEF Shared

\* No path leaves behind a turn that may still steer, call tools or deliver, without a
\* consumer that works on it: true if stops are orderly, and if runs do not fail where
\* the engine stops (there it is false: a stop cuts the handler of an error off).
THEOREM NoTurnIsLeft ==
  ASSUME OrderlyStop, ~({"stop", "fail"} \subseteq Features)
  PROVE  SchedSpec => []LiveTurnOwned
<1>1. SchedInit => TurnsInv BY TurnsInvInit
<1>2. TurnsInv /\ [SchedNext]_schedVars => TurnsInv' BY TurnsInvNext
<1>3. TurnsInv => LiveTurnOwned
  BY DEF TurnsInv, TurnsActed, LiveTurnOwned, Acting, Live
<1> QED BY <1>1, <1>2, <1>3, PTL DEF SchedSpec

(***************************************************************************)
(* Ambient turns give way to direct tasks.                                 *)
(***************************************************************************)
\* A run is direct if its message is not ambient.
ModeFits(c) ==
  /\ "wait" \notin Features => c.pc \notin {"wait", "woken"}
  /\ c.pc \in Working => (c.mode = "direct" <=> c.first \notin Ambient)
  /\ c.pc = "drain" => c.mode = "direct"

ModesFit == \A t \in Tokens : ModeFits(cons[t])

YieldsInv == TurnsInv /\ ModesFit /\ AmbientYields

\* A task that serves the same message in the same mode.
LEMMA SameMode ==
  ASSUME NEW t \in Tokens, ModeFits(cons[t]), cons[t].pc \in Working,
         cons'[t].pc # "drain",
         "wait" \notin Features => cons'[t].pc \notin {"wait", "woken"},
         cons'[t].mode = cons[t].mode, cons'[t].first = cons[t].first
  PROVE  ModeFits(cons'[t])
BY DEF ModeFits

LEMMA ModeKept ==
  ASSUME SchedBase, NEW t \in Tokens, ModeFits(cons[t]), OwnStep(t)
  PROVE  ModeFits(cons'[t])
<1>0. /\ SchedTypeOK /\ cons \in [Tokens -> Consumers] /\ cons[t] \in Consumers
  BY ConsTyped DEF SchedBase, SchedTypeOK
<1>a. CASE cons'[t].pc \notin Working BY <1>a DEF ModeFits, Working
<1> USE DEF Working, ConsumerStates
<1>b. CASE cons[t].pc \in Working /\ \E pc \in {"begin", "run", "ran", "commit",
             "finish", "finalize", "settle", "requeue"} : Go(t, pc)
  BY <1>0, <1>b, GoMoves, SameMode
<1>c. CASE cons[t].pc \in Working /\ \E how \in {"error", "abort"} :
             cons' = [cons EXCEPT ![t] = Raise(@, how)]
  BY <1>0, <1>c, RaiseMoves, SameMode
<1>d. CASE cons[t].pc \in Working /\ \E how \in {"ran", "error", "abort"} : AfterRun(t, how)
  BY <1>0, <1>d, AfterRunMoves, SameMode
<1>e. CASE NextTurn(t) \/ \E pc \in {"exit", "off", "start", "claim", "select"} : Go(t, pc)
  <2>1. CASE NextTurn(t) BY <1>0, <2>1 DEF ModeFits
  <2>2. CASE \E pc \in {"exit", "off", "start", "claim", "select"} : Go(t, pc)
    <3>1. PICK pc \in {"exit", "off", "start", "claim", "select"} : Go(t, pc) BY <2>2
    <3>2. cons'[t].pc = pc
      <4>1. pc \in ConsumerStates BY <3>1 DEF Selecting
      <4> QED BY <1>0, <3>1, <4>1, GoMoves
    <3> QED BY <1>a, <3>1, <3>2
  <2> QED BY <1>e, <2>1, <2>2
<1>1. CASE Launch(t) \/ Collect(t) \/ ClaimStaleHead(t) \/ Idle(t) \/ LaunchFails(t)
  BY <1>e, <1>1 DEF Launch, Collect, ClaimStaleHead, Idle, LaunchFails
<1>2. CASE Peek(t)
  <2>1. cons'[t].pc \in {"idle", "collect", "claim"} BY <1>0, <1>2 DEF Peek
  <2> QED BY <1>a, <2>1
<1>3. CASE ClaimHead(t)
  <2> DEFINE mode == IF cons[t].first \notin Ambient THEN "direct"
                     ELSE IF \E i \in DOMAIN inbox' : inbox'[i] \in Direct THEN "passive"
                     ELSE "active"
  <2>1. cons' = [cons EXCEPT ![t].pc = "begin", ![t].mode = mode]
    BY <1>3 DEF ClaimHead
  <2>2. mode = "direct" <=> cons[t].first \notin Ambient
    OBVIOUS
  <2> HIDE DEF mode
  <2>3. cons'[t].pc = "begin" /\ cons'[t].mode = mode /\ cons'[t].first = cons[t].first
    BY <1>0, <2>1 DEF Consumers
  <2> QED BY <2>2, <2>3 DEF ModeFits
<1>4. CASE BeginTurn(t)
  <2> DEFINE m == cons[t].first
             yields == m \in Ambient /\ HasPending(Direct)
             modes == IF cons[t].mode = "direct" THEN {"direct"}
                      ELSE IF cons[t].mode = "passive" \/ yields THEN {"passive"}
                      ELSE {"active", "passive"}
  <2>1. PICK mode \in modes : cons' = [cons EXCEPT ![t].pc = "run", ![t].mode = mode,
                                                   ![t].todo = WorkItems(t)]
    BY <1>4 DEF BeginTurn
  <2>2. mode = "direct" <=> cons[t].mode = "direct"
    BY <2>1
  <2>3. cons[t].mode = "direct" <=> m \notin Ambient BY <1>4 DEF BeginTurn, ModeFits
  <2> HIDE DEF modes
  <2>4. cons'[t].pc = "run" /\ cons'[t].mode = mode /\ cons'[t].first = m
    BY <1>0, <2>1 DEF Consumers
  <2> QED BY <2>2, <2>3, <2>4 DEF ModeFits
<1>5. CASE Run(t) /\ ~BeginTurn(t)
  <2>1. CASE Admit(t) \/ Expire(t)
    <3>1. /\ cons'[t].pc \in {"run", "commit"} /\ cons[t].pc = "run"
          /\ cons'[t].mode = cons[t].mode /\ cons'[t].first = cons[t].first
      BY <1>0, <2>1 DEF Admit, Expire, Consumers
    <3> QED BY <3>1, SameMode
  <2> QED BY <1>5, <1>c, <1>d, <1>e, <2>1
          DEF Run, BeginRefused, RefreshFails, RunEnds, RunFails
<1>6. CASE Steer(t)
  <2>1. cons[t].pc \in {"run", "drain"} /\ cons[t].mode = "direct"
    BY <1>6 DEF Steer, DrainClaim, DrainOne, DrainFails, ModeFits
  <2>2. CASE Go(t, "run") BY <1>b, <2>1, <2>2
  <2>3. CASE Go(t, "drain") BY <1>0, <2>1, <2>3, GoMoves DEF ModeFits
  <2> QED BY <1>6, <2>2, <2>3 DEF Steer, DrainClaim, DrainOne, DrainFails
<1>7. CASE CancelDrain(t)
  <2>1. CASE WaitLease(t).active
    <3>1. /\ cons'[t].pc = "steered" /\ cons[t].pc = "drain"
          /\ cons'[t].mode = cons[t].mode /\ cons'[t].first = cons[t].first
      BY <1>0, <1>7, <2>1 DEF CancelDrain, Consumers
    <3> QED BY <3>1, SameMode
  <2> QED BY <1>7, <1>c, <2>1 DEF CancelDrain
<1>8. CASE WaitingLoop(t)
  <2>1. CASE PlanWait(t) \/ Wake(t)
    <3>1. "wait" \in Features BY <2>1 DEF PlanWait, Wake, ModeFits
    <3>2. cons[t].pc \in Working /\ \E pc \in {"wait", "woken"} : Go(t, pc)
      BY <2>1 DEF PlanWait, Wake
    <3> QED BY <1>0, <3>1, <3>2, GoMoves, SameMode
  <2>2. CASE WaitTimesOut(t) \/ WokenClaims(t)
    <3>1. CASE Go(t, "commit") BY <2>2, <3>1, <1>b DEF WaitTimesOut, WokenClaims
    <3>2. CASE ~Go(t, "commit")
      <4>1. /\ cons[t].pc \in {"wait", "woken"} /\ cons'[t].pc \in {"run", "steered"}
            /\ cons'[t].mode = cons[t].mode /\ cons'[t].first = cons[t].first
        BY <1>0, <2>2, <3>2 DEF WaitTimesOut, WokenClaims, Consumers
      <4> QED BY <4>1, SameMode
    <3> QED BY <3>1, <3>2
  <2>3. CASE CommitSteer(t)
    <3> DEFINE how == cons[t].after
    <3>0. how \in {"ran", "run", "error", "abort"} BY <1>0 DEF Consumers
    <3>1. CASE cons' = [cons EXCEPT ![t] = @] BY <1>0, <3>1 DEF CommitSteer
    <3>2. CASE how \in {"error", "abort"} /\ cons' = [cons EXCEPT ![t] = Raise(@, how)]
      BY <2>3, <3>2, <1>c DEF CommitSteer
    <3>3. CASE /\ how \in {"ran", "run"}
               /\ cons' = [cons EXCEPT ![t] = [@ EXCEPT !.pc = how]]
      <4>1. Go(t, how) BY <3>3 DEF Go
      <4> QED BY <2>3, <3>3, <4>1, <1>b DEF CommitSteer
    <3> QED BY <2>3, <3>0, <3>1, <3>2, <3>3 DEF CommitSteer
  <2> QED BY <1>8, <1>b, <1>c, <2>1, <2>2, <2>3
          DEF WaitingLoop, PlanDone, WokenFindsNothing, CommitSteerStale
<1>9. CASE EndTurn(t)
  BY <1>9, <1>b, <1>c, <1>e DEF EndTurn, CommitItem, Finish, Finalize, FinalizeRefused
<1>10. CASE Recover(t)
  <2>1. CASE ReadTurn(t) \/ SettleCommit(t)
    <3>1. /\ cons'[t].pc \in {"cas", "settle"} /\ cons[t].pc \in {"cancelTurn", "settle"}
          /\ cons'[t].mode = cons[t].mode /\ cons'[t].first = cons[t].first
      BY <1>0, <2>1 DEF ReadTurn, SettleCommit, Consumers
    <3> QED BY <3>1, SameMode
  <2> QED BY <1>10, <1>b, <1>e, <2>1
          DEF Recover, SwapTurn, SettleRaises, SettleRest, Requeue, RequeueAs, SettleDone
<1>11. CASE Cancel(t)
  <2>1. CASE At(t, "run") BY <1>11, <1>d, <2>1 DEF Cancel
  <2>2. CASE cons[t].pc \in {"wait", "finalize"}
    <3>1. cons' = [cons EXCEPT ![t] = Raise(@, "abort")]
      BY <1>11, <2>2 DEF Cancel, Cancelled
    <3> QED BY <2>2, <3>1, <1>c
  <2>3. CASE cons[t].pc \notin {"run", "wait", "finalize"}
    <3>1. cons'[t].pc \in {"off", "exit"}
      BY <1>0, <1>11, <2>3 DEF Cancel, Cancelled, Consumers
    <3> QED BY <3>1, <1>a
  <2> QED BY <2>1, <2>2, <2>3
<1> QED BY <1>1, <1>2, <1>3, <1>4, <1>5, <1>6, <1>7, <1>8, <1>9, <1>10, <1>11
        DEF OwnStep, Select

LEMMA CutWithin ==
  ASSUME NEW S, NEW s \in Seq(S), NEW a \in Nat, NEW b \in Nat, a <= b, b <= Len(s)
  PROVE  ItemsOf(Cut(s, a, b)) \subseteq ItemsOf(s)
<1> DEFINE c == Cut(s, a, b)
<1>1. /\ c \in Seq(S) /\ Len(c) = Len(s) - (b - a)
      /\ \A i \in 1 .. Len(s) - (b - a) : c[i] = IF i <= a THEN s[i] ELSE s[i + (b - a)]
  BY CutProperties
<1>2. Len(s) \in Nat /\ DOMAIN s = 1 .. Len(s) BY Positions
<1>3. DOMAIN c = 1 .. Len(s) - (b - a) BY <1>1, Positions
<1> HIDE DEF c
<1>4. \A i \in DOMAIN c : \E j \in DOMAIN s : c[i] = s[j]
  <2>1. TAKE i \in DOMAIN c
  <2>2. CASE i <= a
    <3>1. i \in DOMAIN s /\ c[i] = s[i] BY <1>1, <1>2, <1>3, <2>1, <2>2
    <3> QED BY <3>1
  <2>3. CASE ~(i <= a)
    <3>1. i + (b - a) \in DOMAIN s /\ c[i] = s[i + (b - a)]
      BY <1>1, <1>2, <1>3, <2>1, <2>3
    <3> QED BY <3>1
  <2> QED BY <2>2, <2>3
<1> QED BY <1>4 DEF ItemsOf, c

\* A message that is refused, or of another intent, queues no direct task.
LEMMA NewInQueue ==
  ASSUME SchedBase, NEW m \in Messages, Dispatch(m),
         ~(m \in Direct /\ mstate'[m] = "accepted"), HasPending(Direct)'
  PROVE  HasPending(Direct)
<1>0. /\ inbox \in Seq(Messages) /\ Len(inbox) \in Nat
      /\ mstate \in [Messages -> MessageStates]
  BY LenProperties DEF SchedBase, SchedTypeOK, InboxTypeOK
<1>1. DOMAIN inbox = 1 .. Len(inbox) BY <1>0, Positions
<1>2. CASE EnqueueRefused(m) BY <1>2 DEF EnqueueRefused, HasPending
<1>3. CASE EnqueueRoom(m)
  <2>1. mstate'[m] = "accepted" /\ inbox' = Append(inbox, m)
    BY <1>0, <1>3 DEF EnqueueRoom
  <2>2. m \notin Direct BY <2>1
  <2>3. ItemsOf(inbox') = ItemsOf(inbox) \cup {m} BY <1>0, <2>1, AppendItems
  <2> QED BY <2>2, <2>3 DEF HasPending, ItemsOf
<1>4. CASE EnqueueDropping(m)
  <2>1. PICK i \in DOMAIN inbox :
          /\ inbox' = Append(Without(inbox, i), m)
          /\ mstate' = [mstate EXCEPT ![m] = "accepted", ![inbox[i]] = "dropped"]
          /\ inbox[i] \in Ambient
    BY <1>4 DEF EnqueueDropping, OldestAmbient
  <2>2. m \notin Direct
    <3>1. CASE inbox[i] = m
      <4>1. m \in Ambient BY <2>1, <3>1
      <4> QED BY <4>1, InboxAssumption
    <3>2. CASE inbox[i] # m
      <4>1. mstate'[m] = "accepted" BY <1>0, <2>1, <3>2
      <4> QED BY <4>1
    <3> QED BY <3>1, <3>2
  <2>3. /\ i - 1 \in Nat /\ i \in Nat /\ i - 1 <= i /\ i <= Len(inbox)
        /\ Without(inbox, i) = Cut(inbox, i - 1, i)
    BY <1>0, <1>1, <2>1, WithoutIsCut
  <2>4. Without(inbox, i) \in Seq(Messages) BY <1>0, <2>3, CutProperties
  <2>5. ItemsOf(Without(inbox, i)) \subseteq ItemsOf(inbox)
    BY <1>0, <2>3, CutWithin
  <2>6. ItemsOf(inbox') = ItemsOf(Without(inbox, i)) \cup {m}
    BY <2>1, <2>4, AppendItems
  <2> QED BY <2>2, <2>5, <2>6 DEF HasPending, ItemsOf
<1> QED BY <1>2, <1>3, <1>4 DEF Dispatch, Enqueue

\* Only giving leases back puts a message into the queue that was not there.
LEMMA QueueShrinks ==
  ASSUME SchedBase, NEW t \in Tokens, OwnStep(t), cons[t].pc \notin {"drain", "requeue"},
         NEW S, HasPending(S)'
  PROVE  HasPending(S)
<1>0. InboxTypeOK /\ SchedTypeOK /\ inbox \in Seq(Messages) /\ Len(inbox) \in Nat
  BY LenProperties DEF SchedBase, SchedTypeOK, InboxTypeOK
<1>1. CASE inbox' = inbox BY <1>1 DEF HasPending
<1>2. ASSUME NEW a \in Nat, NEW b \in Nat, a <= b, b <= Len(inbox), inbox' = Cut(inbox, a, b)
      PROVE  HasPending(S)
  <2>1. ItemsOf(inbox') \subseteq ItemsOf(inbox) BY <1>0, <1>2, CutWithin
  <2> QED BY <2>1 DEF HasPending, ItemsOf
<1>3. CASE inbox # <<>> /\ inbox' = Tail(inbox)
  <2>1. inbox' = Cut(inbox, 0, 1) BY <1>0, <1>3, TailIsCut
  <2>2. 1 <= Len(inbox) BY <1>0, <1>3, EmptySeq
  <2>3. 0 \in Nat /\ 1 \in Nat /\ 0 <= 1 OBVIOUS
  <2> QED BY <1>2, <2>1, <2>2, <2>3
<1>4. ASSUME NEW s \in Slots, NEW skip \in {0, 1}, NEW n \in Nat \ {0}, NEW like,
             ClaimSteer(s, skip, n, like, Messages)
      PROVE  HasPending(S)
  <2>1. skip + n <= Len(inbox) BY <1>0, <1>4, SteerTakes
  <2>2. inbox' = Cut(inbox, skip, skip + n) BY <1>4 DEF ClaimSteer, Cut
  <2>3. skip \in Nat /\ skip + n \in Nat /\ skip <= skip + n BY <1>4
  <2> QED BY <1>2, <2>1, <2>2, <2>3
<1>5. CASE Collect(t)
  <2>1. CASE HasFollowup(t)
    <3>1. PICK n \in 1 .. MaxCollect - 1 :
            ClaimSteer(<<t, "follow">>, 1, n, cons[t].first, Messages)
      BY <1>5, <2>1 DEF Collect
    <3>2. n \in Nat \ {0} BY SchedulerAssumption
    <3>3. <<t, "follow">> \in Slots BY SchedulerAssumption DEF LeaseKinds
    <3> QED BY <3>1, <3>2, <3>3, <1>4
  <2>2. CASE ~HasFollowup(t) BY <1>1, <1>5, <2>2 DEF Collect
  <2> QED BY <2>1, <2>2
<1>6. CASE \E kind \in LeaseKinds : ClaimPrefix(t, kind)
  <2>1. PICK kind \in LeaseKinds : ClaimPrefix(t, kind) BY <1>6
  <2>2. <<t, kind>> \in Slots
        /\ \E n \in 1 .. Len(inbox) : ClaimSteer(<<t, kind>>, 0, n, inbox[1], Messages)
    BY <1>0, <2>1, PrefixTaken
  <2>3. \A n \in 1 .. Len(inbox) : n \in Nat \ {0} BY <1>0
  <2> QED BY <1>4, <2>2, <2>3
<1> USE DEF LeaseKinds
<1>7. CASE Launch(t) \/ Select(t) \/ LaunchFails(t)
  BY <1>1, <1>3, <1>5, <1>7
     DEF Launch, LaunchFails, Select, Peek, ClaimHead, ClaimNext, ClaimStaleHead, Idle,
         ReleaseIfIdle
<1>8. CASE Run(t)
  BY <1>1, <1>8
     DEF Run, BeginTurn, BeginRefused, RefreshFails, Admit, Expire, RunEnds, RunFails
<1>9. CASE Steer(t)
  BY <1>6, <1>9 DEF Steer, DrainClaim, DrainOne, DrainFails
<1>10. CASE WaitingLoop(t)
  BY <1>1, <1>6, <1>10
     DEF WaitingLoop, PlanWait, PlanDone, Wake, WaitTimesOut, WokenClaims,
         WokenFindsNothing, CommitSteer, Commit, Settle, CommitSteerStale
<1>11. CASE EndTurn(t)
  BY <1>1, <1>11
     DEF EndTurn, CommitItem, Commit, Settle, Finish, Finalize, FinalizeRefused
<1>12. CASE Recover(t)
  BY <1>1, <1>12
     DEF Recover, ReadTurn, SwapTurn, SettleCommit, Commit, Fail, Settle, SettleRaises,
         SettleRest, Requeue, RequeueAs, SettleDone
<1>13. CASE Cancel(t) BY <1>1, <1>13 DEF Cancel
<1>14. ~CancelDrain(t) BY DEF CancelDrain
<1> QED BY <1>7, <1>8, <1>9, <1>10, <1>11, <1>12, <1>13, <1>14 DEF OwnStep

LEMMA OwnStepYields ==
  ASSUME YieldsInv, "wait" \notin Features, NEW t \in Tokens, OwnStep(t)
  PROVE  AmbientYields'
<1>0. /\ SchedBase /\ cons \in [Tokens -> Consumers] /\ turn \in [Messages -> Phases]
      /\ ModeFits(cons[t])
  BY ConsTyped DEF YieldsInv, ModesFit, TurnsInv, OwnerInv, SchedBase, SchedTypeOK
<1>1. Turned(t) BY <1>0, OwnStepTurns
<1>2. SUFFICES ASSUME NEW m \in Ambient, turn'[m] = "active", HasPending(Direct)'
               PROVE  FALSE
  BY DEF AmbientYields
<1>3. m \in Messages BY InboxAssumption
<1>4. CASE turn[m] = "active"
  <2>1. cons[t].pc \in {"drain", "requeue"}
    BY <1>0, <1>2, <1>4, QueueShrinks DEF YieldsInv, AmbientYields
  <2>2. PICK u \in Tokens : cons[u].pc \in Acting /\ cons[u].first = m
    BY <1>3, <1>4 DEF YieldsInv, TurnsInv, TurnsActed, Live
  <2>3. u = t BY <2>1, <2>2, ActorIsOne DEF YieldsInv, Acting, Working
  <2>4. cons[t].pc = "drain" /\ cons[t].first \in Ambient
    BY <2>1, <2>2, <2>3 DEF Acting
  <2>5. cons[t].mode # "direct" BY <1>0, <2>4 DEF ModeFits, Working
  <2> QED BY <1>0, <2>4, <2>5 DEF ModeFits
<1>5. CASE turn[m] # "active"
  <2>1. cons[t].first = m BY <1>0, <1>1, <1>2, <1>3, <1>5 DEF Turned
  <2>2. BeginTurn(t)
    <3>1. turn' # turn BY <1>2, <1>5
    <3>2. ~Launch(t) /\ ~Select(t) /\ ~LaunchFails(t) /\ ~Cancel(t) /\ ~CancelDrain(t)
      BY <3>1 DEF Launch, Select, Peek, Collect, ClaimHead, ClaimStaleHead, Idle,
         LaunchFails, Cancel, CancelDrain
    <3>3. ~Steer(t) BY <3>1 DEF Steer, DrainClaim, DrainOne, DrainFails
    <3>4. ~WaitingLoop(t)
      BY <1>0, <3>1 DEF WaitingLoop, PlanWait, PlanDone, Wake, WaitTimesOut, WokenClaims,
         WokenFindsNothing, CommitSteer, CommitSteerStale, ModeFits
    <3>5. ~EndTurn(t)
      BY <1>0, <1>2, <1>3, <2>1, <3>1 DEF EndTurn, CommitItem, Finish, Finalize,
         FinalizeRefused
    <3>6. ~Recover(t)
      BY <1>0, <1>2, <1>3, <1>5, <2>1, <3>1 DEF Recover, ReadTurn, SwapTurn, SettleCommit,
         SettleRaises, SettleRest, Requeue, RequeueAs, SettleDone
    <3> QED BY <3>1, <3>2, <3>3, <3>4, <3>5, <3>6
            DEF OwnStep, Run, BeginRefused, RefreshFails, Admit, Expire, RunEnds, RunFails
  <2>3. ~HasPending(Direct)
    BY <1>0, <1>2, <1>3, <2>1, <2>2 DEF BeginTurn
  <2>4. inbox' = inbox BY <2>2 DEF BeginTurn
  <2> QED BY <1>2, <2>3, <2>4 DEF HasPending
<1> QED BY <1>4, <1>5

LEMMA YieldsInvNext ==
  ASSUME YieldsInv, OrderlyStop, ~({"stop", "fail"} \subseteq Features),
         "wait" \notin Features, [SchedNext]_schedVars
  PROVE  YieldsInv'
<1>0. /\ TurnsInv /\ TurnsInv' /\ SchedBase
      /\ cons \in [Tokens -> Consumers] /\ turn \in [Messages -> Phases]
      /\ nextToken \in 0 .. MaxToken /\ inbox \in Seq(Messages)
  BY TurnsInvNext, ConsTyped
     DEF YieldsInv, TurnsInv, OwnerInv, SchedBase, SchedTypeOK, InboxTypeOK
<1>1. CASE \E t \in Tokens : OwnStep(t)
  <2>1. PICK t \in Tokens : OwnStep(t) BY <1>1
  <2>2. Moved(t) BY <1>0, <2>1, OwnStepMoves
  <2>3. \A u \in Tokens : u # t => cons'[u] = cons[u] BY <1>0, <2>2 DEF Moved
  <2>4. ModeFits(cons'[t]) BY <1>0, <2>1, ModeKept DEF YieldsInv, ModesFit
  <2>5. ModesFit' BY <2>3, <2>4 DEF YieldsInv, ModesFit, ModeFits
  <2> QED BY <1>0, <2>1, <2>5, OwnStepYields DEF YieldsInv
<1>2. CASE \E m \in Messages : Dispatch(m)
  <2>1. PICK m \in Messages : Dispatch(m) BY <1>2
  <2>2. \A u \in Tokens : cons'[u] = cons[u] \/ cons'[u].pc = "launch"
    BY <1>0, <2>1, DispatchMoves
  <2>3. ModesFit' BY <2>2 DEF YieldsInv, ModesFit, ModeFits, Working
  <2>4. AmbientYields'
    <3>1. CASE m \in Direct /\ mstate'[m] = "accepted"
      <4>1. turn' = AmbientCancelled BY <2>1, <3>1 DEF Dispatch
      <4>2. \A n \in Ambient : turn'[n] # "active"
        BY <4>1, InboxAssumption DEF AmbientCancelled
      <4> QED BY <4>2 DEF AmbientYields
    <3>2. CASE ~(m \in Direct /\ mstate'[m] = "accepted")
      <4>1. turn' = turn BY <2>1, <3>2 DEF Dispatch
      <4>2. HasPending(Direct)' => HasPending(Direct)
        BY <1>0, <2>1, <3>2, NewInQueue
      <4> QED BY <4>1, <4>2 DEF YieldsInv, AmbientYields
    <3> QED BY <3>1, <3>2
  <2> QED BY <1>0, <2>3, <2>4 DEF YieldsInv
<1>3. CASE \E t \in Tokens : Exit(t)
  <2>1. PICK t \in Tokens : Exit(t) BY <1>3
  <2>2. \A u \in Tokens : cons'[u] = cons[u] \/ cons'[u].pc \in {"start", "off"}
    BY <1>0, <2>1, ExitMoves
  <2>3. ModesFit' BY <2>2 DEF YieldsInv, ModesFit, ModeFits, Working
  <2>4. turn' = turn /\ inbox' = inbox BY <1>0, <2>1, ExitMoves
  <2> QED BY <1>0, <2>3, <2>4 DEF YieldsInv, AmbientYields, HasPending
<1>4. CASE BeginStop \/ EndStop \/ Restart
  <2>1. turn' = turn /\ inbox' = inbox BY <1>0, <1>4, EngineMoves
  <2>2. \A u \in Tokens : cons'[u] = cons[u] \/ cons'[u].pc = "start"
    <3>1. CASE BeginStop BY <3>1 DEF BeginStop
    <3>2. CASE EndStop BY <1>0, <3>2, StopMoves
    <3>3. CASE Restart
      <4>1. cons' = cons \/ cons' = [cons EXCEPT ![nextToken'] = Fresh("start")]
        BY <3>3 DEF Restart
      <4> QED BY <1>0, <4>1
    <3> QED BY <1>4, <3>1, <3>2, <3>3
  <2>3. ModesFit' BY <2>2 DEF YieldsInv, ModesFit, ModeFits, Working
  <2> QED BY <1>0, <2>1, <2>3 DEF YieldsInv, AmbientYields, HasPending
<1>5. CASE UNCHANGED schedVars
  BY <1>0, <1>5 DEF YieldsInv, ModesFit, ModeFits, AmbientYields, HasPending
<1> QED BY <1>1, <1>2, <1>3, <1>4, <1>5, StepKinds DEF Shared

\* No ambient turn stays active while a direct task is queued behind it, on no path that
\* gives messages back to the queue either: true while the planner does not wait (an
\* ambient turn that resumes from a wait does not look at the queue).
THEOREM AmbientGivesWay ==
  ASSUME OrderlyStop, ~({"stop", "fail"} \subseteq Features), "wait" \notin Features
  PROVE  SchedSpec => []AmbientYields
<1>1. SchedInit => YieldsInv
  <2>1. SchedInit => TurnsInv BY TurnsInvInit
  <2>2. SchedInit => ModesFit /\ AmbientYields
    BY InboxAssumption
       DEF SchedInit, ModesFit, ModeFits, Working, AmbientYields
  <2> QED BY <2>1, <2>2 DEF YieldsInv
<1>2. YieldsInv /\ [SchedNext]_schedVars => YieldsInv' BY YieldsInvNext
<1>3. YieldsInv => AmbientYields BY DEF YieldsInv
<1> QED BY <1>1, <1>2, <1>3, PTL DEF SchedSpec

(***************************************************************************)
(* Nothing accepted is lost: what the leases hold.                         *)
(***************************************************************************)
LEMMA ConsTail ==
  ASSUME NEW S, NEW x \in S, NEW q \in Seq(S)
  PROVE  /\ <<x>> \o q # <<>> /\ <<x>> \o q \in Seq(S)
         /\ Head(<<x>> \o q) = x /\ Tail(<<x>> \o q) = q
<1> DEFINE c == <<x>> \o q
<1>1. <<x>> \in Seq(S) /\ Len(<<x>>) = 1 /\ <<x>>[1] = x OBVIOUS
<1>2. Len(q) \in Nat BY LenProperties
<1>3. /\ c \in Seq(S) /\ Len(c) = 1 + Len(q)
      /\ \A i \in 1 .. 1 + Len(q) : c[i] = IF i <= 1 THEN <<x>>[i] ELSE q[i - 1]
  BY <1>1, ConcatProperties
<1> HIDE DEF c
<1>4. c # <<>> BY <1>2, <1>3, EmptySeq
<1>5. /\ Tail(c) \in Seq(S) /\ Len(Tail(c)) = Len(q)
      /\ Tail(c) = SubSeq(c, 2, Len(c))
  BY <1>2, <1>3, <1>4, HeadTailProperties, TailIsSubSeq
<1>6. \A i \in 1 .. Len(q) : Tail(c)[i] = q[i]
  BY <1>2, <1>3, <1>4, HeadTailProperties
<1>7. Tail(c) = q BY <1>5, <1>6, SeqEqual
<1>8. Head(c) = x BY <1>1, <1>2, <1>3, <1>4
<1> QED BY <1>3, <1>4, <1>7, <1>8 DEF c

\* What a lease still owes, when its next item is settled.
LEMMA RestSettled ==
  ASSUME NEW l \in Leases, l.active, l.committed < Len(l.items)
  PROVE  /\ Rest(l) # <<>> /\ Rest(l) \in Seq(Messages)
         /\ Head(Rest(l)) = NextOf(l)
         /\ Rest([items |-> l.items, committed |-> l.committed + 1,
                  active |-> l.committed + 1 < Len(l.items)]) = Tail(Rest(l))
<1>1. l.items \in Seq(Messages) /\ l.committed \in Nat BY DEF Leases
<1>2. Len(l.items) \in Nat BY <1>1, LenProperties
<1> DEFINE n == Len(l.items)
           k == l.committed + 1
           q == SubSeq(l.items, k, n)
<1>3. k \in 1 .. n /\ n \in k .. n BY <1>1, <1>2
<1>4. Head(q) = l.items[k] /\ Tail(q) = SubSeq(l.items, k + 1, n)
  BY <1>1, <1>3, HeadTailOfSubSeq
<1>5. q \in Seq(Messages) /\ q # <<>>
  <2>1. ASSUME NEW i \in k .. n PROVE l.items[i] \in Messages
    <3>1. i \in 1 .. Len(l.items) BY <1>1, <1>2, <2>1
    <3> QED BY <1>1, <3>1, ElementOfSeq
  <2>2. q \in Seq(Messages) /\ Len(q) = n - k + 1
    BY <1>1, <1>2, <1>3, <2>1, SubSeqProperties
  <2>3. n - k + 1 # 0 BY <1>1, <1>2, <1>3
  <2>4. Len(<<>>) = 0 BY EmptySeq
  <2> HIDE DEF q
  <2> QED BY <2>2, <2>3, <2>4
<1>6. Rest(l) = q BY DEF Rest, Uncommitted
<1>7. ~(k < n) => SubSeq(l.items, k + 1, n) = <<>>
  BY <1>1, <1>2, SubSeqEmpty
<1>8. Rest([items |-> l.items, committed |-> k, active |-> k < n])
        = SubSeq(l.items, k + 1, n)
  BY <1>7 DEF Rest, Uncommitted
<1> QED BY <1>4, <1>5, <1>6, <1>8 DEF NextOf

\* A lease of which nothing is settled, or none.
Whole(l) == l = NoLease \/ (l.active /\ l.committed = 0)

LEMMA WholeRest ==
  ASSUME NEW l \in Leases, Whole(l)
  PROVE  Rest(l) = l.items /\ (l.active => Uncommitted(l) = l.items)
<1>1. l.items \in Seq(Messages) BY DEF Leases
<1>2. SubSeq(l.items, 1, Len(l.items)) = l.items BY <1>1, SubSeqFull
<1>3. CASE l = NoLease BY <1>3 DEF Rest, NoLease
<1>4. CASE l.active /\ l.committed = 0
  <2>1. 0 + 1 = 1 OBVIOUS
  <2> QED BY <1>2, <1>4, <2>1 DEF Rest, Uncommitted
<1> QED BY <1>3, <1>4 DEF Whole

(***************************************************************************)
(* What the steps of the inbox keep.                                       *)
(***************************************************************************)
LeasesOwe == \A s \in Slots : lease[s].active => lease[s].committed < Len(lease[s].items)

Stock == InboxInv /\ CapacityInv /\ LeasesOwe

\* Nothing but leases that are over is written.
LEMMA StockKept ==
  ASSUME Stock, InboxTypeOK', UNCHANGED <<inbox, leasedCount, mstate>>,
         \A s \in Slots : lease'[s] = lease[s] \/ (~lease[s].active /\ ~lease'[s].active)
  PROVE  Stock'
<1>1. \A s \in Slots : LeasedItems(s)' = LeasedItems(s) BY DEF LeasedItems
<1>2. Held' = Held BY <1>1 DEF Held
<1>3. NoDuplicate' BY <1>1 DEF Stock, InboxInv, NoDuplicate
<1>4. EachAcceptedHeld' BY <1>1 DEF Stock, InboxInv, EachAcceptedHeld
<1>5. CapacityInv' BY <1>2 DEF Stock, CapacityInv
<1>6. LeasesOwe' BY DEF Stock, LeasesOwe
<1> QED BY <1>3, <1>4, <1>5, <1>6 DEF Stock, InboxInv

LEMMA StockClaimed ==
  ASSUME Stock, InboxTypeOK', NEW s \in Slots, ~lease[s].active,
         NEW a \in Nat, NEW b \in Nat, a < b, b <= Len(inbox),
         inbox' = Cut(inbox, a, b),
         lease' = [lease EXCEPT ![s] = [items |-> SubSeq(inbox, a + 1, b),
                                        committed |-> 0, active |-> TRUE]],
         leasedCount' = leasedCount + (b - a), mstate' = mstate
  PROVE  Stock'
<1>1. NoDuplicate' /\ EachAcceptedHeld' BY MoveInv DEF Stock
<1>2. CapacityInv' BY CapacityMove DEF Stock
<1>3. Len(SubSeq(inbox, a + 1, b)) > 0
  <2>1. inbox \in Seq(Messages) /\ Len(inbox) \in Nat
    BY LenProperties DEF Stock, InboxInv, InboxTypeOK
  <2>2. \A i \in a + 1 .. b : i \in 1 .. Len(inbox) BY <2>1
  <2>3. \A i \in a + 1 .. b : inbox[i] \in Messages BY <2>1, <2>2, ElementOfSeq
  <2>4. Len(SubSeq(inbox, a + 1, b)) = b - (a + 1) + 1 BY <2>3, SubSeqProperties
  <2> QED BY <2>4
<1>4. LeasesOwe' BY <1>3 DEF Stock, LeasesOwe, InboxInv, InboxTypeOK
<1> QED BY <1>1, <1>2, <1>4 DEF Stock, InboxInv

LEMMA StockSettled ==
  ASSUME Stock, InboxTypeOK', NEW s \in Slots,
         NEW how \in {"admitted", "failed"}, Settle(s, how)
  PROVE  Stock'
<1>0. how \in MessageStates \ {"accepted"} BY DEF MessageStates
<1>1. NoDuplicate' /\ EachAcceptedHeld' BY <1>0, SettleInv DEF Stock
<1>2. CapacityInv' BY <1>0, CapacitySettle DEF Stock
<1>3. LeasesOwe' BY DEF Stock, LeasesOwe, InboxInv, InboxTypeOK, Settle
<1> QED BY <1>1, <1>2, <1>3 DEF Stock, InboxInv

LEMMA StockReturned ==
  ASSUME Stock, InboxTypeOK', NEW s \in Slots, RequeueFront(s)
  PROVE  Stock'
<1>1. NoDuplicate' /\ EachAcceptedHeld' BY RequeueInv DEF Stock
<1>2. CapacityInv' BY CapacityRequeue DEF Stock
<1>3. LeasesOwe' BY DEF Stock, LeasesOwe, InboxInv, InboxTypeOK, RequeueFront, Closed
<1> QED BY <1>1, <1>2, <1>3 DEF Stock, InboxInv

\* requeue_front() of a whole work: its two leases end, and what they owe comes back.
LEMMA StockRequeued ==
  ASSUME Stock, InboxTypeOK', NEW h \in Slots, NEW f \in Slots, h # f,
         inbox' = (Rest(lease[h]) \o Rest(lease[f])) \o inbox,
         leasedCount' = Release(Len(Rest(lease[h]) \o Rest(lease[f]))),
         mstate' = mstate, ~lease'[h].active, ~lease'[f].active,
         \A s \in Slots \ {h, f} :
           lease'[s] = lease[s] \/ (~lease[s].active /\ ~lease'[s].active)
  PROVE  Stock'
<1> DEFINE rest == Rest(lease[h]) \o Rest(lease[f])
<1>1. /\ inbox \in Seq(Messages) /\ Len(inbox) \in Nat
      /\ InboxInv /\ CapacityInv /\ NoDuplicate /\ MaxInbox \in Nat
  BY InboxAssumption, LenProperties DEF Stock, InboxInv, InboxTypeOK
<1>2. HeldOnce BY <1>1, Halves
<1>3. /\ rest \in Seq(Messages) /\ Len(rest) \in Nat /\ Distinct(rest)
      /\ ItemsOf(rest) = LeasedItems(h) \cup LeasedItems(f)
      /\ ItemsOf(rest) \cap ItemsOf(inbox) = {}
  BY <1>2, RestsOnce
<1>4. inbox' = rest \o inbox /\ leasedCount' = Release(Len(rest)) OBVIOUS
<1>5. NoDuplicate' BY <1>2, RequeuedOnce
<1> HIDE DEF rest
<1>6. ItemsOf(inbox') = ItemsOf(rest) \cup ItemsOf(inbox)
  BY <1>1, <1>3, <1>4, ConcatItems
<1>7. /\ LeasedItems(h)' = {} /\ LeasedItems(f)' = {}
      /\ \A s \in Slots \ {h, f} : LeasedItems(s)' = LeasedItems(s)
  BY DEF LeasedItems
<1>8. EachAcceptedHeld'
  <2>1. \A m \in Messages :
          m \in ItemsOf(rest) \/ (\E s \in Slots : m \in LeasedItems(s)')
          <=> \E s \in Slots : m \in LeasedItems(s)
    BY <1>3, <1>7
  <2> QED BY <1>1, <1>6, <2>1 DEF InboxInv, EachAcceptedHeld
<1>9. CapacityInv'
  <2>1. ItemsOf(rest) \subseteq Held BY <1>3 DEF Held
  <2>2. Held' = Held \ ItemsOf(rest)
    <3>1. ItemsOf(rest) = LeasedItems(h) \cup LeasedItems(f) BY <1>3
    <3>2. \A s \in Slots \ {h, f} : LeasedItems(s) \cap ItemsOf(rest) = {}
      BY <1>1, <3>1 DEF NoDuplicate
    <3> QED BY <1>7, <3>1, <3>2 DEF Held
  <2>3. Cardinality(ItemsOf(rest)) = Len(rest) BY <1>3, DistinctLength
  <2>4. /\ IsFiniteSet(Held \ ItemsOf(rest)) /\ leasedCount \in Nat
        /\ Len(rest) <= leasedCount
        /\ Cardinality(Held \ ItemsOf(rest)) = leasedCount - Len(rest)
    BY <1>1, <2>1, <2>3, HeldShrinks DEF CapacityInv
  <2>5. Release(Len(rest)) = leasedCount - Len(rest) BY <1>3, <2>4 DEF Release
  <2>6. Len(inbox') = Len(rest) + Len(inbox) BY <1>1, <1>3, <1>4, ConcatProperties
  <2>7. Len(inbox') + leasedCount' <= MaxInbox
    BY <1>1, <1>3, <1>4, <2>4, <2>5, <2>6 DEF CapacityInv
  <2> QED BY <1>4, <2>2, <2>4, <2>5, <2>7 DEF CapacityInv
<1>10. LeasesOwe' BY DEF Stock, LeasesOwe
<1> QED BY <1>5, <1>8, <1>9, <1>10 DEF Stock, InboxInv

(***************************************************************************)
(* Where nothing is lost.                                                  *)
(***************************************************************************)
\* Nothing happens by which the code loses a message or its place: a stop gives the
\* consumers the time they need, and does not come while a failure is handled or before
\* a turn's handlers are entered; no ambient message is dropped for want of room; no
\* ambient turn waits, or is stopped.
Undisturbed ==
  /\ OrderlyStop
  /\ ~({"stop", "fail"} \subseteq Features)
  /\ "hint" \in Features => Features \cap {"stop", "fail"} = {}
  /\ Ambient # {} => /\ IsFiniteSet(Messages) /\ Cardinality(Messages) <= MaxInbox
                     /\ Features \cap {"wait", "stop"} = {}

Resting == {"off", "launch", "start", "select", "idle", "collect"}
Begun == {"begin", "run", "drain", "ran", "wait", "woken", "steered"}

\* The leases of a work (head and follow) that is whole, that is over, or of which the
\* handlers have still to settle what is in todo.
Leased(c, h, f) ==
  /\ h = [items |-> <<c.first>>, committed |-> 0, active |-> TRUE]
  /\ Whole(f) /\ c.first \notin ItemsOf(f.items)

Over(h, f) == ~h.active /\ ~f.active

Unsettled(c, h, f) ==
  /\ h.items = <<c.first>> /\ (h.active => h.committed = 0)
  /\ c.first \notin ItemsOf(f.items)
  /\ c.todo = Rest(h) \o Rest(f)

\* Which leases a consumer holds where it is: by kind, as in LeaseKinds.
Fits(c, h, f, w, d) ==
  /\ c.pc \in Resting => ~h.active /\ f = NoLease
  /\ c.pc = "claim" => ~h.active /\ Whole(f)
  /\ c.pc \in Begun => Leased(c, h, f)
  /\ c.pc = "cancelTurn" => Over(h, f) \/ Leased(c, h, f)
  /\ c.pc \in {"cas", "settle"} => Over(h, f) \/ Unsettled(c, h, f)
  /\ c.pc \in {"finish", "finalize", "exit"} => Over(h, f)
  /\ d.active => c.pc = "drain"
  /\ w.active => /\ c.pc \in {"run", "drain", "steered"}
                 /\ c.pc = "run" => c.mode # "active"
  /\ c.pc = "steered" => w.active
  /\ "wait" \notin Features => w = NoLease

FitsAt(t) == Fits(cons[t], HeadLease(t), FollowLease(t), WaitLease(t), DrainLease(t))
LeasesFit == \A t \in Tokens : FitsAt(t)

\* The head that a consumer has seen is still the head when it claims it.
HeadSeen(c) ==
  c.pc \in {"collect", "claim"} => inbox # <<>> /\ Head(inbox) = c.first
HeadStays == \A t \in Tokens : HeadSeen(cons[t])

\* Only handlers of errors are cut off by a stop, and where there are stops there are none.
StopsClean ==
  "stop" \in Features =>
    \A t \in Tokens : cons[t].pc \in Handling \cup {"steered"} => cons[t].after # "error"

CancelledAmbient == \A m \in Messages : turn[m] = "cancelled" => m \in Ambient

KeptInv ==
  /\ TurnsInv /\ ModesFit /\ CancelledAmbient /\ StopsClean
  /\ Stock /\ LeasesFit /\ HeadStays

\* What a step of one consumer does to its leases and to the inbox.
Carried(t) ==
  /\ Stock'
  /\ FitsAt(t)' /\ HeadSeen(cons[t])'
  /\ \A s \in Slots : s[1] # t => lease'[s] = lease[s]

LEMMA SlotsOwned ==
  ASSUME NEW t \in Tokens
  PROVE  /\ \A kind \in LeaseKinds : <<t, kind>> \in Slots
         /\ <<t, "head">> \in Slots /\ <<t, "follow">> \in Slots
         /\ <<t, "wait">> \in Slots /\ <<t, "drain">> \in Slots
         /\ \A s \in Slots : s[1] = t => \E kind \in LeaseKinds : s = <<t, kind>>
BY SchedulerAssumption DEF LeaseKinds

LEMMA KeptFacts ==
  ASSUME KeptInv, NEW t \in Tokens
  PROVE  /\ SchedBase /\ SchedTypeOK /\ InboxTypeOK /\ Stock
         /\ cons \in [Tokens -> Consumers] /\ cons[t] \in Consumers
         /\ lease \in [Slots -> Leases] /\ turn \in [Messages -> Phases]
         /\ HeadLease(t) \in Leases /\ FollowLease(t) \in Leases
         /\ WaitLease(t) \in Leases /\ DrainLease(t) \in Leases
         /\ FitsAt(t) /\ HeadSeen(cons[t]) /\ ModeFits(cons[t])
<1>1. SchedBase /\ SchedTypeOK /\ InboxTypeOK /\ Stock
  BY DEF KeptInv, TurnsInv, OwnerInv, SchedBase, SchedTypeOK
<1>2. cons \in [Tokens -> Consumers] /\ turn \in [Messages -> Phases]
  BY <1>1, ConsTyped DEF SchedTypeOK
<1>3. lease \in [Slots -> Leases] BY <1>1 DEF InboxTypeOK
<1> QED BY <1>1, <1>2, <1>3, SlotsOwned
        DEF KeptInv, LeasesFit, HeadStays, ModesFit, HeadLease, FollowLease, WaitLease,
            DrainLease

\* A step that leaves the inbox and the leases alone.
LEMMA PlainCarried ==
  ASSUME KeptInv, NEW t \in Tokens, OwnStep(t),
         UNCHANGED <<inbox, leasedCount, lease, mstate>>,
         Fits(cons'[t], HeadLease(t), FollowLease(t), WaitLease(t), DrainLease(t)),
         HeadSeen(cons'[t])
  PROVE  Carried(t)
<1>1. Stock' BY KeptFacts, OwnStepInbox, StockKept
<1>2. FitsAt(t)' BY DEF FitsAt, HeadLease, FollowLease, WaitLease, DrainLease
<1>3. HeadSeen(cons[t])' BY DEF HeadSeen
<1> QED BY <1>1, <1>2, <1>3 DEF Carried

\* A consumer lets go of leases that are over.
LEMMA DropCarried ==
  ASSUME KeptInv, NEW t \in Tokens, OwnStep(t),
         UNCHANGED <<inbox, leasedCount, mstate>>, DropLeases(t),
         Over(HeadLease(t), FollowLease(t)),
         ~WaitLease(t).active, ~DrainLease(t).active,
         cons'[t].pc \in Resting \cup {"exit"}, cons'[t].pc # "collect"
  PROVE  Carried(t)
<1>0. InboxTypeOK' /\ lease \in [Slots -> Leases] /\ Stock BY KeptFacts, OwnStepInbox
<1>1. \A s \in Slots : s[1] = t => ~lease[s].active
  BY SlotsOwned DEF Over, HeadLease, FollowLease, WaitLease, DrainLease, LeaseKinds
<1>2. \A s \in Slots : lease'[s] = IF s[1] = t THEN NoLease ELSE lease[s]
  BY DEF DropLeases
<1>3. Stock'
  <2>1. \A s \in Slots :
          lease'[s] = lease[s] \/ (~lease[s].active /\ ~lease'[s].active)
    BY <1>1, <1>2 DEF NoLease
  <2> QED BY <1>0, <2>1, StockKept
<1>4. \A kind \in LeaseKinds : lease'[<<t, kind>>] = NoLease BY <1>2, SlotsOwned
<1>5. FitsAt(t)'
  BY <1>4 DEF FitsAt, Fits, HeadLease, FollowLease, WaitLease, DrainLease, LeaseKinds,
     Resting, Begun, Over, NoLease
<1>6. HeadSeen(cons[t])' BY DEF HeadSeen, Resting
<1> QED BY <1>2, <1>3, <1>5, <1>6 DEF Carried

LEMMA SelectCarried ==
  ASSUME KeptInv, NEW t \in Tokens, OwnStep(t),
         Launch(t) \/ Select(t) \/ LaunchFails(t)
  PROVE  Carried(t)
<1>0. /\ SchedTypeOK /\ InboxTypeOK /\ Stock /\ InboxTypeOK'
      /\ cons \in [Tokens -> Consumers] /\ cons[t] \in Consumers
      /\ lease \in [Slots -> Leases] /\ FollowLease(t) \in Leases
      /\ FitsAt(t) /\ HeadSeen(cons[t])
  BY KeptFacts, OwnStepInbox
<1>1. /\ inbox \in Seq(Messages) /\ Len(inbox) \in Nat /\ leasedCount \in Nat
      /\ inbox # <<>> => Len(inbox) > 0 /\ Head(inbox) \in ItemsOf(inbox)
  <2>1. inbox \in Seq(Messages) /\ leasedCount \in Nat BY <1>0 DEF InboxTypeOK
  <2>2. Len(inbox) \in Nat /\ DOMAIN inbox = 1 .. Len(inbox) BY <2>1, LenProperties
  <2>3. inbox # <<>> => Len(inbox) > 0 BY <2>1, <2>2, EmptySeq
  <2>4. inbox # <<>> => 1 \in DOMAIN inbox /\ Head(inbox) = inbox[1]
    BY <2>1, <2>2, <2>3
  <2> QED BY <2>1, <2>2, <2>3, <2>4 DEF ItemsOf
<1> DEFINE F(c) == Fits(c, HeadLease(t), FollowLease(t), WaitLease(t), DrainLease(t))
<1>2. CASE Launch(t) \/ LaunchFails(t) \/ Idle(t)
  <2>1. UNCHANGED <<inbox, leasedCount, lease, mstate>>
    BY <1>2 DEF Launch, LaunchFails, Idle, ReleaseIfIdle
  <2>2. PICK pc \in {"start", "off", "select"} : Go(t, pc)
    BY <1>2 DEF Launch, LaunchFails, Idle
  <2>3. pc \in ConsumerStates BY DEF ConsumerStates, Selecting
  <2>4. cons'[t].pc = pc BY <1>0, <2>2, <2>3, GoMoves
  <2>5. cons[t].pc \in {"launch", "idle"} BY <1>2 DEF Launch, LaunchFails, Idle
  <2>6. F(cons'[t])
    BY <1>0, <2>4, <2>5
       DEF FitsAt, Fits, Resting, Begun
  <2>7. HeadSeen(cons'[t]) BY <2>4 DEF HeadSeen
  <2> QED BY <2>1, <2>6, <2>7, PlainCarried
<1>3. CASE Peek(t)
  <2>1. UNCHANGED <<inbox, leasedCount, lease, mstate>> BY <1>3 DEF Peek
  <2>2. cons[t].pc \in {"start", "select"} BY <1>3 DEF Peek
  <2>3. \/ cons'[t].pc = "idle"
        \/ cons'[t].pc \in {"collect", "claim"} /\ inbox # <<>>
           /\ cons'[t].first = Head(inbox)
    BY <1>0, <1>3 DEF Peek
  <2>4. F(cons'[t])
    BY <1>0, <2>2, <2>3
       DEF FitsAt, Fits, Resting, Begun, Whole
  <2>5. HeadSeen(cons'[t]) BY <2>3 DEF HeadSeen
  <2> QED BY <2>1, <2>4, <2>5, PlainCarried
<1>4. CASE Collect(t)
  <2>1. cons[t].pc = "collect" /\ Go(t, "claim") BY <1>4 DEF Collect
  <2>2. cons'[t].pc = "claim" /\ cons'[t].first = cons[t].first
    BY <1>0, <2>1, GoMoves DEF ConsumerStates, Selecting
  <2>3. inbox # <<>> /\ Head(inbox) = cons[t].first
    BY <1>0, <2>1 DEF HeadSeen
  <2>4. CASE UNCHANGED inboxVars
    <3>1. F(cons'[t])
      BY <1>0, <2>1, <2>2 DEF FitsAt, Fits, Resting, Begun, Whole
    <3>2. HeadSeen(cons'[t]) BY <2>2, <2>3 DEF HeadSeen
    <3> QED BY <2>4, <3>1, <3>2, PlainCarried
  <2>5. CASE ~UNCHANGED inboxVars
    <3>1. PICK n \in 1 .. MaxCollect - 1 :
            ClaimSteer(<<t, "follow">>, 1, n, cons[t].first, Messages)
      BY <1>4, <2>5 DEF Collect
    <3>2. n \in Nat \ {0} BY SchedulerAssumption
    <3>3. <<t, "follow">> \in Slots BY SlotsOwned
    <3>4. n \in 1 .. Len(inbox) /\ 1 + n <= Len(inbox)
      BY <1>0, <3>1, <3>2, <3>3, SteerTakes
    <3> DEFINE new == [items |-> SubSeq(inbox, 1 + 1, 1 + n), committed |-> 0, active |-> TRUE]
    <3>5. /\ inbox' = Cut(inbox, 1, 1 + n) /\ mstate' = mstate
          /\ leasedCount' = leasedCount + ((1 + n) - 1)
          /\ lease' = [lease EXCEPT ![<<t, "follow">>] = new]
      BY <1>1, <3>1, <3>2 DEF ClaimSteer, Cut
    <3>6. ~lease[<<t, "follow">>].active
      BY <1>0, <2>1 DEF FitsAt, Fits, Resting, FollowLease, NoLease
    <3>7. 1 + n \in Nat /\ 1 < 1 + n BY <3>2
    <3>8. Stock' BY <1>0, <3>3, <3>4, <3>5, <3>6, <3>7, StockClaimed
    <3>9. Len(inbox') > 0 /\ inbox'[1] = inbox[1] /\ inbox' \in Seq(Messages)
      <4> DEFINE b == 1 + n
      <4>1. b \in Nat /\ 1 <= b /\ b <= Len(inbox) BY <3>4, <3>7
      <4>2. 1 \in Nat OBVIOUS
      <4>3. Len(inbox) - (b - 1) \in Nat /\ Len(inbox) - (b - 1) >= 1
        BY <1>1, <3>2, <3>4
      <4>4. inbox' = Cut(inbox, 1, b) BY <3>5
      <4> HIDE DEF b
      <4>5. /\ inbox' \in Seq(Messages) /\ Len(inbox') = Len(inbox) - (b - 1)
            /\ \A i \in 1 .. Len(inbox) - (b - 1) :
                 inbox'[i] = IF i <= 1 THEN inbox[i] ELSE inbox[i + (b - 1)]
        <5>1. /\ Cut(inbox, 1, b) \in Seq(Messages)
              /\ Len(Cut(inbox, 1, b)) = Len(inbox) - (b - 1)
              /\ \A i \in 1 .. Len(inbox) - (b - 1) :
                   Cut(inbox, 1, b)[i] = IF i <= 1 THEN inbox[i] ELSE inbox[i + (b - 1)]
          BY <1>1, <4>1, <4>2, CutProperties
        <5> QED BY <4>4, <5>1
      <4> QED BY <4>3, <4>5
    <3>10. inbox' # <<>> /\ Head(inbox') = Head(inbox)
      BY <1>1, <2>3, <3>9, EmptySeq
    <3> HIDE DEF new
    <3>11. lease'[<<t, "follow">>] = new /\ \A s \in Slots : s # <<t, "follow">> => lease'[s] = lease[s]
      BY <1>0, <3>3, <3>5
    <3>12. new.active /\ new.committed = 0 BY DEF new
    <3>13. FitsAt(t)'
      BY <1>0, <2>1, <2>2, <3>11, <3>12, SlotsOwned
         DEF FitsAt, Fits, Resting, Begun, Whole, HeadLease, FollowLease, WaitLease, DrainLease
    <3>14. HeadSeen(cons[t])' BY <2>2, <2>3, <3>10 DEF HeadSeen
    <3> QED BY <3>8, <3>11, <3>13, <3>14 DEF Carried
  <2> QED BY <2>4, <2>5
<1>5. CASE ClaimHead(t)
  <2>1. cons[t].pc = "claim" /\ ClaimNext(<<t, "head">>, t) BY <1>5 DEF ClaimHead
  <2>2. inbox # <<>> /\ Head(inbox) = cons[t].first BY <1>5 DEF ClaimHead, ClaimNext
  <2>3. cons'[t].pc = "begin" /\ cons'[t].first = cons[t].first
    BY <1>0, <1>5 DEF ClaimHead, Consumers
  <2>4. <<t, "head">> \in Slots BY SlotsOwned
  <2> DEFINE new == [items |-> <<cons[t].first>>, committed |-> 0, active |-> TRUE]
  <2>5. /\ inbox' = Tail(inbox) /\ mstate' = mstate /\ leasedCount' = leasedCount + 1
        /\ lease' = [lease EXCEPT ![<<t, "head">>] = new]
    BY <2>1, <2>2 DEF ClaimNext
  <2>6. ~lease[<<t, "head">>].active
    BY <1>0, <2>1 DEF FitsAt, Fits, HeadLease
  <2>7. inbox' = Cut(inbox, 0, 1) /\ SubSeq(inbox, 0 + 1, 1) = <<cons[t].first>>
    <3>1. 0 + 1 = 1 OBVIOUS
    <3> QED BY <1>1, <2>2, <2>5, <3>1, TailIsCut, HeadIsPart
  <2>8. Stock'
    <3>1. 0 \in Nat /\ 1 \in Nat /\ 0 < 1 /\ 1 <= Len(inbox) BY <1>1, <2>2
    <3>2. leasedCount' = leasedCount + (1 - 0) BY <2>5
    <3> QED BY <1>0, <2>4, <2>5, <2>6, <2>7, <3>1, <3>2, StockClaimed
  <2> HIDE DEF new
  <2>9. lease'[<<t, "head">>] = new /\ \A s \in Slots : s # <<t, "head">> => lease'[s] = lease[s]
    BY <1>0, <2>4, <2>5
  <2>10. Whole(FollowLease(t)) BY <1>0, <2>1 DEF FitsAt, Fits
  <2>11. cons[t].first \notin ItemsOf(FollowLease(t).items)
    <3>1. CASE FollowLease(t) = NoLease BY <3>1 DEF NoLease, ItemsOf
    <3>2. CASE FollowLease(t).active
      <4>1. Uncommitted(FollowLease(t)) = FollowLease(t).items
        BY <1>0, <2>10, <3>2, WholeRest
      <4>2. LeasedItems(<<t, "follow">>) = ItemsOf(FollowLease(t).items)
        BY <3>2, <4>1 DEF LeasedItems, FollowLease
      <4>3. <<t, "follow">> \in Slots BY SlotsOwned
      <4> QED BY <1>0, <1>1, <2>2, <4>2, <4>3 DEF Stock, InboxInv, NoDuplicate
    <3> QED BY <2>10, <3>1, <3>2 DEF Whole
  <2>12. Leased(cons'[t], new, FollowLease(t))
    BY <2>3, <2>10, <2>11 DEF Leased, new
  <2>13. FitsAt(t)'
    BY <1>0, <2>1, <2>3, <2>9, <2>12, SlotsOwned
       DEF FitsAt, Fits, Resting, Begun, HeadLease, FollowLease, WaitLease, DrainLease
  <2>14. HeadSeen(cons[t])' BY <2>3 DEF HeadSeen
  <2> QED BY <2>8, <2>9, <2>13, <2>14 DEF Carried
<1>6. ~ClaimStaleHead(t) BY <1>0 DEF ClaimStaleHead, HeadSeen
<1> QED BY <1>2, <1>3, <1>4, <1>5, <1>6 DEF Select

\* An exception leaves the body of a work that is whole, or whose leases are over.
LEMMA RaiseFits ==
  ASSUME KeptInv, NEW t \in Tokens, NEW how \in {"error", "abort"},
         cons' = [cons EXCEPT ![t] = Raise(@, how)],
         cons[t].pc \in Begun \cup {"finalize"},
         NEW w, ~w.active, NEW d, ~d.active, "wait" \notin Features => w = NoLease
  PROVE  /\ Fits(cons'[t], HeadLease(t), FollowLease(t), w, d)
         /\ HeadSeen(cons'[t]) /\ cons'[t].pc = "cancelTurn"
<1>0. /\ SchedTypeOK /\ FitsAt(t) BY KeptFacts
<1>1. cons'[t].pc = "cancelTurn" /\ cons'[t].first = cons[t].first
  BY <1>0, RaiseMoves
<1>2. \/ Over(HeadLease(t), FollowLease(t))
      \/ Leased(cons[t], HeadLease(t), FollowLease(t))
  BY <1>0 DEF FitsAt, Fits
<1> QED BY <1>1, <1>2 DEF Fits, HeadSeen, Leased, Resting, Begun

LEMMA AfterRunFits ==
  ASSUME KeptInv, NEW t \in Tokens, NEW how \in {"ran", "error", "abort"},
         cons[t].pc = "run", AfterRun(t, how)
  PROVE  /\ Fits(cons'[t], HeadLease(t), FollowLease(t), WaitLease(t), DrainLease(t))
         /\ HeadSeen(cons'[t])
<1>0. /\ SchedTypeOK /\ FitsAt(t) /\ cons \in [Tokens -> Consumers] /\ cons[t] \in Consumers
  BY KeptFacts
<1>1. ~DrainLease(t).active /\ Leased(cons[t], HeadLease(t), FollowLease(t))
      /\ ("wait" \notin Features => WaitLease(t) = NoLease)
  BY <1>0 DEF FitsAt, Fits, Begun
<1>2. CASE WaitLease(t).active
  <2>1. cons'[t].pc = "steered" /\ cons'[t].first = cons[t].first
    BY <1>0, <1>2, AfterRunMoves
  <2> QED BY <1>1, <1>2, <2>1 DEF Fits, HeadSeen, Leased, Resting, Begun
<1>3. CASE ~WaitLease(t).active /\ how = "ran"
  <2>1. cons'[t].pc = "ran" /\ cons'[t].first = cons[t].first
    BY <1>0, <1>3, AfterRunMoves
  <2> QED BY <1>1, <1>3, <2>1 DEF Fits, HeadSeen, Leased, Resting, Begun
<1>4. CASE ~WaitLease(t).active /\ how # "ran"
  <2>1. how \in {"error", "abort"} /\ cons' = [cons EXCEPT ![t] = Raise(@, how)]
    BY <1>4 DEF AfterRun
  <2> QED BY <1>1, <1>4, <2>1, RaiseFits DEF Begun
<1> QED BY <1>2, <1>3, <1>4

LEMMA RunCarried ==
  ASSUME KeptInv, Undisturbed, NEW t \in Tokens, OwnStep(t), Run(t)
  PROVE  Carried(t)
<1>0. /\ SchedTypeOK /\ FitsAt(t) /\ cons \in [Tokens -> Consumers] /\ cons[t] \in Consumers
  BY KeptFacts
<1>1. ~RefreshFails(t) BY DEF RefreshFails, Undisturbed
<1>2. UNCHANGED <<inbox, leasedCount, lease, mstate>>
  BY <1>1 DEF Run, BeginTurn, BeginRefused, Admit, Expire, RunEnds, RunFails
<1>3. CASE BeginTurn(t)
  <2>1. PICK mode \in {"direct", "active", "passive"} :
          cons' = [cons EXCEPT ![t].pc = "run", ![t].mode = mode,
                               ![t].todo = WorkItems(t)]
    BY <1>3 DEF BeginTurn
  <2>2. cons[t].pc = "begin" /\ cons'[t].pc = "run" /\ cons'[t].first = cons[t].first
    BY <1>0, <1>3, <2>1 DEF BeginTurn, Consumers
  <2>3. Fits(cons'[t], HeadLease(t), FollowLease(t), WaitLease(t), DrainLease(t))
    BY <1>0, <2>2 DEF FitsAt, Fits, Leased, Resting, Begun
  <2> QED BY <1>2, <2>2, <2>3, PlainCarried DEF HeadSeen
<1>7. CASE Admit(t)
  <2>1. /\ cons[t].pc = "run" /\ cons'[t].mode = cons[t].mode
        /\ cons'[t].pc = "run" /\ cons'[t].first = cons[t].first
    BY <1>0, <1>7 DEF Admit, Consumers
  <2>2. Fits(cons'[t], HeadLease(t), FollowLease(t), WaitLease(t), DrainLease(t))
    BY <1>0, <2>1 DEF FitsAt, Fits, Leased, Resting, Begun
  <2> QED BY <1>2, <2>1, <2>2, PlainCarried DEF HeadSeen
<1>4. CASE Expire(t)
  <2>1. cons[t].pc = "run" /\ cons[t].mode = "active" /\ cons'[t].pc = "commit"
    BY <1>0, <1>4 DEF Expire, Consumers
  <2>2. Fits(cons'[t], HeadLease(t), FollowLease(t), WaitLease(t), DrainLease(t))
    BY <1>0, <2>1 DEF FitsAt, Fits, Resting, Begun
  <2> QED BY <1>2, <2>1, <2>2, PlainCarried DEF HeadSeen
<1>5. CASE BeginRefused(t)
  <2>1. cons[t].pc = "begin" /\ cons' = [cons EXCEPT ![t] = Raise(@, "error")]
    BY <1>5 DEF BeginRefused
  <2>2. /\ ~WaitLease(t).active /\ ~DrainLease(t).active
        /\ "wait" \notin Features => WaitLease(t) = NoLease
    BY <1>0, <2>1 DEF FitsAt, Fits
  <2> QED BY <1>2, <2>1, <2>2, RaiseFits, PlainCarried DEF Begun
<1>6. CASE RunEnds(t) \/ RunFails(t)
  BY <1>2, <1>6, AfterRunFits, PlainCarried DEF RunEnds, RunFails
<1> QED BY <1>1, <1>3, <1>4, <1>5, <1>6, <1>7 DEF Run

\* A steering claim into an empty place.
LEMMA PrefixCarried ==
  ASSUME KeptInv, NEW t \in Tokens, OwnStep(t), NEW kind \in LeaseKinds,
         ~lease[<<t, kind>>].active, ClaimPrefix(t, kind)
  PROVE  /\ Stock' /\ lease'[<<t, kind>>].active
         /\ \A s \in Slots : s # <<t, kind>> => lease'[s] = lease[s]
<1>0. /\ SchedTypeOK /\ InboxTypeOK /\ Stock /\ InboxTypeOK' /\ lease \in [Slots -> Leases]
  BY KeptFacts, OwnStepInbox
<1>1. PICK n \in 1 .. Len(inbox) :
        /\ ClaimSteer(<<t, kind>>, 0, n, inbox[1], Messages)
        /\ lease' = [lease EXCEPT ![<<t, kind>>] =
                       [items |-> SubSeq(inbox, 1, n), committed |-> 0, active |-> TRUE]]
  BY <1>0, PrefixTaken
<1>2. <<t, kind>> \in Slots BY SlotsOwned
<1>3. Len(inbox) \in Nat /\ leasedCount \in Nat BY <1>0, LenProperties DEF InboxTypeOK
<1>4. n \in Nat /\ 0 < n /\ n <= Len(inbox) /\ 0 \in Nat BY <1>3
<1>5. /\ inbox' = Cut(inbox, 0, n) /\ leasedCount' = leasedCount + (n - 0)
      /\ mstate' = mstate
  <2>1. 0 + n + 1 = n + 1 /\ n - 0 = n BY <1>4
  <2> QED BY <1>1, <2>1 DEF ClaimSteer, Cut
<1>6. SubSeq(inbox, 0 + 1, n) = SubSeq(inbox, 1, n) OBVIOUS
<1>7. Stock' BY <1>0, <1>1, <1>2, <1>4, <1>5, <1>6, StockClaimed
<1> QED BY <1>0, <1>1, <1>2, <1>7

LEMMA SettleCarried ==
  ASSUME KeptInv, NEW t \in Tokens, OwnStep(t), NEW s \in Slots,
         NEW how \in {"admitted", "failed"}, Settle(s, how)
  PROVE  /\ Stock' /\ \A r \in Slots : r # s => lease'[r] = lease[r]
         /\ lease'[s] = [items |-> lease[s].items, committed |-> lease[s].committed + 1,
                         active |-> lease[s].committed + 1 < Len(lease[s].items)]
         /\ lease[s].active
         /\ lease'[s].active <=> lease[s].committed + 1 < Len(lease[s].items)
<1>1. /\ Stock' /\ lease[s].active
      /\ \A r \in Slots : r # s => lease'[r] = lease[r]
      /\ lease'[s] = [items |-> lease[s].items, committed |-> lease[s].committed + 1,
                      active |-> lease[s].committed + 1 < Len(lease[s].items)]
  BY KeptFacts, OwnStepInbox, StockSettled DEF Settle
<1>2. CASE lease[s].committed + 1 < Len(lease[s].items)
  <2>1. lease'[s] = [items |-> lease[s].items, committed |-> lease[s].committed + 1,
                     active |-> TRUE]
    BY <1>1, <1>2
  <2>2. lease'[s].active BY <2>1
  <2> QED BY <1>1, <1>2, <2>2
<1>3. CASE ~(lease[s].committed + 1 < Len(lease[s].items))
  <2>1. (lease[s].committed + 1 < Len(lease[s].items)) = FALSE BY <1>3
  <2>2. lease'[s] = [items |-> lease[s].items, committed |-> lease[s].committed + 1,
                     active |-> FALSE]
    BY <1>1, <2>1, Zenon
  <2>3. ~lease'[s].active BY <2>2
  <2> QED BY <1>1, <1>3, <2>3
<1> QED BY <1>2, <1>3

LEMMA ReturnCarried ==
  ASSUME KeptInv, NEW t \in Tokens, OwnStep(t), NEW s \in Slots, RequeueFront(s)
  PROVE  /\ Stock' /\ \A r \in Slots : r # s => lease'[r] = lease[r]
         /\ ~lease'[s].active
BY KeptFacts, OwnStepInbox, StockReturned DEF RequeueFront, Closed

LEMMA DrainCarried ==
  ASSUME KeptInv, NEW t \in Tokens, OwnStep(t), Steer(t) \/ CancelDrain(t)
  PROVE  Carried(t)
<1>0. /\ SchedTypeOK /\ FitsAt(t) /\ cons \in [Tokens -> Consumers] /\ cons[t] \in Consumers
      /\ ModeFits(cons[t])
  BY KeptFacts
<1> DEFINE s == <<t, "drain">>
<1>1. /\ s \in Slots /\ "drain" \in LeaseKinds
      /\ s # <<t, "head">> /\ s # <<t, "follow">> /\ s # <<t, "wait">>
      /\ \A r \in Slots : r[1] # t => r # s
  <2>1. s[1] = t OBVIOUS
  <2>2. s \in Slots BY SlotsOwned
  <2>3. s # <<t, "head">> /\ s # <<t, "follow">> /\ s # <<t, "wait">> OBVIOUS
  <2> HIDE DEF s
  <2> QED BY <2>1, <2>2, <2>3 DEF LeaseKinds
<1> HIDE DEF s
<1>2. ASSUME Stock', \A r \in Slots : r # s => lease'[r] = lease[r],
             Fits(cons'[t], HeadLease(t), FollowLease(t), WaitLease(t), lease'[s]),
             cons'[t].pc \notin {"collect", "claim"}
      PROVE  Carried(t)
  <2>1. /\ HeadLease(t)' = HeadLease(t) /\ FollowLease(t)' = FollowLease(t)
        /\ WaitLease(t)' = WaitLease(t) /\ DrainLease(t)' = lease'[s]
    BY <1>1, <1>2, SlotsOwned DEF HeadLease, FollowLease, WaitLease, DrainLease, s
  <2>2. FitsAt(t)' BY <1>2, <2>1 DEF FitsAt
  <2> QED BY <1>1, <1>2, <2>2 DEF Carried, HeadSeen
<1>3. CASE DrainClaim(t)
  <2>1. cons[t].pc = "run" /\ ClaimPrefix(t, "drain") /\ Go(t, "drain")
    BY <1>3 DEF DrainClaim
  <2>2. cons'[t].pc = "drain" /\ cons'[t].first = cons[t].first
    BY <1>0, <2>1, GoMoves DEF ConsumerStates, Working
  <2>3. ~lease[<<t, "drain">>].active BY <1>0, <2>1 DEF FitsAt, Fits, DrainLease
  <2>4. /\ Stock' /\ \A r \in Slots : r # <<t, "drain">> => lease'[r] = lease[r]
    BY <1>1, <2>1, <2>3, PrefixCarried
  <2>5. Fits(cons'[t], HeadLease(t), FollowLease(t), WaitLease(t), lease'[s])
    BY <1>0, <2>1, <2>2 DEF FitsAt, Fits, Leased, Resting, Begun
  <2> QED BY <1>2, <2>2, <2>4, <2>5 DEF s
<1>4. ASSUME cons[t].pc = "drain", cons'[t].first = cons[t].first,
             cons'[t].mode = cons[t].mode,
             cons'[t].pc = "drain" \/ ~lease'[s].active,
             \/ cons'[t].pc \in {"drain", "run"}
             \/ cons'[t].pc = "steered" /\ WaitLease(t).active
             \/ cons'[t].pc = "cancelTurn" /\ ~WaitLease(t).active
      PROVE  /\ Fits(cons'[t], HeadLease(t), FollowLease(t), WaitLease(t), lease'[s])
             /\ cons'[t].pc \notin {"collect", "claim"}
  <2>1. cons[t].mode = "direct" BY <1>0, <1>4 DEF ModeFits
  <2>2. Leased(cons'[t], HeadLease(t), FollowLease(t))
    BY <1>0, <1>4 DEF FitsAt, Fits, Leased, Begun
  <2>3. "wait" \notin Features => WaitLease(t) = NoLease BY <1>0 DEF FitsAt, Fits
  <2> QED BY <1>4, <2>1, <2>2, <2>3 DEF Fits, Resting, Begun
<1>5. CASE DrainOne(t)
  <2>1. Settle(<<t, "drain">>, "admitted") BY <1>5 DEF DrainOne, Commit
  <2>2. Stock' /\ \A r \in Slots : r # s => lease'[r] = lease[r]
    BY <1>1, <2>1, SettleCarried DEF s
  <2>3. \E pc \in {"drain", "run"} : Go(t, pc) /\ (pc = "drain" <=> lease'[s].active)
    BY <1>5 DEF DrainOne, s
  <2>4. /\ cons[t].pc = "drain" /\ cons'[t].first = cons[t].first
        /\ cons'[t].mode = cons[t].mode /\ cons'[t].pc \in {"drain", "run"}
        /\ cons'[t].pc = "drain" <=> lease'[s].active
    BY <1>0, <1>5, <2>3, GoMoves DEF DrainOne, ConsumerStates, Working
  <2> QED BY <1>2, <1>4, <2>2, <2>4
<1>6. CASE DrainFails(t)
  <2>1. RequeueFront(<<t, "drain">>) /\ cons[t].pc = "drain" /\ Go(t, "run")
    BY <1>6 DEF DrainFails
  <2>2. Stock' /\ ~lease'[s].active /\ \A r \in Slots : r # s => lease'[r] = lease[r]
    BY <1>1, <2>1, ReturnCarried DEF s
  <2>3. /\ cons'[t].first = cons[t].first /\ cons'[t].mode = cons[t].mode
        /\ cons'[t].pc = "run"
    BY <1>0, <2>1, GoMoves DEF ConsumerStates, Working
  <2> QED BY <1>2, <1>4, <2>1, <2>2, <2>3
<1>7. CASE CancelDrain(t)
  <2>1. RequeueFront(<<t, "drain">>) /\ cons[t].pc = "drain" BY <1>7 DEF CancelDrain
  <2>2. Stock' /\ ~lease'[s].active /\ \A r \in Slots : r # s => lease'[r] = lease[r]
    BY <1>1, <2>1, ReturnCarried DEF s
  <2>3. CASE WaitLease(t).active
    <3>1. /\ cons'[t].pc = "steered" /\ cons'[t].mode = cons[t].mode
          /\ cons'[t].first = cons[t].first
      BY <1>0, <1>7, <2>3 DEF CancelDrain, Consumers
    <3> QED BY <1>2, <1>4, <2>1, <2>2, <2>3, <3>1
  <2>4. CASE ~WaitLease(t).active
    <3>1. cons' = [cons EXCEPT ![t] = Raise(@, "abort")] BY <1>7, <2>4 DEF CancelDrain
    <3>2. /\ cons'[t].pc = "cancelTurn" /\ cons'[t].mode = cons[t].mode
          /\ cons'[t].first = cons[t].first
      BY <1>0, <3>1, RaiseMoves
    <3> QED BY <1>2, <1>4, <2>1, <2>2, <2>4, <3>2
  <2> QED BY <2>3, <2>4
<1> QED BY <1>3, <1>5, <1>6, <1>7 DEF Steer

LEMMA WaitCarried ==
  ASSUME KeptInv, Undisturbed, NEW t \in Tokens, OwnStep(t), WaitingLoop(t)
  PROVE  Carried(t)
<1>0. /\ SchedTypeOK /\ FitsAt(t) /\ cons \in [Tokens -> Consumers] /\ cons[t] \in Consumers
      /\ ModeFits(cons[t]) /\ WaitLease(t) \in Leases /\ lease \in [Slots -> Leases]
      /\ Stock /\ InboxTypeOK'
  BY KeptFacts, OwnStepInbox
<1> DEFINE s == <<t, "wait">>
<1>1. /\ s \in Slots /\ "wait" \in LeaseKinds
      /\ s # <<t, "head">> /\ s # <<t, "follow">> /\ s # <<t, "drain">>
      /\ \A r \in Slots : r[1] # t => r # s
  <2>1. s[1] = t OBVIOUS
  <2>2. s \in Slots BY SlotsOwned
  <2>3. s # <<t, "head">> /\ s # <<t, "follow">> /\ s # <<t, "drain">> OBVIOUS
  <2> HIDE DEF s
  <2> QED BY <2>1, <2>2, <2>3 DEF LeaseKinds
<1>1a. WaitLease(t) = lease[s] BY DEF WaitLease
<1> HIDE DEF s
<1>2. ASSUME Stock', \A r \in Slots : r # s => lease'[r] = lease[r],
             Fits(cons'[t], HeadLease(t), FollowLease(t), lease'[s], DrainLease(t)),
             cons'[t].pc \notin {"collect", "claim"}
      PROVE  Carried(t)
  <2>1. /\ HeadLease(t)' = HeadLease(t) /\ FollowLease(t)' = FollowLease(t)
        /\ WaitLease(t)' = lease'[s] /\ DrainLease(t)' = DrainLease(t)
    BY <1>1, <1>2, SlotsOwned DEF HeadLease, FollowLease, WaitLease, DrainLease, s
  <2>2. FitsAt(t)' BY <1>2, <2>1 DEF FitsAt
  <2> QED BY <1>1, <1>2, <2>2 DEF Carried, HeadSeen
<1>3. ASSUME cons[t].pc \in {"ran", "wait", "woken"}, UNCHANGED inboxVars,
             NEW pc \in {"wait", "commit", "woken"}, Go(t, pc)
      PROVE  Carried(t)
  <2>1. cons'[t].pc = pc /\ cons'[t].first = cons[t].first
    BY <1>0, <1>3, GoMoves DEF ConsumerStates, Working
  <2>2. Fits(cons'[t], HeadLease(t), FollowLease(t), WaitLease(t), DrainLease(t))
    BY <1>0, <1>3, <2>1 DEF FitsAt, Fits, Leased, Resting, Begun
  <2>3. HeadSeen(cons'[t]) BY <2>1 DEF HeadSeen
  <2> QED BY <1>3, <2>2, <2>3, PlainCarried
<1>4. CASE PlanWait(t) \/ PlanDone(t) \/ Wake(t) \/ WokenFindsNothing(t)
  BY <1>3, <1>4 DEF PlanWait, PlanDone, Wake, WokenFindsNothing
<1>5. CASE WaitTimesOut(t)
  <2>1. cons[t].pc = "wait" BY <1>5 DEF WaitTimesOut
  <2>2. CASE Go(t, "commit") /\ UNCHANGED lease
    <3>1. UNCHANGED inboxVars BY <1>5, <2>2 DEF WaitTimesOut
    <3> QED BY <1>3, <2>1, <2>2, <3>1
  <2>3. CASE /\ cons' = [cons EXCEPT ![t].pc = "run", ![t].retried = TRUE,
                                     ![t].todo = <<cons[t].first>>]
             /\ lease' = [lease EXCEPT ![<<t, "wait">>] = NoLease]
    <3>1. cons'[t].pc = "run" /\ cons'[t].first = cons[t].first
      BY <1>0, <2>3 DEF Consumers
    <3>2. lease' = [lease EXCEPT ![s] = NoLease] BY <2>3 DEF s
    <3>3. lease'[s] = NoLease /\ ~lease'[s].active
          /\ \A r \in Slots : r # s => lease'[r] = lease[r]
      BY <1>0, <1>1, <3>2 DEF NoLease
    <3>4. ~lease[s].active BY <1>0, <1>1a, <2>1 DEF FitsAt, Fits
    <3>5. Stock'
      <4>1. UNCHANGED <<inbox, leasedCount, mstate>> BY <1>5 DEF WaitTimesOut
      <4>2. \A r \in Slots : lease'[r] = lease[r] \/ (~lease[r].active /\ ~lease'[r].active)
        BY <3>3, <3>4
      <4> QED BY <1>0, <4>1, <4>2, StockKept
    <3>6. Fits(cons'[t], HeadLease(t), FollowLease(t), lease'[s], DrainLease(t))
      BY <1>0, <2>1, <3>1, <3>3 DEF FitsAt, Fits, Leased, Resting, Begun
    <3> QED BY <1>2, <3>1, <3>3, <3>5, <3>6
  <2> QED BY <1>5, <2>2, <2>3 DEF WaitTimesOut
<1>6. CASE WokenClaims(t)
  <2>1. cons[t].pc = "woken" /\ ClaimPrefix(t, "wait") BY <1>6 DEF WokenClaims
  <2>2. ~lease[<<t, "wait">>].active BY <1>0, <2>1 DEF FitsAt, Fits, WaitLease
  <2>3. Stock' /\ lease'[s].active /\ \A r \in Slots : r # s => lease'[r] = lease[r]
    BY <1>1, <2>1, <2>2, PrefixCarried DEF s
  <2>4. /\ cons'[t].first = cons[t].first /\ cons'[t].mode = cons[t].mode
        /\ cons'[t].pc = IF cons[t].first \in Ambient THEN "steered" ELSE "run"
    BY <1>0, <1>6 DEF WokenClaims, Consumers
  <2>5. cons'[t].pc = "run" => cons'[t].mode = "direct"
    BY <1>0, <2>1, <2>4 DEF ModeFits, Working
  <2>6. "wait" \in Features BY <1>0, <2>1 DEF ModeFits
  <2>7. cons'[t].pc \in {"run", "steered"} BY <2>4
  <2>8. Fits(cons'[t], HeadLease(t), FollowLease(t), lease'[s], DrainLease(t))
    BY <1>0, <2>1, <2>3, <2>4, <2>5, <2>6, <2>7 DEF FitsAt, Fits, Leased, Resting, Begun
  <2> QED BY <1>2, <2>3, <2>7, <2>8
<1>7. CASE CommitSteer(t)
  <2>1. cons[t].pc = "steered" /\ Settle(<<t, "wait">>, "admitted")
    BY <1>7 DEF CommitSteer, Commit
  <2>2. /\ Stock' /\ lease[s].active /\ \A r \in Slots : r # s => lease'[r] = lease[r]
        /\ lease'[s].active <=> lease[s].committed + 1 < Len(lease[s].items)
    <3>1. Settle(s, "admitted") BY <2>1 DEF s
    <3> QED BY <1>1, <3>1, SettleCarried
  <2>3. "wait" \in Features
    BY <1>0, <1>1a, <2>2 DEF FitsAt, Fits, NoLease
  <2>4. lease[s].committed \in Nat /\ Len(lease[s].items) \in Nat
        /\ lease[s].committed < Len(lease[s].items)
    BY <1>0, <1>1a, <2>1, LenProperties DEF Leases, Settle, s
  <2> DEFINE how == cons[t].after
             last == WaitLease(t).committed + 1 = Len(WaitLease(t).items)
  <2>5. how \in {"ran", "run", "error", "abort"} BY <1>0 DEF Consumers
  <2>6. lease'[s].active <=> ~last BY <1>1a, <2>2, <2>4
  <2>7. /\ cons'[t].first = cons[t].first
        /\ \/ ~last /\ cons'[t].pc = "steered"
           \/ last /\ cons'[t].pc \in {"cancelTurn", "ran", "run"}
    <3>1. CASE ~last BY <1>0, <1>7, <2>1, <3>1 DEF CommitSteer
    <3>2. CASE last /\ how \in {"error", "abort"}
      <4>1. cons' = [cons EXCEPT ![t] = Raise(@, how)] BY <1>7, <3>2 DEF CommitSteer
      <4> QED BY <1>0, <3>2, <4>1, RaiseMoves
    <3>3. CASE last /\ how \in {"ran", "run"}
      <4>1. Go(t, how) BY <1>7, <3>3 DEF CommitSteer, Go
      <4> QED BY <1>0, <3>3, <4>1, GoMoves DEF ConsumerStates, Working
    <3> QED BY <2>5, <3>1, <3>2, <3>3
  <2> HIDE DEF last
  <2>8. Leased(cons'[t], HeadLease(t), FollowLease(t)) /\ ~DrainLease(t).active
    BY <1>0, <2>1, <2>7 DEF FitsAt, Fits, Leased, Begun
  <2>9. Fits(cons'[t], HeadLease(t), FollowLease(t), lease'[s], DrainLease(t))
    BY <2>3, <2>6, <2>7, <2>8 DEF Fits, Resting, Begun
  <2> QED BY <1>2, <2>2, <2>7, <2>9
<1>8. ~CommitSteerStale(t)
  <2>1. SUFFICES ASSUME CommitSteerStale(t) PROVE FALSE OBVIOUS
  <2>2. cons[t].pc = "steered" /\ turn[cons[t].first] = "cancelled"
    BY <2>1 DEF CommitSteerStale
  <2>3. cons[t].first \in Messages
    BY <2>2, KeptFacts DEF SchedBase, Named, Serving, Working
  <2>4. cons[t].first \in Ambient BY <2>2, <2>3 DEF KeptInv, CancelledAmbient
  <2>5. "wait" \notin Features BY <2>4 DEF Undisturbed
  <2> QED BY <1>0, <2>2, <2>5 DEF FitsAt, Fits, NoLease
<1> QED BY <1>4, <1>5, <1>6, <1>7, <1>8 DEF WaitingLoop

LEMMA EndCarried ==
  ASSUME KeptInv, NEW t \in Tokens, OwnStep(t), EndTurn(t)
  PROVE  Carried(t)
<1>0. /\ SchedTypeOK /\ FitsAt(t) /\ cons \in [Tokens -> Consumers] /\ cons[t] \in Consumers
  BY KeptFacts
<1>1. ASSUME NextTurn(t), DropLeases(t), UNCHANGED <<inbox, leasedCount, mstate>>,
             cons[t].pc \in {"finish", "finalize"}
      PROVE  Carried(t)
  <2>1. cons'[t].pc = "select" BY <1>0, <1>1
  <2>2. /\ Over(HeadLease(t), FollowLease(t))
        /\ ~WaitLease(t).active /\ ~DrainLease(t).active
    BY <1>0, <1>1 DEF FitsAt, Fits
  <2> QED BY <1>1, <2>1, <2>2, DropCarried DEF Resting
<1>2. CASE CommitItem(t)
  <2>1. PICK kind \in {"head", "follow"} : Settle(<<t, kind>>, "admitted")
    BY <1>2 DEF CommitItem, Commit
  <2> DEFINE s == <<t, kind>>
  <2>2. /\ s \in Slots /\ s # <<t, "wait">> /\ s # <<t, "drain">>
        /\ \A r \in Slots : r[1] # t => r # s
    <3>1. s[1] = t OBVIOUS
    <3>2. s \in Slots BY SlotsOwned
    <3>3. s # <<t, "wait">> /\ s # <<t, "drain">> OBVIOUS
    <3> HIDE DEF s
    <3> QED BY <3>1, <3>2, <3>3
  <2>3. Settle(s, "admitted") BY <2>1
  <2> HIDE DEF s
  <2>4. Stock' /\ \A r \in Slots : r # s => lease'[r] = lease[r]
    BY <2>2, <2>3, SettleCarried
  <2>5. WaitLease(t)' = WaitLease(t) /\ DrainLease(t)' = DrainLease(t)
    BY <2>2, <2>4, SlotsOwned DEF WaitLease, DrainLease
  <2>6. PICK pc \in {"commit", "finish"} :
          Go(t, pc) /\ (pc = "finish" => Over(HeadLease(t)', FollowLease(t)'))
    BY <1>2 DEF CommitItem, Over, HeadLease, FollowLease
  <2>7. cons'[t].pc = pc BY <1>0, <2>6, GoMoves DEF ConsumerStates, Working
  <2>8. cons[t].pc = "commit" BY <1>2 DEF CommitItem
  <2>9. Fits(cons'[t], HeadLease(t)', FollowLease(t)', WaitLease(t), DrainLease(t))
    BY <1>0, <2>6, <2>7, <2>8 DEF FitsAt, Fits, Resting, Begun
  <2>10. FitsAt(t)' BY <2>5, <2>9 DEF FitsAt
  <2>11. HeadSeen(cons[t])' BY <2>7 DEF HeadSeen
  <2> QED BY <2>2, <2>4, <2>10, <2>11 DEF Carried
<1>3. CASE Finish(t)
  <2>1. CASE turn[cons[t].first] = "cancelled" BY <1>1, <1>3, <2>1 DEF Finish
  <2>2. CASE turn[cons[t].first] # "cancelled"
    <3>1. /\ cons[t].pc = "finish" /\ Go(t, "finalize")
          /\ UNCHANGED <<inbox, leasedCount, lease, mstate>>
      BY <1>3, <2>2 DEF Finish
    <3>2. cons'[t].pc = "finalize" BY <1>0, <3>1, GoMoves DEF ConsumerStates, Working
    <3>3. Fits(cons'[t], HeadLease(t), FollowLease(t), WaitLease(t), DrainLease(t))
      BY <1>0, <3>1, <3>2 DEF FitsAt, Fits, Resting, Begun
    <3> QED BY <3>1, <3>2, <3>3, PlainCarried DEF HeadSeen
  <2> QED BY <2>1, <2>2
<1>4. CASE Finalize(t) BY <1>1, <1>4 DEF Finalize
<1>5. CASE FinalizeRefused(t)
  <2>1. /\ cons[t].pc = "finalize" /\ cons' = [cons EXCEPT ![t] = Raise(@, "error")]
        /\ UNCHANGED <<inbox, leasedCount, lease, mstate>>
    BY <1>5 DEF FinalizeRefused
  <2>2. /\ ~WaitLease(t).active /\ ~DrainLease(t).active
        /\ "wait" \notin Features => WaitLease(t) = NoLease
    BY <1>0, <2>1 DEF FitsAt, Fits
  <2> QED BY <2>1, <2>2, RaiseFits, PlainCarried
<1> QED BY <1>2, <1>3, <1>4, <1>5 DEF EndTurn

\* What the handlers settle next is what the leases owe next.
LEMMA UnsettledNext ==
  ASSUME KeptInv, NEW t \in Tokens, cons[t].pc \in Working,
         Unsettled(cons[t], HeadLease(t), FollowLease(t))
  PROVE  LET h == HeadLease(t)
             f == FollowLease(t)
             todo == cons[t].todo
             m == Head(todo) IN
         /\ todo = <<>> => Over(h, f)
         /\ todo # <<>> /\ h.active =>
              /\ IsNext(t, m) /\ SlotOf(t, m) = <<t, "head">> /\ h.committed = 0
              /\ Tail(todo) = Rest(f)
         /\ todo # <<>> /\ ~h.active =>
              /\ IsNext(t, m) /\ SlotOf(t, m) = <<t, "follow">>
              /\ f.active /\ f.committed < Len(f.items)
              /\ Tail(todo) = Tail(Rest(f))
<1> DEFINE h == HeadLease(t)
           f == FollowLease(t)
           x == cons[t].first
           todo == cons[t].todo
<1>1. /\ h \in Leases /\ f \in Leases /\ x \in Messages
      /\ f.active => f.committed < Len(f.items)
  BY KeptFacts, SlotsOwned DEF SchedBase, Named, Serving, Stock, LeasesOwe, FollowLease
<1>2. /\ h.items = <<x>> /\ (h.active => h.committed = 0)
      /\ x \notin ItemsOf(f.items) /\ todo = Rest(h) \o Rest(f)
  BY DEF Unsettled
<1>3. h = lease[<<t, "head">>] /\ f = lease[<<t, "follow">>] BY DEF HeadLease, FollowLease
<1>4. \A m : SlotOf(t, m) = <<t, IF m \in ItemsOf(h.items) THEN "head" ELSE "follow">>
  BY DEF SlotOf
<1>5. Rest(f) \in Seq(Messages) BY <1>1, UncommittedType, EmptySeq DEF Rest
<1> HIDE DEF h, f
<1>6. <<x>> \in Seq(Messages) /\ Len(<<x>>) = 1 /\ <<x>>[1] = x BY <1>1
<1>7. ItemsOf(h.items) = {x}
  <2>1. DOMAIN <<x>> = 1 .. 1 BY <1>6, Positions
  <2>2. \A i \in 1 .. 1 : <<x>>[i] = x BY <1>6
  <2>3. ItemsOf(<<x>>) = {x} BY <2>1, <2>2 DEF ItemsOf
  <2> QED BY <1>2, <2>3
<1>8. CASE h.active
  <2>1. Rest(h) = <<x>> BY <1>1, <1>2, <1>8, WholeRest DEF Whole
  <2>2. /\ todo # <<>> /\ Head(todo) = x /\ Tail(todo) = Rest(f)
    BY <1>1, <1>2, <1>5, <2>1, ConsTail
  <2>3. SlotOf(t, x) = <<t, "head">> BY <1>4, <1>7
  <2>4. NextOf(h) = x
    <3>1. 0 + 1 = 1 OBVIOUS
    <3> QED BY <1>2, <1>6, <1>8, <3>1 DEF NextOf
  <2>5. IsNext(t, x) BY <1>3, <1>8, <2>3, <2>4 DEF IsNext
  <2> QED BY <1>2, <1>8, <2>2, <2>3, <2>5 DEF h, f
<1>9. CASE ~h.active
  <2>1. todo = Rest(f) BY <1>2, <1>5, <1>9, ConcatEmptySeq DEF Rest
  <2>2. CASE ~f.active
    <3>1. todo = <<>> BY <2>1, <2>2 DEF Rest
    <3> QED BY <1>9, <2>2, <3>1 DEF Over, h, f
  <2>3. CASE f.active
    <3>1. f.committed < Len(f.items) BY <1>1, <2>3
    <3>2. todo # <<>> /\ Head(todo) = NextOf(f) BY <1>1, <2>1, <2>3, <3>1, RestSettled
    <3>3. NextOf(f) \in ItemsOf(f.items)
      <4>1. f.items \in Seq(Messages) /\ f.committed \in Nat BY <1>1 DEF Leases
      <4>2. DOMAIN f.items = 1 .. Len(f.items) /\ Len(f.items) \in Nat
        BY <4>1, Positions, LenProperties
      <4>3. f.committed + 1 \in DOMAIN f.items BY <3>1, <4>1, <4>2
      <4> QED BY <4>3 DEF NextOf, ItemsOf
    <3>4. SlotOf(t, Head(todo)) = <<t, "follow">> BY <1>2, <1>4, <1>7, <3>2, <3>3
    <3>5. IsNext(t, Head(todo)) BY <1>3, <2>3, <3>2, <3>4 DEF IsNext
    <3> QED BY <1>9, <2>1, <2>3, <3>1, <3>2, <3>4, <3>5 DEF h, f
  <2> QED BY <2>2, <2>3
<1> QED BY <1>8, <1>9

\* Settling an item of the work touches neither the wait's lease nor the drain's.
LEMMA WorkSettled ==
  ASSUME KeptInv, NEW t \in Tokens, OwnStep(t), NEW m,
         NEW how \in {"admitted", "failed"}, Settle(SlotOf(t, m), how)
  PROVE  /\ Stock' /\ lease[SlotOf(t, m)].active
         /\ WaitLease(t)' = WaitLease(t) /\ DrainLease(t)' = DrainLease(t)
         /\ \A s \in Slots : s[1] # t => lease'[s] = lease[s]
         /\ SlotOf(t, m) = <<t, "head">> =>
              /\ FollowLease(t)' = FollowLease(t)
              /\ HeadLease(t)' = [items |-> HeadLease(t).items,
                                  committed |-> HeadLease(t).committed + 1,
                                  active |-> HeadLease(t).committed + 1
                                               < Len(HeadLease(t).items)]
              /\ HeadLease(t)'.active
                   <=> HeadLease(t).committed + 1 < Len(HeadLease(t).items)
         /\ SlotOf(t, m) = <<t, "follow">> =>
              /\ HeadLease(t)' = HeadLease(t)
              /\ FollowLease(t)' = [items |-> FollowLease(t).items,
                                    committed |-> FollowLease(t).committed + 1,
                                    active |-> FollowLease(t).committed + 1
                                                 < Len(FollowLease(t).items)]
<1> DEFINE s == SlotOf(t, m)
<1>1. PICK kind \in {"head", "follow"} : s = <<t, kind>> BY DEF SlotOf
<1>2. /\ s \in Slots /\ s # <<t, "wait">> /\ s # <<t, "drain">> /\ s[1] = t
      /\ s = <<t, "head">> => s # <<t, "follow">>
      /\ s = <<t, "follow">> => s # <<t, "head">>
  <2>1. s[1] = t BY <1>1
  <2>2. s \in Slots
    <3>1. kind \in LeaseKinds BY DEF LeaseKinds
    <3>2. <<t, kind>> \in Slots BY <3>1, SlotsOwned
    <3> HIDE DEF s
    <3> QED BY <1>1, <3>2
  <2>3. s # <<t, "wait">> /\ s # <<t, "drain">> BY <1>1
  <2>4. <<t, "head">> # <<t, "follow">> OBVIOUS
  <2> HIDE DEF s
  <2> QED BY <2>1, <2>2, <2>3, <2>4
<1>3. Settle(s, how) OBVIOUS
<1> HIDE DEF s
<1>4. /\ Stock' /\ lease[s].active /\ \A r \in Slots : r # s => lease'[r] = lease[r]
      /\ lease'[s] = [items |-> lease[s].items, committed |-> lease[s].committed + 1,
                      active |-> lease[s].committed + 1 < Len(lease[s].items)]
      /\ lease'[s].active <=> lease[s].committed + 1 < Len(lease[s].items)
  BY <1>2, <1>3, SettleCarried
<1>5. \A r \in Slots : r[1] # t => r # s BY <1>2
<1>6. WaitLease(t)' = WaitLease(t) /\ DrainLease(t)' = DrainLease(t)
  BY <1>2, <1>4, SlotsOwned DEF WaitLease, DrainLease
<1>7. CASE s = <<t, "head">>
  <2>1. FollowLease(t)' = FollowLease(t) BY <1>2, <1>4, <1>7, SlotsOwned DEF FollowLease
  <2>2. HeadLease(t) = lease[s] /\ HeadLease(t)' = lease'[s] BY <1>7 DEF HeadLease
  <2> QED BY <1>2, <1>4, <1>5, <1>6, <1>7, <2>1, <2>2 DEF s
<1>8. CASE s = <<t, "follow">>
  <2>1. HeadLease(t)' = HeadLease(t) BY <1>2, <1>4, <1>8, SlotsOwned DEF HeadLease
  <2>2. FollowLease(t) = lease[s] /\ FollowLease(t)' = lease'[s] BY <1>8 DEF FollowLease
  <2> QED BY <1>2, <1>4, <1>5, <1>6, <1>8, <2>1, <2>2 DEF s
<1> QED BY <1>1, <1>7, <1>8

LEMMA SettleStepCarried ==
  ASSUME KeptInv, NEW t \in Tokens, OwnStep(t), SettleCommit(t)
  PROVE  Carried(t)
<1> DEFINE m == Head(cons[t].todo)
           h == HeadLease(t)
           f == FollowLease(t)
<1>0. /\ SchedTypeOK /\ FitsAt(t) /\ cons \in [Tokens -> Consumers] /\ cons[t] \in Consumers
      /\ h \in Leases /\ f \in Leases
  BY KeptFacts
<1>1. /\ cons[t].pc = "settle" /\ cons[t].todo # <<>>
      /\ IsNext(t, m) /\ Settle(SlotOf(t, m), "admitted")
      /\ cons' = [cons EXCEPT ![t].todo = Tail(@)]
  BY DEF SettleCommit, Commit
<1>2. /\ cons'[t].pc = "settle" /\ cons'[t].first = cons[t].first
      /\ cons'[t].todo = Tail(cons[t].todo)
  BY <1>0, <1>1 DEF Consumers
<1>3. /\ Stock' /\ lease[SlotOf(t, m)].active
      /\ WaitLease(t)' = WaitLease(t) /\ DrainLease(t)' = DrainLease(t)
      /\ \A s \in Slots : s[1] # t => lease'[s] = lease[s]
  BY <1>1, WorkSettled
<1>4. Unsettled(cons[t], h, f)
  <2>1. ~Over(h, f) BY <1>3 DEF Over, SlotOf, HeadLease, FollowLease
  <2> QED BY <1>0, <1>1, <2>1 DEF FitsAt, Fits
<1>5. cons[t].pc \in Working BY <1>1 DEF Working
<1>6. Unsettled(cons'[t], h', f')
  <2>1. CASE h.active
    <3>1. /\ SlotOf(t, m) = <<t, "head">> /\ h.committed = 0
          /\ cons'[t].todo = Rest(f)
      BY <1>1, <1>2, <1>4, <1>5, <2>1, UnsettledNext
    <3>2. /\ f' = f /\ h'.items = h.items
          /\ h'.active <=> h.committed + 1 < Len(h.items)
      BY <1>1, <3>1, WorkSettled
    <3>3. h.items = <<cons[t].first>> BY <1>4 DEF Unsettled
    <3>4. ~h'.active
      <4>1. Len(h.items) = 1 BY <3>3
      <4> QED BY <3>1, <3>2, <4>1
    <3>5. Rest(f) \in Seq(Messages) BY <1>0, UncommittedType, EmptySeq DEF Rest
    <3>6. cons'[t].todo = Rest(h') \o Rest(f')
      BY <3>1, <3>2, <3>4, <3>5, ConcatEmptySeq DEF Rest
    <3>7. cons[t].first \notin ItemsOf(f.items) BY <1>4 DEF Unsettled
    <3> HIDE DEF h, f
    <3> QED BY <1>2, <3>2, <3>3, <3>4, <3>6, <3>7 DEF Unsettled
  <2>2. CASE ~h.active
    <3>1. /\ SlotOf(t, m) = <<t, "follow">> /\ f.active /\ f.committed < Len(f.items)
          /\ cons'[t].todo = Tail(Rest(f))
      BY <1>1, <1>2, <1>4, <1>5, <2>2, UnsettledNext
    <3>2. /\ h' = h
          /\ f' = [items |-> f.items, committed |-> f.committed + 1,
                   active |-> f.committed + 1 < Len(f.items)]
      BY <1>1, <3>1, WorkSettled
    <3>3. Rest(f') = Tail(Rest(f)) /\ Rest(f) # <<>> /\ Rest(f) \in Seq(Messages)
      BY <1>0, <3>1, <3>2, RestSettled
    <3>4. Tail(Rest(f)) \in Seq(Messages) BY <3>3, HeadTailProperties
    <3>5. cons'[t].todo = Rest(h') \o Rest(f')
      BY <2>2, <3>1, <3>2, <3>3, <3>4, ConcatEmptySeq DEF Rest
    <3>6. f'.items = f.items BY <3>2
    <3>7. h.items = <<cons[t].first>> /\ cons[t].first \notin ItemsOf(f.items)
      BY <1>4 DEF Unsettled
    <3> HIDE DEF h, f
    <3> QED BY <1>2, <2>2, <3>2, <3>5, <3>6, <3>7 DEF Unsettled
  <2> QED BY <2>1, <2>2
<1>7. FitsAt(t)'
  <2>1. Fits(cons'[t], h', f', WaitLease(t), DrainLease(t))
    <3> HIDE DEF h, f
    <3>1. /\ ~WaitLease(t).active /\ ~DrainLease(t).active
          /\ "wait" \notin Features => WaitLease(t) = NoLease
      BY <1>0, <1>1 DEF FitsAt, Fits
    <3> QED BY <1>2, <1>6, <3>1 DEF Fits, Resting, Begun
  <2> QED BY <1>3, <2>1 DEF FitsAt
<1>8. HeadSeen(cons[t])' BY <1>2 DEF HeadSeen
<1> QED BY <1>3, <1>7, <1>8 DEF Carried

LEMMA RequeueCarried ==
  ASSUME KeptInv, NEW t \in Tokens, OwnStep(t), Requeue(t)
  PROVE  Carried(t)
<1>0. /\ SchedTypeOK /\ FitsAt(t) /\ cons \in [Tokens -> Consumers] /\ cons[t] \in Consumers
      /\ InboxTypeOK' /\ lease \in [Slots -> Leases] /\ Stock
  BY KeptFacts, OwnStepInbox
<1>1. cons[t].pc = "requeue" /\ running = t
  BY DEF Requeue, RequeueAs, KeptInv, TurnsInv, OwnerInv, ServesOwned, Serving, Working
<1>2. /\ inbox' = WorkRest(t) \o inbox /\ leasedCount' = Release(Len(WorkRest(t)))
      /\ lease' = [s \in Slots |-> IF s \in SlotsOf(t) THEN NoLease ELSE lease[s]]
      /\ mstate' = mstate
      /\ NextTurn(t) \/ Go(t, "exit")
  BY <1>1 DEF Requeue, RequeueAs
<1>3. cons'[t].pc \in {"select", "exit"}
  <2>1. CASE NextTurn(t) BY <1>0, <2>1
  <2>2. CASE Go(t, "exit") BY <1>0, <2>2, GoMoves DEF ConsumerStates
  <2> QED BY <1>2, <2>1, <2>2
<1>4. ~WaitLease(t).active /\ ~DrainLease(t).active BY <1>0, <1>1 DEF FitsAt, Fits
<1>5. \A s \in Slots : lease'[s] = IF s[1] = t THEN NoLease ELSE lease[s]
  BY <1>2 DEF SlotsOf
<1>6. /\ lease'[<<t, "head">>] = NoLease /\ lease'[<<t, "follow">>] = NoLease
      /\ lease'[<<t, "wait">>] = NoLease /\ lease'[<<t, "drain">>] = NoLease
  BY <1>5, SlotsOwned
<1>7. Stock'
  <2> DEFINE h == <<t, "head">>
             f == <<t, "follow">>
  <2>1. h \in Slots /\ f \in Slots /\ h # f BY SlotsOwned
  <2>2. /\ inbox' = (Rest(lease[h]) \o Rest(lease[f])) \o inbox
        /\ leasedCount' = Release(Len(Rest(lease[h]) \o Rest(lease[f])))
    BY <1>2 DEF WorkRest, HeadLease, FollowLease
  <2>3. ~lease'[h].active /\ ~lease'[f].active BY <1>6 DEF NoLease
  <2>4. \A s \in Slots \ {h, f} :
          lease'[s] = lease[s] \/ (~lease[s].active /\ ~lease'[s].active)
    <3>1. TAKE s \in Slots \ {h, f}
    <3>2. CASE s[1] # t BY <1>5, <3>2
    <3>3. CASE s[1] = t
      <4>1. s = <<t, "wait">> \/ s = <<t, "drain">>
        BY <3>1, <3>3, SlotsOwned DEF LeaseKinds
      <4> QED BY <1>4, <1>6, <4>1 DEF WaitLease, DrainLease, NoLease
    <3> QED BY <3>2, <3>3
  <2> HIDE DEF h, f
  <2> QED BY <1>0, <1>2, <2>1, <2>2, <2>3, <2>4, StockRequeued
<1>8. FitsAt(t)'
  BY <1>3, <1>6 DEF FitsAt, Fits, HeadLease, FollowLease, WaitLease, DrainLease,
     Resting, Begun, Over, NoLease
<1>9. HeadSeen(cons[t])' BY <1>3 DEF HeadSeen
<1> QED BY <1>5, <1>7, <1>8, <1>9 DEF Carried

LEMMA RecoverCarried ==
  ASSUME KeptInv, NEW t \in Tokens, OwnStep(t), Recover(t)
  PROVE  Carried(t)
<1> DEFINE h == HeadLease(t)
           f == FollowLease(t)
           m == Head(cons[t].todo)
<1>0. /\ SchedTypeOK /\ FitsAt(t) /\ cons \in [Tokens -> Consumers] /\ cons[t] \in Consumers
      /\ h \in Leases /\ f \in Leases
  BY KeptFacts
<1>1. cons[t].pc \in Working /\ running = t
  BY DEF Recover, ReadTurn, SwapTurn, SettleCommit, SettleRaises, SettleRest, Requeue,
     RequeueAs, SettleDone, KeptInv, TurnsInv, OwnerInv, ServesOwned, Serving, Working
<1>2. cons[t].pc # "requeue" => cons[t].pc \in {"cancelTurn", "cas", "settle"}
  BY DEF Recover, ReadTurn, SwapTurn, SettleCommit, SettleRaises, SettleRest, Requeue,
     RequeueAs, SettleDone
<1>3. /\ ~WaitLease(t).active /\ ~DrainLease(t).active
      /\ "wait" \notin Features => WaitLease(t) = NoLease
  BY <1>0, <1>2 DEF FitsAt, Fits
<1>4. CASE ReadTurn(t)
  <2> DEFINE pc == IF turn[cons[t].first] \in {"active", "waiting"}
                   THEN "cas" ELSE "settle"
  <2>1. /\ cons' = [cons EXCEPT ![t].pc = pc, ![t].todo = WorkItems(t)]
        /\ cons[t].pc = "cancelTurn" /\ UNCHANGED <<inbox, leasedCount, lease, mstate>>
    BY <1>4 DEF ReadTurn
  <2>2. pc \in {"cas", "settle"} OBVIOUS
  <2> HIDE DEF pc
  <2>3. /\ cons'[t].pc \in {"cas", "settle"} /\ cons'[t].first = cons[t].first
        /\ cons'[t].todo = h.items \o f.items
    BY <1>0, <2>1, <2>2 DEF Consumers, WorkItems
  <2>4. Over(h, f) \/ Unsettled(cons'[t], h, f)
    <3>1. SUFFICES ASSUME Leased(cons[t], h, f) PROVE Unsettled(cons'[t], h, f)
      BY <1>0, <2>1 DEF FitsAt, Fits
    <3>2. h = [items |-> <<cons[t].first>>, committed |-> 0, active |-> TRUE]
          /\ Whole(f) /\ cons[t].first \notin ItemsOf(f.items)
      BY <3>1 DEF Leased
    <3> HIDE DEF h, f
    <3>3. h.active /\ h.committed = 0 /\ h.items = <<cons[t].first>> BY <3>2
    <3>4. Rest(h) = h.items /\ Rest(f) = f.items
      BY <1>0, <3>2, <3>3, WholeRest DEF Whole
    <3> QED BY <2>3, <3>2, <3>3, <3>4 DEF Unsettled
  <2>5. Fits(cons'[t], h, f, WaitLease(t), DrainLease(t)) /\ HeadSeen(cons'[t])
    BY <1>3, <2>3, <2>4 DEF Fits, Resting, Begun, HeadSeen
  <2> QED BY <2>1, <2>5, PlainCarried
<1>5. CASE SwapTurn(t)
  <2>1. /\ cons[t].pc = "cas" /\ Go(t, "settle")
        /\ UNCHANGED <<inbox, leasedCount, lease, mstate>>
    BY <1>5 DEF SwapTurn
  <2>2. /\ cons'[t].pc = "settle" /\ cons'[t].first = cons[t].first
        /\ cons'[t].todo = cons[t].todo
    BY <1>0, <2>1, GoMoves DEF ConsumerStates, Working
  <2>3. Over(h, f) \/ Unsettled(cons'[t], h, f)
    BY <1>0, <2>1, <2>2 DEF FitsAt, Fits, Unsettled
  <2>4. Fits(cons'[t], h, f, WaitLease(t), DrainLease(t)) /\ HeadSeen(cons'[t])
    BY <1>3, <2>2, <2>3 DEF Fits, Resting, Begun, HeadSeen
  <2> QED BY <2>1, <2>4, PlainCarried
<1>6. CASE SettleRaises(t)
  <2>1. /\ cons[t].pc = "settle" /\ Go(t, "exit") /\ cons[t].todo # <<>>
        /\ UNCHANGED <<inbox, leasedCount, lease, mstate>> /\ ~IsNext(t, m)
    BY <1>1, <1>6 DEF SettleRaises
  <2>2. cons'[t].pc = "exit" BY <1>0, <2>1, GoMoves DEF ConsumerStates
  <2>3. Over(h, f)
    <3>1. Over(h, f) \/ Unsettled(cons[t], h, f) BY <1>0, <2>1 DEF FitsAt, Fits
    <3> QED BY <1>1, <2>1, <3>1, UnsettledNext
  <2>4. Fits(cons'[t], h, f, WaitLease(t), DrainLease(t)) /\ HeadSeen(cons'[t])
    BY <1>3, <2>2, <2>3 DEF Fits, Resting, Begun, HeadSeen
  <2> QED BY <2>1, <2>4, PlainCarried
<1>7. CASE SettleRest(t)
  <2>1. Go(t, "requeue") BY <1>7 DEF SettleRest
  <2>2. cons'[t].pc = "requeue" BY <1>0, <2>1, GoMoves DEF ConsumerStates, Working
  <2>3. HeadSeen(cons'[t]) /\ HeadSeen(cons[t])' BY <2>2 DEF HeadSeen
  <2>4. \A k, l : Fits(cons'[t], k, l, WaitLease(t), DrainLease(t))
    BY <1>3, <2>2 DEF Fits, Resting, Begun
  <2>5. CASE UNCHANGED inboxVars BY <2>3, <2>4, <2>5, PlainCarried
  <2>6. CASE Fail(SlotOf(t, m))
    <3>1. /\ Stock' /\ WaitLease(t)' = WaitLease(t) /\ DrainLease(t)' = DrainLease(t)
          /\ \A s \in Slots : s[1] # t => lease'[s] = lease[s]
      BY <2>6, WorkSettled DEF Fail
    <3>2. FitsAt(t)' BY <2>4, <3>1 DEF FitsAt
    <3> QED BY <2>3, <3>1, <3>2 DEF Carried
  <2> QED BY <1>7, <2>5, <2>6 DEF SettleRest
<1>8. CASE SettleDone(t)
  <2>1. /\ cons[t].pc = "settle" /\ cons[t].todo = <<>> /\ DropLeases(t)
        /\ UNCHANGED <<inbox, leasedCount, mstate>>
        /\ NextTurn(t) \/ Go(t, "exit")
    BY <1>8 DEF SettleDone
  <2>2. cons'[t].pc \in {"select", "exit"}
    <3>1. CASE NextTurn(t) BY <1>0, <3>1
    <3>2. CASE Go(t, "exit") BY <1>0, <3>2, GoMoves DEF ConsumerStates
    <3> QED BY <2>1, <3>1, <3>2
  <2>3. Over(h, f)
    <3>1. Over(h, f) \/ Unsettled(cons[t], h, f) BY <1>0, <2>1 DEF FitsAt, Fits
    <3> QED BY <1>1, <2>1, <3>1, UnsettledNext
  <2> QED BY <1>3, <2>1, <2>2, <2>3, DropCarried DEF Resting
<1> QED BY <1>4, <1>5, <1>6, <1>7, <1>8, SettleStepCarried, RequeueCarried DEF Recover

LEMMA CancelCarried ==
  ASSUME KeptInv, Undisturbed, NEW t \in Tokens, OwnStep(t), Cancel(t)
  PROVE  Carried(t)
<1>0. /\ SchedTypeOK /\ FitsAt(t) /\ cons \in [Tokens -> Consumers] /\ cons[t] \in Consumers
  BY KeptFacts
<1>1. /\ engine = "stopping" /\ CancelPoint(cons[t]) /\ UNCHANGED inboxVars
  BY DEF Cancel
<1>2. "stop" \in Features /\ "hint" \notin Features
  BY <1>1 DEF KeptInv, TurnsInv, Undisturbed
<1>3. cons[t].pc \in {"start", "select", "collect", "run", "wait", "finalize"}
  BY <1>1, <1>2 DEF CancelPoint, KeptInv, StopsClean, Handling
<1>4. CASE cons[t].pc \in {"start", "select", "collect"}
  <2>1. cons' = [cons EXCEPT ![t] = Cancelled(cons[t])] BY <1>4 DEF Cancel
  <2>2. cons'[t].pc \in {"off", "exit"}
    BY <1>0, <1>4, <2>1 DEF Cancelled, Consumers
  <2>3. Fits(cons'[t], HeadLease(t), FollowLease(t), WaitLease(t), DrainLease(t))
    BY <1>0, <1>4, <2>2 DEF FitsAt, Fits, Resting, Begun, Over, NoLease
  <2>4. HeadSeen(cons'[t]) BY <2>2 DEF HeadSeen
  <2> QED BY <1>1, <2>3, <2>4, PlainCarried
<1>5. CASE cons[t].pc = "run"
  <2>1. AfterRun(t, "abort") BY <1>5 DEF Cancel
  <2> QED BY <1>1, <1>5, <2>1, AfterRunFits, PlainCarried
<1>6. CASE cons[t].pc \in {"wait", "finalize"}
  <2>1. cons' = [cons EXCEPT ![t] = Raise(@, "abort")] BY <1>6 DEF Cancel, Cancelled
  <2>2. /\ ~WaitLease(t).active /\ ~DrainLease(t).active
        /\ "wait" \notin Features => WaitLease(t) = NoLease
    BY <1>0, <1>6 DEF FitsAt, Fits
  <2> QED BY <1>1, <1>6, <2>1, <2>2, RaiseFits, PlainCarried DEF Begun
<1> QED BY <1>3, <1>4, <1>5, <1>6

LEMMA OwnStepCarried ==
  ASSUME KeptInv, Undisturbed, NEW t \in Tokens, OwnStep(t)
  PROVE  Carried(t)
BY SelectCarried, RunCarried, DrainCarried, WaitCarried, EndCarried, RecoverCarried,
   CancelCarried DEF OwnStep

\* A step of one consumer, where the engine stops: no error is raised.
LEMMA NoErrorRaised ==
  ASSUME KeptInv, Undisturbed, "stop" \in Features, NEW t \in Tokens, OwnStep(t),
         cons'[t].pc \in Handling \cup {"steered"}
  PROVE  cons'[t].after # "error"
<1> USE DEF Handling
<1>0. /\ SchedBase /\ SchedTypeOK
      /\ cons \in [Tokens -> Consumers] /\ cons[t] \in Consumers
      /\ turn \in [Messages -> Phases]
  BY KeptFacts
<1>1. cons[t].pc \in Handling \cup {"steered"} => cons[t].after # "error"
  BY DEF KeptInv, StopsClean
<1>2. cons[t].pc \in Working => cons[t].first \in Messages
  BY <1>0 DEF SchedBase, Named, Serving
<1>3. "fail" \notin Features /\ Ambient = {} BY DEF Undisturbed
<1>4. \A m \in Messages : turn[m] # "cancelled"
  BY <1>3 DEF KeptInv, CancelledAmbient
<1> USE DEF Working
<1>5. ~RunFails(t) /\ ~DrainFails(t) /\ ~RefreshFails(t)
  BY <1>3 DEF RunFails, DrainFails, RefreshFails
<1>6. ~CommitSteerStale(t) /\ ~FinalizeRefused(t)
  BY <1>2, <1>4 DEF CommitSteerStale, FinalizeRefused
<1>7. ~BeginRefused(t)
  <2>1. SUFFICES ASSUME BeginRefused(t) PROVE FALSE OBVIOUS
  <2>2. running = t /\ cons[t].pc = "begin" /\ turn[cons[t].first] # "absent"
    BY <2>1 DEF BeginRefused, KeptInv, TurnsInv, OwnerInv, ServesOwned, Serving
  <2>3. turn[cons[t].first] \in Live BY <1>0, <1>2, <1>4, <2>2 DEF Phases, Live
  <2>4. PICK u \in Tokens : cons[u].pc \in Acting /\ cons[u].first = cons[t].first
    BY <1>2, <2>2, <2>3 DEF KeptInv, TurnsInv, TurnsActed
  <2>5. u = t BY <2>2, <2>4, ActorIsOne DEF KeptInv, Acting
  <2> QED BY <2>2, <2>4, <2>5 DEF Acting
<1>8. CASE RunEnds(t) BY <1>0, <1>8, AfterRunMoves DEF RunEnds
<1>9. CASE WokenClaims(t)
  <2>1. cons'[t].after = "run" BY <1>0, <1>9 DEF WokenClaims, Consumers
  <2> QED BY <2>1
<1>10. CASE CommitSteer(t)
  <2> DEFINE how == cons[t].after
  <2>0. how # "error" /\ how \in {"ran", "run", "abort"}
    BY <1>0, <1>1, <1>10 DEF CommitSteer, Consumers
  <2>1. CASE cons' = [cons EXCEPT ![t] = @] BY <1>0, <2>0, <2>1
  <2>2. CASE how = "abort" /\ cons' = [cons EXCEPT ![t] = Raise(@, how)]
    BY <1>0, <2>2, RaiseMoves
  <2>3. CASE how \in {"ran", "run"} /\ cons' = [cons EXCEPT ![t] = [@ EXCEPT !.pc = how]]
    BY <1>0, <2>3 DEF Consumers
  <2> QED BY <1>10, <2>0, <2>1, <2>2, <2>3 DEF CommitSteer
<1>11. CASE ReadTurn(t) \/ SwapTurn(t) \/ SettleCommit(t)
  <2>1. cons'[t].after = cons[t].after /\ cons[t].pc \in Handling
    BY <1>0, <1>11 DEF ReadTurn, SwapTurn, SettleCommit, Go, Consumers
  <2> QED BY <1>1, <2>1
<1>12. CASE Cancel(t)
  <2>1. CASE At(t, "run") BY <1>0, <1>12, <2>1, AfterRunMoves DEF Cancel
  <2>2. CASE cons[t].pc \in {"wait", "finalize"}
    <3>1. cons' = [cons EXCEPT ![t] = Raise(@, "abort")]
      BY <1>12, <2>2 DEF Cancel, Cancelled
    <3> QED BY <1>0, <3>1, RaiseMoves
  <2>3. CASE cons[t].pc \notin {"run", "wait", "finalize"}
    <3>1. cons'[t].pc \in {"off", "exit"}
      BY <1>0, <1>12, <2>3 DEF Cancel, Cancelled, Consumers
    <3> QED BY <3>1
  <2> QED BY <2>1, <2>2, <2>3
<1>13. CASE CancelDrain(t)
  <2>1. CASE WaitLease(t).active BY <1>0, <1>13, <2>1 DEF CancelDrain, Consumers
  <2>2. CASE ~WaitLease(t).active BY <1>0, <1>13, <2>2, RaiseMoves DEF CancelDrain
  <2> QED BY <2>1, <2>2
<1>14. CASE Launch(t) \/ Select(t) \/ LaunchFails(t)
  <2>1. cons'[t].pc \in Selecting \cup {"off", "begin", "exit"}
    BY <1>0, <1>14, SelectPlaces
  <2> QED BY <2>1 DEF Selecting
<1>15. CASE BeginTurn(t) \/ Admit(t) \/ Expire(t)
  <2>1. cons'[t].pc \in {"run", "commit"}
    <3>1. CASE BeginTurn(t)
      <4>1. PICK mode \in {"direct", "active", "passive"} :
              cons' = [cons EXCEPT ![t].pc = "run", ![t].mode = mode,
                                   ![t].todo = WorkItems(t)]
        BY <3>1 DEF BeginTurn
      <4> QED BY <1>0, <4>1 DEF Consumers
    <3>2. CASE Admit(t) \/ Expire(t) BY <1>0, <3>2 DEF Admit, Expire, Consumers
    <3> QED BY <1>15, <3>1, <3>2
  <2> QED BY <2>1
<1>16. CASE \E pc \in {"drain", "run", "wait", "commit", "woken"} : Go(t, pc)
  <2>1. cons'[t].pc \in {"drain", "run", "wait", "commit", "woken"}
    BY <1>0, <1>16, GoMoves DEF ConsumerStates
  <2> QED BY <2>1
<1>17. CASE WaitTimesOut(t)
  <2>1. cons'[t].pc \in {"run", "commit"}
    BY <1>0, <1>17 DEF WaitTimesOut, Go, Consumers
  <2> QED BY <2>1
<1>18. CASE NextTurn(t) BY <1>0, <1>18
<1>19. CASE \E pc \in {"commit", "finish", "finalize", "exit", "requeue"} : Go(t, pc)
  <2>1. cons'[t].pc \in {"commit", "finish", "finalize", "exit", "requeue"}
    BY <1>0, <1>19, GoMoves DEF ConsumerStates
  <2> QED BY <2>1
<1>20. Steer(t) \/ PlanWait(t) \/ PlanDone(t) \/ Wake(t) \/ WokenFindsNothing(t) =>
         \E pc \in {"drain", "run", "wait", "commit", "woken"} : Go(t, pc)
  BY <1>5 DEF Steer, DrainClaim, DrainOne, PlanWait, PlanDone, Wake, WokenFindsNothing
<1>21. EndTurn(t) =>
         \/ NextTurn(t)
         \/ \E pc \in {"commit", "finish", "finalize", "exit", "requeue"} : Go(t, pc)
  BY <1>6 DEF EndTurn, CommitItem, Finish, Finalize
<1>22. SettleRaises(t) \/ SettleRest(t) \/ Requeue(t) \/ SettleDone(t) =>
         \/ NextTurn(t)
         \/ \E pc \in {"commit", "finish", "finalize", "exit", "requeue"} : Go(t, pc)
  BY DEF SettleRaises, SettleRest, Requeue, RequeueAs, SettleDone
<1> QED BY <1>5, <1>6, <1>7, <1>8, <1>9, <1>10, <1>11, <1>12, <1>13, <1>14, <1>15, <1>16,
           <1>17, <1>18, <1>19, <1>20, <1>21, <1>22
        DEF OwnStep, Run, WaitingLoop, Recover

\* Nobody takes from the queue while another consumer is choosing.
LEMMA QueueOwned ==
  ASSUME KeptInv, NEW t \in Tokens, OwnStep(t), NEW u \in Tokens, u # t,
         cons[u].pc \in {"collect", "claim"}
  PROVE  inbox' = inbox
<1>1. running = u BY DEF KeptInv, TurnsInv, OwnerInv, ServesOwned, Serving
<1>2. cons[t].pc \notin Serving
  BY <1>1 DEF KeptInv, TurnsInv, OwnerInv, ServesOwned
<1> USE DEF Serving, Working
<1>3. ~Run(t) /\ ~Steer(t) /\ ~CancelDrain(t)
  BY <1>2 DEF Run, BeginTurn, BeginRefused, RefreshFails, Admit, Expire, RunEnds, RunFails,
     Steer, DrainClaim, DrainOne, DrainFails, CancelDrain
<1>4. ~WaitingLoop(t) /\ ~EndTurn(t)
  BY <1>2 DEF WaitingLoop, PlanWait, PlanDone, Wake, WaitTimesOut, WokenClaims,
     WokenFindsNothing, CommitSteer, CommitSteerStale, EndTurn, CommitItem, Finish,
     Finalize, FinalizeRefused
<1>5. ~Recover(t)
  BY <1>2 DEF Recover, ReadTurn, SwapTurn, SettleCommit, SettleRaises, SettleRest, Requeue,
     RequeueAs, SettleDone
<1>6. CASE Launch(t) \/ LaunchFails(t) \/ Cancel(t) BY <1>6 DEF Launch, LaunchFails, Cancel
<1>7. CASE Select(t)
  <2>1. ~Collect(t) /\ ~ClaimHead(t) /\ ~ClaimStaleHead(t)
    BY <1>2 DEF Collect, ClaimHead, ClaimStaleHead
  <2>2. CASE Peek(t) BY <2>2 DEF Peek
  <2>3. CASE Idle(t) BY <1>1, <2>3 DEF Idle, ReleaseIfIdle
  <2> QED BY <1>7, <2>1, <2>2, <2>3 DEF Select
<1> QED BY <1>3, <1>4, <1>5, <1>6, <1>7 DEF OwnStep

\* What keeps a consumer's part of the invariant while others move.
LEMMA OthersKept ==
  ASSUME KeptInv, NEW u \in Tokens, cons'[u] = cons[u],
         \A s \in Slots : s[1] = u => lease'[s] = lease[s]
  PROVE  FitsAt(u)'
<1>1. /\ HeadLease(u)' = HeadLease(u) /\ FollowLease(u)' = FollowLease(u)
      /\ WaitLease(u)' = WaitLease(u) /\ DrainLease(u)' = DrainLease(u)
  BY SlotsOwned DEF HeadLease, FollowLease, WaitLease, DrainLease
<1>2. FitsAt(u) BY KeptFacts
<1> QED BY <1>1, <1>2 DEF FitsAt

LEMMA OwnStepKept ==
  ASSUME KeptInv, Undisturbed, NEW t \in Tokens, OwnStep(t)
  PROVE  Stock' /\ LeasesFit' /\ HeadStays' /\ StopsClean' /\ CancelledAmbient'
<1>0. /\ SchedBase /\ cons \in [Tokens -> Consumers] /\ turn \in [Messages -> Phases]
  BY KeptFacts
<1>1. Carried(t) /\ Moved(t) /\ Turned(t)
  BY <1>0, OwnStepCarried, OwnStepMoves, OwnStepTurns
<1>2. \A u \in Tokens : u # t => cons'[u] = cons[u] BY <1>0, <1>1 DEF Moved
<1>3. LeasesFit'
  <2>1. SUFFICES ASSUME NEW u \in Tokens PROVE FitsAt(u)' BY DEF LeasesFit
  <2>2. CASE u = t BY <1>1, <2>2 DEF Carried
  <2>3. CASE u # t
    <3>1. \A s \in Slots : s[1] = u => lease'[s] = lease[s] BY <1>1, <2>3 DEF Carried
    <3> QED BY <1>2, <2>3, <3>1, OthersKept
  <2> QED BY <2>2, <2>3
<1>4. HeadStays'
  <2>1. SUFFICES ASSUME NEW u \in Tokens PROVE HeadSeen(cons[u])' BY DEF HeadStays
  <2>2. CASE u = t BY <1>1, <2>2 DEF Carried
  <2>3. CASE u # t
    <3>1. HeadSeen(cons[u]) /\ cons'[u] = cons[u] BY <1>2, <2>3, KeptFacts
    <3>2. cons[u].pc \in {"collect", "claim"} => inbox' = inbox BY <2>3, QueueOwned
    <3> QED BY <3>1, <3>2 DEF HeadSeen
  <2> QED BY <2>2, <2>3
<1>5. StopsClean'
  <2>1. SUFFICES ASSUME "stop" \in Features, NEW u \in Tokens,
                        cons'[u].pc \in Handling \cup {"steered"}
                 PROVE  cons'[u].after # "error"
    BY DEF StopsClean
  <2>2. CASE u = t BY <2>1, <2>2, NoErrorRaised
  <2>3. CASE u # t BY <1>2, <2>1, <2>3 DEF KeptInv, StopsClean
  <2> QED BY <2>2, <2>3
<1>6. CancelledAmbient'
  <2>1. SUFFICES ASSUME NEW m \in Messages, turn'[m] = "cancelled" PROVE m \in Ambient
    BY DEF CancelledAmbient
  <2>2. CASE turn'[m] = turn[m] BY <2>1, <2>2 DEF KeptInv, CancelledAmbient
  <2>3. CASE turn'[m] # turn[m]
    <3>1. cons[t].pc \in Working /\ cons[t].first = m BY <1>0, <1>1, <2>3 DEF Turned
    <3> QED BY <1>1, <2>1, <2>3, <3>1 DEF Turned
  <2> QED BY <2>2, <2>3
<1> QED BY <1>1, <1>3, <1>4, <1>5, <1>6 DEF Carried

(***************************************************************************)
(* The steps that concern more than one consumer.                          *)
(***************************************************************************)
LEMMA IssuedWasOff ==
  ASSUME SchedBase, NEW u \in Tokens, Issued(u)
  PROVE  cons[u].pc = "off"
<1>1. nextToken \in 0 .. MaxToken BY DEF SchedBase, SchedTypeOK, InboxTypeOK
<1> QED BY <1>1 DEF Issued, SchedBase, TokensInv, Tokens

LEMMA SharedCons ==
  ASSUME SchedBase, OrderlyStop, Shared, NEW u \in Tokens
  PROVE  \/ cons'[u] = cons[u]
         \/ cons'[u].pc \in {"launch", "start", "off"} /\ cons[u].pc \in {"off", "exit"}
<1>0. /\ cons \in [Tokens -> Consumers] /\ nextToken \in 0 .. MaxToken
  BY ConsTyped DEF SchedBase, SchedTypeOK, InboxTypeOK
<1>1. CASE \E m \in Messages : Dispatch(m) BY <1>1, DispatchMoves, IssuedWasOff
<1>2. CASE \E t \in Tokens : Exit(t)
  <2>1. PICK t \in Tokens : Exit(t) BY <1>2
  <2>2. CASE Issued(u) BY <2>1, <2>2, ExitMoves, IssuedWasOff
  <2>3. CASE ~Issued(u) /\ u # t BY <2>1, <2>3, ExitMoves
  <2>4. CASE ~Issued(u) /\ u = t BY <2>1, <2>4, ExitMoves
  <2> QED BY <2>2, <2>3, <2>4
<1>3. CASE BeginStop BY <1>3 DEF BeginStop
<1>4. CASE EndStop BY <1>4, StopMoves
<1>5. CASE Restart
  <2>1. CASE UNCHANGED cons BY <2>1
  <2>2. CASE ClaimExisting /\ cons' = [cons EXCEPT ![nextToken'] = Fresh("start")]
    <3>1. CASE u = nextToken'
      <4>1. Issued(u) BY <2>2, <3>1 DEF ClaimExisting, Issued
      <4>2. cons'[u] = Fresh("start") BY <1>0, <2>2, <3>1
      <4> QED BY <4>1, <4>2, IssuedWasOff
    <3>2. CASE u # nextToken' BY <1>0, <2>2, <3>2
    <3> QED BY <3>1, <3>2
  <2> QED BY <1>5, <2>1, <2>2 DEF Restart
<1> QED BY <1>1, <1>2, <1>3, <1>4, <1>5 DEF Shared

\* The modes, in every step.
LEMMA ModesFitNext ==
  ASSUME SchedBase, OrderlyStop, ModesFit, [SchedNext]_schedVars
  PROVE  ModesFit'
<1>0. /\ cons \in [Tokens -> Consumers] /\ nextToken \in 0 .. MaxToken
  BY ConsTyped DEF SchedBase, SchedTypeOK, InboxTypeOK
<1>1. CASE \E t \in Tokens : OwnStep(t)
  <2>1. PICK t \in Tokens : OwnStep(t) BY <1>1
  <2>2. Moved(t) BY <2>1, OwnStepMoves
  <2>3. \A u \in Tokens : u # t => cons'[u] = cons[u] BY <1>0, <2>2 DEF Moved
  <2>4. ModeFits(cons'[t]) BY <2>1, ModeKept DEF ModesFit
  <2> QED BY <2>3, <2>4 DEF ModesFit, ModeFits
<1>2. CASE Shared
  <2>1. \A u \in Tokens : cons'[u] = cons[u] \/ cons'[u].pc \in {"launch", "start", "off"}
    BY <1>2, SharedCons
  <2> QED BY <2>1 DEF ModesFit, ModeFits, Working
<1>3. CASE UNCHANGED schedVars BY <1>3 DEF ModesFit, ModeFits
<1> QED BY <1>1, <1>2, <1>3, StepKinds

\* A consumer that is fresh holds nothing.
LEMMA SharedFits ==
  ASSUME KeptInv, OrderlyStop, Shared, NEW u \in Tokens,
         \/ /\ \A s \in Slots : s[1] = u => lease'[s] = lease[s]
            /\ cons'[u] = cons[u] \/ cons[u].pc # "exit"
         \/ /\ \A s \in Slots : s[1] = u => lease'[s] = NoLease
            /\ cons[u].pc = "exit" /\ cons'[u].pc \in {"launch", "start", "off"}
  PROVE  FitsAt(u)'
<1>0. SchedBase /\ FitsAt(u) BY KeptFacts
<1>1. \/ cons'[u] = cons[u]
      \/ cons'[u].pc \in {"launch", "start", "off"} /\ cons[u].pc \in {"off", "exit"}
  BY <1>0, SharedCons
<1>2. CASE /\ \A s \in Slots : s[1] = u => lease'[s] = lease[s]
           /\ cons'[u] = cons[u] \/ cons[u].pc # "exit"
  <2>1. CASE cons'[u] = cons[u] BY <1>2, <2>1, OthersKept
  <2>2. CASE cons'[u].pc \in {"launch", "start", "off"} /\ cons[u].pc = "off"
    <3>1. /\ HeadLease(u)' = HeadLease(u) /\ FollowLease(u)' = FollowLease(u)
          /\ WaitLease(u)' = WaitLease(u) /\ DrainLease(u)' = DrainLease(u)
      BY <1>2, SlotsOwned DEF HeadLease, FollowLease, WaitLease, DrainLease
    <3>2. Fits(cons'[u], HeadLease(u), FollowLease(u), WaitLease(u), DrainLease(u))
      BY <1>0, <2>2 DEF FitsAt, Fits, Resting, Begun
    <3> QED BY <3>1, <3>2 DEF FitsAt
  <2> QED BY <1>1, <1>2, <2>1, <2>2
<1>3. CASE /\ \A s \in Slots : s[1] = u => lease'[s] = NoLease
           /\ cons[u].pc = "exit" /\ cons'[u].pc \in {"launch", "start", "off"}
  <2>1. /\ HeadLease(u)' = NoLease /\ FollowLease(u)' = NoLease
        /\ WaitLease(u)' = NoLease /\ DrainLease(u)' = NoLease
    BY <1>3, SlotsOwned DEF HeadLease, FollowLease, WaitLease, DrainLease
  <2> QED BY <1>3, <2>1 DEF FitsAt, Fits, Resting, Begun, NoLease
<1> QED BY <1>2, <1>3

\* With room for every message, no ambient one is dropped.
LEMMA RoomForAll ==
  ASSUME KeptInv, Undisturbed, NEW m \in Messages, mstate[m] # "accepted",
         EnqueueDropping(m)
  PROVE  FALSE
<1>0. /\ InboxInv /\ CapacityInv /\ InboxTypeOK /\ MaxInbox \in Nat
      /\ inbox \in Seq(Messages) /\ Len(inbox) \in Nat
  BY InboxAssumption, LenProperties DEF KeptInv, Stock, InboxInv, InboxTypeOK
<1>1. Ambient # {} BY DEF EnqueueDropping, OldestAmbient
<1>2. IsFiniteSet(Messages) /\ Cardinality(Messages) <= MaxInbox
  BY <1>1 DEF Undisturbed
<1> DEFINE all == Held \cup ItemsOf(inbox)
<1>3. all \subseteq Messages \ {m}
  <2>1. \A n \in ItemsOf(inbox) : n \in Messages /\ mstate[n] = "accepted"
    BY <1>0, Positions DEF InboxInv, EachAcceptedHeld
  <2>2. \A n \in Held : n \in Messages /\ mstate[n] = "accepted"
    <3>1. SUFFICES ASSUME NEW s \in Slots, NEW n \in LeasedItems(s)
                   PROVE  n \in Messages /\ mstate[n] = "accepted"
      BY DEF Held
    <3>2. lease[s].active /\ n \in ItemsOf(Uncommitted(lease[s]))
      BY DEF LeasedItems
    <3>3. Uncommitted(lease[s]) \in Seq(Messages)
      BY <1>0, UncommittedType DEF InboxTypeOK
    <3>4. n \in Messages BY <3>2, <3>3, Positions
    <3> QED BY <1>0, <3>4 DEF InboxInv, EachAcceptedHeld
  <2> QED BY <2>1, <2>2
<1>4. IsFiniteSet(ItemsOf(inbox)) /\ Cardinality(ItemsOf(inbox)) = Len(inbox)
  BY <1>0, DistinctLength DEF InboxInv, NoDuplicate
<1>5. ItemsOf(inbox) \cap Held = {} BY <1>0 DEF InboxInv, NoDuplicate, Held
<1>6. Cardinality(all) = leasedCount + Len(inbox)
  BY <1>0, <1>4, <1>5, HeldGrows DEF CapacityInv
<1>7. /\ IsFiniteSet(Messages \ {m})
      /\ Cardinality(Messages \ {m}) = Cardinality(Messages) - 1
  BY <1>2, FS_RemoveElement
<1> HIDE DEF all
<1>8. Cardinality(all) <= Cardinality(Messages \ {m})
  BY <1>3, <1>7, FS_Subset
<1>9. Cardinality(Messages) \in Nat /\ leasedCount \in Nat
  BY <1>0, <1>2, FS_CardinalityType DEF InboxTypeOK
<1>10. Len(inbox) + leasedCount >= MaxInbox BY DEF EnqueueDropping, Full
<1> QED BY <1>0, <1>2, <1>6, <1>7, <1>8, <1>9, <1>10

LEMMA KeptBase ==
  ASSUME KeptInv
  PROVE  /\ SchedBase /\ SchedTypeOK /\ InboxTypeOK /\ Stock
         /\ InboxInv /\ CapacityInv /\ LeasesOwe
BY DEF KeptInv, TurnsInv, OwnerInv, SchedBase, SchedTypeOK, Stock

LEMMA DispatchStock ==
  ASSUME KeptInv, Undisturbed, NEW m \in Messages, Dispatch(m)
  PROVE  /\ Stock' /\ lease' = lease
         /\ inbox # <<>> => inbox' # <<>> /\ Head(inbox') = Head(inbox)
<1>0. /\ SchedBase /\ InboxInv /\ CapacityInv /\ LeasesOwe /\ InboxTypeOK
      /\ inbox \in Seq(Messages) /\ Len(inbox) \in Nat
  BY LenProperties, KeptBase DEF InboxTypeOK
<1>1. mstate[m] = "none" /\ Enqueue(m) BY DEF Dispatch, Arrives
<1>2. EnqueueRoom(m) \/ EnqueueRefused(m)
  BY <1>1, RoomForAll DEF Enqueue
<1>3. lease' = lease BY <1>2 DEF EnqueueRoom, EnqueueRefused
<1>4. Stock'
  <2>1. InboxTypeOK' BY <1>0, <1>1, EnqueueType
  <2>2. NoDuplicate' /\ EachAcceptedHeld' BY <1>0, <1>1, EnqueueInv DEF Dispatchable
  <2>3. CapacityInv' BY <1>0, <1>1, CapacityEnqueue
  <2>4. LeasesOwe' BY <1>0, <1>3 DEF LeasesOwe
  <2> QED BY <2>1, <2>2, <2>3, <2>4 DEF Stock, InboxInv
<1>5. ASSUME inbox # <<>>
      PROVE  inbox' # <<>> /\ Head(inbox') = Head(inbox)
  <2>1. CASE EnqueueRefused(m) BY <1>5, <2>1 DEF EnqueueRefused
  <2>2. CASE EnqueueRoom(m)
    <3>1. inbox' = Append(inbox, m) BY <2>2 DEF EnqueueRoom
    <3>2. Len(inbox) # 0 BY <1>0, <1>5, EmptySeq
    <3>3. /\ inbox' \in Seq(Messages) /\ Len(inbox') = Len(inbox) + 1
          /\ \A i \in 1 .. Len(inbox) : inbox'[i] = inbox[i]
      BY <1>0, <3>1, AppendProperties
    <3>4. inbox' # <<>> /\ inbox'[1] = inbox[1]
      BY <1>0, <3>2, <3>3, EmptySeq
    <3> QED BY <1>0, <1>5, <3>3, <3>4
  <2> QED BY <1>2, <2>1, <2>2
<1> QED BY <1>3, <1>4, <1>5

\* The leases of a consumer that leaves are over.
LEMMA ExitStock ==
  ASSUME KeptInv, NEW t \in Tokens, Exit(t)
  PROVE  /\ Stock' /\ inbox' = inbox
         /\ \A s \in Slots : lease'[s] = IF s[1] = t THEN NoLease ELSE lease[s]
<1>0. SchedBase /\ InboxTypeOK /\ FitsAt(t) /\ Stock BY KeptFacts
<1>1. /\ cons[t].pc = "exit" /\ DropLeases(t) /\ UNCHANGED <<inbox, leasedCount, mstate>>
  BY DEF Exit
<1>2. \A s \in Slots : s[1] = t => ~lease[s].active
  <2>1. Over(HeadLease(t), FollowLease(t)) /\ ~WaitLease(t).active /\ ~DrainLease(t).active
    BY <1>0, <1>1 DEF FitsAt, Fits
  <2> QED BY <2>1, SlotsOwned DEF Over, HeadLease, FollowLease, WaitLease, DrainLease,
             LeaseKinds
<1>3. \A s \in Slots : lease'[s] = IF s[1] = t THEN NoLease ELSE lease[s]
  BY <1>1 DEF DropLeases
<1>4. \A s \in Slots : lease'[s] = lease[s] \/ (~lease[s].active /\ ~lease'[s].active)
  BY <1>2, <1>3 DEF NoLease
<1>5. InboxTypeOK' BY <1>0, SharedInbox
<1> QED BY <1>0, <1>1, <1>3, <1>4, <1>5, StockKept

\* The stop clears a count that is zero.
LEMMA EndStopStock ==
  ASSUME KeptInv, OrderlyStop, EndStop
  PROVE  Stock' /\ inbox' = inbox /\ lease' = lease
<1>0. SchedBase /\ InboxTypeOK /\ Stock BY KeptBase
<1>1. /\ \A s \in Slots : ~lease[s].active
      /\ leasedCount' = 0 /\ UNCHANGED <<inbox, lease, mstate>>
  BY DEF EndStop, CleanupAll
<1>2. Held = {} BY <1>1 DEF Held, LeasedItems
<1>3. leasedCount = 0 BY <1>0, <1>2, FS_EmptySet DEF Stock, CapacityInv
<1>4. InboxTypeOK' BY <1>0, SharedInbox
<1> QED BY <1>0, <1>1, <1>3, <1>4, StockKept

LEMMA SharedKept ==
  ASSUME KeptInv, Undisturbed, Shared
  PROVE  Stock' /\ LeasesFit' /\ HeadStays' /\ StopsClean' /\ CancelledAmbient'
<1>0. /\ SchedBase /\ OrderlyStop /\ Stock /\ InboxTypeOK
      /\ lease \in [Slots -> Leases]
  BY KeptBase DEF Undisturbed, InboxTypeOK
<1>1. \A u \in Tokens :
        \/ cons'[u] = cons[u]
        \/ cons'[u].pc \in {"launch", "start", "off"} /\ cons[u].pc \in {"off", "exit"}
  BY <1>0, SharedCons
<1>2. /\ Stock'
      /\ inbox # <<>> => inbox' # <<>> /\ Head(inbox') = Head(inbox)
      /\ \/ \E t \in Tokens : Exit(t)
         \/ lease' = lease /\ \A u \in Tokens : cons[u].pc = "exit" => cons'[u] = cons[u]
  <2>1. CASE \E m \in Messages : Dispatch(m)
    <3>1. PICK m \in Messages : Dispatch(m) BY <2>1
    <3>2. \A u \in Tokens : cons[u].pc = "exit" => cons'[u] = cons[u]
      BY <1>0, <3>1, DispatchMoves, IssuedWasOff
    <3> QED BY <3>1, <3>2, DispatchStock
  <2>2. CASE \E t \in Tokens : Exit(t) BY <2>2, ExitStock
  <2>3. CASE BeginStop
    <3>1. UNCHANGED <<inbox, leasedCount, lease, mstate, cons>> BY <2>3 DEF BeginStop
    <3>2. InboxTypeOK' BY <1>0, <2>3, SharedInbox
    <3> QED BY <1>0, <3>1, <3>2, StockKept
  <2>4. CASE EndStop BY <1>0, <2>4, EndStopStock, StopMoves
  <2>5. CASE Restart
    <3>1. UNCHANGED <<inbox, leasedCount, lease, mstate>>
      BY <2>5 DEF Restart, ClaimExisting
    <3>2. InboxTypeOK' BY <1>0, <2>5, SharedInbox
    <3>3. \A u \in Tokens : cons[u].pc = "exit" => cons'[u] = cons[u]
      <4>1. TAKE u \in Tokens
      <4>2. CASE UNCHANGED cons BY <4>2
      <4>3. CASE ClaimExisting /\ cons' = [cons EXCEPT ![nextToken'] = Fresh("start")]
        <5>1. u = nextToken' => Issued(u) BY <4>3 DEF ClaimExisting, Issued
        <5>2. cons[u].pc = "exit" => u # nextToken' BY <1>0, <5>1, IssuedWasOff
        <5> QED BY <4>3, <5>2, <1>0, ConsTyped DEF SchedBase
      <4> QED BY <2>5, <4>2, <4>3 DEF Restart
    <3> QED BY <1>0, <3>1, <3>2, <3>3, StockKept
  <2> QED BY <2>1, <2>2, <2>3, <2>4, <2>5 DEF Shared
<1>3. LeasesFit'
  <2>1. SUFFICES ASSUME NEW u \in Tokens PROVE FitsAt(u)' BY DEF LeasesFit
  <2>2. CASE \E t \in Tokens : Exit(t)
    <3>1. PICK t \in Tokens : Exit(t) BY <2>2
    <3>2. \A s \in Slots : lease'[s] = IF s[1] = t THEN NoLease ELSE lease[s]
      BY <3>1, ExitStock
    <3>3. CASE u = t
      <4>1. cons[u].pc = "exit" BY <3>1, <3>3 DEF Exit
      <4>2. ~Issued(u) BY <1>0, <4>1, IssuedWasOff
      <4>3. cons'[u].pc = "off" BY <1>0, <3>1, <3>3, <4>2, ExitMoves
      <4> QED BY <1>0, <3>2, <3>3, <4>1, <4>3, SharedFits
    <3>4. CASE u # t
      <4>1. cons[u].pc = "exit" => cons'[u] = cons[u]
        BY <1>0, <3>1, <3>4, ExitMoves, IssuedWasOff
      <4> QED BY <1>0, <3>2, <3>4, <4>1, SharedFits
    <3> QED BY <3>3, <3>4
  <2>3. CASE lease' = lease /\ \A w \in Tokens : cons[w].pc = "exit" => cons'[w] = cons[w]
    BY <1>0, <2>3, SharedFits
  <2> QED BY <1>2, <2>2, <2>3
<1>4. HeadStays'
  BY <1>1, <1>2 DEF HeadStays, HeadSeen, KeptInv
<1>5. StopsClean'
  BY <1>1 DEF StopsClean, Handling, KeptInv
<1>6. CancelledAmbient'
  <2>1. turn' = turn \/ turn' = AmbientCancelled
    BY DEF Shared, Dispatch, Exit, BeginStop, EndStop, Restart
  <2> QED BY <2>1 DEF KeptInv, CancelledAmbient, AmbientCancelled
<1> QED BY <1>2, <1>3, <1>4, <1>5, <1>6

LEMMA KeptInvInit ==
  ASSUME SchedInit
  PROVE  KeptInv
<1>1. TurnsInv BY TurnsInvInit
<1>2. /\ \A t \in Tokens : cons[t].pc = "off"
      /\ \A s \in Slots : lease[s] = NoLease
      /\ \A m \in Messages : turn[m] = "absent" /\ mstate[m] = "none"
      /\ inbox = <<>> /\ leasedCount = 0 /\ InboxInit
  BY DEF SchedInit, InboxInit
<1>3. InboxInv BY <1>2, InboxInvInit
<1>4. CapacityInv
  <2>1. Held = {} BY <1>2 DEF Held, LeasedItems, NoLease
  <2>2. MaxInbox \in Nat BY InboxAssumption
  <2> QED BY <1>2, <2>1, <2>2, FS_EmptySet, EmptySeq DEF CapacityInv
<1>5. LeasesOwe BY <1>2 DEF LeasesOwe, NoLease
<1>6. LeasesFit
  <2>1. SUFFICES ASSUME NEW t \in Tokens PROVE FitsAt(t) BY DEF LeasesFit
  <2>2. /\ HeadLease(t) = NoLease /\ FollowLease(t) = NoLease
        /\ WaitLease(t) = NoLease /\ DrainLease(t) = NoLease /\ cons[t].pc = "off"
    BY <1>2, SlotsOwned DEF HeadLease, FollowLease, WaitLease, DrainLease
  <2> QED BY <2>2 DEF FitsAt, Fits, Begun, NoLease
<1>7. ModesFit BY <1>2 DEF ModesFit, ModeFits, Working
<1>8. HeadStays BY <1>2 DEF HeadStays, HeadSeen
<1>9. StopsClean BY <1>2 DEF StopsClean, Handling
<1>10. CancelledAmbient BY <1>2 DEF CancelledAmbient
<1> QED BY <1>1, <1>3, <1>4, <1>5, <1>6, <1>7, <1>8, <1>9, <1>10 DEF KeptInv, Stock

LEMMA KeptInvNext ==
  ASSUME KeptInv, Undisturbed, [SchedNext]_schedVars
  PROVE  KeptInv'
<1>1. TurnsInv' BY TurnsInvNext DEF KeptInv, Undisturbed
<1>2. ModesFit' BY KeptBase, ModesFitNext DEF KeptInv, Undisturbed
<1>3. Stock' /\ LeasesFit' /\ HeadStays' /\ StopsClean' /\ CancelledAmbient'
  <2>1. CASE Shared BY <2>1, SharedKept
  <2>2. CASE \E t \in Tokens : OwnStep(t) BY <2>2, OwnStepKept
  <2>3. CASE UNCHANGED schedVars
    <3>1. Stock' BY <2>3, KeptBase, InboxKept, StockKept
    <3>2. LeasesFit'
      BY <2>3 DEF KeptInv, LeasesFit, FitsAt, HeadLease, FollowLease, WaitLease, DrainLease
    <3>3. HeadStays' /\ StopsClean' /\ CancelledAmbient'
      BY <2>3 DEF KeptInv, HeadStays, HeadSeen, StopsClean, CancelledAmbient
    <3> QED BY <3>1, <3>2, <3>3
  <2> QED BY <2>1, <2>2, <2>3, StepKinds
<1> QED BY <1>1, <1>2, <1>3 DEF KeptInv

\* An accepted message is queued, or in the hands of a consumer that will settle it,
\* and the inbox has given away exactly the room that those consumers use: however
\* turns fail, wait, are steered, cancelled or stopped, where nothing disturbs them.
THEOREM NothingIsLost ==
  ASSUME Undisturbed
  PROVE  SchedSpec => []NoAcceptedLost
<1>1. SchedInit => KeptInv BY KeptInvInit
<1>2. KeptInv /\ [SchedNext]_schedVars => KeptInv' BY KeptInvNext
<1>3. KeptInv => NoAcceptedLost
  <2>1. SUFFICES ASSUME KeptInv PROVE NoAcceptedLost OBVIOUS
  <2>2. \A s \in Slots : s \notin Holders => LeasedItems(s) = {}
    <3>1. SUFFICES ASSUME NEW s \in Slots, s \notin Holders PROVE ~lease[s].active
      BY DEF LeasedItems
    <3> DEFINE t == s[1]
    <3>2. t \in Tokens /\ \E kind \in LeaseKinds : s = <<t, kind>>
      BY SchedulerAssumption
    <3>3. cons[t].pc \in {"off", "launch", "exit"} BY <3>1 DEF Holders
    <3>4. FitsAt(t) BY <2>1, <3>2 DEF KeptInv, LeasesFit
    <3> HIDE DEF t
    <3>5. /\ ~HeadLease(t).active /\ ~FollowLease(t).active
          /\ ~WaitLease(t).active /\ ~DrainLease(t).active
      BY <3>3, <3>4 DEF FitsAt, Fits, Resting, Over, NoLease
    <3> QED BY <3>2, <3>5 DEF HeadLease, FollowLease, WaitLease, DrainLease, LeaseKinds
  <2>3. UNION {LeasedItems(s) : s \in Holders} = Held BY <2>2 DEF Held, Holders
  <2>4. AcceptedHasHolder
    <3>1. \A m \in Messages : mstate[m] = "accepted" =>
            m \in ItemsOf(inbox) \/ m \in Held
      BY <2>1, KeptBase DEF InboxInv, EachAcceptedHeld, Held
    <3> QED BY <2>3, <3>1 DEF AcceptedHasHolder
  <2>5. NoLeaseLeak BY <2>1, <2>3, KeptBase DEF CapacityInv, NoLeaseLeak
  <2> QED BY <2>4, <2>5 DEF NoAcceptedLost
<1> QED BY <1>1, <1>2, <1>3, PTL DEF SchedSpec

(***************************************************************************)
(* What is counted as admitted is in the history.                          *)
(***************************************************************************)
\* What of its work a consumer has put into the history.
Met(c, work, past) ==
  /\ c.pc = "run" => work \subseteq past \cup ItemsOf(c.todo)
  /\ c.pc \in {"drain", "ran", "commit"} => work \subseteq past

Work(t) == ItemsOf(HeadLease(t).items) \cup ItemsOf(FollowLease(t).items)
MetAt(t) == Met(cons[t], Work(t), history)

AdmitInv == KeptInv /\ CommitMeansAdmitted /\ \A t \in Tokens : MetAt(t)

Admits(t) == MetAt(t)' /\ CommitMeansAdmitted'

\* A step that settles nothing and keeps the history and the leases of the work.
LEMMA QuietAdmits ==
  ASSUME AdmitInv, NEW t \in Tokens, mstate' = mstate, history \subseteq history',
         Met(cons'[t], Work(t)', history')
  PROVE  Admits(t)
BY DEF AdmitInv, CommitMeansAdmitted, Admits, MetAt

LEMMA SettledAdmits ==
  ASSUME AdmitInv, NEW s \in Slots, Settle(s, "admitted"),
         history \subseteq history', NextOf(lease[s]) \in history'
  PROVE  CommitMeansAdmitted'
<1>1. mstate \in [Messages -> MessageStates] BY KeptBase DEF AdmitInv, InboxTypeOK
<1>2. mstate' = [mstate EXCEPT ![NextOf(lease[s])] = "admitted"]
  BY DEF Settle, NextOf
<1> QED BY <1>1, <1>2 DEF AdmitInv, CommitMeansAdmitted

\* The next item of a lease is one of its items, which settling does not change.
LEMMA NextIsItem ==
  ASSUME KeptInv, NEW s \in Slots, NEW how, Settle(s, how)
  PROVE  /\ NextOf(lease[s]) \in ItemsOf(lease[s].items)
         /\ \A r \in Slots : lease'[r].items = lease[r].items
<1>0. lease \in [Slots -> Leases] BY KeptBase DEF InboxTypeOK
<1>1. /\ lease[s].items \in Seq(Messages) /\ lease[s].committed \in Nat
      /\ lease[s].committed < Len(lease[s].items)
  BY <1>0 DEF Leases, Settle
<1>2. Len(lease[s].items) \in Nat /\ DOMAIN lease[s].items = 1 .. Len(lease[s].items)
  BY <1>1, Positions
<1>3. lease[s].committed + 1 \in DOMAIN lease[s].items BY <1>1, <1>2
<1>4. \A r \in Slots : lease'[r].items = lease[r].items BY <1>0 DEF Settle
<1> QED BY <1>3, <1>4 DEF NextOf, ItemsOf

\* What a run's rollback takes out of the history is not settled.
LEMMA RolledBackIsHeld ==
  ASSUME KeptInv, "wait" \notin Features, NEW t \in Tokens, cons[t].pc = "run",
         NEW undone \in RolledBack(t), NEW m \in undone
  PROVE  mstate[m] # "admitted"
<1> DEFINE h == HeadLease(t)
           f == FollowLease(t)
<1>0. /\ InboxInv /\ h \in Leases /\ f \in Leases /\ FitsAt(t) /\ cons[t].first \in Messages
  BY KeptFacts, KeptBase DEF SchedBase, Named, Serving, Working
<1>1. Leased(cons[t], h, f) /\ WaitLease(t) = NoLease
  BY <1>0 DEF FitsAt, Fits, Begun
<1>2. Batch(t) = h.items \o f.items
  <2>1. WaitLease(t).items = <<>> BY <1>1 DEF NoLease
  <2> QED BY <2>1 DEF Batch, WorkItems
<1>3. h.items \in Seq(Messages) /\ f.items \in Seq(Messages) BY <1>0 DEF Leases
<1>4. h.items = <<cons[t].first>> /\ h.active /\ h.committed = 0 BY <1>1 DEF Leased
<1> HIDE DEF h, f
<1> DEFINE batch == h.items \o f.items
<1>5. batch \in Seq(Messages) /\ Len(batch) \in Nat \ {0} /\ DOMAIN batch = 1 .. Len(batch)
  <2>1. Len(h.items) = 1 /\ Len(f.items) \in Nat BY <1>3, <1>4, LenProperties
  <2>2. batch \in Seq(Messages) /\ Len(batch) = Len(h.items) + Len(f.items)
    BY <1>3, ConcatProperties
  <2>3. DOMAIN batch = 1 .. Len(batch) BY <2>2, Positions
  <2> HIDE DEF batch
  <2> QED BY <2>1, <2>2, <2>3
<1>6. m \in ItemsOf(h.items) \cup ItemsOf(f.items)
  <2>1. m \in ItemsOf(batch)
    <3>1. m = batch[1] \/ m = batch[Len(batch)] BY <1>2 DEF RolledBack
    <3> HIDE DEF batch
    <3> QED BY <1>5, <3>1 DEF ItemsOf
  <2> QED BY <1>3, <2>1, ConcatItems
<1>7. ItemsOf(Uncommitted(h)) = ItemsOf(h.items) BY <1>0, <1>4, WholeRest DEF Whole
<1>8. m \in ItemsOf(f.items) => f.active /\ ItemsOf(Uncommitted(f)) = ItemsOf(f.items)
  <2>1. Whole(f) BY <1>1 DEF Leased
  <2>2. f = NoLease => ItemsOf(f.items) = {} BY DEF NoLease, ItemsOf
  <2> QED BY <1>0, <2>1, <2>2, WholeRest DEF Whole
<1>9. m \in LeasedItems(<<t, "head">>) \/ m \in LeasedItems(<<t, "follow">>)
  BY <1>4, <1>6, <1>7, <1>8 DEF LeasedItems, h, f, HeadLease, FollowLease
<1>10. m \in Messages BY <1>3, <1>6, Positions
<1>11. mstate[m] = "accepted"
  BY <1>0, <1>9, <1>10, SlotsOwned DEF InboxInv, EachAcceptedHeld
<1> QED BY <1>11

LEMMA RunAdmits ==
  ASSUME AdmitInv, Features \cap {"expire", "wait"} = {}, NEW t \in Tokens, Run(t)
  PROVE  Admits(t)
<1>0. /\ KeptInv /\ SchedBase /\ SchedTypeOK /\ cons \in [Tokens -> Consumers]
      /\ cons[t] \in Consumers /\ MetAt(t) /\ FitsAt(t) /\ CommitMeansAdmitted
      /\ HeadLease(t) \in Leases /\ FollowLease(t) \in Leases
  BY KeptFacts DEF AdmitInv
<1>1. UNCHANGED inboxVars /\ Work(t)' = Work(t)
  BY DEF Run, BeginTurn, BeginRefused, RefreshFails, Admit, Expire, RunEnds, RunFails,
     Work, HeadLease, FollowLease
<1>2. CASE BeginTurn(t)
  <2>1. PICK mode \in {"direct", "active", "passive"} :
          cons' = [cons EXCEPT ![t].pc = "run", ![t].mode = mode,
                               ![t].todo = WorkItems(t)]
    BY <1>2 DEF BeginTurn
  <2>2. cons'[t].pc = "run" /\ cons'[t].todo = WorkItems(t)
    BY <1>0, <2>1 DEF Consumers
  <2>3. ItemsOf(WorkItems(t)) = Work(t)
    BY <1>0, ConcatItems DEF WorkItems, Work, Leases
  <2> QED BY <1>1, <1>2, <2>2, <2>3, QuietAdmits DEF BeginTurn, Met
<1>3. CASE Admit(t)
  <2> DEFINE todo == cons[t].todo
  <2>1. /\ todo \in Seq(Messages) /\ todo # <<>> /\ cons[t].pc = "run"
        /\ history' = history \cup {Head(todo)}
        /\ cons'[t].pc = "run" /\ cons'[t].todo = Tail(todo)
    BY <1>0, <1>3 DEF Admit, Consumers
  <2>2. ItemsOf(todo) \subseteq {Head(todo)} \cup ItemsOf(Tail(todo))
    <3>1. Len(todo) \in Nat /\ Len(todo) # 0 /\ DOMAIN todo = 1 .. Len(todo)
      BY <2>1, Positions, EmptySeq
    <3>2. /\ Tail(todo) \in Seq(Messages) /\ Len(Tail(todo)) = Len(todo) - 1
          /\ \A i \in 1 .. Len(Tail(todo)) : Tail(todo)[i] = todo[i + 1]
          /\ Head(todo) = todo[1]
      BY <2>1, HeadTailProperties
    <3>3. DOMAIN Tail(todo) = 1 .. Len(todo) - 1 BY <3>2, Positions
    <3> HIDE DEF todo
    <3>4. ASSUME NEW i \in DOMAIN todo
          PROVE  todo[i] = Head(todo) \/ todo[i] \in ItemsOf(Tail(todo))
      <4>1. CASE i = 1 BY <3>2, <4>1
      <4>2. CASE i # 1
        <5>1. i - 1 \in DOMAIN Tail(todo) /\ i - 1 \in 1 .. Len(Tail(todo))
              /\ (i - 1) + 1 = i
          BY <3>1, <3>2, <3>3, <3>4, <4>2
        <5> QED BY <3>2, <5>1 DEF ItemsOf
      <4> QED BY <4>1, <4>2
    <3> QED BY <3>4 DEF ItemsOf
  <2> HIDE DEF todo
  <2>3. Met(cons'[t], Work(t), history')
    BY <1>0, <2>1, <2>2 DEF MetAt, Met, todo
  <2> QED BY <1>1, <2>1, <2>3, QuietAdmits
<1>4. CASE RunEnds(t)
  <2>1. cons[t].pc = "run" /\ cons[t].todo = <<>> /\ history' = history
    BY <1>4 DEF RunEnds
  <2>2. Work(t) \subseteq history BY <1>0, <2>1 DEF MetAt, Met, ItemsOf
  <2>3. cons'[t].pc \in {"steered", "ran", "cancelTurn"}
    BY <1>0, <1>4, AfterRunMoves DEF RunEnds
  <2> QED BY <1>1, <2>1, <2>2, <2>3, QuietAdmits DEF Met
<1>5. CASE RunFails(t)
  <2>1. PICK undone \in RolledBack(t) : history' = history \ undone
    BY <1>5 DEF RunFails
  <2>2. cons[t].pc = "run" /\ mstate' = mstate BY <1>5 DEF RunFails
  <2>3. CommitMeansAdmitted'
    BY <1>0, <2>1, <2>2, RolledBackIsHeld DEF CommitMeansAdmitted
  <2>4. ~WaitLease(t).active BY <1>0 DEF FitsAt, Fits, NoLease
  <2>5. cons'[t].pc = "cancelTurn"
    BY <1>0, <1>5, <2>4, AfterRunMoves DEF RunFails
  <2> QED BY <2>3, <2>5 DEF Admits, MetAt, Met
<1>6. CASE BeginRefused(t)
  <2>1. cons'[t].pc = "cancelTurn" BY <1>0, <1>6, RaiseMoves DEF BeginRefused
  <2> QED BY <1>1, <1>6, <2>1, QuietAdmits DEF BeginRefused, Met
<1>7. CASE RefreshFails(t)
  <2>1. cons'[t].pc = "exit" BY <1>0, <1>7, GoMoves DEF RefreshFails, ConsumerStates
  <2> QED BY <1>1, <1>7, <2>1, QuietAdmits DEF RefreshFails, Met
<1>8. ~Expire(t) BY DEF Expire
<1> QED BY <1>2, <1>3, <1>4, <1>5, <1>6, <1>7, <1>8 DEF Run

LEMMA SteerAdmits ==
  ASSUME AdmitInv, NEW t \in Tokens, Steer(t)
  PROVE  Admits(t)
<1>0. /\ KeptInv /\ SchedBase /\ SchedTypeOK /\ cons \in [Tokens -> Consumers]
      /\ cons[t] \in Consumers /\ MetAt(t) /\ InboxTypeOK
      /\ lease \in [Slots -> Leases]
  BY KeptFacts DEF AdmitInv
<1>s. /\ <<t, "head">> \in Slots /\ <<t, "follow">> \in Slots /\ <<t, "drain">> \in Slots
      /\ <<t, "head">> # <<t, "drain">> /\ <<t, "follow">> # <<t, "drain">>
  BY SlotsOwned
<1>1. ASSUME NEW l, lease' = [lease EXCEPT ![<<t, "drain">>] = l]
      PROVE  Work(t)' = Work(t)
  BY <1>0, <1>1, <1>s DEF Work, HeadLease, FollowLease
<1>2. CASE DrainClaim(t)
  <2>1. /\ cons[t].pc = "run" /\ cons[t].todo = <<>> /\ history' = history
        /\ Go(t, "drain")
    BY <1>2 DEF DrainClaim
  <2>2. Work(t) \subseteq history BY <1>0, <2>1 DEF MetAt, Met, ItemsOf
  <2>3. cons'[t].pc = "drain" BY <1>0, <2>1, GoMoves DEF ConsumerStates, Working
  <2>4. mstate' = mstate /\ \E l : lease' = [lease EXCEPT ![<<t, "drain">>] = l]
    BY <1>2 DEF DrainClaim, ClaimPrefix, ClaimSteer
  <2> QED BY <1>1, <2>1, <2>2, <2>3, <2>4, QuietAdmits DEF Met
<1>3. CASE DrainOne(t)
  <2>1. /\ history' = history \cup {NextOf(DrainLease(t))} /\ cons[t].pc = "drain"
        /\ Settle(<<t, "drain">>, "admitted")
        /\ \E pc \in {"drain", "run"} : Go(t, pc)
    BY <1>3 DEF DrainOne, Commit
  <2>2. CommitMeansAdmitted'
    BY <1>s, <2>1, SettledAdmits DEF DrainLease
  <2>3. cons'[t].pc \in {"drain", "run"} BY <1>0, <2>1, GoMoves DEF ConsumerStates, Working
  <2>4. \E l : lease' = [lease EXCEPT ![<<t, "drain">>] = l] BY <2>1 DEF Settle
  <2>5. Work(t)' = Work(t) BY <1>1, <2>4
  <2>6. Work(t) \subseteq history BY <1>0, <2>1 DEF MetAt, Met
  <2> QED BY <2>1, <2>2, <2>3, <2>5, <2>6 DEF Admits, MetAt, Met
<1>4. CASE DrainFails(t)
  <2>1. /\ cons[t].pc = "drain" /\ history' = history /\ mstate' = mstate /\ Go(t, "run")
        /\ \E l : lease' = [lease EXCEPT ![<<t, "drain">>] = l]
    BY <1>4 DEF DrainFails, RequeueFront
  <2>2. cons'[t].pc = "run" BY <1>0, <2>1, GoMoves DEF ConsumerStates, Working
  <2>3. Work(t) \subseteq history BY <1>0, <2>1 DEF MetAt, Met
  <2> QED BY <1>1, <2>1, <2>2, <2>3, QuietAdmits DEF Met
<1> QED BY <1>2, <1>3, <1>4 DEF Steer

LEMMA WaitAdmits ==
  ASSUME AdmitInv, "wait" \notin Features, NEW t \in Tokens, WaitingLoop(t)
  PROVE  Admits(t)
<1>0. /\ KeptInv /\ SchedBase /\ SchedTypeOK /\ cons[t] \in Consumers
      /\ MetAt(t) /\ FitsAt(t) /\ ModeFits(cons[t])
  BY KeptFacts DEF AdmitInv
<1>1. cons[t].pc \notin {"wait", "woken", "steered"}
  BY <1>0 DEF ModeFits, FitsAt, Fits, NoLease
<1>2. PlanDone(t)
  BY <1>1 DEF WaitingLoop, PlanWait, Wake, WaitTimesOut, WokenClaims, WokenFindsNothing,
     CommitSteer, CommitSteerStale
<1>3. cons'[t].pc = "commit"
  BY <1>0, <1>2, GoMoves DEF PlanDone, ConsumerStates, Working
<1>4. Work(t) \subseteq history BY <1>0, <1>2 DEF PlanDone, MetAt, Met
<1>5. Work(t)' = Work(t) BY <1>2 DEF PlanDone, Work, HeadLease, FollowLease
<1> QED BY <1>2, <1>3, <1>4, <1>5, QuietAdmits DEF PlanDone, Met

LEMMA EndAdmits ==
  ASSUME AdmitInv, NEW t \in Tokens, EndTurn(t)
  PROVE  Admits(t)
<1>0. /\ KeptInv /\ SchedBase /\ SchedTypeOK /\ cons \in [Tokens -> Consumers]
      /\ cons[t] \in Consumers /\ MetAt(t)
  BY KeptFacts DEF AdmitInv
<1>1. CASE CommitItem(t)
  <2> DEFINE kind == IF HeadLease(t).active THEN "head" ELSE "follow"
             s == <<t, kind>>
  <2>1. /\ cons[t].pc = "commit" /\ Settle(s, "admitted") /\ history' = history
        /\ \E pc \in {"commit", "finish"} : Go(t, pc)
    BY <1>1 DEF CommitItem, Commit
  <2>2. s \in Slots /\ (s = <<t, "head">> \/ s = <<t, "follow">>) BY SlotsOwned
  <2>3. lease[s] = HeadLease(t) \/ lease[s] = FollowLease(t)
    BY <2>2 DEF HeadLease, FollowLease
  <2> HIDE DEF s
  <2>4. Work(t) \subseteq history BY <1>0, <2>1 DEF MetAt, Met
  <2>5. NextOf(lease[s]) \in history
    BY <1>0, <2>1, <2>2, <2>3, <2>4, NextIsItem DEF Work
  <2>6. CommitMeansAdmitted' BY <2>1, <2>2, <2>5, SettledAdmits
  <2>7. Work(t)' = Work(t)
    BY <1>0, <2>1, <2>2, NextIsItem, SlotsOwned DEF Work, HeadLease, FollowLease
  <2>8. cons'[t].pc \in {"commit", "finish"}
    BY <1>0, <2>1, GoMoves DEF ConsumerStates, Working
  <2> QED BY <2>1, <2>4, <2>6, <2>7, <2>8 DEF Admits, MetAt, Met
<1>2. CASE Finish(t) \/ Finalize(t) \/ FinalizeRefused(t)
  <2>1. mstate' = mstate /\ history' = history
    BY <1>2 DEF Finish, Finalize, FinalizeRefused
  <2>2. cons'[t].pc \in {"select", "finalize", "cancelTurn"}
    <3>1. CASE NextTurn(t) BY <1>0, <3>1
    <3>2. CASE Go(t, "finalize") BY <1>0, <3>2, GoMoves DEF ConsumerStates, Working
    <3>3. CASE FinalizeRefused(t) BY <1>0, <3>3, RaiseMoves DEF FinalizeRefused
    <3> QED BY <1>2, <3>1, <3>2, <3>3 DEF Finish, Finalize
  <2> QED BY <2>1, <2>2, QuietAdmits DEF Met
<1> QED BY <1>1, <1>2 DEF EndTurn

LEMMA RecoverAdmits ==
  ASSUME AdmitInv, NEW t \in Tokens, Recover(t)
  PROVE  Admits(t)
<1> DEFINE m == Head(cons[t].todo)
<1>0. /\ KeptInv /\ SchedBase /\ SchedTypeOK /\ cons \in [Tokens -> Consumers]
      /\ cons[t] \in Consumers /\ InboxTypeOK /\ mstate \in [Messages -> MessageStates]
  BY KeptFacts DEF AdmitInv, InboxTypeOK
<1>1. cons'[t].pc \in {"cas", "settle", "exit", "requeue", "select"}
  <2>1. CASE NextTurn(t) BY <1>0, <2>1
  <2>2. CASE \E pc \in {"settle", "exit", "requeue"} : Go(t, pc)
    BY <1>0, <2>2, GoMoves DEF ConsumerStates, Working
  <2>3. CASE ReadTurn(t)
    <3>1. cons'[t].pc = "cas" \/ cons'[t].pc = "settle"
      BY <1>0, <2>3 DEF ReadTurn, Consumers
    <3> QED BY <3>1
  <2>4. CASE SettleCommit(t) BY <1>0, <2>4 DEF SettleCommit, Consumers
  <2> QED BY <2>1, <2>2, <2>3, <2>4
          DEF Recover, SwapTurn, SettleRaises, SettleRest, Requeue, RequeueAs, SettleDone
<1>2. MetAt(t)' BY <1>1 DEF MetAt, Met
<1>3. history' = history
  BY DEF Recover, ReadTurn, SwapTurn, SettleCommit, SettleRaises, SettleRest, Requeue,
     RequeueAs, SettleDone
<1>4. CASE SettleCommit(t)
  <2>1. SlotOf(t, m) \in Slots BY SlotsOwned DEF SlotOf
  <2>2. /\ Reached(m) /\ NextOf(lease[SlotOf(t, m)]) = m
        /\ Settle(SlotOf(t, m), "admitted") /\ cons[t].todo # <<>>
    BY <1>4 DEF SettleCommit, IsNext, Commit
  <2>3. m \in Messages BY <1>0, <2>2, HeadTailProperties DEF Consumers
  <2>4. m \in history BY <2>2, <2>3 DEF Reached, AdmitInv, CommitMeansAdmitted
  <2> QED BY <1>2, <1>3, <2>1, <2>2, <2>4, SettledAdmits DEF Admits
<1>5. CASE SettleRest(t)
  <2>1. CASE UNCHANGED inboxVars
    BY <1>2, <1>3, <2>1 DEF Admits, AdmitInv, CommitMeansAdmitted
  <2>2. CASE Fail(SlotOf(t, m))
    <3>1. \E n : mstate' = [mstate EXCEPT ![n] = "failed"]
      BY <2>2 DEF Fail, Settle
    <3>2. \A n \in Messages : mstate'[n] = "admitted" => mstate[n] = "admitted"
      BY <1>0, <3>1
    <3> QED BY <1>2, <1>3, <3>2 DEF Admits, AdmitInv, CommitMeansAdmitted
  <2> QED BY <1>5, <2>1, <2>2 DEF SettleRest
<1>6. CASE \/ ReadTurn(t) \/ SwapTurn(t) \/ SettleRaises(t) \/ Requeue(t)
           \/ SettleDone(t)
  <2>1. mstate' = mstate
    BY <1>6 DEF ReadTurn, SwapTurn, SettleRaises, Requeue, RequeueAs, SettleDone
  <2> QED BY <1>2, <1>3, <2>1 DEF Admits, AdmitInv, CommitMeansAdmitted
<1> QED BY <1>4, <1>5, <1>6 DEF Recover

LEMMA OtherAdmits ==
  ASSUME AdmitInv, "wait" \notin Features, NEW t \in Tokens,
         Launch(t) \/ Select(t) \/ LaunchFails(t) \/ Cancel(t) \/ CancelDrain(t)
  PROVE  Admits(t)
<1>0. /\ KeptInv /\ SchedBase /\ SchedTypeOK /\ cons \in [Tokens -> Consumers]
      /\ cons[t] \in Consumers /\ FitsAt(t)
  BY KeptFacts DEF AdmitInv
<1>1. ~WaitLease(t).active BY <1>0 DEF FitsAt, Fits, NoLease
<1>2. mstate' = mstate /\ history' = history
  BY DEF Launch, LaunchFails, Select, Peek, Collect, ClaimSteer, ClaimHead, ClaimNext,
     ClaimStaleHead, Idle, ReleaseIfIdle, Cancel, CancelDrain, RequeueFront
<1>3. cons'[t].pc \in Selecting \cup {"off", "begin", "exit", "cancelTurn"}
  <2>1. CASE Launch(t) \/ Select(t) \/ LaunchFails(t) BY <1>0, <2>1, SelectPlaces
  <2>2. CASE CancelDrain(t) BY <1>0, <1>1, <2>2, RaiseMoves DEF CancelDrain
  <2>3. CASE Cancel(t) /\ At(t, "run") BY <1>0, <1>1, <2>3, AfterRunMoves DEF Cancel
  <2>4. CASE Cancel(t) /\ ~At(t, "run")
    <3>1. cons' = [cons EXCEPT ![t] = Cancelled(@)] BY <2>4 DEF Cancel
    <3>2. cons'[t].pc \in {"off", "exit", "cancelTurn"}
      BY <1>0, <3>1 DEF Cancelled, Consumers
    <3> QED BY <3>2
  <2> QED BY <2>1, <2>2, <2>3, <2>4
<1> QED BY <1>2, <1>3, QuietAdmits DEF Met, Selecting

LEMMA OwnStepAdmits ==
  ASSUME AdmitInv, Undisturbed, Features \cap {"expire", "wait"} = {},
         NEW t \in Tokens, OwnStep(t)
  PROVE  CommitMeansAdmitted' /\ \A u \in Tokens : MetAt(u)'
<1>0. /\ KeptInv /\ SchedBase /\ cons \in [Tokens -> Consumers]
  BY KeptFacts DEF AdmitInv
<1>1. Carried(t) /\ Moved(t) BY <1>0, OwnStepCarried, OwnStepMoves
<1>2. Admits(t)
  BY RunAdmits, SteerAdmits, WaitAdmits, EndAdmits, RecoverAdmits, OtherAdmits DEF OwnStep
<1>3. history' = history \/ cons[t].pc \in Working
  BY DEF OwnStep, Launch, LaunchFails, Select, Peek, Collect, ClaimHead, ClaimStaleHead,
     Idle, Cancel, CancelDrain, Run, BeginTurn, BeginRefused, RefreshFails, Admit, Expire,
     RunEnds, RunFails, Steer, DrainClaim, DrainOne, DrainFails, WaitingLoop, PlanWait,
     PlanDone, Wake, WaitTimesOut, WokenClaims, WokenFindsNothing, CommitSteer,
     CommitSteerStale, EndTurn, CommitItem, Finish, Finalize, FinalizeRefused, Recover,
     ReadTurn, SwapTurn, SettleCommit, SettleRaises, SettleRest, Requeue, RequeueAs,
     SettleDone, Working
<1>4. ASSUME NEW u \in Tokens, u # t PROVE MetAt(u)'
  <2>1. MetAt(u) /\ cons'[u] = cons[u] BY <1>0, <1>1, <1>4 DEF AdmitInv, Moved
  <2>2. Work(u)' = Work(u)
    BY <1>1, <1>4, SlotsOwned DEF Carried, Work, HeadLease, FollowLease
  <2>3. cons[u].pc \in Working => history' = history
    BY <1>0, <1>3, <1>4, ActorIsOne DEF KeptInv
  <2> QED BY <2>1, <2>2, <2>3 DEF MetAt, Met, Working
<1> QED BY <1>2, <1>4 DEF Admits

LEMMA SharedAdmits ==
  ASSUME AdmitInv, Undisturbed, Shared
  PROVE  CommitMeansAdmitted' /\ \A u \in Tokens : MetAt(u)'
<1>0. /\ KeptInv /\ SchedBase /\ OrderlyStop /\ mstate \in [Messages -> MessageStates]
  BY KeptBase DEF AdmitInv, Undisturbed, InboxTypeOK
<1>1. history' = history BY DEF Shared, Dispatch, Exit, BeginStop, EndStop, Restart
<1>2. CommitMeansAdmitted'
  <2>1. CASE \E m \in Messages : Dispatch(m)
    <3>1. PICK m \in Messages : Dispatch(m) BY <2>1
    <3>2. mstate[m] = "none" /\ Enqueue(m) BY <3>1 DEF Dispatch, Arrives
    <3>3. EnqueueRoom(m) \/ EnqueueRefused(m) BY <1>0, <3>2, RoomForAll DEF Enqueue
    <3>4. \A n \in Messages : mstate'[n] = "admitted" => mstate[n] = "admitted"
      BY <1>0, <3>3 DEF EnqueueRoom, EnqueueRefused
    <3> QED BY <1>1, <3>4 DEF AdmitInv, CommitMeansAdmitted
  <2>2. CASE ~\E m \in Messages : Dispatch(m)
    <3>1. mstate' = mstate
      BY <2>2 DEF Shared, Exit, BeginStop, EndStop, CleanupAll, Restart, ClaimExisting
    <3> QED BY <1>1, <3>1 DEF AdmitInv, CommitMeansAdmitted
  <2> QED BY <2>1, <2>2
<1>3. ASSUME NEW u \in Tokens PROVE MetAt(u)'
  <2>1. \/ cons'[u] = cons[u]
        \/ cons'[u].pc \in {"launch", "start", "off"} /\ cons[u].pc \in {"off", "exit"}
    BY <1>0, SharedCons
  <2>2. CASE cons'[u] = cons[u] /\ cons[u].pc \in {"run", "drain", "ran", "commit"}
    <3>1. \A s \in Slots : s[1] = u => lease'[s] = lease[s]
      <4>1. CASE \E m \in Messages : Dispatch(m) BY <1>0, <4>1, DispatchStock
      <4>2. CASE \E t \in Tokens : Exit(t)
        <5>1. PICK t \in Tokens : Exit(t) BY <4>2
        <5>2. u # t BY <2>2, <5>1 DEF Exit
        <5> QED BY <1>0, <5>1, <5>2, ExitStock
      <4>3. CASE BeginStop \/ Restart BY <4>3 DEF BeginStop, Restart, ClaimExisting
      <4>4. CASE EndStop BY <4>4 DEF EndStop, CleanupAll
      <4> QED BY <4>1, <4>2, <4>3, <4>4 DEF Shared
    <3>2. Work(u)' = Work(u) BY <3>1, SlotsOwned DEF Work, HeadLease, FollowLease
    <3> QED BY <1>1, <2>2, <3>2 DEF AdmitInv, MetAt
  <2>3. CASE cons'[u].pc \notin {"run", "drain", "ran", "commit"} BY <2>3 DEF MetAt, Met
  <2> QED BY <2>1, <2>2, <2>3
<1> QED BY <1>2, <1>3

\* The manager counts a message as admitted only when it is in the history, where the
\* chat is undisturbed and no ambient decision expires and no turn waits (there it is
\* false: both settle messages whose admission was cut short).
THEOREM CommittedIsAdmitted ==
  ASSUME Undisturbed, Features \cap {"expire", "wait"} = {}
  PROVE  SchedSpec => []CommitMeansAdmitted
<1>1. SchedInit => AdmitInv
  <2>1. SUFFICES ASSUME SchedInit PROVE AdmitInv OBVIOUS
  <2>2. KeptInv BY <2>1, KeptInvInit
  <2>3. \A t \in Tokens : cons[t].pc = "off" BY <2>1 DEF SchedInit
  <2>4. \A t \in Tokens : MetAt(t) BY <2>3 DEF MetAt, Met
  <2>5. CommitMeansAdmitted BY <2>1 DEF SchedInit, InboxInit, CommitMeansAdmitted
  <2> QED BY <2>2, <2>4, <2>5 DEF AdmitInv
<1>2. AdmitInv /\ [SchedNext]_schedVars => AdmitInv'
  <2>1. SUFFICES ASSUME AdmitInv, [SchedNext]_schedVars PROVE AdmitInv' OBVIOUS
  <2>2. KeptInv' BY <2>1, KeptInvNext DEF AdmitInv
  <2>3. CommitMeansAdmitted' /\ \A u \in Tokens : MetAt(u)'
    <3>1. CASE Shared BY <2>1, <3>1, SharedAdmits
    <3>2. CASE \E t \in Tokens : OwnStep(t) BY <2>1, <3>2, OwnStepAdmits
    <3>3. CASE UNCHANGED schedVars
      BY <2>1, <3>3 DEF AdmitInv, CommitMeansAdmitted, MetAt, Met, Work, HeadLease,
         FollowLease
    <3> QED BY <2>1, <3>1, <3>2, <3>3, StepKinds
  <2> QED BY <2>2, <2>3 DEF AdmitInv
<1>3. AdmitInv => CommitMeansAdmitted BY DEF AdmitInv
<1> QED BY <1>1, <1>2, <1>3, PTL DEF SchedSpec

(***************************************************************************)
(* The order in which messages are served.                                 *)
(***************************************************************************)
Rising(q) == \A i, j \in DOMAIN q : i < j => q[i] < q[j]
Below(A, B) == \A m \in A, n \in B : m < n

LEMMA MessagesAreNumbers == Messages \subseteq Nat
BY SchedulerAssumption

\* A run of a rising sequence, and what is left when it is taken out.
LEMMA RisingPart ==
  ASSUME NEW q \in Seq(Messages), Rising(q), NEW a \in Nat, NEW b \in Nat,
         a <= b, b <= Len(q)
  PROVE  Rising(SubSeq(q, a + 1, b))
<1>1. DOMAIN q = 1 .. Len(q) /\ Len(q) \in Nat BY Positions
<1> DEFINE p == SubSeq(q, a + 1, b)
<1>2. /\ p \in Seq(Messages) /\ Len(p) = b - (a + 1) + 1
      /\ \A i \in 1 .. b - (a + 1) + 1 : p[i] = q[(a + 1) + i - 1]
  BY <1>1, PartOfSeq
<1>3. DOMAIN p = 1 .. b - a
  <2>1. b - (a + 1) + 1 = b - a OBVIOUS
  <2> HIDE DEF p
  <2> QED BY <1>2, <2>1, Positions
<1> HIDE DEF p
<1>4. ASSUME NEW i \in 1 .. b - a PROVE p[i] = q[a + i] /\ a + i \in DOMAIN q
  <2>1. (a + 1) + i - 1 = a + i /\ b - (a + 1) + 1 = b - a OBVIOUS
  <2> QED BY <1>1, <1>2, <2>1
<1>5. ASSUME NEW i \in 1 .. b - a, NEW j \in 1 .. b - a, i < j PROVE p[i] < p[j]
  <2>1. a + i < a + j BY <1>5
  <2> QED BY <1>4, <2>1 DEF Rising
<1> QED BY <1>3, <1>5 DEF Rising, p

LEMMA RisingCut ==
  ASSUME NEW q \in Seq(Messages), Rising(q), NEW a \in Nat, NEW b \in Nat,
         a <= b, b <= Len(q)
  PROVE  Rising(Cut(q, a, b))
<1>1. DOMAIN q = 1 .. Len(q) /\ Len(q) \in Nat BY Positions
<1>p. /\ Cut(q, a, b) \in Seq(Messages) /\ Len(Cut(q, a, b)) = Len(q) - (b - a)
      /\ \A i \in 1 .. Len(q) - (b - a) :
           Cut(q, a, b)[i] = IF i <= a THEN q[i] ELSE q[i + (b - a)]
  BY QueueCut, ZenonT(60)
<1> DEFINE c == Cut(q, a, b)
           At2(i) == IF i <= a THEN i ELSE i + (b - a)
<1> HIDE DEF c
<1>2. /\ c \in Seq(Messages) /\ Len(c) = Len(q) - (b - a)
      /\ \A i \in 1 .. Len(q) - (b - a) : c[i] = IF i <= a THEN q[i] ELSE q[i + (b - a)]
  BY <1>p DEF c
<1>3. DOMAIN c = 1 .. Len(q) - (b - a) BY <1>2, Positions
<1>4. \A i \in DOMAIN c : At2(i) \in DOMAIN q /\ c[i] = q[At2(i)]
  <2>1. SUFFICES ASSUME NEW i \in 1 .. Len(q) - (b - a)
                 PROVE  At2(i) \in DOMAIN q /\ c[i] = q[At2(i)]
    BY <1>3
  <2>2. c[i] = IF i <= a THEN q[i] ELSE q[i + (b - a)] BY <1>2, Zenon
  <2>3. CASE i <= a
    <3>1. i \in 1 .. Len(q) BY <1>1, <2>3
    <3> QED BY <1>1, <2>2, <2>3, <3>1
  <2>4. CASE ~(i <= a)
    <3>1. i + (b - a) \in 1 .. Len(q) BY <1>1, <2>4
    <3> QED BY <1>1, <2>2, <2>4, <3>1
  <2> QED BY <2>3, <2>4
<1>5. \A i, j \in DOMAIN c : i < j => At2(i) < At2(j) BY <1>1, <1>3
<1> HIDE DEF At2
<1> QED BY <1>4, <1>5 DEF Rising, c

LEMMA RisingConcat ==
  ASSUME NEW p \in Seq(Messages), NEW q \in Seq(Messages), Rising(p), Rising(q),
         Below(ItemsOf(p), ItemsOf(q))
  PROVE  Rising(p \o q)
<1> DEFINE c == p \o q
<1>1. /\ DOMAIN p = 1 .. Len(p) /\ Len(p) \in Nat
      /\ DOMAIN q = 1 .. Len(q) /\ Len(q) \in Nat
  BY Positions
<1>2. /\ c \in Seq(Messages) /\ Len(c) = Len(p) + Len(q)
      /\ \A i \in 1 .. Len(p) + Len(q) : c[i] = IF i <= Len(p) THEN p[i] ELSE q[i - Len(p)]
  BY ConcatProperties
<1> HIDE DEF c
<1>3. DOMAIN c = 1 .. Len(p) + Len(q) BY <1>2, Positions
<1>4. ASSUME NEW i \in DOMAIN c
      PROVE  /\ i <= Len(p) => i \in DOMAIN p /\ c[i] = p[i]
             /\ ~(i <= Len(p)) => i - Len(p) \in DOMAIN q /\ c[i] = q[i - Len(p)]
  BY <1>1, <1>2, <1>3
<1>5. ASSUME NEW i \in DOMAIN c, NEW j \in DOMAIN c, i < j PROVE c[i] < c[j]
  <2>0. i \in Int /\ j \in Int BY <1>1, <1>3
  <2>1. CASE j <= Len(p)
    <3>1. i <= Len(p) BY <1>1, <1>5, <2>0, <2>1
    <3> QED BY <1>4, <1>5, <2>1, <3>1 DEF Rising
  <2>2. CASE i <= Len(p) /\ ~(j <= Len(p))
    BY <1>4, <2>2 DEF Below, ItemsOf
  <2>3. CASE ~(i <= Len(p))
    <3>1. ~(j <= Len(p)) /\ i - Len(p) < j - Len(p) BY <1>1, <1>5, <2>0, <2>3
    <3> QED BY <1>4, <2>3, <3>1 DEF Rising
  <2> QED BY <2>1, <2>2, <2>3
<1> QED BY <1>5 DEF Rising, c

LEMMA RisingAppend ==
  ASSUME NEW q \in Seq(Messages), Rising(q), NEW e \in Messages, Below(ItemsOf(q), {e})
  PROVE  Rising(Append(q, e))
<1>1. DOMAIN q = 1 .. Len(q) /\ Len(q) \in Nat BY Positions
<1> DEFINE r == Append(q, e)
<1>2. /\ r \in Seq(Messages) /\ Len(r) = Len(q) + 1
      /\ \A i \in 1 .. Len(q) : r[i] = q[i]
      /\ r[Len(q) + 1] = e
  BY AppendProperties
<1> HIDE DEF r
<1>3. DOMAIN r = 1 .. Len(q) + 1 BY <1>2, Positions
<1>4. \A i \in 1 .. Len(q) : q[i] < e BY <1>1 DEF Below, ItemsOf
<1>5. ASSUME NEW i \in DOMAIN r, NEW j \in DOMAIN r, i < j PROVE r[i] < r[j]
  <2>1. i \in 1 .. Len(q) BY <1>1, <1>3, <1>5
  <2>2. CASE j = Len(q) + 1 BY <1>2, <1>4, <2>1, <2>2
  <2>3. CASE j # Len(q) + 1
    <3>1. j \in 1 .. Len(q) BY <1>1, <1>3, <2>3
    <3> QED BY <1>1, <1>2, <1>5, <2>1, <3>1 DEF Rising
  <2> QED BY <2>2, <2>3
<1> QED BY <1>5 DEF Rising, r

LEMMA RisingTail ==
  ASSUME NEW q \in Seq(Messages), q # <<>>, Rising(q)
  PROVE  /\ Tail(q) \in Seq(Messages) /\ Rising(Tail(q)) /\ Head(q) \in Messages
         /\ ItemsOf(q) = {Head(q)} \cup ItemsOf(Tail(q))
         /\ Below({Head(q)}, ItemsOf(Tail(q)))
<1>1. DOMAIN q = 1 .. Len(q) /\ Len(q) \in Nat /\ Len(q) # 0 BY Positions, EmptySeq
<1>2. /\ Tail(q) \in Seq(Messages) /\ Len(Tail(q)) = Len(q) - 1
      /\ \A i \in 1 .. Len(Tail(q)) : Tail(q)[i] = q[i + 1]
      /\ Head(q) = q[1] /\ Head(q) \in Messages
  BY <1>1, HeadTailProperties, ElementOfSeq
<1> DEFINE r == Tail(q)
<1> HIDE DEF r
<1>3. r \in Seq(Messages) /\ DOMAIN r = 1 .. Len(q) - 1 BY <1>2, Positions DEF r
<1>4. \A i \in DOMAIN r : i + 1 \in DOMAIN q /\ r[i] = q[i + 1] /\ 1 < i + 1
  BY <1>1, <1>2, <1>3 DEF r
<1>5. \A i \in DOMAIN q : i = 1 \/ (i - 1 \in DOMAIN r /\ (i - 1) + 1 = i) BY <1>1, <1>3
<1>6. 1 \in DOMAIN q BY <1>1
<1>7. Rising(r)
  <2>1. \A i, j \in DOMAIN r : i < j => i + 1 < j + 1 BY <1>3
  <2> QED BY <1>4, <2>1 DEF Rising
<1>8. ItemsOf(q) = {Head(q)} \cup ItemsOf(r)
  <2>1. ItemsOf(r) \subseteq ItemsOf(q) BY <1>4 DEF ItemsOf
  <2>2. ASSUME NEW i \in DOMAIN q PROVE q[i] \in {Head(q)} \cup ItemsOf(r)
    <3>1. CASE i = 1 BY <1>2, <3>1
    <3>2. CASE i # 1
      <4>1. i - 1 \in DOMAIN r /\ (i - 1) + 1 = i BY <1>5, <3>2
      <4>2. r[i - 1] = q[i] BY <1>4, <4>1
      <4> QED BY <4>1, <4>2 DEF ItemsOf
    <3> QED BY <3>1, <3>2
  <2> QED BY <1>2, <1>6, <2>1, <2>2 DEF ItemsOf
<1>9. Below({Head(q)}, ItemsOf(r)) BY <1>2, <1>4, <1>6 DEF Below, ItemsOf, Rising
<1> QED BY <1>2, <1>7, <1>8, <1>9 DEF r

\* What a lease still owes, in the order it is settled in, and the place of a lease
\* among those of its consumer: the older its messages, the lower.
Hand(t, kind) == Rest(lease[<<t, kind>>])
Rank(kind) == IF kind = "head" THEN 1 ELSE IF kind = "follow" THEN 2
              ELSE IF kind = "wait" THEN 3 ELSE 4

\* What waits behind a consumer: while it claims, its head is still in the queue, and
\* the follow-ups of that head are already leased.
Queued(t) == IF cons[t].pc = "claim" THEN ItemsOf(inbox) \ {cons[t].first}
             ELSE ItemsOf(inbox)

InLine(t) ==
  /\ \A k \in LeaseKinds : Rising(Hand(t, k)) /\ Below(ItemsOf(Hand(t, k)), Queued(t))
  /\ \A j, k \in LeaseKinds :
       Rank(j) < Rank(k) => Below(ItemsOf(Hand(t, j)), ItemsOf(Hand(t, k)))
  /\ cons[t].pc = "claim" => Below({cons[t].first}, ItemsOf(Hand(t, "follow")))

\* Messages are numbered in the order they arrive.
ArrivedInOrder ==
  \A m, n \in Messages : m < n /\ mstate[n] # "none" => mstate[m] # "none"

OrderInv ==
  KeptInv /\ ArrivedInOrder /\ Rising(inbox) /\ \A t \in Tokens : InLine(t)

LEMMA HandFacts ==
  ASSUME KeptInv, NEW t \in Tokens, NEW k \in LeaseKinds
  PROVE  /\ Hand(t, k) \in Seq(Messages)
         /\ ItemsOf(Hand(t, k)) = LeasedItems(<<t, k>>)
<1>1. lease[<<t, k>>] \in Leases BY KeptFacts, SlotsOwned
<1>2. ItemsOf(<<>>) = {} BY DEF ItemsOf
<1> QED BY <1>1, <1>2, UncommittedType, EmptySeq DEF Hand, Rest, LeasedItems

\* A consumer that serves no turn owes nothing.
LEMMA HandsEmpty ==
  ASSUME KeptInv, NEW t \in Tokens, cons[t].pc \in Resting \cup {"exit"}
  PROVE  \A k \in LeaseKinds : ~lease[<<t, k>>].active /\ Hand(t, k) = <<>>
<1>1. FitsAt(t) BY KeptFacts
<1>2. /\ ~HeadLease(t).active /\ ~FollowLease(t).active
      /\ ~WaitLease(t).active /\ ~DrainLease(t).active
  BY <1>1 DEF FitsAt, Fits, Resting, Over, NoLease
<1> QED BY <1>2 DEF Hand, Rest, LeaseKinds, HeadLease, FollowLease, WaitLease, DrainLease

LEMMA IdlersOwe ==
  ASSUME KeptInv, NEW t \in Tokens, cons[t].pc \notin Serving
  PROVE  cons[t].pc \in Resting \cup {"exit"}
<1>1. cons[t].pc \in ConsumerStates BY KeptFacts DEF Consumers
<1> QED BY <1>1 DEF ConsumerStates, Selecting, Serving, Resting

LEMMA EmptyInLine ==
  ASSUME NEW t \in Tokens, \A k \in LeaseKinds : Hand(t, k)' = <<>>
  PROVE  InLine(t)'
<1>1. Rising(<<>>) /\ ItemsOf(<<>>) = {} BY DEF Rising, ItemsOf
<1>2. "follow" \in LeaseKinds BY DEF LeaseKinds
<1> QED BY <1>1, <1>2 DEF InLine, Below

LEMMA ShrunkInLine ==
  ASSUME NEW t \in Tokens, InLine(t), inbox' = inbox,
         cons[t].pc # "claim", cons'[t].pc # "claim",
         \A k \in LeaseKinds : /\ Rising(Hand(t, k)')
                               /\ ItemsOf(Hand(t, k)') \subseteq ItemsOf(Hand(t, k))
  PROVE  InLine(t)'
<1>1. Queued(t)' = Queued(t) BY DEF Queued
<1>2. \A k \in LeaseKinds : Below(ItemsOf(Hand(t, k)'), Queued(t))
  BY DEF InLine, Below
<1>3. \A j, k \in LeaseKinds :
        Rank(j) < Rank(k) => Below(ItemsOf(Hand(t, j)'), ItemsOf(Hand(t, k)'))
  BY DEF InLine, Below
<1> QED BY <1>1, <1>2, <1>3 DEF InLine

\* A lease that ends, or of which the next item is settled.
Lessened(s) ==
  \/ lease'[s] = lease[s]
  \/ lease'[s] = NoLease
  \/ /\ lease[s].active /\ lease[s].committed < Len(lease[s].items)
     /\ lease'[s] = [items |-> lease[s].items, committed |-> lease[s].committed + 1,
                     active |-> lease[s].committed + 1 < Len(lease[s].items)]

LEMMA LessenedInLine ==
  ASSUME KeptInv, NEW t \in Tokens, InLine(t), inbox' = inbox,
         cons[t].pc # "claim", cons'[t].pc # "claim",
         \A k \in LeaseKinds : Lessened(<<t, k>>)
  PROVE  InLine(t)'
<1>1. SUFFICES ASSUME NEW k \in LeaseKinds
               PROVE  /\ Rising(Hand(t, k)')
                      /\ ItemsOf(Hand(t, k)') \subseteq ItemsOf(Hand(t, k))
  BY ShrunkInLine
<1> DEFINE s == <<t, k>>
<1>2. lease[s] \in Leases BY KeptFacts, SlotsOwned
<1>3. Hand(t, k) \in Seq(Messages) /\ Rising(Hand(t, k)) BY HandFacts DEF InLine
<1>4. CASE lease'[s] = lease[s] BY <1>3, <1>4 DEF Hand
<1>5. CASE lease'[s] = NoLease
  <2>1. Hand(t, k)' = <<>> BY <1>5 DEF Hand, Rest, NoLease
  <2> QED BY <2>1 DEF Rising, ItemsOf
<1>6. CASE /\ lease[s].active /\ lease[s].committed < Len(lease[s].items)
           /\ lease'[s] = [items |-> lease[s].items, committed |-> lease[s].committed + 1,
                           active |-> lease[s].committed + 1 < Len(lease[s].items)]
  <2>1. Hand(t, k) # <<>> /\ Hand(t, k)' = Tail(Hand(t, k))
    BY <1>2, <1>6, RestSettled DEF Hand
  <2> QED BY <1>3, <2>1, RisingTail
<1> QED BY <1>4, <1>5, <1>6 DEF Lessened

LEMMA QueueFacts ==
  ASSUME KeptInv
  PROVE  /\ inbox \in Seq(Messages) /\ Len(inbox) \in Nat /\ Distinct(inbox)
         /\ DOMAIN inbox = 1 .. Len(inbox)
         /\ inbox # <<>> => Head(inbox) = inbox[1] /\ Len(inbox) > 0
         /\ ItemsOf(inbox) \subseteq Messages
<1>1. inbox \in Seq(Messages) /\ Distinct(inbox)
  BY KeptBase DEF InboxTypeOK, InboxInv, NoDuplicate
<1>2. Len(inbox) \in Nat /\ DOMAIN inbox = 1 .. Len(inbox) /\ ItemsOf(inbox) \subseteq Messages
  BY <1>1, Positions
<1>3. inbox # <<>> => Len(inbox) > 0 /\ Head(inbox) = inbox[1] BY <1>1, <1>2, EmptySeq
<1> QED BY <1>1, <1>2, <1>3

\* What a claim takes from a rising queue, and what it leaves.
LEMMA ClaimParts ==
  ASSUME KeptInv, Rising(inbox), NEW a \in Nat, NEW b \in Nat, a <= b, b <= Len(inbox)
  PROVE  LET part == SubSeq(inbox, a + 1, b)
             rest == Cut(inbox, a, b) IN
         /\ Rising(part) /\ Rising(rest)
         /\ ItemsOf(part) \subseteq ItemsOf(inbox) /\ ItemsOf(rest) \subseteq ItemsOf(inbox)
         /\ \A m \in ItemsOf(part), n \in ItemsOf(rest) :
              m < n \/ \E i \in 1 .. a : n = inbox[i]
         /\ \A i \in 1 .. a, m \in ItemsOf(part) : inbox[i] < m
<1>0. /\ inbox \in Seq(Messages) /\ Len(inbox) \in Nat /\ Distinct(inbox)
      /\ DOMAIN inbox = 1 .. Len(inbox)
  BY QueueFacts
<1>p. ItemsOf(SubSeq(inbox, a + 1, b)) = {inbox[i] : i \in a + 1 .. b}
  BY <1>0, PartItems
<1>c. ItemsOf(Cut(inbox, a, b)) = ItemsOf(inbox) \ {inbox[i] : i \in a + 1 .. b}
  BY <1>0, CutItems
<1> DEFINE part == SubSeq(inbox, a + 1, b)
           rest == Cut(inbox, a, b)
<1>1. Rising(part) /\ Rising(rest) BY <1>0, RisingPart, RisingCut
<1>2. /\ ItemsOf(part) = {inbox[i] : i \in a + 1 .. b}
      /\ ItemsOf(rest) = ItemsOf(inbox) \ {inbox[i] : i \in a + 1 .. b}
  BY <1>p, <1>c
<1> HIDE DEF part, rest
<1>3. ItemsOf(part) \subseteq ItemsOf(inbox)
  <2>1. \A i \in a + 1 .. b : i \in 1 .. Len(inbox) BY <1>0
  <2> QED BY <1>0, <1>2, <2>1 DEF ItemsOf
<1>4. ASSUME NEW m \in ItemsOf(part), NEW n \in ItemsOf(rest)
      PROVE  m < n \/ \E i \in 1 .. a : n = inbox[i]
  <2>1. PICK i \in a + 1 .. b : m = inbox[i] BY <1>2
  <2>2. PICK j \in 1 .. Len(inbox) : n = inbox[j] /\ j \notin a + 1 .. b
    BY <1>0, <1>2 DEF ItemsOf
  <2>3. j \in 1 .. a \/ i < j BY <2>1, <2>2
  <2>4. i \in DOMAIN inbox /\ j \in DOMAIN inbox BY <1>0, <2>1, <2>2
  <2> QED BY <2>1, <2>2, <2>3, <2>4 DEF Rising
<1>5. ASSUME NEW i \in 1 .. a, NEW m \in ItemsOf(part) PROVE inbox[i] < m
  <2>1. PICK j \in a + 1 .. b : m = inbox[j] BY <1>2
  <2>2. i \in DOMAIN inbox /\ j \in DOMAIN inbox /\ i < j BY <1>0, <2>1
  <2> QED BY <2>1, <2>2 DEF Rising
<1> QED BY <1>1, <1>2, <1>3, <1>4, <1>5 DEF part, rest

LEMMA NewHand ==
  ASSUME KeptInv, NEW t \in Tokens, NEW kind \in LeaseKinds, NEW l,
         lease' = [lease EXCEPT ![<<t, kind>>] = l]
  PROVE  /\ Hand(t, kind)' = Rest(l)
         /\ \A k \in LeaseKinds : k # kind => Hand(t, k)' = Hand(t, k)
<1>1. lease \in [Slots -> Leases] BY KeptBase DEF InboxTypeOK
<1>2. \A k \in LeaseKinds : <<t, k>> \in Slots BY SlotsOwned
<1>3. \A k \in LeaseKinds : k # kind => <<t, k>> # <<t, kind>> OBVIOUS
<1> QED BY <1>1, <1>2, <1>3 DEF Hand

LEMMA RestOfNew ==
  ASSUME NEW q \in Seq(Messages)
  PROVE  Rest([items |-> q, committed |-> 0, active |-> TRUE]) = q
<1> DEFINE l == [items |-> q, committed |-> 0, active |-> TRUE]
<1>1. l \in Leases /\ Whole(l) /\ l.items = q BY DEF Leases, Whole
<1> HIDE DEF l
<1>2. Rest(l) = q BY <1>1, WholeRest
<1> QED BY <1>2 DEF l

LEMMA RankFacts ==
  /\ Rank("head") = 1 /\ Rank("follow") = 2 /\ Rank("wait") = 3 /\ Rank("drain") = 4
  /\ \A k \in LeaseKinds : k \in {"head", "follow", "wait", "drain"}
  /\ {"head", "follow", "wait", "drain"} \subseteq LeaseKinds
BY DEF Rank, LeaseKinds

\* A consumer leases the front of the queue behind what it has.
LEMMA PrefixInLine ==
  ASSUME OrderInv, NEW t \in Tokens, NEW kind \in LeaseKinds, ClaimPrefix(t, kind),
         cons[t].pc # "claim", cons'[t].pc # "claim",
         \A k \in LeaseKinds : Rank(kind) < Rank(k) => Hand(t, k) = <<>>
  PROVE  Rising(inbox)' /\ InLine(t)'
<1>0. /\ KeptInv /\ SchedTypeOK /\ InLine(t) /\ Rising(inbox)
      /\ inbox \in Seq(Messages) /\ Len(inbox) \in Nat
  BY KeptFacts, QueueFacts DEF OrderInv
<1>1. PICK n \in 1 .. Len(inbox) :
        /\ ClaimSteer(<<t, kind>>, 0, n, inbox[1], Messages)
        /\ lease' = [lease EXCEPT ![<<t, kind>>] =
                       [items |-> SubSeq(inbox, 1, n), committed |-> 0, active |-> TRUE]]
  BY <1>0, PrefixTaken
<1>2. n \in Nat /\ 0 <= n /\ n <= Len(inbox) /\ 1 <= n /\ n <= n + 1 /\ 0 + 1 = 1 BY <1>0
<1>3. inbox' = Cut(inbox, 0, n)
  <2>1. 0 + n + 1 = n + 1 BY <1>2
  <2> QED BY <1>1, <2>1 DEF ClaimSteer, Cut
<1> DEFINE part == SubSeq(inbox, 1, n)
<1>4. /\ Rising(part) /\ Rising(inbox')
      /\ ItemsOf(part) \subseteq ItemsOf(inbox) /\ ItemsOf(inbox') \subseteq ItemsOf(inbox)
      /\ Below(ItemsOf(part), ItemsOf(inbox'))
  <2>1. /\ Rising(SubSeq(inbox, 0 + 1, n)) /\ Rising(Cut(inbox, 0, n))
        /\ ItemsOf(SubSeq(inbox, 0 + 1, n)) \subseteq ItemsOf(inbox)
        /\ ItemsOf(Cut(inbox, 0, n)) \subseteq ItemsOf(inbox)
        /\ \A x \in ItemsOf(SubSeq(inbox, 0 + 1, n)), y \in ItemsOf(Cut(inbox, 0, n)) :
             x < y \/ \E i \in 1 .. 0 : y = inbox[i]
    BY <1>0, <1>2, ClaimParts
  <2>2. SubSeq(inbox, 0 + 1, n) = part BY <1>2
  <2>3. 1 .. 0 = {} OBVIOUS
  <2> HIDE DEF part
  <2> QED BY <1>3, <2>1, <2>2, <2>3 DEF Below
<1>5. part \in Seq(Messages) BY <1>0, <1>2, PartOfSeq
<1> HIDE DEF part
<1>6. /\ Hand(t, kind)' = part
      /\ \A k \in LeaseKinds : k # kind => Hand(t, k)' = Hand(t, k)
  BY <1>0, <1>1, <1>5, NewHand, RestOfNew DEF part
<1>7. Queued(t)' = ItemsOf(inbox') /\ Queued(t) = ItemsOf(inbox) BY DEF Queued
<1>8. ItemsOf(<<>>) = {} BY DEF ItemsOf
<1>9. \A k \in LeaseKinds :
        Rising(Hand(t, k)') /\ Below(ItemsOf(Hand(t, k)'), Queued(t)')
  BY <1>0, <1>4, <1>6, <1>7 DEF InLine, Below
<1>10. ASSUME NEW j \in LeaseKinds, NEW k \in LeaseKinds, Rank(j) < Rank(k)
       PROVE  Below(ItemsOf(Hand(t, j)'), ItemsOf(Hand(t, k)'))
  <2>1. j # k BY <1>10 DEF Rank
  <2>2. CASE j = kind BY <1>6, <1>8, <1>10, <2>1, <2>2 DEF Below
  <2>3. CASE k = kind
    BY <1>0, <1>4, <1>6, <1>7, <1>10, <2>1, <2>3 DEF InLine, Below
  <2>4. CASE j # kind /\ k # kind BY <1>0, <1>6, <1>10, <2>4 DEF InLine
  <2> QED BY <2>2, <2>3, <2>4
<1> QED BY <1>4, <1>9, <1>10 DEF InLine

\* It gives the youngest of what it has back to the queue's front.
LEMMA ReturnInLine ==
  ASSUME OrderInv, NEW t \in Tokens, RequeueFront(<<t, "drain">>),
         cons[t].pc # "claim", cons'[t].pc # "claim"
  PROVE  Rising(inbox)' /\ InLine(t)'
<1>0. /\ KeptInv /\ InLine(t) /\ Rising(inbox) /\ inbox \in Seq(Messages)
  BY QueueFacts DEF OrderInv
<1>1. /\ lease[<<t, "drain">>].active /\ inbox' = Hand(t, "drain") \o inbox
      /\ lease' = [lease EXCEPT ![<<t, "drain">>] = Closed(@)]
  BY DEF RequeueFront, Hand, Rest
<1>2. /\ Hand(t, "drain")' = <<>>
      /\ \A k \in LeaseKinds : k # "drain" => Hand(t, k)' = Hand(t, k)
  <2> DEFINE l == Closed(lease[<<t, "drain">>])
  <2>1. Rest(l) = <<>> BY DEF Rest, Closed
  <2>2. lease' = [lease EXCEPT ![<<t, "drain">>] = l] BY <1>1
  <2> HIDE DEF l
  <2> QED BY <1>0, <2>1, <2>2, NewHand, RankFacts
<1>3. /\ Hand(t, "drain") \in Seq(Messages) /\ Rising(Hand(t, "drain"))
      /\ Below(ItemsOf(Hand(t, "drain")), ItemsOf(inbox))
  BY <1>0, HandFacts, RankFacts DEF InLine, Queued
<1>4. Rising(inbox') /\ ItemsOf(inbox') = ItemsOf(Hand(t, "drain")) \cup ItemsOf(inbox)
  BY <1>0, <1>1, <1>3, RisingConcat, ConcatItems
<1>5. ItemsOf(<<>>) = {} /\ Rising(<<>>) BY DEF ItemsOf, Rising
<1>6. Queued(t)' = ItemsOf(inbox') /\ Queued(t) = ItemsOf(inbox) BY DEF Queued
<1>7. ASSUME NEW k \in LeaseKinds
      PROVE  Rising(Hand(t, k)') /\ Below(ItemsOf(Hand(t, k)'), Queued(t)')
  <2>1. CASE k = "drain" BY <1>2, <1>5, <2>1 DEF Below
  <2>2. CASE k # "drain"
    <3>1. Rank(k) < Rank("drain") BY <2>2, RankFacts
    <3>2. Below(ItemsOf(Hand(t, k)), ItemsOf(Hand(t, "drain")))
      BY <1>0, <3>1, RankFacts DEF InLine
    <3> QED BY <1>0, <1>2, <1>4, <1>6, <2>2, <3>2 DEF InLine, Below
  <2> QED BY <2>1, <2>2
<1>8. \A j, k \in LeaseKinds :
        Rank(j) < Rank(k) => Below(ItemsOf(Hand(t, j)'), ItemsOf(Hand(t, k)'))
  BY <1>0, <1>2, <1>5 DEF InLine, Below
<1> QED BY <1>4, <1>7, <1>8 DEF InLine

\* It gives a whole work back.
LEMMA RequeueInLine ==
  ASSUME OrderInv, NEW t \in Tokens, Requeue(t)
  PROVE  Rising(inbox)' /\ InLine(t)'
<1>0. /\ KeptInv /\ InLine(t) /\ Rising(inbox) /\ inbox \in Seq(Messages)
  BY QueueFacts DEF OrderInv
<1>1. cons[t].pc = "requeue" /\ running = t
  BY <1>0 DEF Requeue, RequeueAs, KeptInv, TurnsInv, OwnerInv, ServesOwned, Serving, Working
<1>2. /\ inbox' = (Hand(t, "head") \o Hand(t, "follow")) \o inbox
      /\ lease' = [s \in Slots |-> IF s \in SlotsOf(t) THEN NoLease ELSE lease[s]]
  BY <1>1 DEF Requeue, RequeueAs, WorkRest, Hand, HeadLease, FollowLease
<1>3. \A k \in LeaseKinds : Hand(t, k)' = <<>>
  <2>1. \A k \in LeaseKinds : <<t, k>> \in SlotsOf(t) /\ <<t, k>> \in Slots
    BY SlotsOwned DEF SlotsOf
  <2> QED BY <1>2, <2>1 DEF Hand, Rest, NoLease
<1> DEFINE h == Hand(t, "head")
           f == Hand(t, "follow")
<1>4. /\ h \in Seq(Messages) /\ f \in Seq(Messages) /\ Rising(h) /\ Rising(f)
      /\ Below(ItemsOf(h), ItemsOf(f))
      /\ Below(ItemsOf(h), ItemsOf(inbox)) /\ Below(ItemsOf(f), ItemsOf(inbox))
  <2>1. Rank("head") < Rank("follow") BY RankFacts
  <2>2. Queued(t) = ItemsOf(inbox) BY <1>1 DEF Queued
  <2> QED BY <1>0, <2>1, <2>2, HandFacts, RankFacts DEF InLine
<1> HIDE DEF h, f
<1>5. /\ h \o f \in Seq(Messages) /\ Rising(h \o f)
      /\ ItemsOf(h \o f) = ItemsOf(h) \cup ItemsOf(f)
  BY <1>4, RisingConcat, ConcatItems, ConcatProperties
<1>6. Below(ItemsOf(h \o f), ItemsOf(inbox)) BY <1>4, <1>5 DEF Below
<1>7. Rising((h \o f) \o inbox) BY <1>0, <1>5, <1>6, RisingConcat
<1> QED BY <1>2, <1>3, <1>7, EmptyInLine DEF h, f

\* Choosing: the follow-ups are leased before their head is.
LEMMA CollectInLine ==
  ASSUME OrderInv, NEW t \in Tokens, Collect(t)
  PROVE  Rising(inbox)' /\ InLine(t)'
<1>0. /\ KeptInv /\ SchedTypeOK /\ InboxTypeOK /\ InLine(t) /\ Rising(inbox)
      /\ inbox \in Seq(Messages) /\ Len(inbox) \in Nat
      /\ inbox # <<>> => Head(inbox) = inbox[1] /\ Len(inbox) > 0
  BY KeptFacts, QueueFacts DEF OrderInv
<1>1. cons[t].pc = "collect" /\ Go(t, "claim") BY DEF Collect
<1>2. cons'[t].pc = "claim" /\ cons'[t].first = cons[t].first
  BY <1>0, <1>1, GoMoves DEF ConsumerStates, Selecting
<1>3. inbox # <<>> /\ inbox[1] = cons[t].first BY <1>0, <1>1, KeptFacts DEF HeadSeen
<1>4. \A k \in LeaseKinds : Hand(t, k) = <<>>
  BY <1>0, <1>1, HandsEmpty DEF Resting
<1>5. CASE UNCHANGED inboxVars
  <2>1. \A k \in LeaseKinds : Hand(t, k)' = <<>> BY <1>4, <1>5 DEF Hand
  <2> QED BY <1>0, <1>5, <2>1, EmptyInLine
<1>6. CASE ~UNCHANGED inboxVars
  <2>1. PICK n \in 1 .. MaxCollect - 1 :
          ClaimSteer(<<t, "follow">>, 1, n, cons[t].first, Messages)
    BY <1>6 DEF Collect
  <2>2. n \in Nat \ {0} BY SchedulerAssumption
  <2>3. <<t, "follow">> \in Slots BY SlotsOwned
  <2>4. n \in 1 .. Len(inbox) /\ 1 + n <= Len(inbox)
    BY <1>0, <2>1, <2>2, <2>3, SteerTakes
  <2> DEFINE b == 1 + n
             part == SubSeq(inbox, 1 + 1, b)
             rest == Cut(inbox, 1, b)
  <2>5. /\ inbox' = rest
        /\ lease' = [lease EXCEPT ![<<t, "follow">>] =
                       [items |-> part, committed |-> 0, active |-> TRUE]]
    BY <2>1, <2>2 DEF ClaimSteer, Cut
  <2>6. b \in Nat /\ 1 <= b /\ b <= Len(inbox) /\ 1 \in Nat BY <1>0, <2>2, <2>4
  <2> HIDE DEF b
  <2>7. /\ Rising(part) /\ Rising(rest)
        /\ \A x \in ItemsOf(part), y \in ItemsOf(rest) :
             x < y \/ \E i \in 1 .. 1 : y = inbox[i]
        /\ \A i \in 1 .. 1, x \in ItemsOf(part) : inbox[i] < x
    BY <1>0, <2>6, ClaimParts
  <2>8. part \in Seq(Messages)
    <3>1. 1 + 1 \in Nat /\ 1 <= 1 + 1 /\ 1 + 1 <= b + 1 BY <2>6
    <3> QED BY <1>0, <2>6, <3>1, PartOfSeq
  <2> HIDE DEF part, rest
  <2>9. \A i : i \in 1 .. 1 <=> i = 1 OBVIOUS
  <2>10. /\ Below(ItemsOf(part), ItemsOf(rest) \ {cons[t].first})
         /\ Below({cons[t].first}, ItemsOf(part))
    BY <1>3, <2>7, <2>9 DEF Below
  <2>11. /\ Hand(t, "follow")' = part
         /\ \A k \in LeaseKinds : k # "follow" => Hand(t, k)' = <<>>
    BY <1>0, <1>4, <2>5, <2>8, NewHand, RestOfNew, RankFacts
  <2>12. Queued(t)' = ItemsOf(rest) \ {cons[t].first}
    BY <1>2, <2>5 DEF Queued
  <2>13. Rising(<<>>) /\ ItemsOf(<<>>) = {} BY DEF Rising, ItemsOf
  <2>14. \A k \in LeaseKinds :
           Rising(Hand(t, k)') /\ Below(ItemsOf(Hand(t, k)'), Queued(t)')
    BY <2>7, <2>10, <2>11, <2>12, <2>13 DEF Below
  <2>15. \A j, k \in LeaseKinds :
           Rank(j) < Rank(k) => Below(ItemsOf(Hand(t, j)'), ItemsOf(Hand(t, k)'))
    BY <2>11, <2>13, RankFacts DEF Below
  <2>16. Below({cons'[t].first}, ItemsOf(Hand(t, "follow")'))
    BY <1>2, <2>10, <2>11
  <2> QED BY <2>5, <2>7, <2>14, <2>15, <2>16 DEF InLine
<1> QED BY <1>5, <1>6

LEMMA ClaimHeadInLine ==
  ASSUME OrderInv, NEW t \in Tokens, ClaimHead(t)
  PROVE  Rising(inbox)' /\ InLine(t)'
<1>0. /\ KeptInv /\ InLine(t) /\ Rising(inbox) /\ inbox \in Seq(Messages)
      /\ cons \in [Tokens -> Consumers] /\ cons[t] \in Consumers
      /\ FitsAt(t) /\ HeadSeen(cons[t])
  BY KeptFacts, QueueFacts DEF OrderInv
<1> DEFINE first == cons[t].first
<1>1. /\ cons[t].pc = "claim" /\ inbox # <<>> /\ Head(inbox) = first
      /\ inbox' = Tail(inbox)
      /\ lease' = [lease EXCEPT ![<<t, "head">>] =
                     [items |-> <<first>>, committed |-> 0, active |-> TRUE]]
  BY <1>0 DEF ClaimHead, ClaimNext, HeadSeen
<1>2. cons'[t].pc = "begin" BY <1>0 DEF ClaimHead, Consumers
<1>3. /\ Rising(Tail(inbox)) /\ first \in Messages
      /\ ItemsOf(inbox) = {first} \cup ItemsOf(Tail(inbox))
      /\ Below({first}, ItemsOf(Tail(inbox)))
  BY <1>0, <1>1, RisingTail
<1>4. /\ Below({first}, ItemsOf(Hand(t, "follow"))) /\ Rising(Hand(t, "follow"))
      /\ Below(ItemsOf(Hand(t, "follow")), ItemsOf(inbox) \ {first})
  BY <1>0, <1>1, RankFacts DEF InLine, Queued
<1>5. Hand(t, "wait") = <<>> /\ Hand(t, "drain") = <<>>
  BY <1>0, <1>1 DEF FitsAt, Fits, Hand, Rest, WaitLease, DrainLease
<1>6. <<first>> \in Seq(Messages) BY <1>3
<1> HIDE DEF first
<1>7. /\ Hand(t, "head")' = <<first>>
      /\ \A k \in LeaseKinds : k # "head" => Hand(t, k)' = Hand(t, k)
  BY <1>0, <1>1, <1>6, NewHand, RestOfNew, RankFacts
<1>8. Rising(<<>>) /\ ItemsOf(<<>>) = {} /\ Rising(<<first>>) /\ ItemsOf(<<first>>) = {first}
  BY DEF Rising, ItemsOf
<1>9. \A n \in ItemsOf(Tail(inbox)) : n # first /\ n \in ItemsOf(inbox)
  <2>1. first \in Nat BY <1>3, MessagesAreNumbers
  <2> QED BY <1>3, <2>1 DEF Below
<1>10. Queued(t)' = ItemsOf(Tail(inbox)) BY <1>1, <1>2 DEF Queued
<1>11. Below(ItemsOf(Hand(t, "follow")), ItemsOf(Tail(inbox)))
  BY <1>4, <1>9 DEF Below
<1>12. \A k \in LeaseKinds :
         Rising(Hand(t, k)') /\ Below(ItemsOf(Hand(t, k)'), Queued(t)')
  <2>1. SUFFICES ASSUME NEW k \in LeaseKinds
                 PROVE  Rising(Hand(t, k)') /\ Below(ItemsOf(Hand(t, k)'), Queued(t)')
    OBVIOUS
  <2>2. CASE k = "head" BY <1>3, <1>7, <1>8, <1>10, <2>2
  <2>3. CASE k = "follow" BY <1>4, <1>7, <1>10, <1>11, <2>3
  <2>4. CASE k = "wait" \/ k = "drain" BY <1>5, <1>7, <1>8, <2>4 DEF Below
  <2> QED BY <2>2, <2>3, <2>4, RankFacts
<1>13. ASSUME NEW j \in LeaseKinds, NEW k \in LeaseKinds, Rank(j) < Rank(k)
       PROVE  Below(ItemsOf(Hand(t, j)'), ItemsOf(Hand(t, k)'))
  <2>1. k # "head" BY <1>13, RankFacts
  <2>2. CASE k = "follow"
    <3>1. j = "head" BY <1>13, <2>2, RankFacts
    <3> QED BY <1>4, <1>7, <1>8, <2>2, <3>1
  <2>3. CASE k # "follow"
    <3>1. Hand(t, k)' = <<>> BY <1>5, <1>7, <2>1, <2>3, RankFacts
    <3> QED BY <1>8, <3>1 DEF Below
  <2> QED BY <2>2, <2>3
<1> QED BY <1>1, <1>2, <1>3, <1>12, <1>13 DEF InLine

LEMMA SelectInLine ==
  ASSUME OrderInv, NEW t \in Tokens, Launch(t) \/ Select(t) \/ LaunchFails(t)
  PROVE  Rising(inbox)' /\ InLine(t)'
<1>0. KeptInv /\ HeadSeen(cons[t]) /\ Rising(inbox) BY KeptFacts DEF OrderInv
<1>1. CASE Launch(t) \/ LaunchFails(t) \/ Peek(t) \/ Idle(t)
  <2>1. cons[t].pc \in {"launch", "start", "select", "idle"}
        /\ UNCHANGED <<inbox, lease>>
    BY <1>1 DEF Launch, LaunchFails, Peek, Idle, ReleaseIfIdle
  <2>2. \A k \in LeaseKinds : Hand(t, k)' = <<>>
    BY <1>0, <2>1, HandsEmpty DEF Resting, Hand
  <2> QED BY <1>0, <2>1, <2>2, EmptyInLine
<1>2. ~ClaimStaleHead(t) BY <1>0 DEF ClaimStaleHead, HeadSeen
<1> QED BY <1>1, <1>2, CollectInLine, ClaimHeadInLine DEF Select

\* Nobody comes to a choice from anywhere else.
LEMMA WorkPlaces ==
  ASSUME KeptInv, NEW t \in Tokens,
         Run(t) \/ WaitingLoop(t) \/ EndTurn(t) \/ Recover(t) \/ Steer(t)
         \/ Cancel(t) \/ CancelDrain(t)
  PROVE  cons[t].pc # "claim" /\ cons'[t].pc \notin {"collect", "claim"}
<1>0. /\ SchedTypeOK /\ cons \in [Tokens -> Consumers] /\ cons[t] \in Consumers
  BY KeptFacts
<1>1. cons[t].pc # "claim"
  <2>1. ~At(t, "claim")
    BY DEF Run, BeginTurn, BeginRefused, RefreshFails, Admit, Expire, RunEnds, RunFails,
       WaitingLoop, PlanWait, PlanDone, Wake, WaitTimesOut, WokenClaims, WokenFindsNothing,
       CommitSteer, CommitSteerStale, EndTurn, CommitItem, Finish, Finalize,
       FinalizeRefused, Recover, ReadTurn, SwapTurn, SettleCommit, SettleRaises,
       SettleRest, Requeue, RequeueAs, SettleDone, Steer, DrainClaim, DrainOne, DrainFails,
       Cancel, CancelPoint, CancelDrain
  <2> QED BY <2>1
<1> DEFINE Elsewhere == cons'[t].pc \notin {"collect", "claim"}
<1>w. /\ {"commit", "finish", "finalize", "drain", "run", "ran", "wait", "woken", "steered",
          "settle", "requeue"} \subseteq Working
      /\ Working \cup {"exit"} \subseteq ConsumerStates
      /\ \A pc \in Working \cup {"exit"} : pc \notin {"collect", "claim"}
  BY DEF Working, ConsumerStates
<1>2. \A pc \in Working \cup {"exit"} : Go(t, pc) => Elsewhere
  BY <1>0, <1>w, GoMoves
<1>3. ASSUME NextTurn(t) PROVE Elsewhere BY <1>0, <1>3
<1>4. ASSUME NEW how \in {"ran", "error", "abort"}, AfterRun(t, how) PROVE Elsewhere
  BY <1>0, <1>4, AfterRunMoves
<1>5. ASSUME NEW how \in {"error", "abort"}, cons' = [cons EXCEPT ![t] = Raise(@, how)]
      PROVE  Elsewhere
  BY <1>0, <1>5, RaiseMoves
<1> SUFFICES Elsewhere BY <1>1
<1> HIDE DEF Elsewhere
<1>6. CASE Run(t)
  <2>1. CASE BeginTurn(t) BY <1>0, <2>1 DEF BeginTurn, Consumers, Elsewhere
  <2>2. CASE Admit(t) BY <1>0, <2>2 DEF Admit, Consumers, Elsewhere
  <2>3. CASE Expire(t) BY <1>0, <2>3 DEF Expire, Consumers, Elsewhere
  <2>4. CASE BeginRefused(t) BY <1>5, <2>4 DEF BeginRefused
  <2>5. CASE RefreshFails(t) BY <1>2, <2>5 DEF RefreshFails
  <2>6. CASE RunEnds(t) \/ RunFails(t) BY <1>4, <2>6 DEF RunEnds, RunFails
  <2> QED BY <1>6, <2>1, <2>2, <2>3, <2>4, <2>5, <2>6 DEF Run
<1>7. CASE Steer(t)
  <2>1. \E pc \in {"drain", "run"} : Go(t, pc)
    BY <1>7 DEF Steer, DrainClaim, DrainOne, DrainFails
  <2> QED BY <1>2, <1>w, <2>1
<1>8. CASE WaitingLoop(t)
  <2>1. CASE PlanWait(t) \/ PlanDone(t) \/ Wake(t) \/ WokenFindsNothing(t)
    BY <1>2, <1>w, <2>1 DEF PlanWait, PlanDone, Wake, WokenFindsNothing
  <2>2. CASE WaitTimesOut(t)
    <3>1. CASE Go(t, "commit") BY <1>2, <1>w, <3>1
    <3>2. CASE ~Go(t, "commit") BY <1>0, <2>2, <3>2 DEF WaitTimesOut, Consumers, Elsewhere
    <3> QED BY <3>1, <3>2
  <2>3. CASE WokenClaims(t) BY <1>0, <2>3 DEF WokenClaims, Consumers, Elsewhere
  <2>4. CASE CommitSteer(t)
    <3>1. cons[t].pc = "steered" /\ cons[t].after \in {"ran", "run", "error", "abort"}
      BY <1>0, <2>4 DEF CommitSteer, Consumers
    <3>2. CASE cons' = [cons EXCEPT ![t] = @] BY <1>0, <3>1, <3>2 DEF Elsewhere
    <3>3. CASE cons[t].after \in {"error", "abort"}
               /\ cons' = [cons EXCEPT ![t] = Raise(@, cons[t].after)]
      BY <1>5, <3>3
    <3>4. CASE cons[t].after \in {"ran", "run"} /\ Go(t, cons[t].after)
      BY <1>2, <1>w, <3>4
    <3> QED BY <2>4, <3>1, <3>2, <3>3, <3>4 DEF CommitSteer, Go
  <2>5. CASE CommitSteerStale(t) BY <1>5, <2>5 DEF CommitSteerStale
  <2> QED BY <1>8, <2>1, <2>2, <2>3, <2>4, <2>5 DEF WaitingLoop
<1>9. CASE EndTurn(t)
  <2>1. CASE CommitItem(t)
    <3>1. \E pc \in {"commit", "finish"} : Go(t, pc) BY <2>1 DEF CommitItem
    <3> QED BY <1>2, <1>w, <3>1
  <2>2. CASE Finish(t) \/ Finalize(t)
    BY <1>2, <1>3, <1>w, <2>2 DEF Finish, Finalize
  <2>3. CASE FinalizeRefused(t) BY <1>5, <2>3 DEF FinalizeRefused
  <2> QED BY <1>9, <2>1, <2>2, <2>3 DEF EndTurn
<1>10. CASE Recover(t)
  <2>1. CASE ReadTurn(t) BY <1>0, <2>1 DEF ReadTurn, Consumers, Elsewhere
  <2>2. CASE SettleCommit(t) BY <1>0, <2>2 DEF SettleCommit, Consumers, Elsewhere
  <2>3. CASE SwapTurn(t) \/ SettleRaises(t) \/ SettleRest(t)
    BY <1>2, <1>w, <2>3 DEF SwapTurn, SettleRaises, SettleRest
  <2>4. CASE Requeue(t) \/ SettleDone(t)
    BY <1>2, <1>3, <1>w, <2>4 DEF Requeue, RequeueAs, SettleDone
  <2> QED BY <1>10, <2>1, <2>2, <2>3, <2>4 DEF Recover
<1>11. CASE Cancel(t)
  <2>1. CASE At(t, "run") BY <1>4, <1>11, <2>1 DEF Cancel
  <2>2. CASE ~At(t, "run")
    <3>1. cons' = [cons EXCEPT ![t] = Cancelled(@)] BY <1>11, <2>2 DEF Cancel
    <3>2. cons'[t] = Cancelled(cons[t]) BY <1>0, <3>1
    <3>3. cons'[t].pc \in {"off", "cancelTurn", "exit"}
      BY <1>0, <3>2 DEF Cancelled, Consumers, Fresh
    <3> QED BY <3>3 DEF Elsewhere
  <2> QED BY <2>1, <2>2
<1>12. CASE CancelDrain(t)
  <2>1. CASE WaitLease(t).active BY <1>0, <1>12, <2>1 DEF CancelDrain, Consumers, Elsewhere
  <2>2. CASE ~WaitLease(t).active BY <1>5, <1>12, <2>2 DEF CancelDrain
  <2> QED BY <2>1, <2>2
<1> QED BY <1>6, <1>7, <1>8, <1>9, <1>10, <1>11, <1>12

\* Every step of a consumer that has chosen keeps what it holds in order.
LEMMA WorkInLine ==
  ASSUME OrderInv, NEW t \in Tokens,
         Run(t) \/ WaitingLoop(t) \/ EndTurn(t) \/ Recover(t) \/ Steer(t)
         \/ Cancel(t) \/ CancelDrain(t)
  PROVE  Rising(inbox)' /\ InLine(t)'
<1>0. /\ KeptInv /\ lease \in [Slots -> Leases] /\ FitsAt(t) /\ InLine(t) /\ Rising(inbox)
      /\ cons[t].pc # "claim" /\ cons'[t].pc # "claim"
  BY KeptFacts, WorkPlaces DEF OrderInv
<1>1. \A k \in LeaseKinds : <<t, k>> \in Slots BY SlotsOwned
<1>2. ASSUME inbox' = inbox, \A k \in LeaseKinds : Lessened(<<t, k>>)
      PROVE  Rising(inbox)' /\ InLine(t)'
  BY <1>0, <1>2, LessenedInLine
<1>3. ASSUME UNCHANGED inboxVars PROVE Rising(inbox)' /\ InLine(t)'
  BY <1>2, <1>3 DEF Lessened
<1>4. ASSUME inbox' = inbox, DropLeases(t) PROVE Rising(inbox)' /\ InLine(t)'
  <2>1. \A k \in LeaseKinds : lease'[<<t, k>>] = NoLease BY <1>1, <1>4 DEF DropLeases
  <2> QED BY <1>2, <1>4, <2>1 DEF Lessened
<1>5. ASSUME NEW s \in Slots, NEW how, Settle(s, how)
      PROVE  Rising(inbox)' /\ InLine(t)'
  <2>1. inbox' = inbox /\ \A r \in Slots : Lessened(r)
    BY <1>0, <1>5 DEF Settle, Lessened
  <2> QED BY <1>1, <1>2, <2>1
<1>6. CASE Run(t) \/ Cancel(t)
  <2>1. UNCHANGED inboxVars
    BY <1>6 DEF Run, BeginTurn, BeginRefused, RefreshFails, Admit, Expire, RunEnds,
       RunFails, Cancel
  <2> QED BY <1>3, <2>1
<1>7. CASE Steer(t)
  <2>1. CASE DrainClaim(t)
    <3>1. \A k \in LeaseKinds : ~(Rank("drain") < Rank(k)) BY RankFacts
    <3> QED BY <1>0, <2>1, <3>1, RankFacts, PrefixInLine DEF DrainClaim
  <2>2. CASE DrainOne(t) BY <1>1, <1>5, <2>2, RankFacts DEF DrainOne, Commit
  <2>3. CASE DrainFails(t) BY <1>0, <2>3, ReturnInLine DEF DrainFails
  <2> QED BY <1>7, <2>1, <2>2, <2>3 DEF Steer
<1>8. CASE CancelDrain(t) BY <1>0, <1>8, ReturnInLine DEF CancelDrain
<1>9. CASE WaitingLoop(t)
  <2>1. CASE WokenClaims(t)
    <3>1. Hand(t, "drain") = <<>>
      BY <1>0, <2>1 DEF WokenClaims, FitsAt, Fits, DrainLease, Hand, Rest
    <3>2. \A k \in LeaseKinds : Rank("wait") < Rank(k) => Hand(t, k) = <<>>
      BY <3>1, RankFacts
    <3> QED BY <1>0, <2>1, <3>2, RankFacts, PrefixInLine DEF WokenClaims
  <2>2. CASE CommitSteer(t) BY <1>1, <1>5, <2>2, RankFacts DEF CommitSteer, Commit
  <2>3. CASE WaitTimesOut(t)
    <3>1. inbox' = inbox BY <2>3 DEF WaitTimesOut
    <3>2. lease' = lease \/ lease' = [lease EXCEPT ![<<t, "wait">>] = NoLease]
      BY <2>3 DEF WaitTimesOut
    <3>3. \A k \in LeaseKinds : Lessened(<<t, k>>) BY <1>0, <1>1, <3>2 DEF Lessened
    <3> QED BY <1>2, <3>1, <3>3
  <2>4. CASE ~WokenClaims(t) /\ ~CommitSteer(t) /\ ~WaitTimesOut(t)
    <3>1. UNCHANGED inboxVars
      BY <1>9, <2>4 DEF WaitingLoop, PlanWait, PlanDone, Wake, WokenFindsNothing,
         CommitSteerStale
    <3> QED BY <1>3, <3>1
  <2> QED BY <2>1, <2>2, <2>3, <2>4
<1>10. CASE EndTurn(t)
  <2>1. CASE CommitItem(t)
    <3>1. \E s \in Slots : Settle(s, "admitted")
      BY <1>1, <2>1, RankFacts DEF CommitItem, Commit
    <3> QED BY <1>5, <3>1
  <2>2. CASE Finish(t) \/ Finalize(t)
    <3>1. inbox' = inbox /\ (DropLeases(t) \/ UNCHANGED lease)
      BY <2>2 DEF Finish, Finalize
    <3> QED BY <1>2, <1>4, <3>1 DEF Lessened
  <2>3. CASE FinalizeRefused(t) BY <1>3, <2>3 DEF FinalizeRefused
  <2> QED BY <1>10, <2>1, <2>2, <2>3 DEF EndTurn
<1>11. CASE Recover(t)
  <2>1. \A m : SlotOf(t, m) \in Slots BY <1>1, RankFacts DEF SlotOf
  <2>2. CASE SettleCommit(t) BY <1>5, <2>1, <2>2 DEF SettleCommit, Commit
  <2>3. CASE SettleRest(t) BY <1>3, <1>5, <2>1, <2>3 DEF SettleRest, Fail
  <2>4. CASE ReadTurn(t) \/ SwapTurn(t) \/ SettleRaises(t)
    BY <1>3, <2>4 DEF ReadTurn, SwapTurn, SettleRaises
  <2>5. CASE SettleDone(t) BY <1>4, <2>5 DEF SettleDone
  <2> QED BY <1>11, <2>2, <2>3, <2>4, <2>5, RequeueInLine DEF Recover
<1> QED BY <1>6, <1>7, <1>8, <1>9, <1>10, <1>11

LEMMA OwnStepInLine ==
  ASSUME OrderInv, NEW t \in Tokens, OwnStep(t)
  PROVE  Rising(inbox)' /\ InLine(t)'
BY SelectInLine, WorkInLine DEF OwnStep

\* What a consumer has in its hands, when only the queue behind it moves.
LEMMA KeptInLine ==
  ASSUME NEW u \in Tokens, InLine(u), cons'[u] = cons[u],
         \A k \in LeaseKinds : Hand(u, k)' = Hand(u, k),
         \A k \in LeaseKinds :
           Rising(Hand(u, k)') /\ Below(ItemsOf(Hand(u, k)'), Queued(u)')
  PROVE  InLine(u)'
<1>1. \A j, k \in LeaseKinds :
        Rank(j) < Rank(k) => Below(ItemsOf(Hand(u, j)'), ItemsOf(Hand(u, k)'))
  <2>1. \A j, k \in LeaseKinds :
          Rank(j) < Rank(k) => Below(ItemsOf(Hand(u, j)), ItemsOf(Hand(u, k)))
    BY DEF InLine
  <2> QED BY <2>1
<1>2. cons'[u].pc = "claim" => Below({cons'[u].first}, ItemsOf(Hand(u, "follow")'))
  <2>1. cons[u].pc = "claim" => Below({cons[u].first}, ItemsOf(Hand(u, "follow")))
    BY DEF InLine
  <2> QED BY <2>1, RankFacts
<1> QED BY <1>1, <1>2 DEF InLine

\* A consumer that serves no message takes none.
LEMMA QueueUntouched ==
  ASSUME NEW t \in Tokens, OwnStep(t), cons[t].pc \notin Serving
  PROVE  inbox' = inbox
<1> USE DEF Serving, Working
<1>1. ~Run(t) /\ ~Steer(t) /\ ~CancelDrain(t)
  BY DEF Run, BeginTurn, BeginRefused, RefreshFails, Admit, Expire, RunEnds, RunFails,
     Steer, DrainClaim, DrainOne, DrainFails, CancelDrain
<1>2. ~WaitingLoop(t) /\ ~EndTurn(t)
  BY DEF WaitingLoop, PlanWait, PlanDone, Wake, WaitTimesOut, WokenClaims,
     WokenFindsNothing, CommitSteer, CommitSteerStale, EndTurn, CommitItem, Finish,
     Finalize, FinalizeRefused
<1>3. ~Recover(t)
  BY DEF Recover, ReadTurn, SwapTurn, SettleCommit, SettleRaises, SettleRest, Requeue,
     RequeueAs, SettleDone
<1>4. CASE Launch(t) \/ LaunchFails(t) \/ Cancel(t) BY <1>4 DEF Launch, LaunchFails, Cancel
<1>5. CASE Select(t)
  <2>1. ~Collect(t) /\ ~ClaimHead(t) /\ ~ClaimStaleHead(t)
    BY DEF Collect, ClaimHead, ClaimStaleHead
  <2>2. CASE Peek(t) BY <2>2 DEF Peek
  <2>3. CASE Idle(t) BY <2>3 DEF Idle, ReleaseIfIdle
  <2> QED BY <1>5, <2>1, <2>2, <2>3 DEF Select
<1> QED BY <1>1, <1>2, <1>3, <1>4, <1>5 DEF OwnStep

LEMMA OthersInLine ==
  ASSUME OrderInv, Undisturbed, NEW t \in Tokens, OwnStep(t), NEW u \in Tokens, u # t
  PROVE  InLine(u)'
<1>0. KeptInv /\ SchedBase /\ cons \in [Tokens -> Consumers] /\ InLine(u)
  BY KeptFacts DEF OrderInv
<1>1. Carried(t) /\ Moved(t) BY <1>0, OwnStepCarried, OwnStepMoves
<1>2. cons'[u] = cons[u] BY <1>0, <1>1 DEF Moved
<1>3. \A k \in LeaseKinds : Hand(u, k)' = Hand(u, k)
  <2>1. \A k \in LeaseKinds : lease'[<<u, k>>] = lease[<<u, k>>]
    BY <1>1, SlotsOwned DEF Carried
  <2> QED BY <2>1 DEF Hand
<1>4. CASE cons[u].pc \notin Serving
  <2>1. \A k \in LeaseKinds : Hand(u, k)' = <<>>
    BY <1>0, <1>3, <1>4, IdlersOwe, HandsEmpty
  <2> QED BY <2>1, EmptyInLine
<1>5. CASE cons[u].pc \in Serving
  <2>1. cons[t].pc \notin Serving
    BY <1>0, <1>5 DEF KeptInv, TurnsInv, OwnerInv, ServesOwned
  <2>2. inbox' = inbox BY <2>1, QueueUntouched
  <2>3. Queued(u)' = Queued(u) BY <1>2, <2>2 DEF Queued
  <2>4. \A k \in LeaseKinds :
          Rising(Hand(u, k)') /\ Below(ItemsOf(Hand(u, k)'), Queued(u)')
    <3>1. \A k \in LeaseKinds : Rising(Hand(u, k)) /\ Below(ItemsOf(Hand(u, k)), Queued(u))
      BY <1>0 DEF InLine
    <3> QED BY <1>3, <2>3, <3>1
  <2> QED BY <1>0, <1>2, <1>3, <2>4, KeptInLine
<1> QED BY <1>4, <1>5

\* A consumer's steps settle messages, and bring none.
LEMMA OwnStepStates ==
  ASSUME KeptInv, NEW t \in Tokens, OwnStep(t)
  PROVE  \/ mstate' = mstate
         \/ \E s \in Slots, how \in {"admitted", "failed"} : Settle(s, how)
<1>1. \A k \in LeaseKinds : <<t, k>> \in Slots BY SlotsOwned
<1>2. \A m : SlotOf(t, m) \in Slots BY <1>1, RankFacts DEF SlotOf
<1>3. CASE Run(t) \/ Cancel(t) \/ Launch(t) \/ LaunchFails(t) \/ Select(t) \/ CancelDrain(t)
  BY <1>3 DEF Run, BeginTurn, BeginRefused, RefreshFails, Admit, Expire, RunEnds,
     RunFails, Launch, LaunchFails, Select, Peek, Collect, ClaimSteer, ClaimHead, ClaimNext,
     ClaimStaleHead, Idle, ReleaseIfIdle, Cancel, CancelDrain, RequeueFront
<1>4. CASE Steer(t)
  BY <1>1, <1>4, RankFacts DEF Steer, DrainClaim, ClaimPrefix, ClaimSteer, DrainOne, Commit,
     DrainFails, RequeueFront
<1>5. CASE WaitingLoop(t)
  BY <1>1, <1>5, RankFacts DEF WaitingLoop, PlanWait, PlanDone, Wake, WaitTimesOut,
     WokenClaims, ClaimPrefix, ClaimSteer, WokenFindsNothing, CommitSteer, Commit,
     CommitSteerStale
<1>6. CASE EndTurn(t)
  BY <1>1, <1>6, RankFacts DEF EndTurn, CommitItem, Commit, Finish, Finalize,
     FinalizeRefused
<1>7. CASE Recover(t)
  BY <1>2, <1>7 DEF Recover, ReadTurn, SwapTurn, SettleCommit, Commit, SettleRaises,
     SettleRest, Fail, Requeue, RequeueAs, SettleDone
<1> QED BY <1>3, <1>4, <1>5, <1>6, <1>7 DEF OwnStep

\* What is settled was leased, and accepted.
LEMMA SettledWasAccepted ==
  ASSUME KeptInv, NEW s \in Slots, NEW how, Settle(s, how)
  PROVE  /\ NextOf(lease[s]) \in LeasedItems(s) /\ NextOf(lease[s]) \in Messages
         /\ mstate[NextOf(lease[s])] = "accepted"
         /\ mstate' = [mstate EXCEPT ![NextOf(lease[s])] = how]
<1>0. lease[s] \in Leases /\ InboxInv BY KeptBase DEF InboxTypeOK
<1>1. lease[s].active /\ lease[s].committed < Len(lease[s].items) BY DEF Settle
<1>2. /\ Rest(lease[s]) # <<>> /\ Rest(lease[s]) \in Seq(Messages)
      /\ Head(Rest(lease[s])) = NextOf(lease[s])
  BY <1>0, <1>1, RestSettled
<1> DEFINE q == Rest(lease[s])
<1>3. q[1] = NextOf(lease[s]) /\ 1 \in DOMAIN q /\ q[1] \in Messages
  <2> HIDE DEF q
  <2>1. q \in Seq(Messages) /\ q # <<>> /\ Head(q) = NextOf(lease[s]) BY <1>2 DEF q
  <2>2. Len(q) \in Nat /\ Len(q) # 0 /\ DOMAIN q = 1 .. Len(q) BY <2>1, Positions, EmptySeq
  <2>3. 1 \in DOMAIN q BY <2>2
  <2> QED BY <2>1, <2>2, <2>3, ElementOfSeq
<1>4. LeasedItems(s) = ItemsOf(q) BY <1>1 DEF LeasedItems, Rest
<1> HIDE DEF q
<1>5. NextOf(lease[s]) \in LeasedItems(s) /\ NextOf(lease[s]) \in Messages
  BY <1>3, <1>4 DEF ItemsOf
<1>6. mstate[NextOf(lease[s])] = "accepted" BY <1>0, <1>5 DEF InboxInv, EachAcceptedHeld
<1>7. mstate' = [mstate EXCEPT ![NextOf(lease[s])] = how] BY DEF Settle, NextOf
<1> QED BY <1>5, <1>6, <1>7

LEMMA OwnStepArrived ==
  ASSUME OrderInv, NEW t \in Tokens, OwnStep(t)
  PROVE  /\ ArrivedInOrder'
         /\ \A m \in Messages : mstate'[m] # mstate[m] =>
              mstate[m] = "accepted" /\ mstate'[m] \in {"admitted", "failed"}
<1>0. KeptInv /\ mstate \in [Messages -> MessageStates] /\ ArrivedInOrder
  BY KeptBase DEF OrderInv, InboxTypeOK
<1>1. \A m \in Messages : mstate'[m] # mstate[m] =>
        mstate[m] = "accepted" /\ mstate'[m] \in {"admitted", "failed"}
  <2>1. CASE mstate' = mstate BY <2>1
  <2>2. CASE \E s \in Slots, how \in {"admitted", "failed"} : Settle(s, how)
    <3>1. PICK s \in Slots, how \in {"admitted", "failed"} : Settle(s, how) BY <2>2
    <3> QED BY <1>0, <3>1, SettledWasAccepted
  <2> QED BY <1>0, <2>1, <2>2, OwnStepStates
<1> QED BY <1>0, <1>1 DEF ArrivedInOrder

LEMMA OwnStepInOrder ==
  ASSUME OrderInv, Undisturbed, NEW t \in Tokens, OwnStep(t)
  PROVE  ArrivedInOrder' /\ Rising(inbox)' /\ \A u \in Tokens : InLine(u)'
BY OwnStepInLine, OthersInLine, OwnStepArrived

\* A message arrives behind everything that is queued or leased.
LEMMA DispatchInOrder ==
  ASSUME OrderInv, Undisturbed, NEW m \in Messages, Dispatch(m)
  PROVE  ArrivedInOrder' /\ Rising(inbox)' /\ \A u \in Tokens : InLine(u)'
<1>0. /\ KeptInv /\ SchedBase /\ InboxInv /\ ArrivedInOrder /\ Rising(inbox)
      /\ mstate \in [Messages -> MessageStates] /\ inbox \in Seq(Messages)
      /\ ItemsOf(inbox) \subseteq Messages
  BY KeptBase, QueueFacts DEF OrderInv, InboxTypeOK
<1>1. /\ mstate[m] = "none" /\ \A n \in Messages : n < m => mstate[n] # "none"
      /\ Enqueue(m)
  BY DEF Dispatch, Arrives
<1>2. EnqueueRoom(m) \/ EnqueueRefused(m)
  BY <1>0, <1>1, RoomForAll DEF Enqueue
<1>3. /\ lease' = lease
      /\ \E how \in {"accepted", "dropped"} : mstate' = [mstate EXCEPT ![m] = how]
      /\ inbox' = inbox \/ inbox' = Append(inbox, m)
  BY <1>2 DEF EnqueueRoom, EnqueueRefused
<1>4. ArrivedInOrder' BY <1>0, <1>1, <1>3 DEF ArrivedInOrder
<1>5. ASSUME NEW n \in Messages, mstate[n] = "accepted" PROVE n < m
  <2>1. m \in Nat /\ n \in Nat BY MessagesAreNumbers
  <2>2. ~(m < n) BY <1>0, <1>1, <1>5 DEF ArrivedInOrder
  <2>3. n # m BY <1>1, <1>5
  <2> QED BY <2>1, <2>2, <2>3
<1>6. Below(ItemsOf(inbox), {m})
  BY <1>0, <1>5 DEF InboxInv, EachAcceptedHeld, Below
<1>7. Rising(inbox)' BY <1>0, <1>3, <1>6, RisingAppend
<1>8. ItemsOf(inbox') \subseteq ItemsOf(inbox) \cup {m}
  <2>1. CASE inbox' = inbox BY <2>1
  <2>2. CASE inbox' = Append(inbox, m) BY <1>0, <2>2, AppendItems
  <2> QED BY <1>3, <2>1, <2>2
<1>9. ASSUME NEW u \in Tokens PROVE InLine(u)'
  <2>0. InLine(u) BY DEF OrderInv
  <2>1. \A k \in LeaseKinds : Hand(u, k)' = Hand(u, k) BY <1>3 DEF Hand
  <2>2. \A k \in LeaseKinds : Below(ItemsOf(Hand(u, k)), {m})
    <3>1. SUFFICES ASSUME NEW k \in LeaseKinds, NEW n \in ItemsOf(Hand(u, k))
                   PROVE  n < m
      BY DEF Below
    <3>2. Hand(u, k) \in Seq(Messages) /\ n \in LeasedItems(<<u, k>>)
      BY <1>0, <3>1, HandFacts
    <3>3. n \in Messages BY <3>1, <3>2, Positions
    <3>4. mstate[n] = "accepted"
      BY <1>0, <3>2, <3>3, SlotsOwned DEF InboxInv, EachAcceptedHeld
    <3> QED BY <1>5, <3>3, <3>4
  <2>3. CASE cons[u].pc \notin Serving
    <3>1. \A k \in LeaseKinds : Hand(u, k)' = <<>>
      BY <1>0, <2>1, <2>3, IdlersOwe, HandsEmpty
    <3> QED BY <3>1, EmptyInLine
  <2>4. CASE cons[u].pc \in Serving
    <3>1. cons'[u] = cons[u]
      <4>1. ~Issued(u) BY <1>0, <2>4, IssuedWasOff DEF Serving, Working
      <4> QED BY <1>0, <4>1, DispatchMoves
    <3>2. Queued(u)' \subseteq Queued(u) \cup {m} BY <1>8, <3>1 DEF Queued
    <3>3. \A k \in LeaseKinds :
            Rising(Hand(u, k)') /\ Below(ItemsOf(Hand(u, k)'), Queued(u)')
      <4>1. \A k \in LeaseKinds :
              Rising(Hand(u, k)) /\ Below(ItemsOf(Hand(u, k)), Queued(u))
        BY <2>0 DEF InLine
      <4> QED BY <2>1, <2>2, <3>2, <4>1 DEF Below
    <3> QED BY <2>0, <2>1, <3>1, <3>3, KeptInLine
  <2> QED BY <2>3, <2>4
<1> QED BY <1>4, <1>7, <1>9

LEMMA SharedInOrder ==
  ASSUME OrderInv, Undisturbed, Shared
  PROVE  ArrivedInOrder' /\ Rising(inbox)' /\ \A u \in Tokens : InLine(u)'
<1>0. /\ KeptInv /\ SchedBase /\ OrderlyStop /\ ArrivedInOrder /\ Rising(inbox)
  BY KeptBase DEF OrderInv, Undisturbed
<1>1. CASE \E m \in Messages : Dispatch(m) BY <1>1, DispatchInOrder
<1>2. CASE ~\E m \in Messages : Dispatch(m)
  <2>1. inbox' = inbox /\ mstate' = mstate
    BY <1>2 DEF Shared, Exit, BeginStop, EndStop, CleanupAll, Restart, ClaimExisting
  <2>2. ASSUME NEW u \in Tokens PROVE InLine(u)'
    <3>0. InLine(u) BY DEF OrderInv
    <3>1. \A k \in LeaseKinds : Hand(u, k)' = Hand(u, k) \/ Hand(u, k)' = <<>>
      <4>1. \A s \in Slots : lease'[s] = lease[s] \/ lease'[s] = NoLease
        BY <1>0, <1>2, ExitStock
           DEF Shared, BeginStop, EndStop, CleanupAll, Restart, ClaimExisting
      <4>2. \A k \in LeaseKinds : <<u, k>> \in Slots BY SlotsOwned
      <4>3. Rest(NoLease) = <<>> BY DEF Rest, NoLease
      <4> QED BY <4>1, <4>2, <4>3 DEF Hand
    <3>2. \/ cons'[u] = cons[u]
          \/ cons'[u].pc \in {"launch", "start", "off"} /\ cons[u].pc \in {"off", "exit"}
      BY <1>0, SharedCons
    <3>3. CASE cons[u].pc \notin Serving
      <4>1. \A k \in LeaseKinds : Hand(u, k)' = <<>>
        BY <1>0, <3>1, <3>3, IdlersOwe, HandsEmpty
      <4> QED BY <4>1, EmptyInLine
    <3>4. CASE cons[u].pc \in Serving
      <4>1. cons'[u] = cons[u] /\ cons[u].pc # "exit"
        BY <3>2, <3>4 DEF Serving, Working
      <4>2. \A k \in LeaseKinds : Hand(u, k)' = Hand(u, k)
        <5>1. \A s \in Slots : s[1] = u => lease'[s] = lease[s]
          <6>1. CASE \E t \in Tokens : Exit(t)
            <7>1. PICK t \in Tokens : Exit(t) BY <6>1
            <7>2. u # t BY <4>1, <7>1 DEF Exit
            <7> QED BY <1>0, <7>1, <7>2, ExitStock
          <6>2. CASE BeginStop \/ EndStop \/ Restart
            BY <6>2 DEF BeginStop, EndStop, CleanupAll, Restart, ClaimExisting
          <6> QED BY <1>2, <6>1, <6>2 DEF Shared
        <5> QED BY <5>1, SlotsOwned DEF Hand
      <4>3. Queued(u)' = Queued(u) BY <2>1, <4>1 DEF Queued
      <4>4. \A k \in LeaseKinds :
              Rising(Hand(u, k)') /\ Below(ItemsOf(Hand(u, k)'), Queued(u)')
        <5>1. \A k \in LeaseKinds :
                Rising(Hand(u, k)) /\ Below(ItemsOf(Hand(u, k)), Queued(u))
          BY <3>0 DEF InLine
        <5> QED BY <4>2, <4>3, <5>1
      <4> QED BY <3>0, <4>1, <4>2, <4>4, KeptInLine
    <3> QED BY <3>3, <3>4
  <2> QED BY <1>0, <2>1, <2>2 DEF ArrivedInOrder
<1> QED BY <1>1, <1>2

LEMMA OrderInvInit ==
  ASSUME SchedInit
  PROVE  OrderInv
<1>1. KeptInv BY KeptInvInit
<1>2. inbox = <<>> /\ \A m \in Messages : mstate[m] = "none"
  BY DEF SchedInit, InboxInit
<1>3. \A t \in Tokens : cons[t].pc = "off" BY DEF SchedInit
<1>4. ASSUME NEW t \in Tokens PROVE InLine(t)
  <2>1. \A k \in LeaseKinds : Hand(t, k) = <<>>
    BY <1>1, <1>3, HandsEmpty DEF Resting
  <2>2. Rising(<<>>) /\ ItemsOf(<<>>) = {} BY DEF Rising, ItemsOf
  <2> QED BY <1>3, <2>1, <2>2, RankFacts DEF InLine, Below
<1> QED BY <1>1, <1>2, <1>4 DEF OrderInv, ArrivedInOrder, Rising

LEMMA OrderInvNext ==
  ASSUME OrderInv, Undisturbed, [SchedNext]_schedVars
  PROVE  OrderInv'
<1>1. KeptInv' BY KeptInvNext DEF OrderInv
<1>2. ArrivedInOrder' /\ Rising(inbox)' /\ \A u \in Tokens : InLine(u)'
  <2>1. CASE Shared BY <2>1, SharedInOrder
  <2>2. CASE \E t \in Tokens : OwnStep(t) BY <2>2, OwnStepInOrder
  <2>3. CASE UNCHANGED schedVars
    <3>1. \A u \in Tokens, k \in LeaseKinds : Hand(u, k)' = Hand(u, k) BY <2>3 DEF Hand
    <3>2. \A u \in Tokens : Queued(u)' = Queued(u) /\ cons'[u] = cons[u]
      BY <2>3 DEF Queued
    <3>3. ASSUME NEW u \in Tokens PROVE InLine(u)'
      <4>1. InLine(u) BY DEF OrderInv
      <4>2. \A k \in LeaseKinds :
              Rising(Hand(u, k)') /\ Below(ItemsOf(Hand(u, k)'), Queued(u)')
        <5>1. \A k \in LeaseKinds :
                Rising(Hand(u, k)) /\ Below(ItemsOf(Hand(u, k)), Queued(u))
          BY <4>1 DEF InLine
        <5> QED BY <3>1, <3>2, <5>1
      <4> QED BY <3>1, <3>2, <4>1, <4>2, KeptInLine
    <3> QED BY <2>3, <3>3 DEF OrderInv, ArrivedInOrder
  <2> QED BY <2>1, <2>2, <2>3, StepKinds
<1> QED BY <1>1, <1>2 DEF OrderInv

\* The queue is in the order in which the messages arrived, and what is leased is older
\* than what is queued (but for the head of a batch that is being claimed): however
\* turns fail and give their messages back, where nothing disturbs them.
THEOREM ServedInOrder ==
  ASSUME Undisturbed
  PROVE  SchedSpec => []PipelineSorted
<1>1. SchedInit => OrderInv BY OrderInvInit
<1>2. OrderInv /\ [SchedNext]_schedVars => OrderInv' BY OrderInvNext
<1>3. OrderInv => PipelineSorted
  <2>1. SUFFICES ASSUME OrderInv PROVE PipelineSorted OBVIOUS
  <2>2. ASSUME NEW s \in Holders, NEW m \in LeasedItems(s), NEW n \in ItemsOf(inbox)
        PROVE  m < n \/ (cons[s[1]].pc = "claim" /\ cons[s[1]].first = n)
    <3> DEFINE t == s[1]
    <3>1. s \in Slots BY DEF Holders
    <3>2. t \in Tokens /\ \E k \in LeaseKinds : s = <<t, k>>
      BY <3>1, SchedulerAssumption
    <3>3. PICK k \in LeaseKinds : s = <<t, k>> BY <3>2
    <3> HIDE DEF t
    <3>4. m \in ItemsOf(Hand(t, k)) BY <2>1, <3>2, <3>3, HandFacts DEF OrderInv
    <3>5. Below(ItemsOf(Hand(t, k)), Queued(t)) BY <2>1, <3>2 DEF OrderInv, InLine
    <3>6. n \in Queued(t) \/ (cons[t].pc = "claim" /\ cons[t].first = n)
      BY DEF Queued
    <3> QED BY <3>4, <3>5, <3>6 DEF Below, t
  <2> QED BY <2>1, <2>2 DEF PipelineSorted, OrderInv, Rising
<1> QED BY <1>1, <1>2, <1>3, PTL DEF SchedSpec

(***************************************************************************)
(* The order in which messages enter the history.                          *)
(***************************************************************************)
\* What a consumer puts into the history: its work, and what it leased while it waited.
Taken(t) == Work(t) \cup ItemsOf(Hand(t, "wait"))

\* What is left to admit comes in order; where nothing is left, all is in the history.
Todo(c, taken, past) ==
  /\ c.pc = "run" => /\ Rising(c.todo) /\ ItemsOf(c.todo) \subseteq taken
                     /\ taken \subseteq past \cup ItemsOf(c.todo)
  /\ c.pc = "drain" => c.todo = <<>>
  /\ c.pc = "steered" => c.after # "run"
  /\ c.pc \in {"drain", "ran", "wait", "woken"} \/ (c.pc = "steered" /\ c.after = "ran") =>
       taken \subseteq past

TodoAt(t) == Todo(cons[t], Taken(t), history)
HistoryInv == OrderInv /\ \A t \in Tokens : TodoAt(t)

\* A run's work is in its hands.
LEMMA WorkInHand ==
  ASSUME KeptInv, NEW t \in Tokens, cons[t].pc \in Begun
  PROVE  /\ HeadLease(t).items = <<cons[t].first>> /\ Hand(t, "head") = <<cons[t].first>>
         /\ FollowLease(t).items = Hand(t, "follow")
         /\ cons[t].first \in Messages /\ cons[t].first \in Work(t)
         /\ Work(t) = ItemsOf(Hand(t, "head")) \cup ItemsOf(Hand(t, "follow"))
         /\ cons[t].pc # "drain" => Hand(t, "drain") = <<>>
         /\ cons[t].pc \notin {"run", "drain", "steered"} => Hand(t, "wait") = <<>>
<1>0. /\ HeadLease(t) \in Leases /\ FollowLease(t) \in Leases /\ FitsAt(t)
      /\ SchedBase
  BY KeptFacts
<1>1. Leased(cons[t], HeadLease(t), FollowLease(t)) BY <1>0 DEF FitsAt, Fits
<1>2. Hand(t, "head") = HeadLease(t).items
  BY <1>0, <1>1, WholeRest DEF Leased, Whole, Hand, HeadLease
<1>3. Hand(t, "follow") = FollowLease(t).items
  BY <1>0, <1>1, WholeRest DEF Leased, Hand, FollowLease
<1>4. HeadLease(t).items = <<cons[t].first>> BY <1>1 DEF Leased
<1>5. cons[t].first \in Messages BY <1>0 DEF SchedBase, Named, Serving, Working, Begun
<1>6. ItemsOf(<<cons[t].first>>) = {cons[t].first} BY DEF ItemsOf
<1>7. /\ cons[t].pc # "drain" => Hand(t, "drain") = <<>>
      /\ cons[t].pc \notin {"run", "drain", "steered"} => Hand(t, "wait") = <<>>
  BY <1>0 DEF FitsAt, Fits, Hand, Rest, DrainLease, WaitLease
<1> QED BY <1>2, <1>3, <1>4, <1>5, <1>6, <1>7 DEF Work

\* Elsewhere nothing is asked.
LEMMA TodoElsewhere ==
  ASSUME NEW c, NEW taken, NEW past,
         c.pc \notin {"run", "drain", "ran", "wait", "woken", "steered"}
  PROVE  Todo(c, taken, past)
BY DEF Todo

\* The messages of a run are older than the queue, and come one after the other.
LEMMA BeginInOrder ==
  ASSUME HistoryInv, NEW t \in Tokens, BeginTurn(t)
  PROVE  TodoAt(t)'
<1>0. /\ KeptInv /\ OrderInv /\ InLine(t) /\ cons \in [Tokens -> Consumers]
      /\ cons[t] \in Consumers
  BY KeptFacts DEF HistoryInv, OrderInv
<1>1. PICK mode \in {"direct", "active", "passive"} :
        cons' = [cons EXCEPT ![t].pc = "run", ![t].mode = mode, ![t].todo = WorkItems(t)]
  BY DEF BeginTurn
<1>2. cons'[t].pc = "run" /\ cons'[t].todo = WorkItems(t) BY <1>0, <1>1 DEF Consumers
<1>3. cons[t].pc \in Begun BY DEF BeginTurn, Begun
<1>4. /\ WorkItems(t) = Hand(t, "head") \o Hand(t, "follow")
      /\ Work(t) = ItemsOf(Hand(t, "head")) \cup ItemsOf(Hand(t, "follow"))
      /\ Hand(t, "wait") = <<>>
  <2>1. cons[t].pc = "begin" BY DEF BeginTurn
  <2> QED BY <1>0, <1>3, <2>1, WorkInHand DEF WorkItems
<1>5. /\ Hand(t, "head") \in Seq(Messages) /\ Rising(Hand(t, "head"))
      /\ Hand(t, "follow") \in Seq(Messages) /\ Rising(Hand(t, "follow"))
      /\ Below(ItemsOf(Hand(t, "head")), ItemsOf(Hand(t, "follow")))
  <2>1. Rank("head") < Rank("follow") BY RankFacts
  <2> QED BY <1>0, <2>1, HandFacts, RankFacts DEF InLine
<1>6. Rising(WorkItems(t)) /\ ItemsOf(WorkItems(t)) = Work(t)
  BY <1>4, <1>5, RisingConcat, ConcatItems
<1>7. Taken(t)' = Work(t)
  <2>1. UNCHANGED inboxVars BY DEF BeginTurn
  <2>2. Taken(t)' = Taken(t)
    BY <2>1 DEF Taken, Work, Hand, HeadLease, FollowLease
  <2>3. ItemsOf(<<>>) = {} BY DEF ItemsOf
  <2> QED BY <1>4, <2>2, <2>3 DEF Taken
<1> QED BY <1>2, <1>6, <1>7 DEF TodoAt, Todo

LEMMA AdmitInOrder ==
  ASSUME HistoryInv, NEW t \in Tokens, Admit(t)
  PROVE  TodoAt(t)'
<1> DEFINE todo == cons[t].todo
<1>0. /\ SchedTypeOK /\ cons \in [Tokens -> Consumers] /\ cons[t] \in Consumers
      /\ Todo(cons[t], Taken(t), history)
  BY KeptFacts DEF HistoryInv, OrderInv, TodoAt
<1>1. /\ todo \in Seq(Messages) /\ todo # <<>> /\ cons[t].pc = "run"
      /\ history' = history \cup {Head(todo)}
      /\ cons'[t].pc = "run" /\ cons'[t].todo = Tail(todo)
  BY <1>0 DEF Admit, Consumers
<1>2. /\ Rising(todo) /\ ItemsOf(todo) \subseteq Taken(t)
      /\ Taken(t) \subseteq history \cup ItemsOf(todo)
  BY <1>0, <1>1 DEF Todo
<1> HIDE DEF todo
<1>3. Rising(Tail(todo)) /\ ItemsOf(todo) = {Head(todo)} \cup ItemsOf(Tail(todo))
  BY <1>1, <1>2, RisingTail
<1>4. Taken(t)' = Taken(t)
  BY DEF Admit, Taken, Work, Hand, HeadLease, FollowLease
<1> QED BY <1>1, <1>2, <1>3, <1>4 DEF TodoAt, Todo

LEMMA RunInOrder ==
  ASSUME HistoryInv, NEW t \in Tokens, Run(t)
  PROVE  TodoAt(t)'
<1>0. /\ KeptInv /\ SchedTypeOK /\ cons \in [Tokens -> Consumers] /\ cons[t] \in Consumers
      /\ Todo(cons[t], Taken(t), history)
  BY KeptFacts DEF HistoryInv, OrderInv, TodoAt
<1>1. CASE RunEnds(t)
  <2>1. cons[t].pc = "run" /\ cons[t].todo = <<>> /\ history' = history /\ AfterRun(t, "ran")
    BY <1>1 DEF RunEnds
  <2>2. Taken(t) \subseteq history BY <1>0, <2>1 DEF Todo, ItemsOf
  <2>3. Taken(t)' = Taken(t)
    BY <1>1 DEF RunEnds, Taken, Work, Hand, HeadLease, FollowLease
  <2>4. \/ cons'[t].pc = "ran"
        \/ (cons'[t].pc = "steered" /\ cons'[t].after = "ran")
    <3>1. CASE WaitLease(t).active BY <1>0, <2>1, <3>1, AfterRunMoves
    <3>2. CASE ~WaitLease(t).active
      <4>1. cons'[t].pc = "ran" BY <1>0, <2>1, <3>2, AfterRunMoves
      <4> QED BY <4>1
    <3> QED BY <3>1, <3>2
  <2> QED BY <2>1, <2>2, <2>3, <2>4 DEF TodoAt, Todo
<1>2. CASE RunFails(t)
  <2>1. AfterRun(t, "error") BY <1>2 DEF RunFails
  <2>2. \/ cons'[t].pc = "cancelTurn"
        \/ (cons'[t].pc = "steered" /\ cons'[t].after = "error")
    <3>1. CASE WaitLease(t).active BY <1>0, <2>1, <3>1, AfterRunMoves
    <3>2. CASE ~WaitLease(t).active BY <1>0, <2>1, <3>2, AfterRunMoves
    <3> QED BY <3>1, <3>2
  <2> QED BY <2>2 DEF TodoAt, Todo
<1>3. CASE BeginRefused(t) \/ RefreshFails(t) \/ Expire(t)
  <2>1. cons'[t].pc \in {"cancelTurn", "exit", "commit"}
    <3>1. CASE BeginRefused(t) BY <1>0, <3>1, RaiseMoves DEF BeginRefused
    <3>2. CASE RefreshFails(t) BY <1>0, <3>2, GoMoves DEF RefreshFails, ConsumerStates
    <3>3. CASE Expire(t) BY <1>0, <3>3 DEF Expire, Consumers
    <3> QED BY <1>3, <3>1, <3>2, <3>3
  <2> QED BY <2>1, TodoElsewhere DEF TodoAt
<1> QED BY <1>1, <1>2, <1>3, BeginInOrder, AdmitInOrder DEF Run

\* The leases of a work are not those that a run takes while it lasts.
LEMMA WorkKept ==
  ASSUME KeptInv, NEW t \in Tokens, NEW kind \in {"wait", "drain"}, NEW l,
         lease' = [lease EXCEPT ![<<t, kind>>] = l]
  PROVE  /\ Work(t)' = Work(t)
         /\ kind = "drain" => Taken(t)' = Taken(t)
         /\ kind = "wait" => Taken(t)' = Work(t) \cup ItemsOf(Rest(l))
<1>1. lease \in [Slots -> Leases] BY KeptBase DEF InboxTypeOK
<1>2. /\ <<t, "head">> \in Slots /\ <<t, "follow">> \in Slots
      /\ <<t, "head">> # <<t, kind>> /\ <<t, "follow">> # <<t, kind>>
  BY SlotsOwned
<1>3. Work(t)' = Work(t) BY <1>1, <1>2 DEF Work, HeadLease, FollowLease
<1>4. kind \in LeaseKinds /\ "wait" \in LeaseKinds BY DEF LeaseKinds
<1>5. /\ Hand(t, kind)' = Rest(l)
      /\ \A k \in LeaseKinds : k # kind => Hand(t, k)' = Hand(t, k)
  BY <1>4, NewHand
<1>6. CASE kind = "drain"
  <2>1. Hand(t, "wait")' = Hand(t, "wait") BY <1>4, <1>5, <1>6
  <2> QED BY <1>3, <1>6, <2>1 DEF Taken
<1>7. CASE kind = "wait" BY <1>3, <1>5, <1>7 DEF Taken
<1> QED BY <1>3, <1>6, <1>7

LEMMA SteerInOrder ==
  ASSUME HistoryInv, NEW t \in Tokens, Steer(t)
  PROVE  TodoAt(t)'
<1>0. /\ KeptInv /\ SchedTypeOK /\ Todo(cons[t], Taken(t), history)
  BY KeptFacts DEF HistoryInv, OrderInv, TodoAt
<1>1. /\ (cons[t].pc = "run" /\ cons[t].todo = <<>>) \/ cons[t].pc = "drain"
      /\ \E pc \in {"drain", "run"} : Go(t, pc)
      /\ history \subseteq history'
      /\ \E l : lease' = [lease EXCEPT ![<<t, "drain">>] = l]
  BY DEF Steer, DrainClaim, ClaimPrefix, ClaimSteer, DrainOne, Commit, Settle, DrainFails,
     RequeueFront
<1>2. cons[t].todo = <<>> /\ Taken(t) \subseteq history
  BY <1>0, <1>1 DEF Todo, ItemsOf
<1>3. Taken(t)' = Taken(t) BY <1>0, <1>1, WorkKept
<1>4. cons'[t].pc \in {"drain", "run"} /\ cons'[t].todo = <<>>
  BY <1>0, <1>1, <1>2, GoMoves DEF ConsumerStates, Working
<1>5. Rising(<<>>) /\ ItemsOf(<<>>) = {} BY DEF Rising, ItemsOf
<1> QED BY <1>1, <1>2, <1>3, <1>4, <1>5 DEF TodoAt, Todo

LEMMA HistoryIsWorkers ==
  ASSUME NEW t \in Tokens, OwnStep(t), cons[t].pc \notin Working
  PROVE  history' = history
BY DEF OwnStep, Launch, LaunchFails, Select, Peek, Collect, ClaimHead, ClaimStaleHead,
   Idle, Cancel, CancelDrain, Run, BeginTurn, BeginRefused, RefreshFails, Admit, Expire,
   RunEnds, RunFails, Steer, DrainClaim, DrainOne, DrainFails, WaitingLoop, PlanWait,
   PlanDone, Wake, WaitTimesOut, WokenClaims, WokenFindsNothing, CommitSteer,
   CommitSteerStale, EndTurn, CommitItem, Finish, Finalize, FinalizeRefused, Recover,
   ReadTurn, SwapTurn, SettleCommit, SettleRaises, SettleRest, Requeue, RequeueAs,
   SettleDone, Working

\* Only who leaves loses its leases in such a step.
LEMMA SharedLeases ==
  ASSUME KeptInv, Undisturbed, Shared, NEW u \in Tokens, cons[u].pc # "exit"
  PROVE  \A s \in Slots : s[1] = u => lease'[s] = lease[s]
<1>1. CASE \E m \in Messages : Dispatch(m) BY <1>1, DispatchStock
<1>2. CASE \E t \in Tokens : Exit(t)
  <2>1. PICK t \in Tokens : Exit(t) BY <1>2
  <2>2. u # t BY <2>1 DEF Exit
  <2> QED BY <2>1, <2>2, ExitStock
<1>3. CASE BeginStop \/ Restart BY <1>3 DEF BeginStop, Restart, ClaimExisting
<1>4. CASE EndStop BY <1>4 DEF EndStop, CleanupAll
<1> QED BY <1>1, <1>2, <1>3, <1>4 DEF Shared

\* After a wait come the first message and those that came meanwhile.
LEMMA WokenInOrder ==
  ASSUME HistoryInv, Undisturbed, NEW t \in Tokens, WokenClaims(t)
  PROVE  TodoAt(t)'
<1>0. /\ KeptInv /\ SchedTypeOK /\ SchedBase /\ InLine(t) /\ ModeFits(cons[t])
      /\ cons \in [Tokens -> Consumers] /\ cons[t] \in Consumers
      /\ Todo(cons[t], Taken(t), history) /\ lease \in [Slots -> Leases]
      /\ inbox \in Seq(Messages) /\ Len(inbox) \in Nat
  BY KeptFacts, QueueFacts DEF HistoryInv, OrderInv, TodoAt
<1>1. cons[t].pc = "woken" BY DEF WokenClaims
<1>2. Ambient = {}
  <2>1. "wait" \in Features BY <1>0, <1>1 DEF ModeFits
  <2> QED BY <2>1 DEF Undisturbed
<1> DEFINE first == cons[t].first
<1>3. PICK n \in 1 .. Len(inbox) :
        lease' = [lease EXCEPT ![<<t, "wait">>] =
                    [items |-> SubSeq(inbox, 1, n), committed |-> 0, active |-> TRUE]]
  <2>1. ClaimPrefix(t, "wait") /\ "wait" \in LeaseKinds BY DEF WokenClaims, LeaseKinds
  <2>2. \E n \in 1 .. Len(inbox) :
          /\ ClaimSteer(<<t, "wait">>, 0, n, inbox[1], Messages)
          /\ lease' = [lease EXCEPT ![<<t, "wait">>] =
                         [items |-> SubSeq(inbox, 1, n), committed |-> 0, active |-> TRUE]]
          /\ lease'[<<t, "wait">>].items = SubSeq(inbox, 1, n)
    BY <1>0, <2>1, PrefixTaken
  <2> QED BY <2>2
<1>p. /\ SubSeq(inbox, 1, n) \in Seq(Messages) /\ Rising(SubSeq(inbox, 1, n))
      /\ ItemsOf(SubSeq(inbox, 1, n)) \subseteq ItemsOf(inbox)
  <2>1. n \in Nat /\ 0 <= n /\ n <= Len(inbox) /\ 1 <= n /\ n <= n + 1 /\ 0 + 1 = 1
        /\ 0 \in Nat /\ 1 <= n + 1
    BY <1>0
  <2>2. SubSeq(inbox, 1, n) \in Seq(Messages) BY <1>0, <2>1, PartOfSeq
  <2>3. /\ Rising(SubSeq(inbox, 0 + 1, n))
        /\ ItemsOf(SubSeq(inbox, 0 + 1, n)) \subseteq ItemsOf(inbox)
    BY <1>0, <2>1, ClaimParts DEF HistoryInv, OrderInv
  <2>4. SubSeq(inbox, 0 + 1, n) = SubSeq(inbox, 1, n) BY <2>1
  <2> QED BY <2>2, <2>3, <2>4
<1> DEFINE items == SubSeq(inbox, 1, n)
<1>4. lease'[<<t, "wait">>].items = items BY <1>0, <1>3, SlotsOwned
<1>5. cons' = [cons EXCEPT ![t].pc = "run", ![t].after = "run",
                           ![t].todo = <<first>> \o items]
  BY <1>2, <1>4 DEF WokenClaims
<1>6. Rest([items |-> items, committed |-> 0, active |-> TRUE]) = items
  BY <1>p, RestOfNew
<1>i. items \in Seq(Messages) /\ Rising(items) BY <1>p
<1> HIDE DEF items
<1>7. /\ first \in Messages /\ first \in Work(t) /\ Hand(t, "head") = <<first>>
      /\ Hand(t, "wait") = <<>>
  BY <1>0, <1>1, WorkInHand DEF Begun
<1> HIDE DEF first
<1>8. /\ cons'[t].pc = "run" /\ cons'[t].todo = <<first>> \o items
  BY <1>0, <1>5 DEF Consumers
<1>9. ItemsOf(<<first>>) = {first} /\ Rising(<<first>>) /\ <<first>> \in Seq(Messages)
  BY <1>7 DEF ItemsOf, Rising
<1>10. Below({first}, ItemsOf(items))
  <2>1. Below(ItemsOf(Hand(t, "head")), ItemsOf(inbox))
    BY <1>0, <1>1, RankFacts DEF InLine, Queued
  <2> QED BY <1>7, <1>9, <1>p, <2>1 DEF Below, items
<1>11. /\ Rising(<<first>> \o items)
       /\ ItemsOf(<<first>> \o items) = {first} \cup ItemsOf(items)
  <2> DEFINE one == <<first>>
  <2>1. /\ one \in Seq(Messages) /\ Rising(one) /\ ItemsOf(one) = {first}
        /\ Below(ItemsOf(one), ItemsOf(items))
    BY <1>9, <1>10
  <2> HIDE DEF one
  <2>2. Rising(one \o items) /\ ItemsOf(one \o items) = ItemsOf(one) \cup ItemsOf(items)
    BY <1>i, <2>1, RisingConcat, ConcatItems
  <2> QED BY <2>1, <2>2 DEF one
<1>12. Taken(t)' = Work(t) \cup ItemsOf(items)
  BY <1>0, <1>3, <1>6, WorkKept DEF items
<1>13. Work(t) \subseteq history /\ history' = history
  BY <1>0, <1>1 DEF Todo, Taken, WokenClaims
<1> QED BY <1>7, <1>8, <1>11, <1>12, <1>13 DEF TodoAt, Todo

LEMMA WaitInOrder ==
  ASSUME HistoryInv, Undisturbed, NEW t \in Tokens, WaitingLoop(t)
  PROVE  TodoAt(t)'
<1>0. /\ KeptInv /\ SchedTypeOK /\ Todo(cons[t], Taken(t), history)
      /\ cons \in [Tokens -> Consumers] /\ cons[t] \in Consumers
      /\ lease \in [Slots -> Leases]
  BY KeptFacts DEF HistoryInv, OrderInv, TodoAt
<1>1. CASE PlanWait(t) \/ Wake(t)
  <2>1. /\ cons[t].pc \in {"ran", "wait"} /\ \E pc \in {"wait", "woken"} : Go(t, pc)
        /\ history' = history /\ Taken(t)' = Taken(t)
    BY <1>1 DEF PlanWait, Wake, Taken, Work, Hand, HeadLease, FollowLease
  <2>2. cons'[t].pc \in {"wait", "woken"} BY <1>0, <2>1, GoMoves DEF ConsumerStates, Working
  <2> QED BY <1>0, <2>1, <2>2 DEF TodoAt, Todo
<1>2. CASE Go(t, "commit")
  <2>1. cons'[t].pc = "commit" BY <1>0, <1>2, GoMoves DEF ConsumerStates, Working
  <2> QED BY <2>1, TodoElsewhere DEF TodoAt
<1>3. CASE WaitTimesOut(t) /\ ~Go(t, "commit")
  <2> DEFINE first == cons[t].first
  <2>1. /\ cons[t].pc = "wait" /\ history' = history
        /\ cons' = [cons EXCEPT ![t].pc = "run", ![t].retried = TRUE, ![t].todo = <<first>>]
        /\ lease' = [lease EXCEPT ![<<t, "wait">>] = NoLease]
    BY <1>3 DEF WaitTimesOut
  <2>2. cons'[t].pc = "run" /\ cons'[t].todo = <<first>> BY <1>0, <2>1 DEF Consumers
  <2>3. first \in Work(t) BY <1>0, <2>1, WorkInHand DEF Begun
  <2>4. Rest(NoLease) = <<>> /\ ItemsOf(<<>>) = {} BY DEF Rest, NoLease, ItemsOf
  <2>5. Taken(t)' = Work(t) BY <1>0, <2>1, <2>4, WorkKept
  <2>6. Work(t) \subseteq history BY <1>0, <2>1 DEF Todo, Taken
  <2>7. ItemsOf(<<first>>) = {first} /\ Rising(<<first>>) BY DEF ItemsOf, Rising
  <2> HIDE DEF first
  <2> QED BY <2>1, <2>2, <2>3, <2>5, <2>6, <2>7 DEF TodoAt, Todo
<1>4. CASE CommitSteer(t)
  <2> DEFINE how == cons[t].after
             s == <<t, "wait">>
  <2>1. /\ cons[t].pc = "steered" /\ how \in {"ran", "error", "abort"}
        /\ Settle(s, "admitted") /\ history' = history
    BY <1>0, <1>4 DEF CommitSteer, Commit, Todo, Consumers
  <2>2. how = "ran" => Taken(t) \subseteq history BY <1>0, <2>1 DEF Todo
  <2>3. Taken(t)' \subseteq Taken(t)
    <3>1. s \in Slots /\ lease[s] \in Leases BY <1>0, SlotsOwned
    <3>2. /\ lease[s].active /\ lease[s].committed < Len(lease[s].items)
          /\ lease' = [lease EXCEPT ![s] =
                         [items |-> lease[s].items, committed |-> lease[s].committed + 1,
                          active |-> lease[s].committed + 1 < Len(lease[s].items)]]
      BY <2>1 DEF Settle
    <3> DEFINE l == [items |-> lease[s].items, committed |-> lease[s].committed + 1,
                     active |-> lease[s].committed + 1 < Len(lease[s].items)]
    <3>3. /\ Rest(lease[s]) # <<>> /\ Rest(lease[s]) \in Seq(Messages)
          /\ Rest(l) = Tail(Rest(lease[s]))
      BY <3>1, <3>2, RestSettled
    <3>4. Rising(Rest(lease[s]))
      <4>1. InLine(t) BY DEF HistoryInv, OrderInv
      <4> QED BY <4>1, RankFacts DEF InLine, Hand
    <3>5. lease' = [lease EXCEPT ![s] = l] BY <3>2
    <3> HIDE DEF l
    <3>6. ItemsOf(Rest(l)) \subseteq ItemsOf(Rest(lease[s])) BY <3>3, <3>4, RisingTail
    <3>7. Taken(t)' = Work(t) \cup ItemsOf(Rest(l)) BY <1>0, <3>5, WorkKept
    <3> QED BY <3>6, <3>7 DEF Taken, Hand
  <2>4. CASE cons' = [cons EXCEPT ![t] = @]
    <3>1. cons'[t] = cons[t] BY <1>0, <2>4
    <3> QED BY <2>1, <2>2, <2>3, <3>1 DEF TodoAt, Todo
  <2>5. CASE how \in {"error", "abort"} /\ cons' = [cons EXCEPT ![t] = Raise(@, how)]
    <3>1. cons'[t].pc = "cancelTurn" BY <1>0, <2>5, RaiseMoves
    <3> QED BY <3>1, TodoElsewhere DEF TodoAt
  <2>6. CASE how = "ran" /\ Go(t, how)
    <3>1. cons'[t].pc = "ran" BY <1>0, <2>6, GoMoves DEF ConsumerStates, Working
    <3> QED BY <2>1, <2>2, <2>3, <2>6, <3>1 DEF TodoAt, Todo
  <2> QED BY <1>4, <2>1, <2>4, <2>5, <2>6 DEF CommitSteer, Go
<1>5. CASE CommitSteerStale(t)
  <2>1. cons'[t].pc = "cancelTurn" BY <1>0, <1>5, RaiseMoves DEF CommitSteerStale
  <2> QED BY <2>1, TodoElsewhere DEF TodoAt
<1> QED BY <1>1, <1>2, <1>3, <1>4, <1>5, WokenInOrder
        DEF WaitingLoop, PlanDone, WokenFindsNothing

\* The end of a turn, and what leads to the next, put nothing into the history.
LEMMA RestInOrder ==
  ASSUME HistoryInv, NEW t \in Tokens,
         \/ EndTurn(t) \/ Recover(t) \/ Launch(t) \/ Select(t) \/ LaunchFails(t)
         \/ Cancel(t) \/ CancelDrain(t)
  PROVE  TodoAt(t)'
<1>0. /\ SchedTypeOK /\ cons \in [Tokens -> Consumers] /\ cons[t] \in Consumers
  BY KeptFacts DEF HistoryInv, OrderInv
<1> DEFINE Past == {"commit", "finish", "finalize", "cas", "settle", "requeue", "exit",
                    "cancelTurn", "off", "begin"} \cup Selecting
<1>1. ASSUME cons'[t].pc \in Past PROVE TodoAt(t)'
  BY <1>1, TodoElsewhere DEF TodoAt, Selecting
<1>2. ASSUME NEW pc \in {"commit", "finish", "finalize", "settle", "requeue", "exit"},
             Go(t, pc)
      PROVE  TodoAt(t)'
  BY <1>0, <1>1, <1>2, GoMoves DEF ConsumerStates, Working
<1>3. ASSUME NEW how \in {"error", "abort"}, cons' = [cons EXCEPT ![t] = Raise(@, how)]
      PROVE  TodoAt(t)'
  BY <1>0, <1>1, <1>3, RaiseMoves
<1>4. CASE NextTurn(t) BY <1>0, <1>1, <1>4 DEF Selecting
<1>5. CASE EndTurn(t)
  BY <1>2, <1>3, <1>4, <1>5 DEF EndTurn, CommitItem, Finish, Finalize, FinalizeRefused
<1>6. CASE Recover(t)
  <2>1. CASE ReadTurn(t)
    <3>1. cons'[t].pc = "cas" \/ cons'[t].pc = "settle"
      BY <1>0, <2>1 DEF ReadTurn, Consumers
    <3> QED BY <1>1, <3>1
  <2>2. CASE SettleCommit(t)
    <3>1. cons'[t].pc = "settle" BY <1>0, <2>2 DEF SettleCommit, Consumers
    <3> QED BY <1>1, <3>1
  <2> QED BY <1>2, <1>4, <1>6, <2>1, <2>2
          DEF Recover, SwapTurn, SettleRaises, SettleRest, Requeue, RequeueAs, SettleDone
<1>7. CASE Launch(t) \/ Select(t) \/ LaunchFails(t) BY <1>0, <1>1, <1>7, SelectPlaces
<1>8. ASSUME cons'[t].pc = "steered", cons'[t].after = "abort" PROVE TodoAt(t)'
  BY <1>8 DEF TodoAt, Todo
<1>9. CASE Cancel(t)
  <2>1. CASE At(t, "run")
    <3>1. AfterRun(t, "abort") BY <1>9, <2>1 DEF Cancel
    <3>2. CASE WaitLease(t).active BY <1>0, <1>8, <3>1, <3>2, AfterRunMoves
    <3>3. CASE ~WaitLease(t).active
      <4>1. cons'[t].pc = "cancelTurn" BY <1>0, <3>1, <3>3, AfterRunMoves
      <4> QED BY <1>1, <4>1
    <3> QED BY <3>2, <3>3
  <2>2. CASE ~At(t, "run")
    <3>1. cons' = [cons EXCEPT ![t] = Cancelled(@)] BY <1>9, <2>2 DEF Cancel
    <3>2. cons'[t].pc \in {"off", "exit", "cancelTurn"}
      BY <1>0, <3>1 DEF Cancelled, Consumers
    <3> QED BY <1>1, <3>2
  <2> QED BY <2>1, <2>2
<1>10. CASE CancelDrain(t)
  <2>1. CASE WaitLease(t).active
    <3>1. cons'[t].pc = "steered" /\ cons'[t].after = "abort"
      BY <1>0, <1>10, <2>1 DEF CancelDrain, Consumers
    <3> QED BY <1>8, <3>1
  <2>2. CASE ~WaitLease(t).active BY <1>3, <1>10, <2>2 DEF CancelDrain
  <2> QED BY <2>1, <2>2
<1> QED BY <1>5, <1>6, <1>7, <1>9, <1>10

LEMMA HistoryInvNext ==
  ASSUME HistoryInv, Undisturbed, [SchedNext]_schedVars
  PROVE  HistoryInv'
<1>0. /\ OrderInv /\ KeptInv /\ SchedBase /\ OrderlyStop /\ cons \in [Tokens -> Consumers]
  BY KeptBase, ConsTyped DEF HistoryInv, OrderInv, Undisturbed
<1>1. OrderInv' BY <1>0, OrderInvNext
<1>2. ASSUME NEW u \in Tokens, cons'[u] = cons[u],
             cons[u].pc \in Begun => history' = history
                                     /\ \A s \in Slots : s[1] = u => lease'[s] = lease[s]
      PROVE  TodoAt(u)'
  <2>1. Todo(cons[u], Taken(u), history) BY DEF HistoryInv, TodoAt
  <2>2. CASE cons[u].pc \in Begun
    <3>1. Taken(u)' = Taken(u)
      BY <1>2, <2>2, SlotsOwned DEF Taken, Work, Hand, HeadLease, FollowLease
    <3> QED BY <1>2, <2>1, <2>2, <3>1 DEF TodoAt
  <2>3. CASE cons[u].pc \notin Begun
    BY <1>2, <2>3, TodoElsewhere DEF TodoAt, Begun
  <2> QED BY <2>2, <2>3
<1>3. CASE \E t \in Tokens : OwnStep(t)
  <2>1. PICK t \in Tokens : OwnStep(t) BY <1>3
  <2>2. Carried(t) /\ Moved(t) BY <1>0, <2>1, OwnStepCarried, OwnStepMoves
  <2>3. TodoAt(t)'
    BY <2>1, RunInOrder, SteerInOrder, WaitInOrder, RestInOrder DEF OwnStep
  <2>4. ASSUME NEW u \in Tokens, u # t PROVE TodoAt(u)'
    <3>1. cons'[u] = cons[u] BY <1>0, <2>2, <2>4 DEF Moved
    <3>2. \A s \in Slots : s[1] = u => lease'[s] = lease[s] BY <2>2, <2>4 DEF Carried
    <3>3. cons[u].pc \in Begun => history' = history
      <4>1. SUFFICES ASSUME cons[u].pc \in Begun PROVE history' = history OBVIOUS
      <4>2. cons[u].pc \in Working BY <4>1 DEF Begun, Working
      <4>3. cons[t].pc \notin Working BY <1>0, <2>4, <4>2, ActorIsOne DEF KeptInv
      <4> QED BY <2>1, <4>3, HistoryIsWorkers
    <3> QED BY <1>2, <3>1, <3>2, <3>3
  <2> QED BY <1>1, <2>3, <2>4 DEF HistoryInv
<1>4. CASE Shared
  <2>1. history' = history BY <1>4 DEF Shared, Dispatch, Exit, BeginStop, EndStop, Restart
  <2>2. ASSUME NEW u \in Tokens PROVE TodoAt(u)'
    <3>1. \/ cons'[u] = cons[u]
          \/ cons'[u].pc \in {"launch", "start", "off"}
      BY <1>0, <1>4, SharedCons
    <3>2. CASE cons'[u] = cons[u]
      <4>1. cons[u].pc \in Begun => \A s \in Slots : s[1] = u => lease'[s] = lease[s]
        BY <1>0, <1>4, SharedLeases DEF Begun
      <4> QED BY <1>2, <2>1, <3>2, <4>1
    <3>3. CASE cons'[u].pc \in {"launch", "start", "off"}
      BY <3>3, TodoElsewhere DEF TodoAt
    <3> QED BY <3>1, <3>2, <3>3
  <2> QED BY <1>1, <2>2 DEF HistoryInv
<1>5. CASE UNCHANGED schedVars
  <2>1. \A u \in Tokens : TodoAt(u)' BY <1>2, <1>5
  <2> QED BY <1>1, <2>1 DEF HistoryInv
<1> QED BY <1>3, <1>4, <1>5, StepKinds

\* An accepted message that is not queued is in the hands of the consumer that works.
LEMMA HeldByWorker ==
  ASSUME KeptInv, NEW t \in Tokens, cons[t].pc \in Working,
         NEW n \in Messages, mstate[n] = "accepted", n \notin ItemsOf(inbox)
  PROVE  \E k \in LeaseKinds : n \in ItemsOf(Hand(t, k))
<1>1. PICK s \in Slots : n \in LeasedItems(s)
  BY KeptBase DEF InboxInv, EachAcceptedHeld
<1> DEFINE u == s[1]
<1>2. u \in Tokens /\ \E k \in LeaseKinds : s = <<u, k>> BY SchedulerAssumption
<1>3. PICK k \in LeaseKinds : s = <<u, k>> BY <1>2
<1> HIDE DEF u
<1>4. n \in ItemsOf(Hand(u, k)) BY <1>1, <1>2, <1>3, HandFacts
<1>5. u = t
  <2>1. CASE cons[u].pc \notin Serving
    <3>1. Hand(u, k) = <<>> BY <1>2, <2>1, IdlersOwe, HandsEmpty
    <3> QED BY <1>4, <3>1 DEF ItemsOf
  <2>2. CASE cons[u].pc \in Serving
    <3>1. cons[t].pc \in Serving BY DEF Serving
    <3>2. running = u /\ running = t
      BY <1>2, <2>2, <3>1 DEF KeptInv, TurnsInv, OwnerInv, ServesOwned
    <3> QED BY <3>2
  <2> QED BY <2>1, <2>2
<1> QED BY <1>4, <1>5

\* What is older than a message that is admitted, and accepted, was admitted before.
LEMMA AdmitsOldest ==
  ASSUME HistoryInv, NEW t \in Tokens, Admit(t) \/ DrainOne(t)
  PROVE  AdmitsInOrder
<1>0. /\ KeptInv /\ InLine(t) /\ cons[t] \in Consumers /\ lease \in [Slots -> Leases]
      /\ Todo(cons[t], Taken(t), history)
  BY KeptFacts DEF HistoryInv, OrderInv, TodoAt
<1>1. cons[t].pc \in {"run", "drain"} BY DEF Admit, DrainOne
<1>2. cons[t].pc \in Begun /\ cons[t].pc \in Working /\ cons[t].pc # "claim"
  BY <1>1 DEF Begun, Working
<1>3. Taken(t) = ItemsOf(Hand(t, "head")) \cup ItemsOf(Hand(t, "follow"))
                 \cup ItemsOf(Hand(t, "wait"))
  BY <1>0, <1>2, WorkInHand DEF Taken
<1>4. \A k \in LeaseKinds : Below(ItemsOf(Hand(t, k)), ItemsOf(inbox))
  BY <1>0, <1>2 DEF InLine, Queued
<1>5. SUFFICES ASSUME NEW m \in history' \ history, NEW n \in Messages,
                      n < m, mstate[n] = "accepted"
               PROVE  n \in history
  BY DEF AdmitsInOrder
<1>6. \A k \in LeaseKinds : ItemsOf(Hand(t, k)) \subseteq Messages
  BY <1>0, HandFacts, Positions
<1>7. ASSUME NEW a, NEW b, a \in Messages, b \in Messages, a < b PROVE ~(b < a) /\ a # b
  <2>1. a \in Nat /\ b \in Nat BY <1>7, MessagesAreNumbers
  <2> QED BY <1>7, <2>1
<1>8. ASSUME NEW k \in LeaseKinds, m \in ItemsOf(Hand(t, k))
      PROVE  m \in Messages /\ n \notin ItemsOf(inbox)
             /\ \E j \in LeaseKinds : n \in ItemsOf(Hand(t, j))
  <2>1. m \in Messages BY <1>6, <1>8
  <2>2. n \notin ItemsOf(inbox) BY <1>4, <1>5, <1>7, <1>8, <2>1 DEF Below
  <2> QED BY <1>0, <1>2, <1>5, <2>1, <2>2, HeldByWorker
<1>9. CASE Admit(t)
  <2> DEFINE todo == cons[t].todo
  <2>1. /\ todo \in Seq(Messages) /\ todo # <<>> /\ m = Head(todo) /\ cons[t].pc = "run"
    BY <1>0, <1>9 DEF Admit, Consumers
  <2>2. /\ Rising(todo) /\ ItemsOf(todo) \subseteq Taken(t)
        /\ Taken(t) \subseteq history \cup ItemsOf(todo)
    BY <1>0, <2>1 DEF Todo
  <2> HIDE DEF todo
  <2>3. /\ ItemsOf(todo) = {m} \cup ItemsOf(Tail(todo)) /\ m \in Messages
        /\ Below({m}, ItemsOf(Tail(todo)))
    BY <2>1, <2>2, RisingTail
  <2>4. PICK k \in LeaseKinds : m \in ItemsOf(Hand(t, k))
    BY <1>3, <2>2, <2>3, RankFacts
  <2>5. PICK j \in LeaseKinds : n \in ItemsOf(Hand(t, j)) BY <1>8, <2>4
  <2>6. n \in Taken(t)
    <3>1. Hand(t, "drain") = <<>> BY <1>0, <1>2, <2>1, WorkInHand
    <3>2. j # "drain" BY <2>5, <3>1 DEF ItemsOf
    <3> QED BY <1>3, <2>5, <3>2, RankFacts
  <2>7. n \notin ItemsOf(todo) BY <1>5, <1>7, <2>3 DEF Below
  <2> QED BY <2>2, <2>6, <2>7
<1>10. CASE DrainOne(t)
  <2> DEFINE hand == Hand(t, "drain")
  <2>1. cons[t].pc = "drain" /\ Settle(<<t, "drain">>, "admitted")
        /\ m = NextOf(lease[<<t, "drain">>])
    BY <1>10 DEF DrainOne, Commit, DrainLease
  <2>2. hand \in Seq(Messages) /\ hand # <<>> /\ m = Head(hand) /\ Rising(hand)
    <3>1. lease[<<t, "drain">>] \in Leases BY <1>0, SlotsOwned
    <3>2. /\ lease[<<t, "drain">>].active
          /\ lease[<<t, "drain">>].committed < Len(lease[<<t, "drain">>].items)
      BY <2>1 DEF Settle
    <3> QED BY <1>0, <2>1, <3>1, <3>2, RestSettled, RankFacts DEF Hand, InLine
  <2> HIDE DEF hand
  <2>3. ItemsOf(hand) = {m} \cup ItemsOf(Tail(hand)) /\ Below({m}, ItemsOf(Tail(hand)))
        /\ m \in Messages
    BY <2>2, RisingTail
  <2>4. n \notin ItemsOf(hand) BY <1>5, <1>7, <2>3 DEF Below
  <2>5. PICK j \in LeaseKinds : n \in ItemsOf(Hand(t, j))
    BY <1>8, <2>3, RankFacts DEF hand
  <2>6. n \in Taken(t) BY <1>3, <2>4, <2>5, RankFacts DEF hand
  <2>7. Taken(t) \subseteq history BY <1>0, <2>1 DEF Todo
  <2> QED BY <2>6, <2>7
<1> QED BY <1>9, <1>10

\* A message enters the history only after every earlier message of the chat that is
\* still accepted: batching, steering, waiting and giving back after an error keep the
\* order in which users spoke, where nothing disturbs them.
THEOREM AdmittedInOrder ==
  ASSUME Undisturbed
  PROVE  SchedSpec => AdmissionFIFO
<1>1. SchedInit => HistoryInv
  <2>1. SUFFICES ASSUME SchedInit PROVE HistoryInv OBVIOUS
  <2>2. \A t \in Tokens : cons[t].pc = "off" BY <2>1 DEF SchedInit
  <2>3. \A t \in Tokens : TodoAt(t) BY <2>2, TodoElsewhere DEF TodoAt
  <2> QED BY <2>1, <2>3, OrderInvInit DEF HistoryInv
<1>2. HistoryInv /\ [SchedNext]_schedVars => HistoryInv' BY HistoryInvNext
<1>3. HistoryInv /\ [SchedNext]_schedVars => [AdmitsInOrder]_schedVars
  <2>1. SUFFICES ASSUME HistoryInv, [SchedNext]_schedVars PROVE AdmitsInOrder
    OBVIOUS
  <2>2. CASE history' \subseteq history BY <2>2 DEF AdmitsInOrder
  <2>3. CASE ~(history' \subseteq history)
    <3>1. ~Shared /\ ~UNCHANGED schedVars
      BY <2>3 DEF Shared, Dispatch, Exit, BeginStop, EndStop, Restart
    <3>2. PICK t \in Tokens : OwnStep(t) BY <2>1, <3>1, StepKinds
    <3>3. Admit(t) \/ DrainOne(t)
      BY <2>3, <3>2 DEF OwnStep, Launch, LaunchFails, Select, Peek, Collect, ClaimHead,
         ClaimStaleHead, Idle, Cancel, CancelDrain, Run, BeginTurn, BeginRefused,
         RefreshFails, Expire, RunEnds, RunFails, Steer, DrainClaim, DrainFails,
         WaitingLoop, PlanWait, PlanDone, Wake, WaitTimesOut, WokenClaims,
         WokenFindsNothing, CommitSteer, CommitSteerStale, EndTurn, CommitItem, Finish,
         Finalize, FinalizeRefused, Recover, ReadTurn, SwapTurn, SettleCommit,
         SettleRaises, SettleRest, Requeue, RequeueAs, SettleDone
    <3> QED BY <2>1, <3>2, <3>3, AdmitsOldest
  <2> QED BY <2>2, <2>3
<1> QED BY <1>1, <1>2, <1>3, PTL DEF SchedSpec, AdmissionFIFO
=============================================================================
