-------------------------- MODULE AdmissionOutbox --------------------------
(***************************************************************************)
(* Side effects of admitted messages: core/engine/admission_outbox.py with *)
(* its callers in agent_engine.py.  An admission prepares one row for each *)
(* effect, appends the message to the event log, which is the commit point *)
(* of the admission, and makes the rows ready.  A pass, made by the outbox *)
(* worker or at the end of an admission, first settles the prepared rows   *)
(* that an admission left behind and then runs the effects that are ready. *)
(*                                                                         *)
(* Rows and the event log survive a crash.  The steps are the stretches    *)
(* between two waits; a row's lease is its being processed.                *)
(***************************************************************************)
EXTENDS Integers, FiniteSets

CONSTANTS
  OutChats,    \* chats; each admits one message at a time
  OutMessages, \* user messages
  ChatOf,      \* ChatOf[m]: the chat of message m
  EffectsOf,   \* EffectsOf[m]: effect_types_for(m), none for a card
  ClaimLimit,  \* limit of claim_ready
  OutWorker,   \* the outbox worker
  OutFaults    \* bound of the model: crashes and cancellations

ASSUME OutboxAssumption ==
  /\ ChatOf \in [OutMessages -> OutChats]
  /\ ClaimLimit \in Nat \ {0}
  /\ OutWorker \notin OutChats
  /\ OutFaults \in Nat

VARIABLES
  table,     \* status of each message's effects, without the absent rows
  order,     \* admission_order of each message
  logged,   \* the user messages in the event log
  admitting, \* what each chat is admitting
  known,     \* _admitted_ids, lost when the process ends
  pass,      \* the pass each chat and the worker is making
  claims,    \* the claimed items that the pass under the lock has left
  outFaults,
  done       \* history: the effects a handler has reported as successful

outboxVars == <<table, order, logged, admitting, known, pass, claims,
                outFaults, done>>

Runners == OutChats \cup {OutWorker}
Items == UNION {{m} \X EffectsOf[m] : m \in OutMessages}
ItemStatus == {"none", "prepared", "ready", "processing", "succeeded"}
NoAdmission == [pc |-> "idle", msg |-> {}, fresh |-> FALSE]
NoPass == [pc |-> "idle", todo |-> {}]

OutboxTypeOK ==
  /\ table \in [Items -> ItemStatus]
  /\ order \in [OutMessages -> Nat]
  /\ logged \subseteq OutMessages
  /\ admitting \in [OutChats ->
       [pc : {"idle", "prepared", "recorded", "passing"},
        msg : SUBSET OutMessages, fresh : BOOLEAN]]
  /\ known \subseteq OutMessages
  /\ pass \in [Runners -> [pc : {"idle", "recovering", "running"},
                           todo : SUBSET OutMessages]]
  /\ claims \subseteq Items
  /\ outFaults \in 0 .. OutFaults
  /\ done \subseteq Items

OutboxInit ==
  /\ table = [i \in Items |-> "none"]
  /\ order = [m \in OutMessages |-> 0]
  /\ logged = {}
  /\ admitting = [c \in OutChats |-> NoAdmission]
  /\ known = {}
  /\ pass = [r \in Runners |-> NoPass]
  /\ claims = {}
  /\ outFaults = 0
  /\ done = {}

(***************************************************************************)
(* The statements of the table.                                            *)
(***************************************************************************)
RowsOf(m) == {i \in Items : i[1] = m}
Moving(items, from, to) ==
  [i \in Items |-> IF i \in items /\ table[i] = from THEN to ELSE table[i]]

OutPrepare(m) == Moving(RowsOf(m), "none", "prepared")
MarkReady(m) == Moving(RowsOf(m), "prepared", "ready")
CancelRows(m) == [i \in Items |-> IF i[1] = m THEN "none" ELSE table[i]]

HasRows(m, status) == \E i \in RowsOf(m) : table[i] = status

\* One more than the largest order among the rows of the chat.
NextOrder(m) ==
  LET listed == {0} \cup {order[o] : o \in {p \in OutMessages :
                   ChatOf[p] = ChatOf[m] /\ \E i \in RowsOf(p) : table[i] # "none"}}
  IN 1 + CHOOSE n \in listed : \A k \in listed : k <= n

InProgress(m) ==
  \E c \in OutChats : admitting[c].pc # "idle" /\ m \in admitting[c].msg

(***************************************************************************)
(* Admission of a message: _admit_pending_message.  A message comes again  *)
(* when its turn is repeated or when it is delivered twice.                *)
(***************************************************************************)
StartPass(r, rows) ==
  pass' = [pass EXCEPT ![r] =
    [pc |-> "recovering",
     todo |-> {m \in OutMessages : \E i \in RowsOf(m) : rows[i] = "prepared"}]]

\* The message is in the history already: only a pass is made.
AdmitAgain(c, m) ==
  /\ admitting[c].pc = "idle" /\ pass[c].pc = "idle"
  /\ ChatOf[m] = c
  /\ m \notin known /\ m \in logged
  /\ StartPass(c, table)
  /\ UNCHANGED <<table, order, logged, admitting, known, claims, outFaults, done>>

AdmitMessage(c, m) ==
  /\ admitting[c].pc = "idle" /\ pass[c].pc = "idle"
  /\ ChatOf[m] = c
  /\ m \notin known /\ m \notin logged
  /\ table' = OutPrepare(m)
  /\ order' = [order EXCEPT ![m] =
                 IF HasRows(m, "none") THEN NextOrder(m) ELSE @]
  /\ admitting' = [admitting EXCEPT ![c] =
       [pc |-> "prepared", msg |-> {m}, fresh |-> HasRows(m, "none")]]
  /\ UNCHANGED <<logged, known, pass, claims, outFaults, done>>

\* add_user_message_async found nothing and the event is appended.
Record(c) ==
  /\ admitting[c].pc = "prepared"
  /\ logged' = logged \cup admitting[c].msg
  /\ admitting' = [admitting EXCEPT ![c].pc = "recorded"]
  /\ UNCHANGED <<table, order, known, pass, claims, outFaults, done>>

\* Something raises before the commit: rows this admission made are deleted.
FailsBefore(c) ==
  /\ admitting[c].pc = "prepared"
  /\ outFaults < OutFaults
  /\ outFaults' = outFaults + 1
  /\ \E m \in admitting[c].msg :
       table' = IF admitting[c].fresh THEN CancelRows(m) ELSE table
  /\ admitting' = [admitting EXCEPT ![c] = NoAdmission]
  /\ UNCHANGED <<order, logged, known, pass, claims, done>>

\* The append raises, or the admission is cancelled after it: the rows stay.
FailsAfter(c) ==
  /\ admitting[c].pc \in {"prepared", "recorded"}
  /\ outFaults < OutFaults
  /\ outFaults' = outFaults + 1
  /\ admitting' = [admitting EXCEPT ![c] = NoAdmission]
  /\ UNCHANGED <<table, order, logged, known, pass, claims, done>>

Admitted(c) ==
  /\ admitting[c].pc = "recorded"
  /\ \E m \in admitting[c].msg :
       /\ known' = known \cup {m}
       /\ table' = MarkReady(m)
       /\ IF RowsOf(m) = {}
          THEN /\ admitting' = [admitting EXCEPT ![c] = NoAdmission]
               /\ UNCHANGED pass
          ELSE /\ admitting' = [admitting EXCEPT ![c].pc = "passing"]
               /\ StartPass(c, MarkReady(m))
  /\ UNCHANGED <<order, logged, claims, outFaults, done>>

(***************************************************************************)
(* A pass: recover_prepared, then process under its lock.                  *)
(***************************************************************************)
WorkerWakes ==
  /\ pass[OutWorker].pc = "idle"
  /\ StartPass(OutWorker, table)
  /\ UNCHANGED <<table, order, logged, admitting, known, claims, outFaults, done>>

\* Mutants of RecoverRow: rows of an admission under way are settled as if it
\* were over; every prepared row is made ready.
RecoverRowInProgress(m) == IF m \in logged THEN MarkReady(m) ELSE CancelRows(m)

RecoverRowReadies(m) == IF InProgress(m) THEN table ELSE MarkReady(m)

\* is_admitted answers None while the message is being admitted.
RecoverRow(m) ==
  IF InProgress(m) THEN table
  ELSE IF m \in logged THEN MarkReady(m) ELSE CancelRows(m)

RecoverPrepared(r, m) ==
  /\ pass[r].pc = "recovering"
  /\ m \in pass[r].todo
  /\ table' = RecoverRow(m)
  /\ pass' = [pass EXCEPT ![r].todo = @ \ {m}]
  /\ UNCHANGED <<order, logged, admitting, known, claims, outFaults, done>>

LockFree == \A r \in Runners : pass[r].pc # "running"

Before(i, j) == ChatOf[i[1]] = ChatOf[j[1]] /\ order[i[1]] < order[j[1]]

\* The oldest candidates of each chat, up to the limit.
Batches(candidates) ==
  {b \in SUBSET candidates :
     /\ Cardinality(b) = IF Cardinality(candidates) < ClaimLimit
                         THEN Cardinality(candidates) ELSE ClaimLimit
     /\ \A i \in b, j \in candidates \ b : ~Before(j, i)}

InStatus(status) == {i \in Items : table[i] = status}

\* Mutant of ClaimReady: a row whose lease has run out is not looked at.
ClaimReadyOnly(r, batch) ==
  /\ pass[r].pc = "recovering" /\ pass[r].todo = {}
  /\ LockFree
  /\ batch \in Batches(InStatus("ready"))
  /\ table' = [i \in Items |-> IF i \in batch THEN "processing" ELSE table[i]]
  /\ claims' = batch
  /\ pass' = [pass EXCEPT ![r].pc = "running"]
  /\ UNCHANGED <<order, logged, admitting, known, outFaults, done>>

\* claim_ready takes rows that are ready and rows whose lease has run out:
\* the lock is free, so those are left from a pass that the process's end
\* cut off.
ClaimReady(r, batch) ==
  /\ pass[r].pc = "recovering" /\ pass[r].todo = {}
  /\ LockFree
  /\ \E expired \in SUBSET InStatus("processing") :
       batch \in Batches(InStatus("ready") \cup expired)
  /\ table' = [i \in Items |-> IF i \in batch THEN "processing" ELSE table[i]]
  /\ claims' = batch
  /\ pass' = [pass EXCEPT ![r].pc = "running"]
  /\ UNCHANGED <<order, logged, admitting, known, outFaults, done>>

CompleteRows(items, to) == Moving(items, "processing", to)

NextClaim(i) == i \in claims /\ table[i] = "processing"
                /\ \A j \in claims : table[j] = "processing" => ~Before(j, i)

\* A handler ran; it is called once more when it reports no success.
HandlerSucceeds(r, i) ==
  /\ pass[r].pc = "running" /\ NextClaim(i)
  /\ done' = done \cup {i}
  /\ table' = CompleteRows({i}, "succeeded")
  /\ UNCHANGED <<order, logged, admitting, known, pass, claims, outFaults>>

HandlerFails(r, i) ==
  /\ pass[r].pc = "running" /\ NextClaim(i)
  /\ table' = CompleteRows({i}, "ready")
  /\ claims' = claims \ {i}
  /\ UNCHANGED <<order, logged, admitting, known, pass, outFaults, done>>

\* The admission that made the pass is over with it.
PassOver(r) ==
  /\ pass' = [pass EXCEPT ![r] = NoPass]
  /\ claims' = IF pass[r].pc = "running" THEN {} ELSE claims
  /\ admitting' = [c \in OutChats |->
                     IF c = r THEN NoAdmission ELSE admitting[c]]

\* All claims are treated.  prune_succeeded forgets old successes.
FinishPass(r) ==
  /\ pass[r].pc = "running"
  /\ \A i \in claims : table[i] # "processing"
  /\ \E old \in SUBSET InStatus("succeeded") : table' = Moving(old, "succeeded", "none")
  /\ PassOver(r)
  /\ UNCHANGED <<order, logged, known, outFaults, done>>

\* Cancelled: the leases that are left are released.
CancelPass(r) ==
  /\ pass[r].pc # "idle"
  /\ outFaults < OutFaults
  /\ outFaults' = outFaults + 1
  /\ table' = IF pass[r].pc = "running" THEN CompleteRows(claims, "ready") ELSE table
  /\ PassOver(r)
  /\ UNCHANGED <<order, logged, known, done>>

\* The process ends; a handler that was running may have had its effect.
OutCrash ==
  /\ outFaults < OutFaults
  /\ outFaults' = outFaults + 1
  /\ admitting' = [c \in OutChats |-> NoAdmission]
  /\ pass' = [r \in Runners |-> NoPass]
  /\ known' = {}
  /\ claims' = {}
  /\ UNCHANGED <<table, order, logged, done>>

OutboxNext ==
  \/ \E c \in OutChats, m \in OutMessages : AdmitMessage(c, m) \/ AdmitAgain(c, m)
  \/ \E c \in OutChats : Record(c) \/ FailsBefore(c) \/ FailsAfter(c) \/ Admitted(c)
  \/ WorkerWakes
  \/ \E r \in Runners, m \in OutMessages : RecoverPrepared(r, m)
  \/ \E r \in Runners, batch \in SUBSET Items : ClaimReady(r, batch)
  \/ \E r \in Runners : FinishPass(r) \/ CancelPass(r)
  \/ \E r \in Runners, i \in Items : HandlerSucceeds(r, i) \/ HandlerFails(r, i)
  \/ OutCrash

OutboxSpec == OutboxInit /\ [][OutboxNext]_outboxVars

(***************************************************************************)
(* The worker makes a pass every five seconds for as long as the process   *)
(* runs, the steps of a pass are not delayed for ever, the locks are fair, *)
(* leases run out, and a handler that is called again and again succeeds   *)
(* in the end.                                                             *)
(***************************************************************************)
ClaimsItem(i) == \E r \in Runners, batch \in SUBSET Items : i \in batch /\ ClaimReady(r, batch)

OutboxFairness ==
  /\ WF_outboxVars(WorkerWakes)
  /\ \A c \in OutChats : WF_outboxVars(Admitted(c))
  /\ \A r \in Runners :
       /\ WF_outboxVars(\E m \in OutMessages : RecoverPrepared(r, m))
       /\ WF_outboxVars(\E batch \in SUBSET Items : ClaimReady(r, batch))
       /\ WF_outboxVars(FinishPass(r))
  /\ \A i \in Items :
       /\ SF_outboxVars(ClaimsItem(i))
       /\ SF_outboxVars(\E r \in Runners : HandlerSucceeds(r, i))
       /\ WF_outboxVars(\E r \in Runners : HandlerFails(r, i) \/ HandlerSucceeds(r, i))

(***************************************************************************)
(* Properties.                                                             *)
(***************************************************************************)
\* An effect is run only for a message that is in the history: the commit
\* point of the admission comes first, also when the rows are settled by a
\* pass that runs beside the admission or after a crash.
EffectsFollowAdmission ==
  \A i \in Items : i[1] \notin logged => i \notin done /\ table[i] \in {"none", "prepared"}

\* The effects of a message in the history are owed until they succeeded:
\* whatever failed, was cancelled or crashed, there is a row that a pass will
\* find.  What succeeded is not claimed again, although a repeated turn
\* prepares the message again and prune_succeeded forgets the row.
AdmittedEffectsOwed ==
  \A m \in logged : \A i \in RowsOf(m) :
    table[i] \in IF i \in done THEN {"succeeded", "none"}
                             ELSE {"prepared", "ready", "processing"}

\* Every effect of an admitted message is run in the end.
AdmittedEffectsRun ==
  \A i \in Items : i[1] \in logged ~> i \in done
=============================================================================
