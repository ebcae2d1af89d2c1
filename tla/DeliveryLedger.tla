--------------------------- MODULE DeliveryLedger ---------------------------
(***************************************************************************)
(* Outbound messages: core/engine/delivery_ledger.py, with the callers in  *)
(* agent_engine.py that decide when it is entered.  A delivery prepares a  *)
(* durable row under its key, calls the transport, settles the row with    *)
(* the receipt and appends accepted content to the event log.  A recovery  *)
(* worker settles ambient rows that nobody settled.                        *)
(*                                                                         *)
(* The rows and the event log survive a crash; deliveries under way and    *)
(* the worker do not.  The age of a row is abstracted: a prepared row may  *)
(* look stale at any moment, also while its sender still waits for the     *)
(* transport.                                                              *)
(***************************************************************************)
EXTENDS Integers, FiniteSets

CONSTANTS
  Deliveries,  \* calls of the delivery code
  Keys,        \* delivery keys; a key stands for its turn as well
  KeyOf,       \* KeyOf[d]: the key delivery d computes
  Kind,        \* Kind[k]: "ambient", "reply" (final text, tool) or "external"
  Contents,    \* texts
  ContentOf,   \* ContentOf[d]: the text d delivers
  Silent,      \* the texts decide_ambient_delivery suppresses
  AllowRetry,  \* allow_transport_retry
  MaxAttempts, \* max_attempts
  MaxCrashes,  \* bound of the model: crashes and stops
  Recovery,    \* the recovery worker, not a delivery
  NoKey,
  NoContent

ASSUME LedgerAssumption ==
  /\ KeyOf \in [Deliveries -> Keys]
  /\ Kind \in [Keys -> {"ambient", "reply", "external"}]
  /\ ContentOf \in [Deliveries -> Contents]
  /\ Silent \subseteq Contents
  /\ AllowRetry \in BOOLEAN
  /\ MaxAttempts \in Nat \ {0}
  /\ MaxCrashes \in Nat
  /\ Recovery \notin Deliveries
  /\ NoKey \notin Keys
  /\ NoContent \notin Contents

VARIABLES
  row,      \* the ledger's table
  job,      \* what each sender, and the worker, is doing
  log,      \* accepted deliveries in the event log, by delivery id
  late,     \* late-delivery events in the event log, by delivery id
  open,     \* the key's turn is not terminal in the event log
  todo,     \* the records the worker scanned and has not treated
  attached, \* _consumer_callbacks holds the chat: the worker treats it
  crashes,
  sends,    \* history: the calls of the transport, by key
  resends,  \* history: those of them the worker made
  accepted  \* history: the texts the transport accepted, by key

ledgerVars == <<row, job, log, late, open, todo, attached, crashes, sends,
                resends, accepted>>

Actors == Deliveries \cup {Recovery}
Settlements == {"sent", "failed", "unknown", "partial"}
RowStatus == {"none", "prepared", "suppressed"} \cup Settlements
Receipts == {"none", "accepted", "failed", "retryable", "unknown", "partial"}

NoRow == [status |-> "none", attempts |-> 0, content |-> NoContent]
NoEvent == [content |-> NoContent, at |-> <<0, "none">>]
NoJob == [pc |-> "idle", key |-> NoKey, content |-> NoContent,
         record |-> NoRow, receipt |-> "none", project |-> FALSE]

Rows == [status : RowStatus, attempts : Nat, content : Contents \cup {NoContent}]
Events == [content : Contents \cup {NoContent}, at : Nat \X RowStatus]
Jobs == [pc : {"idle", "sending", "settling", "projecting", "done", "dead"},
         key : Keys \cup {NoKey}, content : Contents \cup {NoContent},
         record : Rows, receipt : Receipts, project : BOOLEAN]

LedgerTypeOK ==
  /\ row \in [Keys -> Rows]
  /\ job \in [Actors -> Jobs]
  /\ log \in [Keys -> Events]
  /\ late \in [Keys -> Events]
  /\ open \in [Keys -> BOOLEAN]
  /\ todo \subseteq Keys
  /\ attached \in BOOLEAN
  /\ crashes \in 0 .. MaxCrashes
  /\ sends \in [Keys -> Nat]
  /\ resends \in [Keys -> Nat]
  /\ accepted \in [Keys -> SUBSET Contents]

LedgerInit ==
  /\ row = [k \in Keys |-> NoRow]
  /\ job = [a \in Actors |-> NoJob]
  /\ log = [k \in Keys |-> NoEvent]
  /\ late = [k \in Keys |-> NoEvent]
  /\ open = [k \in Keys |-> TRUE]
  /\ todo = {}
  /\ attached = FALSE
  /\ crashes = 0
  /\ sends = [k \in Keys |-> 0]
  /\ resends = [k \in Keys |-> 0]
  /\ accepted = [k \in Keys |-> {}]

InFlight(a) == job[a].pc \in {"sending", "settling", "projecting"}
Siblings(d) == {e \in Deliveries \ {d} : KeyOf[e] = KeyOf[d]}

(***************************************************************************)
(* The statements of the table.  prepare inserts unless the key exists and *)
(* returns what is there; settle and note_retry change prepared rows only. *)
(***************************************************************************)
Prepared(k, status, c) ==
  IF row[k].status = "none"
  THEN [status |-> status, attempts |-> 1, content |-> c]
  ELSE row[k]

\* Mutant of Settled: the last writer wins.
SettledAlways(k, status) ==
  [status |-> status, attempts |-> row[k].attempts, content |-> row[k].content]

Settled(k, status) ==
  IF row[k].status = "prepared"
  THEN [status |-> status, attempts |-> row[k].attempts,
        content |-> row[k].content]
  ELSE row[k]

\* Mutant of Retried: the attempt is not counted.
RetriedUncounted(k) == row[k]

Retried(k) ==
  IF row[k].status = "prepared"
  THEN [status |-> "prepared", attempts |-> row[k].attempts + 1,
        content |-> row[k].content]
  ELSE row[k]

\* Mutants of StatusOf: the status of the receipt is stored as it is; a
\* receipt of unknown outcome counts as sent.
StatusOfRaw(receipt) == receipt

StatusOfOptimistic(receipt) ==
  [accepted |-> "sent", failed |-> "failed", retryable |-> "failed",
   unknown |-> "sent", partial |-> "partial"][receipt]

StatusOf(receipt) ==
  [accepted |-> "sent", failed |-> "failed", retryable |-> "failed",
   unknown |-> "unknown", partial |-> "partial"][receipt]

(***************************************************************************)
(* Sending.  Preparing, looking at the row that came back and calling the  *)
(* transport are one step: nothing slow lies between them.  Only deliver_- *)
(* text and the ambient callback look at the row; replies and tools send.  *)
(***************************************************************************)
\* The coroutine of a turn delivers one text after the other, and a turn
\* that was cancelled delivers none.
TurnFree(d) ==
  \/ Kind[KeyOf[d]] = "external"
  \/ open[KeyOf[d]] /\ \A e \in Siblings(d) : job[e].pc \in {"idle", "done"}

Suppressed(d) == Kind[KeyOf[d]] = "ambient" /\ ContentOf[d] \in Silent

Sends(d, record) ==
  /\ ~Suppressed(d)
  /\ Kind[KeyOf[d]] \in {"ambient", "external"} => record.status = "prepared"

Begin(d) ==
  LET k == KeyOf[d]
      record == Prepared(k, IF Suppressed(d) THEN "suppressed" ELSE "prepared",
                         ContentOf[d])
      starts == Sends(d, record)
  IN /\ job[d].pc = "idle"
     /\ TurnFree(d)
     /\ row' = [row EXCEPT ![k] = record]
     /\ job' = [job EXCEPT ![d] =
          [pc |-> IF starts THEN "sending" ELSE "done", key |-> k,
           content |-> ContentOf[d], record |-> record, receipt |-> "none",
           project |-> FALSE]]
     /\ sends' = [sends EXCEPT ![k] = @ + IF starts THEN 1 ELSE 0]
     /\ UNCHANGED <<log, late, open, todo, attached, crashes, resends, accepted>>

\* Mutant of Received: whatever the receipt says, the text is recorded.
ReceivedAsSaid(a, receipt, project) ==
  /\ job' = [job EXCEPT ![a] =
       [pc |-> "settling", key |-> job[a].key, content |-> job[a].content,
        record |-> job[a].record, receipt |-> receipt, project |-> TRUE]]
  /\ accepted' = [accepted EXCEPT ![job[a].key] =
       IF receipt = "accepted" THEN @ \cup {job[a].content} ELSE @]

\* The transport answered; a text it accepted goes on to the event log if
\* the caller passed it.
Received(a, receipt, project) ==
  /\ job' = [job EXCEPT ![a] =
       [pc |-> "settling", key |-> job[a].key, content |-> job[a].content,
        record |-> job[a].record, receipt |-> receipt, project |-> project]]
  /\ accepted' = [accepted EXCEPT ![job[a].key] =
       IF receipt = "accepted" THEN @ \cup {job[a].content} ELSE @]

\* The caller of deliver_text may pass timeline_delivery_kind None (a notice).
MayProject(d) == IF Kind[KeyOf[d]] = "external" THEN BOOLEAN ELSE {TRUE}

\* A plain callback answers with nothing, which counts as accepted; the
\* ambient caller then passes no content to mark_sent.
TransportAnswers(d) ==
  /\ job[d].pc = "sending"
  /\ \E project \in MayProject(d) :
       \/ \E r \in Receipts \ {"none"} : Received(d, r, project /\ r = "accepted")
       \/ Received(d, "accepted", project /\ Kind[KeyOf[d]] # "ambient")
  /\ UNCHANGED <<row, log, late, open, todo, attached, crashes, sends, resends>>

Died(d) == [pc |-> "dead", key |-> job[d].key, content |-> job[d].content,
            record |-> job[d].record, receipt |-> job[d].receipt,
            project |-> FALSE]

\* An exception of the transport is a failed receipt, except in the ambient
\* callback, which it leaves.  The text may have arrived all the same.
TransportRaises(d) ==
  LET k == job[d].key
  IN /\ job[d].pc = "sending"
     /\ \E got \in {{}, {job[d].content}} :
          accepted' = [accepted EXCEPT ![k] = @ \cup got]
     /\ job' = [job EXCEPT ![d] =
          IF Kind[k] = "ambient"
          THEN Died(d)
          ELSE [pc |-> "settling", key |-> k, content |-> job[d].content,
                record |-> job[d].record, receipt |-> "retryable",
                project |-> FALSE]]
     /\ UNCHANGED <<row, log, late, open, todo, attached, crashes, sends, resends>>

\* A task is cancelled at whichever await it has reached.
CancelSend(d) ==
  /\ InFlight(d)
  /\ job' = [job EXCEPT ![d] = Died(d)]
  /\ \E got \in {{}, {job[d].content}} :
       accepted' = [accepted EXCEPT ![KeyOf[d]] =
                      IF job[d].pc = "sending" THEN @ \cup got ELSE @]
  /\ UNCHANGED <<row, log, late, open, todo, attached, crashes, sends, resends>>

(***************************************************************************)
(* settle_receipt, settle_tool_delivery and mark_sent: first the row, then *)
(* the event log.                                                          *)
(***************************************************************************)
Moved(a, pc) == [pc |-> pc, key |-> job[a].key, content |-> job[a].content,
                 record |-> job[a].record, receipt |-> job[a].receipt,
                 project |-> job[a].project]

\* Mutant of SettleReceipt: only what the row says is appended to the event log.
SettleByRow(a) ==
  LET status == Settled(job[a].key, StatusOf(job[a].receipt))
  IN /\ job[a].pc = "settling"
     /\ row' = [row EXCEPT ![job[a].key] = status]
     /\ job' = [job EXCEPT ![a] =
          IF job[a].project /\ status.status = "sent"
          THEN Moved(a, "projecting")
          ELSE IF a = Recovery THEN NoJob ELSE Moved(a, "done")]
     /\ UNCHANGED <<log, late, open, todo, attached, crashes, sends, resends, accepted>>

After(a) == IF a = Recovery THEN NoJob ELSE Moved(a, "done")

SettleReceipt(a) ==
  /\ job[a].pc = "settling"
  /\ row' = [row EXCEPT ![job[a].key] =
               Settled(job[a].key, StatusOf(job[a].receipt))]
  /\ job' = [job EXCEPT ![a] =
       IF job[a].project THEN Moved(a, "projecting") ELSE After(a)]
  /\ UNCHANGED <<log, late, open, todo, attached, crashes, sends, resends, accepted>>

\* The event carries the time of the record that prepare returned.
EventOf(a) == [content |-> job[a].content,
               at |-> <<job[a].record.attempts, job[a].record.status>>]

\* append_event: an event is appended to an open turn, is there already, or
\* is refused; what is refused becomes a late event of a turn of its own.
Refused(k, e) == IF log[k] = NoEvent THEN ~open[k] ELSE log[k] # e

Project(a) ==
  LET k == job[a].key
  IN /\ job[a].pc = "projecting"
     /\ job' = [job EXCEPT ![a] = After(a)]
     /\ IF Refused(k, EventOf(a))
        THEN /\ UNCHANGED log
             /\ late' = IF late[k] = NoEvent
                        THEN [late EXCEPT ![k] = EventOf(a)]
                        ELSE late
        ELSE /\ log' = [log EXCEPT ![k] = EventOf(a)]
             /\ UNCHANGED late
     /\ UNCHANGED <<row, open, todo, attached, crashes, sends, resends, accepted>>

\* The engine ends the turn in the event log when its coroutine is over.
CloseTurn(k) ==
  /\ Kind[k] # "external"
  /\ open[k]
  /\ \A d \in Deliveries : KeyOf[d] = k => ~InFlight(d)
  /\ open' = [open EXCEPT ![k] = FALSE]
  /\ UNCHANGED <<row, job, log, late, todo, attached, crashes, sends, resends, accepted>>

(***************************************************************************)
(* The recovery worker.  The scan returns records; each is treated later,  *)
(* by what the record said.                                                *)
(***************************************************************************)
\* A message of the chat is dispatched: the worker knows its callback.
Attach ==
  /\ ~attached
  /\ attached' = TRUE
  /\ UNCHANGED <<row, job, log, late, open, todo, crashes, sends, resends, accepted>>

\* Mutant of Stale: a row that used up its attempts is not listed.
StaleBelowLimit(k) ==
  /\ Kind[k] = "ambient"
  /\ row[k].status = "prepared"
  /\ row[k].attempts < MaxAttempts

Stale(k) ==
  /\ Kind[k] = "ambient"
  /\ row[k].status = "prepared"
  /\ row[k].attempts <= MaxAttempts

Scan(keys) ==
  /\ attached
  /\ job[Recovery].pc = "idle"
  /\ todo = {}
  /\ keys # {}
  /\ \A k \in keys : Stale(k)
  /\ todo' = keys
  /\ UNCHANGED <<row, job, log, late, open, attached, crashes, sends, resends, accepted>>

Treating(k) == job[Recovery].pc = "idle" /\ k \in todo

\* The record of the scan; only the worker itself counts attempts.
Scanned(k) == [status |-> "prepared", attempts |-> row[k].attempts,
               content |-> row[k].content]

Exhausted(k) == row[k].attempts >= MaxAttempts

RecoverExhausted(k) ==
  /\ Treating(k)
  /\ Exhausted(k)
  /\ todo' = todo \ {k}
  /\ row' = [row EXCEPT ![k] = Settled(k, "failed")]
  /\ UNCHANGED <<job, log, late, open, attached, crashes, sends, resends, accepted>>

RecoverUncertain(k) ==
  /\ Treating(k)
  /\ ~Exhausted(k)
  /\ ~AllowRetry
  /\ todo' = todo \ {k}
  /\ row' = [row EXCEPT ![k] = Settled(k, "unknown")]
  /\ UNCHANGED <<job, log, late, open, attached, crashes, sends, resends, accepted>>

\* The content resolver raises: the attempt counts, the row stays.
ResolverRaises(k) ==
  /\ Treating(k)
  /\ ~Exhausted(k)
  /\ AllowRetry
  /\ todo' = todo \ {k}
  /\ row' = [row EXCEPT ![k] = Retried(k)]
  /\ UNCHANGED <<job, log, late, open, attached, crashes, sends, resends, accepted>>

\* The resolver finds no content, or content of another hash.
ContentLost(k) ==
  /\ Treating(k)
  /\ ~Exhausted(k)
  /\ AllowRetry
  /\ todo' = todo \ {k}
  /\ row' = [row EXCEPT ![k] = Settled(k, "failed")]
  /\ UNCHANGED <<job, log, late, open, attached, crashes, sends, resends, accepted>>

Resend(k) ==
  /\ Treating(k)
  /\ ~Exhausted(k)
  /\ AllowRetry
  /\ todo' = todo \ {k}
  /\ job' = [job EXCEPT ![Recovery] =
       [pc |-> "sending", key |-> k, content |-> row[k].content,
        record |-> Scanned(k), receipt |-> "none", project |-> FALSE]]
  /\ sends' = [sends EXCEPT ![k] = @ + 1]
  /\ resends' = [resends EXCEPT ![k] = @ + 1]
  /\ UNCHANGED <<row, log, late, open, attached, crashes, accepted>>

ResendAnswers ==
  /\ job[Recovery].pc = "sending"
  /\ \E r \in Receipts \ {"none", "retryable"} :
       Received(Recovery, r, r = "accepted")
  /\ UNCHANGED <<row, log, late, open, todo, attached, crashes, sends, resends>>

ResendRetryable ==
  /\ job[Recovery].pc = "sending"
  /\ row' = [row EXCEPT ![job[Recovery].key] = Retried(job[Recovery].key)]
  /\ job' = [job EXCEPT ![Recovery] = NoJob]
  /\ UNCHANGED <<log, late, open, todo, attached, crashes, sends, resends, accepted>>

\* The transport raises: the outcome is unknown, the text may have arrived.
ResendRaises ==
  /\ job[Recovery].pc = "sending"
  /\ job' = [job EXCEPT ![Recovery] =
       [pc |-> "settling", key |-> job[Recovery].key,
        content |-> job[Recovery].content, record |-> job[Recovery].record,
        receipt |-> "unknown", project |-> FALSE]]
  /\ \E got \in {{}, {job[Recovery].content}} :
       accepted' = [accepted EXCEPT ![job[Recovery].key] = @ \cup got]
  /\ UNCHANGED <<row, log, late, open, todo, attached, crashes, sends, resends>>

\* The process stops or crashes: rows and events stay, the rest is gone.
Crash ==
  /\ crashes < MaxCrashes
  /\ crashes' = crashes + 1
  /\ job' = [a \in Actors |-> IF a = Recovery THEN NoJob
                              ELSE IF InFlight(a) THEN Died(a) ELSE job[a]]
  /\ \E arrived \in SUBSET {a \in Actors : job[a].pc = "sending"} :
       accepted' = [k \in Keys |-> accepted[k] \cup
         {job[a].content : a \in {b \in arrived : job[b].key = k}}]
  /\ todo' = {}
  /\ attached' = FALSE
  /\ UNCHANGED <<row, log, late, open, sends, resends>>

SenderStep(d) == Begin(d) \/ TransportAnswers(d) \/ TransportRaises(d)
                 \/ CancelSend(d)

RecoverOne(k) == RecoverExhausted(k) \/ RecoverUncertain(k)
                 \/ ResolverRaises(k) \/ ContentLost(k) \/ Resend(k)

ResendEnds == ResendAnswers \/ ResendRetryable \/ ResendRaises

LedgerNext ==
  \/ \E d \in Deliveries : SenderStep(d)
  \/ \E a \in Actors : SettleReceipt(a) \/ Project(a)
  \/ \E k \in Keys : CloseTurn(k) \/ RecoverOne(k)
  \/ \E keys \in SUBSET Keys : Scan(keys)
  \/ ResendEnds
  \/ Attach
  \/ Crash

LedgerSpec == LedgerInit /\ [][LedgerNext]_ledgerVars

(***************************************************************************)
(* The worker is a loop that survives its exceptions, and the scan lists   *)
(* the oldest rows first, so a row that stays prepared is listed again and *)
(* again.  Transports have timeouts.  Nothing is assumed of the senders.   *)
(***************************************************************************)
ScanOf(k) == \E keys \in SUBSET Keys : k \in keys /\ Scan(keys)

RecoveryFairness ==
  /\ \A k \in Keys : SF_ledgerVars(ScanOf(k)) /\ WF_ledgerVars(RecoverOne(k))
  /\ WF_ledgerVars(ResendEnds)
  /\ WF_ledgerVars(SettleReceipt(Recovery))
  /\ WF_ledgerVars(Project(Recovery))

FairLedgerSpec == LedgerSpec /\ RecoveryFairness

(***************************************************************************)
(* Properties.                                                             *)
(***************************************************************************)
\* A key that is settled, by its sender or by the worker, keeps its outcome,
\* whoever else settles, retries or crashes (the WHERE status = 'prepared'
\* of settle and note_retry, the ON CONFLICT of prepare).
Outcome == INSTANCE DeliveryOutcome WITH outcome <- [k \in Keys |-> row[k].status]
OutcomeIsFinal == Outcome!OutcomeSpec

\* A row says sent only if a transport accepted the text of that row, also
\* when the worker and a slow sender settle the same row.
SentWasAccepted ==
  \A k \in Keys : row[k].status = "sent" => row[k].content \in accepted[k]

\* The event log, which becomes the history the model reads, holds only
\* texts that a transport accepted.
HistoryWasAccepted ==
  \A k \in Keys : {log[k].content, late[k].content} \ {NoContent} \subseteq accepted[k]

\* Without an idempotent transport an ambient text goes out at most once,
\* through failures, cancellation, recovery and restart.
AmbientAtMostOnce ==
  ~AllowRetry => \A k \in Keys : Kind[k] = "ambient" => sends[k] <= 1

\* With an idempotent transport the worker's calls for a row stay below the
\* limit of attempts, of which the sender's own call is the first.  A call is
\* counted when it has failed, so each crash can cost one more.
ResendsBounded == \A k \in Keys : resends[k] < MaxAttempts + crashes

\* Users see an ambient text at most once, or as often as the limits allow.
SendsBounded == AmbientAtMostOnce /\ ResendsBounded

\* A sender that came to its end with accepted content has it in the event
\* log, in its turn or as a late delivery, also when the worker settled the
\* row first or another sender of the key was faster.
AcceptedIsRecorded ==
  \A d \in Deliveries :
    job[d].pc = "done" /\ job[d].project =>
      \E e \in {log[KeyOf[d]], late[KeyOf[d]]} : e.content = job[d].content

\* An ambient row that nobody settled is settled in the end, as long as the
\* chat stays attached (no row is prepared for ever).
AmbientRowsSettle ==
  \A k \in Keys :
    (Kind[k] = "ambient" /\ row[k].status = "prepared" /\ attached)
      ~> (row[k].status # "prepared" \/ ~attached)
=============================================================================
