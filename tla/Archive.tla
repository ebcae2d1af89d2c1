------------------------------- MODULE Archive -------------------------------
(***************************************************************************)
(* Archiving the turns of one chat: core/managers/archive_manager.py with  *)
(* the four stores it changes one after the other, none of which knows of  *)
(* the others: the index of batches with their manifests, the summaries of *)
(* turns, what the prompt may see of the event log, and the transcripts    *)
(* that the model is given.  A batch is prepared, then carried through six *)
(* phases; each may fail, the process may end after any of them, and       *)
(* whoever comes next carries on from the phase that the manifest names.   *)
(***************************************************************************)
EXTENDS FiniteSets, QueueFilter

CONSTANTS
  LastTurn,     \* the chat has the turns 1 .. LastTurn, in this order
  Scopes,       \* the transcripts of the chat
  ScopesOf,     \* turn -> the transcripts it is materialised in
  Days,         \* the dates a repair command may name: the turns before them
  MaxFailures,  \* bound: steps that raise
  MaxStops,     \* bound: ends of the process
  MaxLosses     \* bound: losses of the projection's file or of its rows

ArcTurns == 1 .. LastTurn

ASSUME ArchiveAssumption ==
  /\ {LastTurn, MaxFailures, MaxStops, MaxLosses} \subseteq Nat
  /\ Days \subseteq ArcTurns
  /\ ScopesOf \in [ArcTurns -> SUBSET Scopes]

VARIABLES
  eventLog,   \* the event log: a sequence of <<turn, kind>>
  batches,    \* the index of batches in the order of their creation, each with
              \* the phase of its manifest
  summary,    \* turn -> the batch its summary is of, 0 when it has none
  projection, \* what the prompt may see: rows, operations, and a watermark
  context,    \* scope -> the entries of its transcript
  rotated,    \* the rotations that are on record, <<batch, scope>>
  job,        \* what the holder of the archive lock is doing
  asked,      \* the turn whose admission waits for archive_if_stale(), or 0
  mishap      \* the failures, stops and losses so far

arcVars == <<eventLog, batches, summary, projection, context, rotated, job, asked, mishap>>

Kinds == {"user", "done", "incomplete"}
NoOperation == [id |-> <<"none">>, cutoff |-> 0, hidden |-> {}, retained |-> {}]
Idle == [mode |-> "idle", at |-> "idle", todo |-> <<>>, did |-> {}, of |-> 0,
         upto |-> 0]
Down == [Idle EXCEPT !.mode = "down"]
Empty == [rows |-> [e \in ArcTurns \X Kinds |-> "none"], operations |-> {},
          mark |-> NoOperation]

ArcInit ==
  /\ eventLog = <<>> /\ batches = <<>>
  /\ summary = [t \in ArcTurns |-> 0]
  /\ projection = Empty
  /\ context = [s \in Scopes |-> {}] /\ rotated = {}
  /\ job = Idle /\ asked = 0
  /\ mishap = [failures |-> 0, stops |-> 0, losses |-> 0]

UpTo(n) == ToSet(SubSeq(eventLog, 1, n))
EventsOf(turns) == {e \in ToSet(eventLog) : e[1] \in turns}
Opened(t) == <<t, "user">> \in ToSet(eventLog)
Closed(t) == {<<t, "done">>, <<t, "incomplete">>} \intersect ToSet(eventLog) # {}
Cold == {e \in ToSet(eventLog) : projection.rows[e] = "cold"}
Hot == {e \in ToSet(eventLog) : projection.rows[e] = "hot"}

-----------------------------------------------------------------------------
(* The conversation: an admission logs the message and asks for an archive *)
(* of what is stale; a turn is materialised before it ends.                *)

Serving == job.mode \notin {"down", "start"}
Stores == <<batches, summary, projection, rotated>>

\* The admission of a turn is held up by the archive it asks for.
HeldUp(t) == asked = t \/ (job.mode = "stale" /\ job.of = t)
Running(t) == Serving /\ Opened(t) /\ ~Closed(t) /\ ~HeldUp(t)

TurnOpens(t) ==
  /\ Serving /\ ~Opened(t) /\ \A u \in 1 .. (t - 1) : Opened(u) /\ ~HeldUp(u)
  /\ eventLog' = Append(eventLog, <<t, "user">>)
  /\ asked' = t
  /\ UNCHANGED <<Stores, context, job, mishap>>

Materialises(t) ==
  /\ Running(t)
  /\ \A s \in ScopesOf[t] : \A entry \in context[s] : entry.turn # t
  /\ context' = [s \in Scopes |->
       IF s \in ScopesOf[t] THEN context[s] \union {[turn |-> t, by |-> 0]} ELSE context[s]]
  /\ UNCHANGED <<eventLog, Stores, job, asked, mishap>>

TurnCloses(t) ==
  /\ Running(t)
  /\ \E kind \in {"done", "incomplete"} : eventLog' = Append(eventLog, <<t, kind>>)
  /\ UNCHANGED <<Stores, context, job, asked, mishap>>

-----------------------------------------------------------------------------
(* The projection (prompt_history_projection.py).                          *)

\* What is hidden becomes cold; what is retained becomes hot, unless it was
\* cold already.
Restored(rows, op) ==
  [e \in DOMAIN rows |-> IF e \in op.hidden THEN "cold"
                         ELSE IF e \in op.retained /\ rows[e] = "none" THEN "hot"
                         ELSE rows[e]]

\* The watermark keeps the membership of the operation that moved it.
Raised(op) == IF op.cutoff > projection.mark.cutoff THEN op ELSE projection.mark

Known(id) == {op \in projection.operations : op.id = id}
SameMembers(a, b) == a.hidden = b.hidden /\ a.retained = b.retained

\* At the watermark another membership is accepted when it hides more of what
\* was visible and takes nothing back ...
HidesMore(op) ==
  /\ op.hidden \ Cold # {} /\ op.hidden \ Cold \subseteq Hot
  /\ Cold \subseteq op.hidden /\ Cold \intersect op.retained = {}

\* ... or splits the membership of the operation at the watermark anew.
Splits(op) ==
  LET mark == projection.mark
  IN /\ mark.hidden \subseteq op.hidden /\ mark.hidden \intersect op.retained = {}
     /\ op.hidden \union op.retained = mark.hidden \union mark.retained

\* A known operation is accepted again if it is of the same members, and of
\* the same part of the log.
Accepts(op) ==
  IF Known(op.id) # {}
  THEN \A old \in Known(op.id) : SameMembers(old, op) /\ old.cutoff = op.cutoff
  ELSE LET mark == projection.mark
       IN \/ mark = NoOperation \/ op.cutoff > mark.cutoff
          \/ op.cutoff = mark.cutoff /\ (SameMembers(op, mark) \/ HidesMore(op) \/ Splits(op))

\* apply_archive_retention(): of a known operation the rows are restored as
\* they were recorded.
Retained(op) ==
  [rows |-> Restored(projection.rows, op), mark |-> Raised(op),
   operations |-> projection.operations \union (IF Known(op.id) = {} THEN {op} ELSE {})]

-----------------------------------------------------------------------------
(* Carrying a batch on: _finish_event_archive_batch().                     *)

Turns(b) == batches[b].turns
Finished(b) == batches[b].phase = 4
InHand == Head(job.todo)
Outside == UNCHANGED <<eventLog, asked, mishap>>

\* A mutant: the phase is written before the transcripts are rotated.
WorkHasty(b) ==
  CASE batches[b].phase = 0 -> Turns(b)
    [] batches[b].phase = 1 -> {"projection"}
    [] batches[b].phase = 3 -> {"index"}
    [] OTHER -> {}

\* What is to be done before the next phase is written to the manifest.
Work(b) ==
  CASE batches[b].phase = 0 -> Turns(b)
    [] batches[b].phase = 1 -> {"projection"}
    [] batches[b].phase = 2 -> Scopes
    [] batches[b].phase = 3 -> {"index"}
    [] OTHER -> {}

\* After a batch comes the next; after its own batch the archive is over.
Left(j) == IF j.at = "finish" THEN Idle ELSE [j EXCEPT !.todo = Tail(@), !.did = {}]

Carrying == job.at \in {"recover", "finish"} /\ job.todo # <<>>
Does(phase, step) ==
  /\ Carrying /\ batches[InHand].phase = phase /\ step \in Work(InHand) \ job.did
  /\ job' = [job EXCEPT !.did = @ \union {step}]
  /\ Outside

\* A summary that is there keeps the batch it is of.
Summarises(t) ==
  /\ Does(0, t)
  /\ summary' = [summary EXCEPT ![t] = IF @ = 0 THEN InHand ELSE @]
  /\ UNCHANGED <<batches, projection, context, rotated>>

Operation(b) ==
  [id |-> batches[b].id, cutoff |-> batches[b].cutoff, hidden |-> EventsOf(Turns(b)),
   retained |-> (UpTo(batches[b].cutoff) \ EventsOf(Turns(b))) \ Cold]

Hides ==
  /\ Does(1, "projection")
  /\ Accepts(Operation(InHand))
  /\ projection' = Retained(Operation(InHand))
  /\ UNCHANGED <<batches, summary, context, rotated>>

\* An operation that the projection refuses raises.
Refused ==
  /\ Carrying /\ batches[InHand].phase = 1 /\ job.did = {}
  /\ ~Accepts(Operation(InHand))
  /\ job' = Left(job)
  /\ UNCHANGED <<Stores, context>> /\ Outside

\* rotate_for_hidden_sources(): in place of the entries of the archived turns
\* come their summaries, once per operation and transcript.
Rotates(s) ==
  /\ Does(2, s)
  /\ LET old == {entry \in context[s] : entry.turn \in Turns(InHand)}
         new == {[turn |-> entry.turn, by |-> InHand] : entry \in old}
     IN IF old = {} \/ <<InHand, s>> \in rotated THEN UNCHANGED <<context, rotated>>
        ELSE /\ context' = [context EXCEPT ![s] = (@ \ old) \union new]
             /\ rotated' = rotated \union {<<InHand, s>>}
  /\ UNCHANGED <<batches, summary, projection>>

MarksCommitted ==
  /\ Does(3, "index")
  /\ batches' = [batches EXCEPT ![InHand].state = "committed"]
  /\ UNCHANGED <<summary, projection, context, rotated>>

\* The manifest is replaced by one that names the next phase.
WritesPhase ==
  /\ Carrying /\ Work(InHand) \subseteq job.did
  /\ IF Finished(InHand) THEN UNCHANGED batches
     ELSE batches' = [batches EXCEPT ![InHand].phase = @ + 1]
  /\ job' = CASE batches'[InHand].phase < 4 -> [job EXCEPT !.did = {}]
              [] batches'[InHand].phase = 4 /\ job.at = "finish" /\ job.mode = "repair" ->
                   [job EXCEPT !.at = "reveal", !.todo = <<>>, !.did = {}]
              [] OTHER -> Left(job)
  /\ UNCHANGED <<summary, projection, context, rotated>> /\ Outside

\* Any step may raise: recovery logs it and goes on, an archive ends.
StepFails ==
  /\ Carrying /\ mishap.failures < MaxFailures
  /\ job' = Left(job)
  /\ mishap' = [mishap EXCEPT !.failures = @ + 1]
  /\ UNCHANGED <<eventLog, Stores, context, asked>>

-----------------------------------------------------------------------------
(* The holder of the lock: recovery first, then its own errand.            *)

\* All batches in their order, without some.
BatchesBut(gone) == Rejecting([i \in 1 .. Len(batches) |-> i], gone)

\* list_pending() with the manifests that are not committed.
PendingBatches == BatchesBut({b \in DOMAIN batches : Finished(b)})

Begins(mode, of) ==
  job' = [Idle EXCEPT !.mode = mode, !.at = "recover", !.todo = PendingBatches, !.of = of]

ArchivesStale ==
  /\ job = Idle /\ asked # 0
  /\ Begins("stale", asked) /\ asked' = 0
  /\ UNCHANGED <<eventLog, Stores, context, mishap>>

ArchivesManually ==
  /\ job = Idle /\ Begins("manual", 0)
  /\ UNCHANGED <<eventLog, Stores, context, asked, mishap>>

\* The repair command names a date: the turns up to day are before it.
Repairs(day) ==
  /\ job = Idle /\ Begins("repair", day)
  /\ UNCHANGED <<eventLog, Stores, context, asked, mishap>>

Starts ==
  /\ job = Down /\ Begins("start", 0)
  /\ UNCHANGED <<eventLog, Stores, context, asked, mishap>>

\* Then the committed batches, the youngest first, whose events are visible.
Recovered ==
  /\ job.at = "recover" /\ job.todo = <<>>
  /\ job' = [job EXCEPT !.at = "reconcile",
               !.todo = Reverse(BatchesBut({b \in DOMAIN batches :
                                              batches[b].state # "committed"}))]
  /\ UNCHANGED <<Stores, context>> /\ Outside

Reconciling(b) ==
  [id |-> <<"reconcile", batches[b].id>>, cutoff |-> batches[b].cutoff,
   hidden |-> EventsOf(Turns(b)), retained |-> {}]

\* repair_archive_operation() restores what the operation recorded; of an
\* operation that is not known another one hides the events again.
Reconciles ==
  /\ job.at = "reconcile" /\ job.todo # <<>>
  /\ LET op == Operation(InHand)
     IN projection' =
          CASE op.hidden \subseteq Cold -> projection
            [] ~(op.hidden \subseteq Cold) /\ Known(op.id) # {} ->
                 Retained(CHOOSE old \in Known(op.id) : TRUE)
            [] ~(op.hidden \subseteq Cold) /\ Known(op.id) = {} ->
                 IF Accepts(Reconciling(InHand)) THEN Retained(Reconciling(InHand))
                 ELSE projection
  /\ job' = [job EXCEPT !.todo = Tail(@)]
  /\ UNCHANGED <<batches, summary, context, rotated>> /\ Outside

Errand(mode) ==
  /\ job.at = "reconcile" /\ job.todo = <<>> /\ job.mode = mode
  /\ UNCHANGED <<summary, context, rotated>> /\ Outside

\* prepare_batch(): the same operation again is the batch of then, and a turn
\* is in one batch only, or the table raises.
Prepares(id, turns) ==
  LET same == {b \in DOMAIN batches : batches[b].id = id}
      b == IF same = {} THEN Len(batches) + 1 ELSE CHOOSE c \in same : TRUE
  IN IF turns = {} \/ (same = {} /\ \E c \in DOMAIN batches : Turns(c) \intersect turns # {})
     THEN job' = Idle /\ UNCHANGED batches
     ELSE /\ batches' = IF same # {} THEN batches
                        ELSE Append(batches, [id |-> id, turns |-> turns, phase |-> 0,
                                              cutoff |-> Len(eventLog), state |-> "prepared"])
          /\ job' = [job EXCEPT !.at = "finish", !.todo = <<b>>, !.upto = Len(eventLog)]

\* The turns that ended well and of which nothing is hidden.
Archivable == {t \in ArcTurns : <<t, "done">> \in ToSet(eventLog)
                                /\ EventsOf({t}) \intersect Cold = {}}

\* _archive_event_log_if_needed(): the oldest of them, as many as the
\* thresholds say, and all of them on command.
Selects ==
  /\ \/ /\ Errand("manual")
        /\ Prepares(<<"archive", Len(eventLog), Archivable>>, Archivable)
     \/ /\ Errand("stale")
        /\ \E n \in 0 .. LastTurn :
             LET turns == {t \in Archivable : t <= n}
             IN Prepares(<<"archive", Len(eventLog), turns>>, turns)
  /\ UNCHANGED projection

Projects(op) ==
  /\ projection' = IF Accepts(op) THEN Retained(op) ELSE projection
  /\ job' = Idle
  /\ UNCHANGED batches

\* repair_chat() at start: what has no row yet is visible.
Serves ==
  /\ Errand("start")
  /\ LET missing == {e \in ToSet(eventLog) : projection.rows[e] = "none"}
     IN IF missing = {} THEN job' = Idle /\ UNCHANGED <<projection, batches>>
        ELSE Projects([id |-> <<"repair", missing>>, cutoff |-> Len(eventLog),
                       hidden |-> {}, retained |-> missing])

\* _repair_event_log_archives_unlocked(): archives what is before the date,
\* or else gives a row to what has none, and afterwards to what still has none.
Before(day, n) == {e \in UpTo(n) : e[1] <= day}
Rowless(events) == {e \in events : projection.rows[e] = "none"}
Kept == UNION {EventsOf(Turns(b)) : b \in {c \in DOMAIN batches :
                                             batches[c].state = "committed"}}
Visibility(of, hidden, retained, n) ==
  [id |-> <<"visibility", job.of, of>>, cutoff |-> n, hidden |-> hidden, retained |-> retained]

Restores ==
  /\ Errand("repair")
  /\ LET scope == Before(job.of, Len(eventLog))
         turns == {t \in 1 .. job.of : t \in Archivable /\ EventsOf({t}) \intersect Kept = {}}
         shown == (scope \ Cold) \ Kept
         op == Visibility(shown, Rowless(scope) \intersect Kept, shown, Len(eventLog))
     IN IF turns # {}
        THEN Prepares(<<"restore", EventsOf(turns)>>, turns) /\ UNCHANGED projection
        ELSE IF Rowless(scope) = {} THEN job' = Idle /\ UNCHANGED <<projection, batches>>
        ELSE Projects(op)

Reveals ==
  /\ job.at = "reveal"
  /\ LET scope == Before(job.of, job.upto)
         op == Visibility(scope, Rowless(scope) \intersect Kept, Rowless(scope) \ Kept,
                          job.upto)
     IN IF Rowless(scope) = {} THEN job' = Idle /\ UNCHANGED <<projection, batches>>
        ELSE Projects(op)
  /\ UNCHANGED <<summary, context, rotated>> /\ Outside

-----------------------------------------------------------------------------
(* The process ends, and the projection is lost.                           *)

ArcStops ==
  /\ job.mode # "down" /\ mishap.stops < MaxStops
  /\ job' = Down /\ asked' = 0
  /\ mishap' = [mishap EXCEPT !.stops = @ + 1]
  /\ UNCHANGED <<eventLog, Stores, context>>

\* Its rows, or all of its file, while the process is down.
Loses ==
  /\ job = Down /\ mishap.losses < MaxLosses
  /\ projection' \in {Empty, [projection EXCEPT !.rows = Empty.rows]}
  /\ mishap' = [mishap EXCEPT !.losses = @ + 1]
  /\ UNCHANGED <<eventLog, batches, summary, context, rotated, job, asked>>

ArcNext ==
  \/ \E t \in ArcTurns : TurnOpens(t) \/ Materialises(t) \/ TurnCloses(t) \/ Summarises(t)
  \/ \E s \in Scopes : Rotates(s)
  \/ \E day \in Days : Repairs(day)
  \/ Hides \/ Refused \/ MarksCommitted \/ WritesPhase \/ StepFails
  \/ ArchivesStale \/ ArchivesManually \/ Starts \/ Recovered \/ Reconciles
  \/ Selects \/ Serves \/ Restores \/ Reveals
  \/ ArcStops \/ Loses

ArcSpec == ArcInit /\ [][ArcNext]_arcVars

-----------------------------------------------------------------------------
(* Properties.                                                             *)

ArcTypeOK ==
  /\ ToSet(eventLog) \subseteq ArcTurns \X Kinds /\ Cardinality(ToSet(eventLog)) = Len(eventLog)
  /\ \A b \in DOMAIN batches :
       /\ batches[b].turns \subseteq ArcTurns /\ batches[b].phase \in 0 .. 4
       /\ batches[b].cutoff \in 0 .. Len(eventLog)
       /\ batches[b].state \in {"prepared", "committed"}
  /\ summary \in [ArcTurns -> 0 .. Len(batches)]
  /\ projection.rows \in [ArcTurns \X Kinds -> {"none", "hot", "cold"}]
  /\ projection.mark = NoOperation \/ projection.mark \in projection.operations
  /\ context \in [Scopes -> SUBSET [turn : ArcTurns, by : 0 .. Len(batches)]]
  /\ rotated \subseteq (DOMAIN batches) \X Scopes
  /\ job.mode \in {"idle", "down", "stale", "manual", "repair", "start"}
  /\ job.at \in {"idle", "recover", "reconcile", "finish", "reveal"}
  /\ ToSet(job.todo) \subseteq DOMAIN batches
  /\ asked \in 0 .. LastTurn /\ job.of \in 0 .. LastTurn /\ job.upto \in 0 .. Len(eventLog)

\* What the prompt may not see is of a batch and has a summary: nothing is hidden
\* that is not kept.  And it is a whole turn, unless the projection was lost and
\* the repair command, which hides what has no row, hid the rest of the turn.
HiddenIsKept ==
  \A e \in Cold :
    /\ summary[e[1]] # 0
    /\ \E b \in DOMAIN batches : e[1] \in Turns(b)
    /\ \/ EventsOf({e[1]}) \subseteq Cold
       \/ /\ mishap.losses > 0
          /\ \E op \in projection.operations : op.id[1] = "visibility" /\ e \in op.hidden

\* A transcript has a turn once, as it was or as its summary.
SeenOnce ==
  \A s \in Scopes : \A t \in ArcTurns :
    Cardinality({entry \in context[s] : entry.turn = t}) <= 1

\* The manifest and the index tell what the other stores have.
PhaseIsTrue ==
  \A b \in DOMAIN batches : LET batch == batches[b] IN
    /\ batch.phase >= 1 => \A t \in batch.turns : summary[t] # 0
    /\ batch.phase >= 2 /\ mishap.losses = 0 => EventsOf(batch.turns) \subseteq Cold
    /\ batch.phase >= 3 => \A s \in Scopes : \A entry \in context[s] :
                             entry.turn \in batch.turns => entry.by = b
    /\ batch.state = "committed" => batch.phase >= 3
    /\ batch.phase = 4 => batch.state = "committed"

\* Whatever fails or ends between the steps that change four stores, what is
\* hidden is kept, a transcript neither repeats nor mixes a turn and its
\* summary, and the phase that recovery trusts is never ahead of the stores.
ArchiveTellsTruth == HiddenIsKept /\ SeenOnce /\ PhaseIsTrue

\* "Recover pending ledger archive operations before serving requests."
\* (core/managers/archive_manager.py:525): when no step fails, a recovery
\* leaves no batch behind that is not committed.
RecoveryFinishes == job.at = "reconcile" => \A b \in DOMAIN batches : Finished(b)

=============================================================================
