---------------------------- MODULE ModelContext ----------------------------
(***************************************************************************)
(* What the model is given of a private conversation:                      *)
(* core/engine/model_context_transcript.py with its callers in the engine, *)
(* the prompt builder and the archive.  The transcript is a table of       *)
(* entries: turns, checkpoints that replace turns by a summary the model   *)
(* writes, and summaries of archived turns.  The only await at which       *)
(* another task can run is the one for the text of a checkpoint; a turn,   *)
(* the page of the operator, the archive and a clear of the chat meet      *)
(* there.  An entry covers the turns its sources are of, which is all that *)
(* the code keeps; what its text tells is kept beside it:                  *)
(*   own   the turns whose events the text was made from,                  *)
(*   echo  the turns told by the checkpoint it was made to continue.       *)
(***************************************************************************)
EXTENDS Integers, FiniteSets

CONSTANTS
  MaxCtxTurns,     \* bound: turns of the conversation
  MaxCheckpoints,  \* bound: calls for the text of a checkpoint
  MaxEntries,      \* max_events; a turn or a summary counts for one event
  Protected,       \* the numbers of latest entries that keep_recent_tokens
                   \* may protect, by how long they are
  MaxCtxFaults     \* bound: clears and restarts, changes of model or prompt

ASSUME ContextAssumption ==
  /\ {MaxCtxTurns, MaxCheckpoints, MaxEntries, MaxCtxFaults} \subseteq Nat
  /\ MaxEntries > 0
  /\ Protected \subseteq Nat \ {0}

VARIABLES
  entries,   \* the rows of the scope's generation
  archived,  \* the turns whose events the archive has hidden
  hiding,    \* those of a batch for which the transcript is not yet rotated
  running,   \* the number of the compaction whose row says 'started', or 0
  writing,   \* caller -> the compaction for whose text it waits
  convTurn,  \* the turn of the conversation: its number and how far it is
  closed,    \* the turns the event log has the end of
  taken,     \* ghost: the turns the transcript has taken and not given up
  prompted,  \* the entries the running turn's model was last given
  ctxTally   \* the calls for a checkpoint's text and the faults so far

contextVars == <<entries, archived, hiding, running, writing, convTurn, closed,
                 taken, prompted, ctxTally>>

CtxTurns == 1 .. MaxCtxTurns
Callers == {"turn", "page"}
Nothing == [op |-> 0, read |-> {}, chosen |-> {}, latest |-> {}]

IdOf(e) == <<e.kind, e.num, e.short>>
Ids(es) == {IdOf(e) : e \in es}
Covered(es) == UNION {e.covers : e \in es}
IsCheckpoint(e) == e.kind = "checkpoint"

ContextInit ==
  /\ entries = {} /\ archived = {} /\ hiding = {} /\ closed = {} /\ taken = {}
  /\ running = 0 /\ writing = [c \in Callers |-> Nothing]
  /\ convTurn = [n |-> 0, at |-> "idle", overflowed |-> FALSE]
  /\ prompted = {} /\ ctxTally = [texts |-> 0, faults |-> 0]

Faults == ctxTally.faults < MaxCtxFaults /\ ctxTally' = [ctxTally EXCEPT !.faults = @ + 1]

-----------------------------------------------------------------------------
(* Entries are in the order of seq.  "at" stands for their timestamps:     *)
(* turn n is of time 2n, what is written during it or after it of 2n + 1.  *)

After(es, e) == {d \in es : d.seq > e.seq}

\* They are numbered anew whenever some are taken out.
NextSeq(es) == 1 + Cardinality({d.seq : d \in es})

TurnEntry(n, seq) ==
  [kind |-> "turn", num |-> n, short |-> FALSE, seq |-> seq, at |-> 2 * n,
   covers |-> {n}, own |-> {n}, echo |-> {}]

\* _snip_content() and the pruning of tool results give an event a new id.
Shorten(es, which) ==
  (es \ which) \cup {[e EXCEPT !.short = TRUE] : e \in which}

\* Each entry's place in an order, and the entries numbered by it.
BySeq(es) == [e \in es |-> Cardinality({d \in es : d.seq <= e.seq})]
ByTime(es) ==
  [e \in es |-> Cardinality({d \in es : \/ d.at < e.at
                                        \/ d.at = e.at /\ d.seq <= e.seq})]
Numbered(es, place) == {[e EXCEPT !.seq = place[e]] : e \in es}

\* The entries before the last k, of which those after the latest checkpoint
\* are what the next one is made of.
Unprotected(es, k) == {e \in es : Cardinality(After(es, e)) >= k}
NoneAfter(es, e) == \A d \in After(es, e) : ~IsCheckpoint(d)
Selected(es, k) == {e \in Unprotected(es, k) : ~IsCheckpoint(e) /\ NoneAfter(es, e)}
LatestCheckpoint(es) == {e \in es : IsCheckpoint(e) /\ NoneAfter(es, e)}

-----------------------------------------------------------------------------
(* compact_if_needed().                                                    *)

\* What the caller does with the entries it ends up with: the turn gives
\* them to the model, the page only reports how many tokens were saved.
Given(c, es) ==
  IF c = "turn" THEN convTurn' = [convTurn EXCEPT !.at = "model"] /\ prompted' = es
  ELSE UNCHANGED <<convTurn, prompted>>

\* begin_compaction(): one row 'started' for a scope.
AsksForText(c, es, chosen) ==
  /\ running = 0 /\ ctxTally.texts < MaxCheckpoints
  /\ ctxTally' = [ctxTally EXCEPT !.texts = @ + 1]
  /\ running' = ctxTally.texts + 1
  /\ writing' = [writing EXCEPT ![c] =
       [op |-> ctxTally.texts + 1, read |-> es, chosen |-> Ids(chosen),
        latest |-> UNION {e.own \cup e.echo : e \in LatestCheckpoint(es)}]]
  /\ UNCHANGED <<convTurn, prompted>>

\* Below the first waterline nothing happens; above it tool results of
\* unprotected turns are shortened; above the third, or when forced, the
\* selected entries are summarised, unless there are none, or a compaction of
\* the scope is under way.
Compacts(c, forced) ==
  \E k \in Protected, summarise \in BOOLEAN :
    \E which \in SUBSET {e \in Unprotected(entries, k) : e.kind = "turn" /\ ~e.short} :
      LET now == Shorten(entries, which)
          chosen == IF summarise THEN Selected(now, k) ELSE {}
      IN /\ forced => summarise
         /\ entries' = now
         /\ \/ /\ chosen = {} \/ running # 0
               /\ Given(c, now)
               /\ UNCHANGED <<running, writing, ctxTally>>
            \/ chosen # {} /\ AsksForText(c, now, chosen)

Ended(c) == writing' = [writing EXCEPT ![c] = Nothing]
RowEnds(c) == running' = IF running = writing[c].op THEN 0 ELSE running

\* compact() reads the entries again and replaces those that are chosen: the
\* sources are theirs, the text is of what was read before the await.
Chosen(c, es) == {e \in es : IdOf(e) \in writing[c].chosen}
Checkpoint(c) ==
  [kind |-> "checkpoint", num |-> writing[c].op, short |-> FALSE,
   seq |-> NextSeq(entries), at |-> 2 * convTurn.n + 1,
   covers |-> Covered(Chosen(c, entries)),
   own |-> UNION {e.own : e \in Chosen(c, writing[c].read)},
   echo |-> writing[c].latest]

\* Mutant of StillRead: it is enough that something chosen is still there.
StillReadInPart(c) == writing[c].chosen \cap Ids(entries) # {}

\* _replace_generation() commits only over the entries the caller has read.
StillRead(c) == Ids(entries) = Ids(writing[c].read)

TextCommitted(c) ==
  /\ writing[c].op # 0 /\ StillRead(c)
  /\ LET all == (entries \ Chosen(c, entries)) \cup {Checkpoint(c)}
     IN entries' = Numbered(all, BySeq(all))
  /\ RowEnds(c) /\ Ended(c) /\ Given(c, entries')
  /\ UNCHANGED <<archived, hiding, closed, taken, ctxTally>>

\* Mutant of TextRefused: the caller goes on with the entries it had read.
TextRefusedStale(c) ==
  /\ writing[c].op # 0
  /\ RowEnds(c) /\ Ended(c) /\ Given(c, writing[c].read)
  /\ UNCHANGED <<entries, archived, hiding, closed, taken, ctxTally>>

\* The entries have changed, or the text is empty, too long, without its
\* sections, or the call raised: the caller goes on with fresh entries.
TextRefused(c) ==
  /\ writing[c].op # 0
  /\ RowEnds(c) /\ Ended(c) /\ Given(c, entries)
  /\ UNCHANGED <<entries, archived, hiding, closed, taken, ctxTally>>

PageCompacts ==
  /\ writing["page"].op = 0 /\ entries # {}
  /\ Compacts("page", TRUE)
  /\ UNCHANGED <<archived, hiding, closed, taken>>

-----------------------------------------------------------------------------
(* A turn of the conversation.                                             *)

TurnBegins ==
  /\ convTurn.at = "idle" /\ convTurn.n < MaxCtxTurns
  /\ convTurn' = [n |-> convTurn.n + 1, at |-> "prompt", overflowed |-> FALSE]
  /\ UNCHANGED <<entries, archived, hiding, running, writing, closed, taken,
                 prompted, ctxTally>>

BuildsPrompt ==
  /\ convTurn.at \in {"prompt", "rebuild"} /\ writing["turn"].op = 0
  /\ Compacts("turn", convTurn.at = "rebuild")
  /\ UNCHANGED <<archived, hiding, closed, taken>>

\* ensure_generation() with another prompt, tools, or model: the entries of
\* the old generation are deleted.  The prompt is built anew, unless the
\* turn's protocol has begun.
IdentityChanges ==
  /\ convTurn.at # "idle" /\ writing["turn"].op = 0
  /\ Faults
  /\ entries' = {} /\ taken' = {}
  /\ \/ convTurn' = [convTurn EXCEPT !.at = "prompt"]
     \/ convTurn.at = "model" /\ UNCHANGED convTurn
  /\ UNCHANGED <<archived, hiding, running, writing, closed, prompted>>

\* The request exceeds the model's window, once in a turn: the prompt is
\* built anew with a forced compaction; a turn this does not help fails.
Overflows ==
  /\ convTurn.at = "model" /\ ~convTurn.overflowed
  /\ convTurn' = [convTurn EXCEPT !.at = "rebuild", !.overflowed = TRUE]
  /\ UNCHANGED <<entries, archived, hiding, running, writing, closed, taken,
                 prompted, ctxTally>>

TurnOver ==
  /\ convTurn' = [convTurn EXCEPT !.at = "idle"]
  /\ closed' = closed \cup {convTurn.n}
  /\ prompted' = {}

\* append_turn(), after which _prune_locked() drops the oldest entries, and
\* the end of the turn in the event log.
TurnAnswered ==
  /\ convTurn.at = "model"
  /\ LET all == entries \cup {TurnEntry(convTurn.n, NextSeq(entries))}
         kept == {e \in all : Cardinality(After(all, e)) < MaxEntries}
     IN /\ entries' = Numbered(kept, BySeq(kept))
        /\ taken' = (taken \cup {convTurn.n}) \cap Covered(kept)
  /\ TurnOver
  /\ UNCHANGED <<archived, hiding, running, writing, ctxTally>>

\* The turn fails or is cancelled, also while it waits for a text.
TurnFails ==
  /\ convTurn.at # "idle"
  /\ TurnOver /\ Ended("turn") /\ RowEnds("turn")
  /\ UNCHANGED <<entries, archived, hiding, taken, ctxTally>>

-----------------------------------------------------------------------------
(* The archive, a clear of the chat, and a restart.                        *)

ArchiveHides ==
  /\ hiding = {}
  /\ \E last \in closed \ archived :
       LET batch == {n \in closed \ archived : n <= last}
       IN archived' = archived \cup batch /\ hiding' = batch
  /\ UNCHANGED <<entries, running, writing, convTurn, closed, taken, prompted, ctxTally>>

\* rotate_for_hidden_sources(): every entry with a hidden source goes, and
\* the summaries of the archived turns that were covered come.
Affected == {e \in entries : e.covers \cap hiding # {}}
ArchiveSummaries ==
  {[kind |-> "summary", num |-> n, short |-> FALSE, seq |-> NextSeq(entries) + n,
    at |-> 2 * convTurn.n + 1, covers |-> {n}, own |-> {}, echo |-> {}] :
     n \in hiding \cap Covered(entries)}

TranscriptRotates ==
  /\ hiding # {}
  /\ LET all == (entries \ Affected) \cup ArchiveSummaries
     IN entries' = Numbered(all, ByTime(all)) /\ taken' = taken \cap Covered(all)
  /\ hiding' = {}
  /\ UNCHANGED <<archived, running, writing, convTurn, closed, prompted, ctxTally>>

\* clear_session_async(): the log, the archive and the transcript are empty.
ChatCleared ==
  /\ Faults
  /\ entries' = {} /\ taken' = {} /\ running' = 0
  /\ closed' = {} /\ archived' = {} /\ hiding' = {}
  /\ UNCHANGED <<writing, convTurn, prompted>>

\* _repair_locked() at the next start: rows 'started' become 'abandoned'.
ContextRestarts ==
  /\ Faults
  /\ running' = 0 /\ writing' = [c \in Callers |-> Nothing]
  /\ IF convTurn.at = "idle" THEN UNCHANGED <<convTurn, closed, prompted>> ELSE TurnOver
  /\ UNCHANGED <<entries, archived, hiding, taken>>

ContextNext ==
  \/ \E c \in Callers : TextCommitted(c) \/ TextRefused(c)
  \/ PageCompacts \/ TurnBegins \/ BuildsPrompt \/ IdentityChanges \/ Overflows
  \/ TurnAnswered \/ TurnFails \/ ArchiveHides \/ TranscriptRotates \/ ChatCleared
  \/ ContextRestarts

ContextSpec == ContextInit /\ [][ContextNext]_contextVars

-----------------------------------------------------------------------------
(* Correctness.                                                            *)

\* The variables have their types.
ContextTypeOK ==
  /\ \A e \in entries : /\ e.kind \in {"turn", "checkpoint", "summary"}
                       /\ e.num \in Nat /\ e.short \in BOOLEAN
                       /\ e.seq \in 1 .. Cardinality(entries) /\ e.at \in Nat
                       /\ e.covers \cup e.own \cup e.echo \subseteq CtxTurns
  /\ archived \cup hiding \cup closed \cup taken \subseteq CtxTurns
  /\ running \in 0 .. MaxCheckpoints
  /\ DOMAIN writing = Callers
  /\ \A c \in Callers : /\ writing[c].op \in 0 .. MaxCheckpoints
                         /\ writing[c].latest \subseteq CtxTurns
  /\ convTurn \in [n : 0 .. MaxCtxTurns, at : {"idle", "prompt", "rebuild", "model"},
                   overflowed : BOOLEAN]
  /\ ctxTally \in [texts : 0 .. MaxCheckpoints, faults : 0 .. MaxCtxFaults]

\* What the transcript has taken and not given up is covered once: no
\* compaction loses a turn that ended while its text was written, or counts
\* one twice.
ToldOnce ==
  /\ taken \subseteq Covered(entries)
  /\ \A d, e \in entries : d # e => d.covers \cap e.covers = {}

\* Once the transcript is rotated, no entry is made from an archived turn:
\* a text written from entries that the archive has hidden in the meantime
\* is not committed.
ArchivedUntold == \A e \in entries : e.own \cap (archived \ hiding) = {}

\* A row that says 'started' refuses every other compaction of the scope:
\* there is one only while somebody waits for its text.
StartedIsAlive == running # 0 => \E c \in Callers : writing[c].op = running

\* The transcript tells the truth about the conversation, whoever meets at
\* the await for a text.
TranscriptTellsTruth == ToldOnce /\ ArchivedUntold /\ StartedIsAlive

\* The model is given the entries as they are when the prompt is made, also
\* after a text was refused because they had changed while it was written.
PromptIsCurrent ==
  [][prompted' # prompted => prompted' \in {{}, entries'}]_contextVars

\* Rotation takes what it hides out of what the model is told (refuted: the
\* text of a later checkpoint continues that of an earlier one, without its
\* sources).
NoEchoOfArchived == \A e \in entries : e.echo \cap (archived \ hiding) = {}
=============================================================================
