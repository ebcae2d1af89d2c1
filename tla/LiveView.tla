------------------------------ MODULE LiveView ------------------------------
(***************************************************************************)
(* The live view of a WebUI session: the gateway that submits turns and    *)
(* tells how they end (core/webui/interaction/gateway.py), the bounded     *)
(* EventHub with its replay (events.py), and the page in the browser that  *)
(* merges the events with the history it loads (meow-chat-app.ts).         *)
(*                                                                         *)
(* History and stream are two roads to one page, and neither is complete:  *)
(* the hub forgets, the connection drops, the server restarts, and a       *)
(* history is read at one moment and applied at another.  The ways in      *)
(* which a reply is known to miss the page are named in mishaps; that      *)
(* there are no others is what the module is about.                        *)
(***************************************************************************)
EXTENDS Integers, Sequences, FiniteSets, SequencesExt, QueueFilter

CONSTANTS
  ViewTurns,    \* the submissions of the session
  MaxHub,       \* max_events_per_session
  MaxSent,      \* bound: the events of one server
  MaxServers,   \* bound: starts of the server
  MaxViews,     \* bound: times the page is opened
  MaxDrops      \* bound: connections that break

ASSUME LiveViewAssumption ==
  /\ {MaxHub, MaxServers} \subseteq Nat \ {0}
  /\ {MaxSent, MaxViews, MaxDrops} \subseteq Nat

VARIABLES
  hub,      \* the events of the session this server still has
  gate,     \* turn -> how far submit() and _run_turn() have come
  run,      \* turn -> what the ledger would say of it
  replies,  \* the messages published so far ...
  ledger,   \* ... and those the event log has
  verdicts,     \* turn -> the verdicts published about it
  reader,   \* the server's end of the page's event stream
  page,     \* the browser's page
  mishaps   \* what has happened to the page that it does not recover from

liveVars == <<hub, gate, run, replies, ledger, verdicts, reader, page, mishaps>>

NoId == <<0, 0>>
NoCut == [taken |-> FALSE, replies |-> {}, turns |-> {}]
NoReader == [open |-> FALSE, last |-> 0, pending |-> <<>>]
ClosedPage == [mode |-> "closed", cause |-> "select", url |-> NoId, header |-> NoId,
               resume |-> NoId, latest |-> 0, held |-> <<>>, cut |-> NoCut,
               base |-> NoCut, shown |-> {}, fixing |-> {}, views |-> 0, drops |-> 0]

IdOf(e) == <<e.server, e.seq>>
ReplyOf(e) == [id |-> IdOf(e), turn |-> e.turn]
Ids == (0 .. MaxServers) \X (0 .. MaxSent)
Verdicts == {"completed", "failed"}

LiveInit ==
  /\ hub = [server |-> 1, sequence |-> 0, events |-> <<>>]
  /\ gate = [t \in ViewTurns |-> "new"]
  /\ run = [t \in ViewTurns |-> "none"]
  /\ replies = {} /\ ledger = {}
  /\ verdicts = [t \in ViewTurns |-> {}]
  /\ reader = NoReader
  /\ page = ClosedPage
  /\ mishaps = {}

-----------------------------------------------------------------------------
(* The hub.                                                                *)

Numbered(t, kinds) ==
  [i \in 1 .. Len(kinds) |-> [server |-> hub.server, seq |-> hub.sequence + i,
                              kind |-> kinds[i], turn |-> t, resume |-> NoId]]

\* What a deque of MaxHub keeps of a sequence.
Bounded(events) ==
  IF Len(events) <= MaxHub THEN events
  ELSE SubSeq(events, Len(events) - MaxHub + 1, Len(events))

\* An open stream that has not read an event before it is evicted never sees
\* it, and is not told.
Overruns(events) ==
  /\ reader.open
  /\ \E i \in 1 .. Len(events) - MaxHub : events[i].seq > reader.last

Publish(t, kinds) ==
  LET all == hub.events \o Numbered(t, kinds)
  IN /\ hub.sequence + Len(kinds) <= MaxSent
     /\ hub' = [hub EXCEPT !.sequence = @ + Len(kinds), !.events = Bounded(all)]
     /\ verdicts' = [verdicts EXCEPT ![t] = @ \union (ToSet(kinds) \intersect Verdicts)]
     /\ mishaps' = IF Overruns(all) THEN mishaps \union {"overrun"} ELSE mishaps

Quiet == UNCHANGED <<hub, verdicts, mishaps>>
HasEvent(t, kinds) == \E e \in ToSet(hub.events) : e.turn = t /\ e.kind \in kinds
HasTurnEvents(t) == \E e \in ToSet(hub.events) : e.turn = t

-----------------------------------------------------------------------------
(* The gateway: submit(), _run_turn() and _wait_for_terminal().            *)

GateMoves(t, from, to) == gate[t] = from /\ gate' = [gate EXCEPT ![t] = to]
OffGate == UNCHANGED <<replies, ledger, reader, page>>

Reserve(t) == GateMoves(t, "new", "reserved") /\ Quiet /\ UNCHANGED run /\ OffGate

\* Moving the draft's uploads fails after the submission was reserved: the
\* request is answered with an error, and a retry of it as a duplicate.
ClaimFails(t) == GateMoves(t, "reserved", "lost") /\ Quiet /\ UNCHANGED run /\ OffGate

Accept(t) ==
  /\ GateMoves(t, "reserved", "routing")
  /\ Publish(t, <<"accepted">>)
  /\ UNCHANGED run /\ OffGate

RouteFails(t) ==
  /\ GateMoves(t, "routing", "over")
  /\ Publish(t, <<"failed">>)
  /\ UNCHANGED run /\ OffGate

\* The full inbox is reported through the delivery adapter, from inside the
\* route.
Backpressure(t) ==
  /\ GateMoves(t, "routing", "polling")
  /\ Publish(t, <<"backpressure", "failed">>)
  /\ UNCHANGED run /\ OffGate

Routed(t) ==
  /\ GateMoves(t, "routing", "polling")
  /\ run' = [run EXCEPT ![t] = "queued"]
  /\ Quiet /\ OffGate

InLedger(t) == run[t] \in {"open"} \union Verdicts

\* A mutant: a turn the ledger does not have is complete if it had an event.
FoundHasty(t) ==
  CASE run[t] \in Verdicts -> run[t]
    [] ~InLedger(t) /\ HasTurnEvents(t) -> "completed"
    [] OTHER -> "nothing"

\* What one poll finds: the verdict of the ledger; of a turn the ledger does
\* not have, that it failed already, or that it must be complete since it
\* had an event.
Found(t) ==
  CASE run[t] \in Verdicts -> run[t]
    [] ~InLedger(t) /\ HasEvent(t, {"failed"}) -> "told"
    [] ~InLedger(t) /\ ~HasEvent(t, {"failed"}) /\ HasTurnEvents(t) -> "completed"
    [] OTHER -> "nothing"

PollTells(t) ==
  /\ GateMoves(t, "polling", "over")
  /\ Found(t) # "nothing"
  /\ IF Found(t) = "told" THEN Quiet ELSE Publish(t, <<Found(t)>>)
  /\ UNCHANGED run /\ OffGate

\* The last of its polls finds nothing; it sleeps once more and gives up.
LastPoll(t) ==
  /\ Found(t) = "nothing"
  /\ GateMoves(t, "polling", "last")
  /\ Quiet /\ UNCHANGED run /\ OffGate

PollTimesOut(t) ==
  /\ GateMoves(t, "last", "over")
  /\ Publish(t, <<"failed">>)
  /\ UNCHANGED run /\ OffGate

-----------------------------------------------------------------------------
(* The turn itself, run by the conversation's consumer.                    *)

OffRun == UNCHANGED <<gate, reader, page>>

TurnStarts(t) ==
  /\ run[t] = "queued"
  /\ run' = [run EXCEPT ![t] = "open"]
  /\ Quiet /\ OffRun /\ UNCHANGED <<replies, ledger>>

\* A reply is published by the delivery adapter ...
Replies(t) ==
  /\ run[t] = "open"
  /\ Publish(t, <<"reply">>)
  /\ replies' = replies \union {[id |-> <<hub.server, hub.sequence + 1>>, turn |-> t]}
  /\ OffRun /\ UNCHANGED <<run, ledger>>

\* ... and appended to the event log when its receipt is settled.
Records(r) ==
  /\ r \in replies \ ledger
  /\ ledger' = ledger \union {r}
  /\ Quiet /\ OffRun /\ UNCHANGED <<run, replies>>

TurnEnds(t) ==
  /\ run[t] = "open"
  /\ \E v \in Verdicts : run' = [run EXCEPT ![t] = v]
  /\ Quiet /\ OffRun /\ UNCHANGED <<replies, ledger>>

-----------------------------------------------------------------------------
(* EventHub.stream(), the server's end of the page's connection.           *)

ResyncEvent ==
  [server |-> hub.server, seq |-> hub.sequence, kind |-> "resync", turn |-> "none",
   resume |-> IF hub.events = <<>> THEN NoId ELSE IdOf(Last(hub.events))]

\* Everything published after sequence n that the hub still has.
Unread(n) == Rejecting(hub.events, {e \in ToSet(hub.events) : e.seq <= n})

\* The stream waits until there is something to yield.
Fetch ==
  /\ reader.open /\ reader.pending = <<>> /\ Unread(reader.last) # <<>>
  /\ reader' = [reader EXCEPT !.pending = Unread(reader.last), !.last = hub.sequence]
  /\ UNCHANGED <<hub, gate, run, replies, ledger, verdicts, page, mishaps>>

\* chat_events(): what the URL asks for goes before what the browser's
\* automatic reconnection reports in Last-Event-ID.
ResumeAfter == IF page.url # NoId THEN page.url ELSE page.header

\* A stream that starts at the tail after the history was read skips what was
\* published in between: of a page that has had no event yet, or of one whose
\* resync found the hub of a new server empty.
TailGap ==
  /\ ResumeAfter = NoId
  /\ page.cause = "select" \/ "restart" \in mishaps
  /\ \/ page.mode = "loading" /\ page.cut.taken /\ ~(replies \subseteq page.cut.replies)
     \/ page.mode # "loading" /\ ~(replies \subseteq page.shown)

\* A new request registers: at the tail, after the event it names, or, when
\* the hub does not have that event, with a request to resync.
Register ==
  /\ page.mode # "closed" /\ ~reader.open
  /\ LET found == {e \in ToSet(hub.events) : IdOf(e) = ResumeAfter}
     IN reader' =
          [open |-> TRUE, last |-> hub.sequence,
           pending |-> IF ResumeAfter = NoId THEN <<>>
                       ELSE IF found = {} THEN <<ResyncEvent>>
                       ELSE Unread((CHOOSE e \in found : TRUE).seq)]
  /\ mishaps' = IF TailGap THEN mishaps \union {"tail_gap"} ELSE mishaps
  /\ UNCHANGED <<hub, gate, run, replies, ledger, verdicts, page>>

\* The connection breaks: what was on its way is gone, and the browser will
\* ask again.
Drops ==
  /\ reader.open /\ page.drops < MaxDrops
  /\ reader' = NoReader
  /\ page' = [page EXCEPT !.drops = @ + 1]
  /\ UNCHANGED <<hub, gate, run, replies, ledger, verdicts, mishaps>>

-----------------------------------------------------------------------------
(* The page.                                                               *)

\* What an event does to the page: a resync reloads the history, a verdict
\* sends for the content of its turn up to the cutoff of the loaded history.
Applied(p, e) ==
  CASE e.kind = "resync" -> [p EXCEPT !.mode = "loading", !.cause = "resync", !.held = <<>>,
                                      !.cut = NoCut, !.resume = e.resume]
    [] e.kind = "reply" -> [p EXCEPT !.shown = @ \union {ReplyOf(e)}]
    [] e.kind \in Verdicts /\ e.turn \in p.base.turns ->
         [p EXCEPT !.fixing = @ \union {[turn |-> e.turn, content |->
                                          {r \in p.base.replies : r.turn = e.turn}]}]
    [] OTHER -> p

\* A mutant: events that arrive while a history is loaded are not held.
HandleAtOnce(p, e) ==
  IF e.kind # "resync" /\ e.seq <= p.latest THEN p
  ELSE Applied([p EXCEPT !.latest = IF e.seq > @ THEN e.seq ELSE @], e)

\* handleStreamEvent(): while a history is being loaded events are held;
\* afterwards those already seen are dropped by their sequence.
Hydrating(p) == p.mode \in {"loading", "stuck"}
Handle(p, e) ==
  IF Hydrating(p) THEN [p EXCEPT !.held = Append(@, e)]
  ELSE IF e.kind # "resync" /\ e.seq <= p.latest THEN p
  ELSE Applied([p EXCEPT !.latest = IF e.seq > @ THEN e.seq ELSE @], e)

OffPage == UNCHANGED <<hub, gate, run, replies, ledger, verdicts>>

Delivers ==
  /\ reader.open /\ reader.pending # <<>>
  /\ reader' = [reader EXCEPT !.pending = Tail(@)]
  /\ page' = [Handle(page, Head(reader.pending))
                EXCEPT !.header = IdOf(Head(reader.pending))]
  /\ OffPage /\ UNCHANGED mishaps

\* selectSession() of a page that was just opened: the stream is asked for
\* before the history, so that the one overlaps the other.
Opens ==
  /\ page.views < MaxViews
  /\ page' = [ClosedPage EXCEPT !.mode = "loading", !.views = page.views + 1,
                                !.drops = page.drops]
  /\ reader' = NoReader
  /\ mishaps' = {}
  /\ OffPage

\* The server reads the history: what the log has at this moment.
Snapshot ==
  /\ page.mode = "loading" /\ ~page.cut.taken
  /\ page' = [page EXCEPT !.cut = [taken |-> TRUE, replies |-> ledger,
                                   turns |-> {t \in ViewTurns : InLedger(t)}]]
  /\ mishaps' = IF replies \subseteq ledger THEN mishaps ELSE mishaps \union {"unrecorded"}
  /\ OffPage /\ UNCHANGED reader

\* The history arrives: it replaces what the page shows, and the held events
\* are handled.
Replaced == [page EXCEPT !.mode = "live", !.shown = page.cut.replies, !.base = page.cut,
                         !.cut = NoCut, !.held = <<>>]
Loaded ==
  LET handled[i \in 0 .. Len(page.held)] ==
        IF i = 0 THEN Replaced ELSE Handle(handled[i - 1], page.held[i])
  IN handled[Len(page.held)]

SelectLoads ==
  /\ page.mode = "loading" /\ page.cut.taken /\ page.cause = "select"
  /\ page' = Loaded
  /\ OffPage /\ UNCHANGED <<reader, mishaps>>

\* recoverFromResync() then opens a new stream after the last event that the
\* resync told of.
ResyncLoads ==
  /\ page.mode = "loading" /\ page.cut.taken /\ page.cause = "resync"
  /\ page' = [Loaded EXCEPT !.url = page.resume, !.header = NoId]
  /\ reader' = NoReader
  /\ OffPage /\ UNCHANGED mishaps

\* A page whose first load fails holds every event from then on; a recovery
\* that fails asks the user to reload.
LoadFails ==
  /\ page.mode = "loading"
  /\ page' = [page EXCEPT !.mode = IF page.cause = "select" THEN "stuck" ELSE "live",
                          !.cut = NoCut]
  /\ mishaps' = mishaps \union {"load_failed"}
  /\ OffPage /\ UNCHANGED reader

\* correctCompletedTurn() answers: the turn's content up to the cutoff, and
\* nothing of what was shown since.
Corrects(f) ==
  /\ f \in page.fixing
  /\ LET others == {r \in page.shown : r.turn # f.turn}
     IN /\ page' = [page EXCEPT !.fixing = @ \ {f}, !.shown = others \union f.content]
        /\ mishaps' = IF page.shown \subseteq page'.shown THEN mishaps
                      ELSE mishaps \union {"cut_off"}
  /\ OffPage /\ UNCHANGED reader

\* The server restarts: the hub and the gateway's tasks are memory.
ServerRestarts ==
  /\ hub.server < MaxServers
  /\ hub' = [server |-> hub.server + 1, sequence |-> 0, events |-> <<>>]
  /\ gate' = [t \in ViewTurns |-> IF gate[t] \in {"new", "over"} THEN gate[t] ELSE "lost"]
  /\ run' = [t \in ViewTurns |-> CASE run[t] = "queued" -> "none"
                                   [] run[t] = "open" -> "failed"
                                   [] OTHER -> run[t]]
  /\ reader' = NoReader
  /\ mishaps' = mishaps \union {"restart"}
  /\ UNCHANGED <<replies, ledger, verdicts, page>>

LiveNext ==
  \/ \E t \in ViewTurns :
       \/ Reserve(t) \/ ClaimFails(t) \/ Accept(t) \/ RouteFails(t) \/ Backpressure(t)
       \/ Routed(t) \/ PollTells(t) \/ LastPoll(t) \/ PollTimesOut(t)
       \/ TurnStarts(t) \/ Replies(t) \/ TurnEnds(t)
  \/ \E r \in replies : Records(r)
  \/ Fetch \/ Register \/ Drops \/ Delivers
  \/ Opens \/ Snapshot \/ SelectLoads \/ ResyncLoads \/ LoadFails
  \/ \E f \in page.fixing : Corrects(f)
  \/ ServerRestarts

LiveSpec == LiveInit /\ [][LiveNext]_liveVars

-----------------------------------------------------------------------------
(* Properties.                                                             *)

ReplyIds == [id : Ids, turn : ViewTurns]
StreamEvents == [server : 1 .. MaxServers, seq : 0 .. MaxSent, turn : ViewTurns \union {"none"},
           kind : {"accepted", "backpressure", "reply", "resync"} \union Verdicts,
           resume : Ids]

LiveTypeOK ==
  /\ hub.server \in 1 .. MaxServers /\ hub.sequence \in 0 .. MaxSent
  /\ ToSet(hub.events) \subseteq StreamEvents /\ Len(hub.events) <= MaxHub
  /\ gate \in [ViewTurns -> {"new", "reserved", "routing", "polling", "last", "over", "lost"}]
  /\ run \in [ViewTurns -> {"none", "queued", "open"} \union Verdicts]
  /\ ledger \subseteq replies /\ replies \subseteq ReplyIds
  /\ verdicts \in [ViewTurns -> SUBSET Verdicts]
  /\ reader.open \in BOOLEAN /\ reader.last \in 0 .. MaxSent
  /\ ToSet(reader.pending) \subseteq StreamEvents
  /\ page.mode \in {"closed", "loading", "stuck", "live"}
  /\ page.cause \in {"select", "resync"}
  /\ {page.url, page.header, page.resume} \subseteq Ids
  /\ page.latest \in 0 .. MaxSent /\ ToSet(page.held) \subseteq StreamEvents
  /\ page.shown \subseteq replies /\ page.cut.replies \union page.base.replies \subseteq ledger
  /\ mishaps \subseteq {"overrun", "tail_gap", "unrecorded", "load_failed", "cut_off", "restart"}

\* The user is never told of one turn both that it completed and that it
\* failed, whichever of the inbox, the route, the ledger and the poll says so
\* first, and whatever the hub has forgotten by then.
VerdictsAgree == \A t \in DOMAIN verdicts : verdicts[t] # Verdicts

\* A page that has handled everything its stream will give it.
UpToDate ==
  /\ page.mode = "live" /\ reader.open
  /\ reader.pending = <<>> /\ Unread(reader.last) = <<>>

\* Through evictions, dropped connections, resyncs and loads that overlap
\* them, a page that is up to date shows every reply of the session, unless
\* one of the mishaps happened to it.
UpToDateShowsAll == UpToDate /\ mishaps = {} => replies \subseteq page.shown

\* "Durable conversation history remains the source for resync after process
\* restarts or event eviction" (core/webui/interaction/events.py:17): a page
\* that lived through a restart, and nothing else, is brought up to date by
\* the resync.
RestartIsResynced == UpToDate /\ mishaps \subseteq {"restart"} => replies \subseteq page.shown

=============================================================================
