--------------------------- MODULE LiveViewProofs ---------------------------
(***************************************************************************)
(* Theorems about LiveView, for any turns and sizes of the hub: the types, *)
(* that one verdict is told of a turn, and that a page which is up to date *)
(* shows every reply unless one of the mishaps happened to it.             *)
(***************************************************************************)
EXTENDS LiveView, QueueFilterProofs

-----------------------------------------------------------------------------
(* Types.  What the page shows was published, since every event of a reply *)
(* is that of a reply.                                                     *)

Cuts == [taken : BOOLEAN, replies : SUBSET ReplyIds, turns : SUBSET ViewTurns]
Pages ==
  [mode : {"closed", "loading", "stuck", "live"}, cause : {"select", "resync"},
   url : Ids, header : Ids, resume : Ids, latest : 0 .. MaxSent, held : Seq(StreamEvents),
   cut : Cuts, base : Cuts, shown : SUBSET ReplyIds,
   fixing : SUBSET [turn : ViewTurns, content : SUBSET ReplyIds],
   views : Nat, drops : Nat]
Mishaps == {"overrun", "tail_gap", "unrecorded", "load_failed", "cut_off", "restart"}

LiveTypes ==
  /\ hub \in [server : 1 .. MaxServers, sequence : 0 .. MaxSent, events : Seq(StreamEvents)]
  /\ gate \in [ViewTurns -> {"new", "reserved", "routing", "polling", "last", "over", "lost"}]
  /\ run \in [ViewTurns -> {"none", "queued", "open"} \union Verdicts]
  /\ replies \in SUBSET ReplyIds /\ ledger \in SUBSET replies
  /\ verdicts \in [ViewTurns -> SUBSET Verdicts]
  /\ reader \in [open : BOOLEAN, last : 0 .. MaxSent, pending : Seq(StreamEvents)]
  /\ mishaps \in SUBSET Mishaps

\* An event of a reply is that of a message that was published.
Real(e) == e.kind = "reply" => ReplyOf(e) \in replies
AllReal(events) == \A i \in 1 .. Len(events) : Real(events[i])

\* A page shows what was published, and has loaded what was recorded.
GoodPage(p) ==
  /\ p \in Pages
  /\ p.shown \subseteq replies
  /\ p.cut.replies \subseteq ledger /\ p.base.replies \subseteq ledger
  /\ \A f \in p.fixing : f.content \subseteq ledger
  /\ AllReal(p.held)

LiveTypeInv ==
  /\ LiveTypes
  /\ AllReal(hub.events) /\ AllReal(reader.pending)
  /\ GoodPage(page)

-----------------------------------------------------------------------------
(* The hub.                                                                *)

Kept == hub.sequence - Len(hub.events)

\* The hub has the last events of this server, numbered without a gap.
HubTrue ==
  /\ Len(hub.events) = IF hub.sequence <= MaxHub THEN hub.sequence ELSE MaxHub
  /\ \A i \in 1 .. Len(hub.events) :
       /\ hub.events[i].server = hub.server
       /\ hub.events[i].seq = Kept + i
       /\ hub.events[i].kind # "resync"

\* A reply of this server that was not evicted is in the hub.
RepliesKept ==
  \A r \in replies :
    /\ r.id[1] <= hub.server
    /\ r.id[1] = hub.server =>
         /\ r.id[2] \in 1 .. hub.sequence
         /\ r.id[2] > Kept => \E i \in 1 .. Len(hub.events) :
                                hub.events[i].kind = "reply" /\ ReplyOf(hub.events[i]) = r

HubInv == HubTrue /\ RepliesKept

-----------------------------------------------------------------------------
(* The verdicts.                                                           *)

\* The hub forgets a turn's failure last.
FailedLast(t) ==
  \A i \in 1 .. Len(hub.events) :
    hub.events[i].turn = t =>
      \E j \in i .. Len(hub.events) :
        hub.events[j].turn = t /\ hub.events[j].kind = "failed"

\* A turn that is polled was not spoken of, or its route failed it at once.
VerdictOf(t) ==
  /\ gate[t] \in {"new", "reserved", "routing"} => verdicts[t] = {} /\ run[t] = "none"
  /\ gate[t] \in {"polling", "last"} =>
       \/ run[t] # "none" /\ verdicts[t] = {}
       \/ run[t] = "none" /\ verdicts[t] = {"failed"} /\ FailedLast(t)
  /\ verdicts[t] # Verdicts

VerdictInv == \A t \in ViewTurns : VerdictOf(t)

-----------------------------------------------------------------------------
(* The page.                                                               *)

\* The page has handled an event with sequence n or a later one, or holds one.
Seen(p, n) == n <= p.latest \/ \E i \in 1 .. Len(p.held) : n <= p.held[i].seq

\* The page shows r, or will when it has loaded: it is in the history, or is
\* held and will not be taken for one already seen, or there will be another
\* history.
Covers(p, r) ==
  IF p.mode = "live" THEN r \in p.shown
  ELSE \/ ~p.cut.taken
       \/ r \in p.cut.replies
       \/ \E i \in 1 .. Len(p.held) :
            \/ p.held[i].kind = "resync"
            \/ /\ p.held[i].kind = "reply" /\ ReplyOf(p.held[i]) = r
               /\ p.held[i].seq > p.latest
               /\ \A j \in 1 .. i - 1 : p.held[j].seq < p.held[i].seq

\* An event of this server, which may tell of the place at which to resume.
Past(e) ==
  /\ e.server = hub.server /\ e.seq \in 1 .. hub.sequence
  /\ e.kind = "resync" => e.resume = IdOf(e)

\* An id after which the page asks to resume.
SeenId(id) ==
  \/ id = NoId
  \/ id[1] = hub.server /\ id[2] \in 1 .. hub.sequence /\ Seen(page, id[2])

PageTrue ==
  /\ page.mode \in {"loading", "live"}
  /\ page.mode = "live" => page.held = <<>>
  /\ page.latest <= hub.sequence
  /\ \A i \in 1 .. Len(page.held) : Past(page.held[i])
  /\ SeenId(page.url) /\ SeenId(page.header)
  /\ page.cause = "resync" => SeenId(page.resume) /\ page.resume # NoId
  /\ page.cause = "resync" \/ page.held # <<>> => page.url # NoId \/ page.header # NoId

\* What was seen, and what other servers published, is covered.
SeenCovered ==
  \A r \in replies : r.id[1] # hub.server \/ Seen(page, r.id[2]) => Covers(page, r)

\* What the stream will still give the page.
Coming(r) ==
  \/ r.id[2] > reader.last
  \/ \E i \in 1 .. Len(reader.pending) :
       \/ reader.pending[i].kind = "resync"
       \/ reader.pending[i].kind = "reply" /\ ReplyOf(reader.pending[i]) = r

StreamTrue ==
  /\ reader.last <= hub.sequence /\ Kept <= reader.last
  /\ \A i \in 1 .. Len(reader.pending) :
       /\ Past(reader.pending[i]) /\ reader.pending[i].seq <= reader.last
       /\ reader.pending[i].kind = "resync" => Len(reader.pending) = 1
       /\ \A j \in 1 .. i - 1 : reader.pending[j].seq < reader.pending[i].seq
  /\ \A r \in replies : Covers(page, r) \/ Coming(r)

Clean == mishaps = {} /\ page.mode # "closed"
ViewInv == Clean => PageTrue /\ SeenCovered /\ (reader.open => StreamTrue)

LiveInv == LiveTypeInv /\ HubInv /\ VerdictInv /\ ViewInv

-----------------------------------------------------------------------------
(* Handling events, and a page that has loaded its history.                *)

LEMMA LiveFacts ==
  /\ MaxHub \in Nat /\ MaxHub >= 1 /\ MaxServers \in Nat /\ MaxServers >= 1
  /\ MaxSent \in Nat /\ MaxViews \in Nat /\ MaxDrops \in Nat
BY LiveViewAssumption

LEMMA EventFacts ==
  ASSUME NEW e \in StreamEvents
  PROVE  /\ e.server \in 1 .. MaxServers /\ e.seq \in 0 .. MaxSent
         /\ e.turn \in ViewTurns \union {"none"} /\ e.resume \in Ids
         /\ e.kind \in {"accepted", "backpressure", "reply", "resync", "completed", "failed"}
         /\ IdOf(e) \in Ids /\ IdOf(e)[1] = e.server /\ IdOf(e)[2] = e.seq
         /\ IdOf(e) # NoId
  BY LiveFacts DEF StreamEvents, Verdicts, IdOf, Ids, NoId

\* One event more, at the end.
LEMMA OneMore ==
  ASSUME NEW s \in Seq(StreamEvents), NEW e \in StreamEvents
  PROVE  /\ Append(s, e) \in Seq(StreamEvents)
         /\ Len(s) \in Nat /\ Len(Append(s, e)) = Len(s) + 1
         /\ \A i \in 1 .. Len(s) : Append(s, e)[i] = s[i]
         /\ Append(s, e)[Len(s) + 1] = e
         /\ \A i \in 1 .. Len(Append(s, e)) : i \in 1 .. Len(s) \/ i = Len(s) + 1
<1>1. /\ Append(s, e) \in Seq(StreamEvents) /\ Len(Append(s, e)) = Len(s) + 1
      /\ \A i \in 1 .. Len(s) : Append(s, e)[i] = s[i]
      /\ Append(s, e)[Len(s) + 1] = e
  BY AppendProperties
<1>2. Len(s) \in Nat BY LenProperties
<1> QED BY <1>1, <1>2

LEMMA HeldItem ==
  ASSUME NEW s \in Seq(StreamEvents), NEW i \in 1 .. Len(s)
  PROVE  s[i] \in StreamEvents
  BY ElementOfSeq

\* Handling one event keeps a page good.
LEMMA HandleGood ==
  ASSUME NEW p, GoodPage(p), replies \subseteq ReplyIds, ledger \subseteq replies,
         NEW e \in StreamEvents, Real(e)
  PROVE  GoodPage(Handle(p, e))
<1>0. p \in Pages /\ p.held \in Seq(StreamEvents) /\ p.base \in Cuts
  BY DEF GoodPage, Pages
<1>1. CASE Hydrating(p)
  <2>1. Handle(p, e) = [p EXCEPT !.held = Append(@, e)] BY <1>1 DEF Handle
  <2>2. /\ Append(p.held, e) \in Seq(StreamEvents)
        /\ \A i \in 1 .. Len(p.held) : Append(p.held, e)[i] = p.held[i]
        /\ Append(p.held, e)[Len(p.held) + 1] = e
        /\ \A i \in 1 .. Len(Append(p.held, e)) : i \in 1 .. Len(p.held) \/ i = Len(p.held) + 1
    BY <1>0, OneMore
  <2>3. AllReal(Append(p.held, e))
    <3>1. ASSUME NEW i \in 1 .. Len(Append(p.held, e)) PROVE Real(Append(p.held, e)[i])
      <4>1. CASE i \in 1 .. Len(p.held) BY <4>1, <2>2 DEF GoodPage, AllReal
      <4>2. CASE i = Len(p.held) + 1 BY <4>2, <2>2
      <4> QED BY <4>1, <4>2, <2>2
    <3> QED BY <3>1 DEF AllReal
  <2>4. [p EXCEPT !.held = Append(@, e)] \in Pages BY <1>0, <2>2 DEF Pages
  <2>5. [p EXCEPT !.held = Append(@, e)].held = Append(p.held, e) BY <1>0 DEF Pages
  <2> QED BY <2>1, <2>3, <2>4, <2>5, <1>0 DEF GoodPage, Pages
<1>2. CASE ~Hydrating(p) /\ e.kind # "resync" /\ e.seq <= p.latest
  BY <1>2 DEF Handle
<1>3. CASE ~Hydrating(p) /\ ~(e.kind # "resync" /\ e.seq <= p.latest)
  <2> DEFINE q == [p EXCEPT !.latest = IF e.seq > @ THEN e.seq ELSE @]
  <2>1. Handle(p, e) = Applied(q, e) BY <1>3 DEF Handle
  <2>2. q \in Pages BY <1>0, EventFacts DEF Pages
  <2>3. GoodPage(q)
    BY <1>0, <2>2 DEF GoodPage, Pages
  <2> HIDE DEF q
  <2>4. CASE e.kind = "resync"
    <3> DEFINE h == [q EXCEPT !.mode = "loading", !.cause = "resync", !.held = <<>>,
                              !.cut = NoCut, !.resume = e.resume]
    <3>1. Applied(q, e) = h BY <2>4 DEF Applied, Verdicts
    <3>2. NoCut \in Cuts /\ NoCut.replies = {} BY DEF NoCut, Cuts
    <3>3. <<>> \in Seq(StreamEvents) /\ AllReal(<<>>) BY EmptySeq DEF AllReal
    <3>4. h \in Pages BY <2>2, <3>2, <3>3, EventFacts DEF Pages
    <3>5. GoodPage(h) BY <2>3, <3>2, <3>3, <3>4 DEF GoodPage, Pages
    <3> QED BY <3>1, <3>5, <2>1
  <2>5. CASE e.kind = "reply"
    <3> DEFINE h == [q EXCEPT !.shown = @ \union {ReplyOf(e)}]
    <3>1. Applied(q, e) = h BY <2>5 DEF Applied, Verdicts
    <3>2. ReplyOf(e) \in replies BY <2>5 DEF Real
    <3>3. h \in Pages BY <2>2, <3>2 DEF Pages
    <3>4. GoodPage(h) BY <2>3, <3>2, <3>3 DEF GoodPage, Pages
    <3> QED BY <3>1, <3>4, <2>1
  <2>6. CASE e.kind \in Verdicts /\ e.turn \in q.base.turns
    <3> DEFINE f == [turn |-> e.turn, content |-> {r \in q.base.replies : r.turn = e.turn}]
               h == [q EXCEPT !.fixing = @ \union {f}]
    <3>1. Applied(q, e) = h BY <2>6 DEF Applied, Verdicts
    <3>2. q.base \in Cuts BY <2>2 DEF Pages
    <3>3. f.content \subseteq ledger /\ e.turn \in ViewTurns BY <2>6, <2>3, <3>2 DEF GoodPage, Cuts
    <3>4. f \in [turn : ViewTurns, content : SUBSET ReplyIds] BY <3>3
    <3> HIDE DEF f
    <3>5. h \in Pages BY <2>2, <3>4 DEF Pages
    <3>6. GoodPage(h) BY <2>3, <3>3, <3>5 DEF GoodPage, Pages
    <3> QED BY <3>1, <3>6, <2>1
  <2>7. CASE ~(e.kind \in {"resync", "reply"}) /\ ~(e.kind \in Verdicts /\ e.turn \in q.base.turns)
    <3>1. Applied(q, e) = q BY <2>7 DEF Applied
    <3> QED BY <3>1, <2>1, <2>3
  <2> QED BY <2>4, <2>5, <2>6, <2>7
<1> QED BY <1>1, <1>2, <1>3

\* What handling an event does to what the page has seen and to what it covers.
LEMMA HandleCovers ==
  ASSUME NEW p \in Pages, p.mode \in {"live", "loading"}, p.mode = "live" => p.held = <<>>,
         NEW e \in StreamEvents
  PROVE  LET h == Handle(p, e) IN
         /\ h.mode \in {"live", "loading"} /\ (h.mode = "live" => h.held = <<>>)
         /\ \A n \in Nat : Seen(h, n) <=> Seen(p, n) \/ n <= e.seq
         /\ \A r : \/ Covers(p, r)
                   \/ e.kind = "resync"
                   \/ e.kind = "reply" /\ ReplyOf(e) = r /\ ~Seen(p, e.seq)
                   => Covers(h, r)
         /\ h.url = p.url /\ h.header = p.header /\ h.latest \in {p.latest, e.seq}
         /\ \/ h.cause = p.cause /\ h.resume = p.resume
            \/ e.kind = "resync" /\ h.cause = "resync" /\ h.resume = e.resume
         /\ \A i \in 1 .. Len(h.held) :
              h.held[i] = e \/ \E j \in 1 .. Len(p.held) : h.held[i] = p.held[j]
<1> DEFINE h == Handle(p, e)
<1>0. /\ p.held \in Seq(StreamEvents) /\ Len(p.held) \in Nat /\ p.latest \in Nat /\ e.seq \in Nat
      /\ \A i \in 1 .. Len(p.held) : p.held[i].seq \in Nat
  <2>1. p.held \in Seq(StreamEvents) BY DEF Pages
  <2>2. p.latest \in Nat /\ e.seq \in Nat BY LiveFacts, EventFacts DEF Pages
  <2> QED BY <2>1, <2>2, LenProperties, HeldItem, EventFacts, LiveFacts
<1>1. CASE p.mode = "loading"
  <2> DEFINE n == Len(p.held)
  <2>1. h = [p EXCEPT !.held = Append(@, e)] BY <1>1 DEF Handle, Hydrating
  <2>2. /\ h.mode = p.mode /\ h.cause = p.cause /\ h.resume = p.resume /\ h.cut = p.cut
        /\ h.url = p.url /\ h.header = p.header /\ h.latest = p.latest
        /\ h.held = Append(p.held, e)
    BY <2>1 DEF Pages
  <2> HIDE DEF h
  <2>3. /\ Len(h.held) = n + 1 /\ n \in Nat
        /\ \A i \in 1 .. n : h.held[i] = p.held[i]
        /\ h.held[n + 1] = e
        /\ \A i \in 1 .. n + 1 : i \in 1 .. n \/ i = n + 1
        /\ \A i \in 1 .. n : i \in 1 .. n + 1
        /\ n + 1 \in 1 .. n + 1
    BY <1>0, <2>2, OneMore
  <2> HIDE DEF n
  <2>4. \A k \in Nat : Seen(h, k) <=> Seen(p, k) \/ k <= e.seq
    BY <2>2, <2>3 DEF Seen, n
  <2>5. ASSUME NEW r, \/ Covers(p, r)
                      \/ e.kind = "resync"
                      \/ e.kind = "reply" /\ ReplyOf(e) = r /\ ~Seen(p, e.seq)
        PROVE  Covers(h, r)
    <3>0. h.mode # "live" /\ p.mode # "live" BY <1>1, <2>2
    <3>1. CASE ~p.cut.taken \/ r \in p.cut.replies BY <3>0, <3>1, <2>2 DEF Covers
    <3>2. CASE e.kind = "resync" BY <3>0, <3>2, <2>3 DEF Covers
    <3>3. CASE \E i \in 1 .. n :
                 \/ p.held[i].kind = "resync"
                 \/ /\ p.held[i].kind = "reply" /\ ReplyOf(p.held[i]) = r
                    /\ p.held[i].seq > p.latest
                    /\ \A j \in 1 .. i - 1 : p.held[j].seq < p.held[i].seq
      <4>1. PICK i \in 1 .. n :
                 \/ p.held[i].kind = "resync"
                 \/ /\ p.held[i].kind = "reply" /\ ReplyOf(p.held[i]) = r
                    /\ p.held[i].seq > p.latest
                    /\ \A j \in 1 .. i - 1 : p.held[j].seq < p.held[i].seq
        BY <3>3
      <4>2. i \in 1 .. n + 1 /\ h.held[i] = p.held[i] BY <2>3
      <4>3. \A j \in 1 .. i - 1 : h.held[j] = p.held[j] BY <2>3
      <4> QED BY <3>0, <2>2, <2>3, <4>1, <4>2, <4>3 DEF Covers
    <3>4. CASE e.kind = "reply" /\ ReplyOf(e) = r /\ ~Seen(p, e.seq)
      <4>1. e.seq > p.latest /\ \A j \in 1 .. n : p.held[j].seq < e.seq
        BY <1>0, <3>4 DEF Seen, n
      <4>2. \A j \in 1 .. (n + 1) - 1 : j \in 1 .. n BY <2>3
      <4>3. \A j \in 1 .. (n + 1) - 1 : h.held[j].seq < h.held[n + 1].seq
        BY <2>3, <4>1, <4>2
      <4> QED BY <3>0, <2>2, <2>3, <3>4, <4>1, <4>3 DEF Covers
    <3> QED BY <3>0, <3>1, <3>2, <3>3, <3>4, <2>5 DEF Covers, n
  <2>6. \A i \in 1 .. Len(h.held) :
              h.held[i] = e \/ \E j \in 1 .. Len(p.held) : h.held[i] = p.held[j]
    BY <2>3 DEF n
  <2>7. h.mode = "loading" /\ h.latest = p.latest BY <1>1, <2>2
  <2> QED BY <2>2, <2>4, <2>5, <2>6, <2>7 DEF h
<1>2. CASE p.mode = "live"
  <2>0. p.held = <<>> /\ Len(p.held) = 0 /\ ~Hydrating(p) /\ p.mode # "loading"
    BY <1>2, EmptySeq DEF Hydrating
  <2>1. \A n \in Nat : Seen(p, n) <=> n <= p.latest BY <2>0 DEF Seen
  <2>2. CASE e.kind # "resync" /\ e.seq <= p.latest
    <3>1. h = p BY <2>0, <2>2 DEF Handle
    <3> HIDE DEF h
    <3>2. \A n \in Nat : Seen(h, n) <=> Seen(p, n) \/ n <= e.seq
      BY <1>0, <2>1, <2>2, <3>1
    <3>3. Seen(p, e.seq) BY <1>0, <2>1, <2>2
    <3> QED BY <1>2, <2>2, <3>1, <3>2, <3>3 DEF h
  <2>3. CASE ~(e.kind # "resync" /\ e.seq <= p.latest)
    <3> DEFINE q == [p EXCEPT !.latest = IF e.seq > @ THEN e.seq ELSE @]
    <3>1. h = Applied(q, e) BY <2>0, <2>3 DEF Handle
    <3>2. /\ q \in Pages /\ q.latest = IF e.seq > p.latest THEN e.seq ELSE p.latest
          /\ q.mode = p.mode /\ q.held = p.held /\ q.shown = p.shown /\ q.cut = p.cut
          /\ q.url = p.url /\ q.header = p.header /\ q.cause = p.cause /\ q.resume = p.resume
      BY EventFacts DEF Pages
    <3> HIDE DEF q, h
    <3>3. CASE e.kind = "resync"
      <4>1. h = [q EXCEPT !.mode = "loading", !.cause = "resync", !.held = <<>>,
                          !.cut = NoCut, !.resume = e.resume]
        BY <3>1, <3>3 DEF Applied, Verdicts
      <4>2. /\ h.mode = "loading" /\ h.cause = "resync" /\ h.resume = e.resume
            /\ h.held = <<>> /\ h.cut = NoCut /\ h.latest = q.latest
            /\ h.url = q.url /\ h.header = q.header
        BY <3>2, <4>1 DEF Pages
      <4>3. Len(h.held) = 0 BY <4>2, EmptySeq
      <4>4. \A r : Covers(h, r) BY <4>2 DEF Covers, NoCut
      <4>5. \A n \in Nat : Seen(h, n) <=> Seen(p, n) \/ n <= e.seq
        BY <1>0, <2>1, <3>2, <4>2, <4>3 DEF Seen
      <4> QED BY <3>2, <3>3, <4>2, <4>3, <4>4, <4>5 DEF h
    <3>4. CASE e.kind # "resync"
      <4>1. /\ h.mode = q.mode /\ h.held = q.held /\ h.latest = q.latest
            /\ h.url = q.url /\ h.header = q.header /\ h.cause = q.cause /\ h.resume = q.resume
            /\ q.shown \subseteq h.shown
            /\ e.kind = "reply" => ReplyOf(e) \in h.shown
        <5>1. CASE e.kind = "reply"
          <6>1. h = [q EXCEPT !.shown = @ \union {ReplyOf(e)}]
            BY <3>1, <5>1 DEF Applied, Verdicts
          <6> QED BY <6>1, <3>2 DEF Pages
        <5>2. CASE e.kind \in Verdicts /\ e.turn \in q.base.turns
          <6>1. h = [q EXCEPT !.fixing = @ \union
                      {[turn |-> e.turn, content |-> {r \in q.base.replies : r.turn = e.turn}]}]
            BY <3>1, <5>2 DEF Applied, Verdicts
          <6>2. e.kind # "reply" BY <5>2 DEF Verdicts
          <6> QED BY <6>1, <6>2, <3>2 DEF Pages
        <5>3. CASE e.kind # "reply" /\ ~(e.kind \in Verdicts /\ e.turn \in q.base.turns)
          <6>1. h = q BY <3>1, <3>4, <5>3 DEF Applied
          <6> QED BY <6>1, <5>3
        <5> QED BY <5>1, <5>2, <5>3
      <4>2. h.mode = "live" /\ h.held = <<>> /\ Len(h.held) = 0 BY <1>2, <2>0, <3>2, <4>1
      <4>3. \A n \in Nat : Seen(h, n) <=> Seen(p, n) \/ n <= e.seq
        BY <1>0, <2>1, <3>2, <4>1, <4>2 DEF Seen
      <4>4. \A r : Covers(p, r) \/ (e.kind = "reply" /\ ReplyOf(e) = r) => Covers(h, r)
        BY <1>2, <3>2, <4>1, <4>2 DEF Covers
      <4> QED BY <3>2, <3>4, <4>1, <4>2, <4>3, <4>4 DEF h
    <3> QED BY <3>3, <3>4
  <2> QED BY <2>2, <2>3
<1> QED BY <1>1, <1>2

\* The stages of handling the held events up to position n, one by one.
HandledAt(f, i) == IF i = 0 THEN Replaced ELSE Handle(f[i - 1], page.held[i])
Handled(f, n) ==
  /\ f = [i \in 0 .. n |-> f[i]]
  /\ \A i \in 0 .. n : f[i] = HandledAt(f, i)

LEMMA HandledExist ==
  ASSUME NEW n \in Nat
  PROVE  \E f : Handled(f, n)
<1> DEFINE T == {k \in Nat : ~ \E f : Handled(f, k)}
<1>1. SUFFICES ASSUME T # {} PROVE FALSE
  OBVIOUS
<1>2. PICK k \in T : \A j \in T : k <= j
  BY <1>1, LeastNumber
<1>3. CASE k = 0
  <2> DEFINE f == [i \in 0 .. 0 |-> Replaced]
  <2>1. Handled(f, 0) BY DEF Handled, HandledAt
  <2> QED BY <2>1, <1>2, <1>3
<1>4. CASE k # 0
  <2>1. k - 1 \in Nat /\ k - 1 \notin T BY <1>2, <1>4
  <2>2. PICK f : Handled(f, k - 1) BY <2>1
  <2> DEFINE g == [i \in 0 .. k |-> IF i = k THEN HandledAt(f, k) ELSE f[i]]
  <2>3. \A i \in 0 .. k - 1 : g[i] = f[i] BY <2>1
  <2>4. g[k] = HandledAt(f, k) BY <2>1
  <2>5. g = [i \in 0 .. k |-> g[i]] OBVIOUS
  <2> HIDE DEF g
  <2>6. ASSUME NEW i \in 0 .. k PROVE g[i] = HandledAt(g, i)
    <3>1. i # 0 => i - 1 \in 0 .. k - 1 BY <2>1
    <3>2. HandledAt(g, i) = HandledAt(f, i) BY <3>1, <2>3 DEF HandledAt
    <3>3. i # k => i \in 0 .. k - 1 BY <2>1
    <3>4. CASE i = k BY <3>4, <3>2, <2>4
    <3>5. CASE i # k BY <3>5, <3>3, <3>2, <2>2, <2>3 DEF Handled
    <3> QED BY <3>4, <3>5
  <2>7. Handled(g, k) BY <2>5, <2>6 DEF Handled
  <2> QED BY <2>7, <1>2
<1> QED BY <1>3, <1>4

\* A history that has arrived is what the last of the stages returns.
LEMMA LoadedStages ==
  ASSUME page.held \in Seq(StreamEvents)
  PROVE  \E f : /\ Loaded = f[Len(page.held)]
                /\ f[0] = Replaced
                /\ \A i \in 1 .. Len(page.held) : f[i] = Handle(f[i - 1], page.held[i])
<1> DEFINE f == CHOOSE f : f = [i \in 0 .. Len(page.held) |->
                   IF i = 0 THEN Replaced ELSE Handle(f[i - 1], page.held[i])]
<1>0. Len(page.held) \in Nat BY LenProperties
<1>1. PICK g : Handled(g, Len(page.held)) BY <1>0, HandledExist
<1>2. g = [i \in 0 .. Len(page.held) |->
                   IF i = 0 THEN Replaced ELSE Handle(g[i - 1], page.held[i])]
  BY <1>1 DEF Handled, HandledAt
<1>3. f = [i \in 0 .. Len(page.held) |->
                   IF i = 0 THEN Replaced ELSE Handle(f[i - 1], page.held[i])]
  BY <1>2
<1>4. Loaded = f[Len(page.held)] BY DEF Loaded
<1> HIDE DEF f
<1>5. \A i \in 0 .. Len(page.held) :
        f[i] = IF i = 0 THEN Replaced ELSE Handle(f[i - 1], page.held[i])
  BY <1>3
<1>6. /\ 0 \in 0 .. Len(page.held)
      /\ \A i \in 1 .. Len(page.held) : i \in 0 .. Len(page.held) /\ i # 0
  BY <1>0
<1> QED BY <1>4, <1>5, <1>6

LEMMA ReplacedPage ==
  ASSUME GoodPage(page), replies \subseteq ReplyIds, ledger \subseteq replies
  PROVE  /\ GoodPage(Replaced)
         /\ Replaced.mode = "live" /\ Replaced.held = <<>> /\ Replaced.shown = page.cut.replies
         /\ Replaced.latest = page.latest /\ Replaced.url = page.url
         /\ Replaced.header = page.header /\ Replaced.cause = page.cause
         /\ Replaced.resume = page.resume
<1>1. page \in Pages /\ page.cut \in Cuts BY DEF GoodPage, Pages
<1>2. NoCut \in Cuts /\ NoCut.replies = {} BY DEF NoCut, Cuts
<1>3. <<>> \in Seq(StreamEvents) /\ AllReal(<<>>) BY EmptySeq DEF AllReal
<1>4. Replaced \in Pages BY <1>1, <1>2, <1>3 DEF Replaced, Pages, Cuts
<1>5. /\ Replaced.mode = "live" /\ Replaced.held = <<>> /\ Replaced.shown = page.cut.replies
      /\ Replaced.latest = page.latest /\ Replaced.url = page.url
      /\ Replaced.header = page.header /\ Replaced.cause = page.cause
      /\ Replaced.resume = page.resume /\ Replaced.cut = NoCut /\ Replaced.base = page.cut
      /\ Replaced.fixing = page.fixing
  BY <1>1 DEF Replaced, Pages
<1> QED BY <1>2, <1>3, <1>4, <1>5 DEF GoodPage

LEMMA LoadedGood ==
  ASSUME GoodPage(page), replies \subseteq ReplyIds, ledger \subseteq replies
  PROVE  GoodPage(Loaded)
<1>0. page.held \in Seq(StreamEvents) /\ Len(page.held) \in Nat
  BY LenProperties DEF GoodPage, Pages
<1>1. PICK f : /\ Loaded = f[Len(page.held)]
               /\ f[0] = Replaced
               /\ \A i \in 1 .. Len(page.held) : f[i] = Handle(f[i - 1], page.held[i])
  BY <1>0, LoadedStages
<1> DEFINE G == {i \in 0 .. Len(page.held) : GoodPage(f[i])}
<1>2. 0 \in G BY <1>0, <1>1, ReplacedPage
<1>3. ASSUME NEW i \in 1 .. Len(page.held), i - 1 \in G PROVE i \in G
  <2>1. Real(page.held[i]) /\ page.held[i] \in StreamEvents
    BY <1>0, HeldItem DEF GoodPage, AllReal
  <2>2. GoodPage(f[i]) BY <1>1, <1>3, <2>1, HandleGood
  <2> QED BY <1>0, <2>2
<1>4. \A i \in 0 .. Len(page.held) : i \in G
  <2> HIDE DEF G
  <2> QED BY <1>0, <1>2, <1>3, Climbing
<1> QED BY <1>0, <1>1, <1>4

\* Loading shows what the page was to cover, and forgets nothing it has seen.
LEMMA LoadedCovers ==
  ASSUME GoodPage(page), replies \subseteq ReplyIds, ledger \subseteq replies,
         page.mode = "loading", page.cut.taken
  PROVE  /\ Loaded.mode \in {"live", "loading"} /\ (Loaded.mode = "live" => Loaded.held = <<>>)
         /\ \A n \in Nat : Seen(Loaded, n) <=> Seen(page, n)
         /\ \A r : Covers(page, r) => Covers(Loaded, r)
         /\ Loaded.url = page.url /\ Loaded.header = page.header
         /\ Loaded.latest = page.latest \/ \E j \in 1 .. Len(page.held) : Loaded.latest = page.held[j].seq
         /\ \/ Loaded.cause = page.cause /\ Loaded.resume = page.resume
            \/ \E j \in 1 .. Len(page.held) :
                 /\ page.held[j].kind = "resync"
                 /\ Loaded.cause = "resync" /\ Loaded.resume = page.held[j].resume
         /\ \A i \in 1 .. Len(Loaded.held) :
              \E j \in 1 .. Len(page.held) : Loaded.held[i] = page.held[j]
<1> DEFINE w == page.held
           Given(r, k) == \/ w[k].kind = "resync"
                          \/ /\ w[k].kind = "reply" /\ ReplyOf(w[k]) = r
                             /\ w[k].seq > page.latest
                             /\ \A j \in 1 .. k - 1 : w[j].seq < w[k].seq
           Good(p, i) ==
             /\ GoodPage(p)
             /\ p.mode \in {"live", "loading"} /\ (p.mode = "live" => p.held = <<>>)
             /\ \A n \in Nat : Seen(p, n) <=> n <= page.latest \/ \E j \in 1 .. i : n <= w[j].seq
             /\ \A r : r \in page.cut.replies \/ (\E k \in 1 .. i : Given(r, k)) => Covers(p, r)
             /\ p.url = page.url /\ p.header = page.header
             /\ p.latest = page.latest \/ \E j \in 1 .. i : p.latest = w[j].seq
             /\ \/ p.cause = page.cause /\ p.resume = page.resume
                \/ \E j \in 1 .. i : /\ w[j].kind = "resync"
                                     /\ p.cause = "resync" /\ p.resume = w[j].resume
             /\ \A k \in 1 .. Len(p.held) : \E j \in 1 .. i : p.held[k] = w[j]
<1>0. /\ w \in Seq(StreamEvents) /\ Len(w) \in Nat /\ page.latest \in Nat
      /\ \A i \in 1 .. Len(w) : w[i] \in StreamEvents /\ w[i].seq \in Nat /\ Real(w[i])
  <2>1. w \in Seq(StreamEvents) /\ page.latest \in Nat BY LiveFacts DEF GoodPage, Pages
  <2> QED BY <2>1, LenProperties, HeldItem, EventFacts, LiveFacts DEF GoodPage, AllReal
<1>1. PICK f : /\ Loaded = f[Len(w)]
               /\ f[0] = Replaced
               /\ \A i \in 1 .. Len(w) : f[i] = Handle(f[i - 1], w[i])
  BY <1>0, LoadedStages
<1> HIDE DEF w
<1> DEFINE G == {i \in 0 .. Len(w) : Good(f[i], i)}
<1>2. 0 \in G
  <2>1. Good(Replaced, 0)
    <3>1. \A n \in Nat : Seen(Replaced, n) <=> n <= page.latest
      BY ReplacedPage, EmptySeq DEF Seen
    <3>2. \A r : r \in page.cut.replies => Covers(Replaced, r) BY ReplacedPage DEF Covers
    <3>3. Len(Replaced.held) = 0 BY ReplacedPage, EmptySeq
    <3> QED BY <3>1, <3>2, <3>3, ReplacedPage
  <2> QED BY <1>0, <1>1, <2>1
<1>3. ASSUME NEW i \in 1 .. Len(w), i - 1 \in G PROVE i \in G
  <2> DEFINE p == f[i - 1]
             e == w[i]
  <2>0. /\ i \in Nat /\ i - 1 \in Nat /\ i \in 0 .. Len(w) /\ e \in StreamEvents /\ Real(e)
        /\ \A j \in 1 .. i - 1 : j \in 1 .. i
        /\ \A j \in 1 .. i : j \in 1 .. i - 1 \/ j = i
        /\ i \in 1 .. i
        /\ \A j \in 1 .. i : w[j].seq \in Nat
    BY <1>0
  <2>1. f[i] = Handle(p, e) BY <1>1
  <2>2. Good(p, i - 1) BY <1>3
  <2> HIDE DEF p
  <2>3. p \in Pages BY <2>2 DEF GoodPage
  <2>4. GoodPage(Handle(p, e)) BY <2>0, <2>2, HandleGood
  <2> DEFINE h == Handle(p, e)
  <2>5. /\ h.mode \in {"live", "loading"} /\ (h.mode = "live" => h.held = <<>>)
        /\ \A n \in Nat : Seen(h, n) <=> Seen(p, n) \/ n <= e.seq
        /\ \A r : \/ Covers(p, r)
                  \/ e.kind = "resync"
                  \/ e.kind = "reply" /\ ReplyOf(e) = r /\ ~Seen(p, e.seq)
                  => Covers(h, r)
        /\ h.url = p.url /\ h.header = p.header /\ h.latest \in {p.latest, e.seq}
        /\ \/ h.cause = p.cause /\ h.resume = p.resume
           \/ e.kind = "resync" /\ h.cause = "resync" /\ h.resume = e.resume
        /\ \A k \in 1 .. Len(h.held) :
             h.held[k] = e \/ \E j \in 1 .. Len(p.held) : h.held[k] = p.held[j]
    BY <2>0, <2>2, <2>3, HandleCovers
  <2> HIDE DEF h
  <2>6. \A n \in Nat : Seen(h, n) <=> n <= page.latest \/ \E j \in 1 .. i : n <= w[j].seq
    BY <2>0, <2>2, <2>5
  <2>7. ASSUME NEW r, r \in page.cut.replies \/ \E k \in 1 .. i : Given(r, k)
        PROVE  Covers(h, r)
    <3>1. CASE r \in page.cut.replies \/ \E k \in 1 .. i - 1 : Given(r, k)
      BY <3>1, <2>2, <2>5
    <3>2. CASE Given(r, i)
      <4>1. CASE e.kind = "resync" BY <4>1, <2>5
      <4>2. CASE e.kind = "reply" /\ ReplyOf(e) = r /\ e.seq > page.latest
                 /\ \A j \in 1 .. i - 1 : w[j].seq < e.seq
        <5>1. ~(e.seq <= page.latest) /\ \A j \in 1 .. i - 1 : ~(e.seq <= w[j].seq)
          BY <1>0, <2>0, <4>2
        <5>2. e.seq \in Nat BY <2>0
        <5>3. ~Seen(p, e.seq) BY <5>1, <5>2, <2>2
        <5> QED BY <4>2, <5>3, <2>5
      <4> QED BY <3>2, <4>1, <4>2
    <3> QED BY <2>0, <2>7, <3>1, <3>2
  <2>8. \A k \in 1 .. Len(h.held) : \E j \in 1 .. i : h.held[k] = w[j]
    <3> TAKE k \in 1 .. Len(h.held)
    <3>1. CASE h.held[k] = e BY <3>1, <2>0
    <3>2. CASE \E j \in 1 .. Len(p.held) : h.held[k] = p.held[j] BY <3>2, <2>0, <2>2
    <3> QED BY <3>1, <3>2, <2>5
  <2>9. h.latest = page.latest \/ \E j \in 1 .. i : h.latest = w[j].seq
    BY <2>0, <2>2, <2>5
  <2>10. \/ h.cause = page.cause /\ h.resume = page.resume
         \/ \E j \in 1 .. i : /\ w[j].kind = "resync"
                              /\ h.cause = "resync" /\ h.resume = w[j].resume
    <3>1. CASE h.cause = p.cause /\ h.resume = p.resume BY <3>1, <2>0, <2>2
    <3>2. CASE e.kind = "resync" /\ h.cause = "resync" /\ h.resume = e.resume BY <3>2, <2>0
    <3> QED BY <3>1, <3>2, <2>5
  <2>11. GoodPage(h) BY <2>4 DEF h
  <2>12. h.url = page.url /\ h.header = page.header BY <2>2, <2>5
  <2>13. Good(h, i) BY <2>5, <2>6, <2>7, <2>8, <2>9, <2>10, <2>11, <2>12
  <2>14. f[i] = h BY <2>1 DEF h
  <2> HIDE DEF Good
  <2> QED BY <2>0, <2>13, <2>14
<1>4. \A i \in 0 .. Len(w) : i \in G
  <2> HIDE DEF G
  <2> QED BY <1>0, <1>2, <1>3, Climbing
<1>5. Good(Loaded, Len(w))
  <2>1. Len(w) \in 0 .. Len(w) BY <1>0
  <2>2. Len(w) \in G
    <3> HIDE DEF G
    <3> QED BY <1>4, <2>1
  <2> QED BY <1>1, <2>2
<1>6. \A n \in Nat : Seen(Loaded, n) <=> Seen(page, n) BY <1>5 DEF Seen, w
<1>7. ASSUME NEW r, Covers(page, r) PROVE Covers(Loaded, r)
  <2>1. r \in page.cut.replies \/ \E k \in 1 .. Len(w) : Given(r, k)
    BY <1>7 DEF Covers, w
  <2> QED BY <1>5, <2>1
<1> QED BY <1>5, <1>6, <1>7 DEF w

-----------------------------------------------------------------------------
(* What is published.                                                      *)

HubKinds == {"accepted", "backpressure", "reply", "completed", "failed"}

\* The event that says that turn t is of some kind, with sequence n.
EventOf(t, n, kind) ==
  [server |-> hub.server, seq |-> n, kind |-> kind, turn |-> t, resume |-> NoId]

LEMMA NumberedEvents ==
  ASSUME LiveTypes, NEW t \in ViewTurns, NEW kinds \in Seq(HubKinds),
         hub.sequence + Len(kinds) <= MaxSent
  PROVE  /\ Numbered(t, kinds) \in Seq(StreamEvents)
         /\ Len(Numbered(t, kinds)) = Len(kinds)
         /\ \A i \in 1 .. Len(kinds) :
              Numbered(t, kinds)[i] = EventOf(t, hub.sequence + i, kinds[i])
<1> DEFINE m == Numbered(t, kinds)
           k == Len(kinds)
<1>0. k \in Nat /\ hub.sequence \in Nat /\ hub.server \in 1 .. MaxServers
      /\ MaxSent \in Nat /\ NoId \in Ids
      /\ \A i \in 1 .. k : kinds[i] \in HubKinds
  BY LiveFacts, LenProperties, ElementOfSeq DEF LiveTypes, NoId, Ids
<1>1. m = [i \in 1 .. k |-> EventOf(t, hub.sequence + i, kinds[i])] BY DEF Numbered, EventOf
<1> HIDE DEF m
<1>2. \A i \in 1 .. k : m[i] = EventOf(t, hub.sequence + i, kinds[i]) BY <1>1
<1>3. ASSUME NEW i \in 1 .. k PROVE EventOf(t, hub.sequence + i, kinds[i]) \in StreamEvents
  <2>1. hub.sequence + i \in 0 .. MaxSent BY <1>0
  <2>2. kinds[i] \in {"accepted", "backpressure", "reply", "resync", "completed", "failed"}
    BY <1>0 DEF HubKinds
  <2> QED BY <1>0, <2>1, <2>2 DEF EventOf, StreamEvents, Verdicts
<1>4. m \in [1 .. k -> StreamEvents] BY <1>1, <1>3
<1>5. m \in Seq(StreamEvents) BY <1>0, <1>4, SeqDef
<1>6. Len(m) = k
  <2>1. DOMAIN m = 1 .. Len(m) /\ Len(m) \in Nat BY <1>5, LenProperties
  <2>2. DOMAIN m = 1 .. k BY <1>4
  <2> QED BY <1>0, <2>1, <2>2
<1> QED BY <1>2, <1>5, <1>6 DEF m

\* A hub keeps the last MaxHub events of a sequence.
LEMMA BoundedItems ==
  ASSUME NEW s \in Seq(StreamEvents)
  PROVE  /\ Bounded(s) \in Seq(StreamEvents)
         /\ Len(Bounded(s)) = IF Len(s) <= MaxHub THEN Len(s) ELSE MaxHub
         /\ \A i \in 1 .. Len(Bounded(s)) : Bounded(s)[i] = s[i + (Len(s) - Len(Bounded(s)))]
<1>0. Len(s) \in Nat /\ MaxHub \in Nat /\ MaxHub >= 1 BY LiveFacts, LenProperties
<1>1. CASE Len(s) <= MaxHub
  <2>1. Bounded(s) = s BY <1>1 DEF Bounded
  <2>2. \A i \in 1 .. Len(s) : i + (Len(s) - Len(s)) = i BY <1>0
  <2> QED BY <1>1, <2>1, <2>2
<1>2. CASE ~(Len(s) <= MaxHub)
  <2> DEFINE a == Len(s) - MaxHub + 1
             b == SubSeq(s, a, Len(s))
  <2>1. Bounded(s) = b BY <1>2 DEF Bounded
  <2>2. a \in Int /\ Len(s) \in Int /\ \A i \in a .. Len(s) : i \in 1 .. Len(s)
    BY <1>0, <1>2
  <2>3. \A i \in a .. Len(s) : s[i] \in StreamEvents BY <2>2, HeldItem
  <2>4. /\ b \in Seq(StreamEvents)
        /\ Len(b) = IF a <= Len(s) THEN Len(s) - a + 1 ELSE 0
        /\ \A i \in 1 .. Len(s) - a + 1 : b[i] = s[a + i - 1]
    <3> HIDE DEF a
    <3> QED BY <2>2, <2>3, SubSeqProperties
  <2> HIDE DEF b
  <2>5. Len(b) = MaxHub /\ Len(s) - a + 1 = MaxHub BY <1>0, <1>2, <2>4
  <2>6. \A i \in 1 .. MaxHub : a + i - 1 = i + (Len(s) - MaxHub) BY <1>0
  <2> QED BY <1>2, <2>1, <2>4, <2>5, <2>6
<1> QED BY <1>1, <1>2

\* The hub after a publication: the oldest events are gone, the new ones are last.
LEMMA Published ==
  ASSUME LiveTypes, HubTrue, NEW t \in ViewTurns, NEW kinds \in Seq(HubKinds), Publish(t, kinds)
  PROVE  LET n == Len(hub.events)
             k == Len(kinds)
             d == n + k - Len(hub'.events)
         IN
         /\ n \in Nat /\ k \in Nat /\ d \in Nat /\ Len(hub'.events) \in Nat /\ Kept \in Nat
         /\ hub'.server = hub.server /\ hub'.sequence = hub.sequence + k
         /\ hub' \in [server : 1 .. MaxServers, sequence : 0 .. MaxSent,
                      events : Seq(StreamEvents)]
         /\ Len(hub'.events) = IF hub'.sequence <= MaxHub THEN hub'.sequence ELSE MaxHub
         /\ Kept' = Kept + d
         /\ \A i \in 1 .. Len(hub'.events) :
              /\ i + d <= n => i + d \in 1 .. n /\ hub'.events[i] = hub.events[i + d]
              /\ i + d > n => /\ i + d - n \in 1 .. k
                              /\ hub'.events[i] =
                                   EventOf(t, hub.sequence + (i + d - n), kinds[i + d - n])
         /\ verdicts' = [verdicts EXCEPT ![t] = @ \union (ToSet(kinds) \intersect Verdicts)]
         /\ mishaps' \in {mishaps, mishaps \union {"overrun"}}
         /\ mishaps' = {} => mishaps = {} /\ (reader.open => d = 0 \/ Kept + d <= reader.last)
<1> DEFINE n == Len(hub.events)
           k == Len(kinds)
           new == Numbered(t, kinds)
           all == hub.events \o new
           d == n + k - Len(hub'.events)
<1>0. /\ hub.events \in Seq(StreamEvents) /\ hub.sequence \in Nat /\ hub.server \in 1 .. MaxServers
      /\ n \in Nat /\ k \in Nat /\ MaxHub \in Nat /\ MaxHub >= 1
      /\ reader.last \in Nat
  BY LiveFacts, LenProperties DEF LiveTypes
<1>1. /\ hub.sequence + k <= MaxSent
      /\ hub' = [hub EXCEPT !.sequence = @ + k, !.events = Bounded(all)]
      /\ verdicts' = [verdicts EXCEPT ![t] = @ \union (ToSet(kinds) \intersect Verdicts)]
      /\ mishaps' = IF Overruns(all) THEN mishaps \union {"overrun"} ELSE mishaps
  BY DEF Publish
<1>2. /\ new \in Seq(StreamEvents) /\ Len(new) = k
      /\ \A i \in 1 .. k : new[i] = EventOf(t, hub.sequence + i, kinds[i])
  BY <1>1, NumberedEvents
<1> HIDE DEF new
<1>3. /\ all \in Seq(StreamEvents) /\ Len(all) = n + k
      /\ \A i \in 1 .. n + k : all[i] = IF i <= n THEN hub.events[i] ELSE new[i - n]
  <2>1. /\ all \in Seq(StreamEvents) /\ Len(all) = Len(hub.events) + Len(new)
        /\ \A i \in 1 .. Len(hub.events) + Len(new) :
             all[i] = IF i <= Len(hub.events) THEN hub.events[i] ELSE new[i - Len(hub.events)]
    BY ZenonT(30), <1>0, <1>2, ConcatProperties
  <2> HIDE DEF all
  <2> QED BY <1>2, <2>1
<1> HIDE DEF all, n, k
<1>01. n \in Nat /\ k \in Nat /\ MaxHub \in Nat /\ MaxHub >= 1 /\ hub.sequence \in Nat BY <1>0
<1>4. /\ hub'.server = hub.server /\ hub'.sequence = hub.sequence + k /\ hub'.events = Bounded(all)
  BY <1>1 DEF LiveTypes, k
<1> DEFINE b == Bounded(all)
<1>5. /\ b \in Seq(StreamEvents)
      /\ Len(b) = IF Len(all) <= MaxHub THEN Len(all) ELSE MaxHub
      /\ \A i \in 1 .. Len(b) : b[i] = all[i + (Len(all) - Len(b))]
  BY <1>0, <1>3, BoundedItems
<1> HIDE DEF b
<1>61. hub'.events = b /\ Len(b) \in Nat BY <1>4, <1>5, LenProperties DEF b
<1>63. Len(b) \in Nat BY <1>61
<1>62. /\ n + k <= MaxHub => Len(b) = n + k
       /\ ~(n + k <= MaxHub) => Len(b) = MaxHub
  BY <1>3, <1>5
<1>6. PICK c \in Nat : c = (n + k) - Len(b) /\ c + Len(b) = n + k
  BY SMTT(90), <1>01, <1>62, <1>63
<1>7. /\ hub.sequence <= MaxHub => n = hub.sequence
      /\ ~(hub.sequence <= MaxHub) => n = MaxHub
  BY DEF HubTrue, n
<1>8. Kept = hub.sequence - n /\ Kept \in Nat /\ Kept' = Kept + c
  <2>1. Kept = hub.sequence - n BY DEF Kept, n
  <2>2. Kept' = hub'.sequence - Len(b) BY <1>61 DEF Kept
  <2>3. Kept' = (hub.sequence + k) - Len(b) BY <1>4, <2>2
  <2> QED BY SMTT(90), <1>0, <1>6, <1>61, <1>7, <2>1, <2>3
<1>9. Len(b) = IF hub'.sequence <= MaxHub THEN hub'.sequence ELSE MaxHub
  <2>1. /\ hub.sequence + k <= MaxHub => Len(b) = hub.sequence + k
        /\ ~(hub.sequence + k <= MaxHub) => Len(b) = MaxHub
    BY <1>0, <1>61, <1>62, <1>7
  <2> QED BY <1>4, <2>1
<1>10. hub' \in [server : 1 .. MaxServers, sequence : 0 .. MaxSent, events : Seq(StreamEvents)]
  <2>1. hub.sequence + k \in 0 .. MaxSent BY <1>0, <1>1, LiveFacts
  <2>2. b \in Seq(StreamEvents) BY <1>5
  <2>3. hub' = [hub EXCEPT !.sequence = @ + k, !.events = b] BY <1>1 DEF b
  <2> QED BY <2>1, <2>2, <2>3 DEF LiveTypes
<1>11. ASSUME NEW i \in 1 .. Len(b)
       PROVE  /\ i + c <= n => i + c \in 1 .. n /\ b[i] = hub.events[i + c]
              /\ i + c > n => /\ i + c - n \in 1 .. k
                              /\ b[i] = EventOf(t, hub.sequence + (i + c - n), kinds[i + c - n])
  <2>1. b[i] = all[i + c] /\ i + c \in 1 .. n + k
    <3>1. Len(all) - Len(b) = c /\ c + Len(b) = n + k BY <1>01, <1>3, <1>6, <1>63
    <3>2. b[i] = all[i + (Len(all) - Len(b))] BY <1>5
    <3>3. i + c \in 1 .. n + k BY <1>01, <1>6, <1>63, <3>1
    <3> QED BY <3>1, <3>2, <3>3
  <2>2. all[i + c] = IF i + c <= n THEN hub.events[i + c] ELSE new[i + c - n] BY <1>01, <1>3, <2>1
  <2>3. i + c > n => i + c - n \in 1 .. k BY <1>01, <1>6, <1>63, <2>1
  <2> QED BY <1>01, <1>2, <1>6, <1>63, <2>1, <2>2, <2>3
<1>12. mishaps' = {} => mishaps = {} /\ (reader.open => c = 0 \/ Kept + c <= reader.last)
  <2> SUFFICES ASSUME mishaps' = {}
               PROVE  mishaps = {} /\ (reader.open => c = 0 \/ Kept + c <= reader.last)
    OBVIOUS
  <2>1. ~Overruns(all) /\ mishaps = {} BY <1>1
  <2>2. SUFFICES ASSUME reader.open, c # 0 PROVE Kept + c <= reader.last BY <2>1
  <2>3. c = n + k - MaxHub /\ c \in 1 .. Len(all) - MaxHub /\ c \in 1 .. n + k
    <3>1. Len(all) = n + k BY <1>3
    <3> QED BY <1>01, <1>6, <1>62, <1>63, <2>2, <3>1
  <2>4. ~(all[c].seq > reader.last) BY <2>1, <2>2, <2>3 DEF Overruns
  <2>5. all[c].seq = Kept + c
    <3>1. CASE c <= n
      <4>1. c \in 1 .. n BY <2>3, <3>1, <1>01
      <4> QED BY <1>3, <2>3, <3>1, <4>1 DEF HubTrue, n
    <3>2. CASE ~(c <= n)
      <4>1. c - n \in 1 .. k /\ hub.sequence + (c - n) = Kept + c BY SMTT(90), <1>01, <2>3, <3>2, <1>8
      <4>2. new[c - n].seq = hub.sequence + (c - n) BY <1>2, <4>1 DEF EventOf
      <4> QED BY <1>3, <2>3, <3>2, <4>1, <4>2
    <3> QED BY <3>1, <3>2
  <2>6. reader.last \in Nat BY <1>0
  <2> QED BY <1>6, <1>8, <2>4, <2>5, <2>6
<1>13. mishaps' \in {mishaps, mishaps \union {"overrun"}} BY <1>1
<1>14. d = c BY <1>0, <1>6, <1>61 DEF n, k
<1> QED BY <1>0, <1>1, <1>4, <1>6, <1>61, <1>8, <1>9, <1>10, <1>11, <1>12, <1>13, <1>14 DEF n, k

\* The messages among the events that kinds stands for.
Spoken(t, kinds) ==
  {ReplyOf(EventOf(t, hub.sequence + i, kinds[i])) :
     i \in {j \in 1 .. Len(kinds) : kinds[j] = "reply"}}

PublishStep(t, kinds) == Publish(t, kinds) /\ replies' = replies \union Spoken(t, kinds)

LEMMA SpokenReplies ==
  ASSUME LiveTypes, NEW t \in ViewTurns, NEW kinds \in Seq(HubKinds),
         hub.sequence + Len(kinds) <= MaxSent, NEW r \in Spoken(t, kinds)
  PROVE  /\ r \in ReplyIds
         /\ r.id[1] = hub.server /\ r.id[2] > hub.sequence
         /\ r.id[2] <= hub.sequence + Len(kinds)
         /\ \E j \in 1 .. Len(kinds) : /\ kinds[j] = "reply"
                                       /\ r = ReplyOf(EventOf(t, hub.sequence + j, kinds[j]))
                                       /\ r.id[2] = hub.sequence + j
<1>0. /\ hub.sequence \in Nat /\ Len(kinds) \in Nat /\ MaxSent \in Nat
      /\ hub.server \in 1 .. MaxServers /\ MaxServers \in Nat
  BY LiveFacts, LenProperties DEF LiveTypes
<1>1. PICK j \in 1 .. Len(kinds) : /\ kinds[j] = "reply"
                                   /\ r = ReplyOf(EventOf(t, hub.sequence + j, kinds[j]))
  BY DEF Spoken
<1>2. r = [id |-> <<hub.server, hub.sequence + j>>, turn |-> t]
  BY <1>1 DEF ReplyOf, EventOf, IdOf
<1>3. r.id[1] = hub.server /\ r.id[2] = hub.sequence + j /\ r.turn = t BY <1>2
<1>4. hub.sequence + j \in 0 .. MaxSent /\ hub.server \in 0 .. MaxServers BY <1>0
<1>5. r \in ReplyIds BY <1>2, <1>4 DEF ReplyIds, Ids
<1>6. hub.sequence + j > hub.sequence /\ hub.sequence + j <= hub.sequence + Len(kinds) BY <1>0
<1> QED BY <1>1, <1>3, <1>5, <1>6

\* A publication keeps the hub true.
LEMMA PublishHub ==
  ASSUME LiveTypes, HubInv, AllReal(hub.events),
         NEW t \in ViewTurns, NEW kinds \in Seq(HubKinds), PublishStep(t, kinds)
  PROVE  HubInv' /\ AllReal(hub.events)' /\ replies' \in SUBSET ReplyIds
<1> DEFINE n == Len(hub.events)
           k == Len(kinds)
           d == n + k - Len(hub'.events)
           m == Len(hub'.events)
<1>1. Publish(t, kinds) /\ replies' = replies \union Spoken(t, kinds) BY DEF PublishStep
<1>2. /\ n \in Nat /\ k \in Nat /\ d \in Nat /\ m \in Nat /\ Kept \in Nat
      /\ hub'.server = hub.server /\ hub'.sequence = hub.sequence + k
      /\ hub' \in [server : 1 .. MaxServers, sequence : 0 .. MaxSent,
                   events : Seq(StreamEvents)]
      /\ m = IF hub'.sequence <= MaxHub THEN hub'.sequence ELSE MaxHub
      /\ Kept' = Kept + d
      /\ \A i \in 1 .. m :
           /\ i + d <= n => i + d \in 1 .. n /\ hub'.events[i] = hub.events[i + d]
           /\ i + d > n => /\ i + d - n \in 1 .. k
                           /\ hub'.events[i] =
                                EventOf(t, hub.sequence + (i + d - n), kinds[i + d - n])
  BY <1>1, Published DEF HubInv
<1>3. hub.sequence \in Nat /\ Kept = hub.sequence - n /\ d = n + k - m
      /\ hub.sequence + k <= MaxSent /\ hub.server \in Nat
  BY <1>1, LiveFacts DEF LiveTypes, Kept, Publish
<1> HIDE DEF n, k, d, m
<1>4. PICK c \in Nat : c = d BY <1>2
<1>5. n \in Nat /\ k \in Nat /\ m \in Nat /\ Kept \in Nat /\ hub.sequence \in Nat
      /\ m + c = n + k /\ Kept + n = hub.sequence /\ Kept' = Kept + c /\ Kept' \in Nat
  <2>1. n \in Nat /\ k \in Nat /\ m \in Nat /\ Kept \in Nat /\ hub.sequence \in Nat
    BY <1>2, <1>3
  <2>2. c = n + k - m /\ Kept = hub.sequence - n /\ Kept' = Kept + c BY <1>2, <1>3, <1>4
  <2> QED BY <2>1, <2>2
<1>6. ASSUME NEW i \in 1 .. m
      PROVE  \/ i + c \in 1 .. n /\ hub'.events[i] = hub.events[i + c]
             \/ \E j \in 1 .. k : i + c = n + j
                                  /\ hub'.events[i] = EventOf(t, hub.sequence + j, kinds[j])
  <2>1. CASE i + c <= n BY <1>2, <1>4, <2>1
  <2>2. CASE i + c > n
    <3>1. PICK j \in Int : j = i + c - n BY <1>5
    <3>2. j \in 1 .. k /\ hub'.events[i] = EventOf(t, hub.sequence + j, kinds[j])
      BY <1>2, <1>4, <2>2, <3>1
    <3>3. i + c = n + j BY <1>5, <3>1
    <3> QED BY <3>2, <3>3
  <2> QED BY <1>5, <2>1, <2>2
<1>7. HubTrue'
  <2>1. ASSUME NEW i \in 1 .. m
        PROVE  /\ hub'.events[i].server = hub'.server /\ hub'.events[i].seq = Kept' + i
               /\ hub'.events[i].kind # "resync"
    <3>1. CASE i + c \in 1 .. n /\ hub'.events[i] = hub.events[i + c]
      <4>1. /\ hub.events[i + c].server = hub.server /\ hub.events[i + c].seq = Kept + (i + c)
            /\ hub.events[i + c].kind # "resync"
        BY <3>1 DEF HubInv, HubTrue, n
      <4>2. Kept + (i + c) = Kept' + i BY <1>5
      <4> QED BY <1>2, <3>1, <4>1, <4>2
    <3>2. ASSUME NEW j \in 1 .. k, i + c = n + j,
                 hub'.events[i] = EventOf(t, hub.sequence + j, kinds[j])
          PROVE  /\ hub'.events[i].server = hub'.server /\ hub'.events[i].seq = Kept' + i
                 /\ hub'.events[i].kind # "resync"
      <4>1. kinds[j] \in HubKinds BY ElementOfSeq DEF k
      <4>2. hub.sequence + j = Kept' + i
        <5>1. j \in Nat /\ i \in Nat BY <1>5
        <5>2. Kept' + i = Kept + (c + i) /\ hub.sequence + j = Kept + (n + j)
          BY <1>5, <5>1
        <5> QED BY <3>2, <5>1, <5>2
      <4> QED BY <1>2, <3>2, <4>1, <4>2 DEF EventOf, HubKinds
    <3> QED BY <1>6, <3>1, <3>2
  <2> QED BY <1>2, <2>1 DEF HubTrue, m
<1>8. AllReal(hub.events)'
  <2>1. ASSUME NEW i \in 1 .. m, hub'.events[i].kind = "reply"
        PROVE  ReplyOf(hub'.events[i]) \in replies'
    <3>1. CASE i + c \in 1 .. n /\ hub'.events[i] = hub.events[i + c]
      BY <1>1, <2>1, <3>1 DEF AllReal, Real, n
    <3>2. ASSUME NEW j \in 1 .. k, hub'.events[i] = EventOf(t, hub.sequence + j, kinds[j])
          PROVE  ReplyOf(hub'.events[i]) \in replies'
      <4>1. kinds[j] = "reply" BY <2>1, <3>2 DEF EventOf
      <4> QED BY <1>1, <3>2, <4>1 DEF Spoken, k
    <3> QED BY <1>6, <3>1, <3>2
  <2> QED BY <2>1 DEF AllReal, Real, m, ReplyOf, IdOf
<1>9. RepliesKept'
  <2> SUFFICES ASSUME NEW r \in replies'
      PROVE  /\ r.id[1] <= hub'.server
             /\ r.id[1] = hub'.server =>
                  /\ r.id[2] \in 1 .. hub'.sequence
                  /\ r.id[2] > Kept' => \E i \in 1 .. m :
                        hub'.events[i].kind = "reply" /\ ReplyOf(hub'.events[i]) = r
    BY DEF RepliesKept, m, ReplyOf, IdOf
  <2>1. CASE r \in replies
    <3>1. /\ r.id[1] <= hub.server
          /\ r.id[1] = hub.server =>
               /\ r.id[2] \in 1 .. hub.sequence
               /\ r.id[2] > Kept => \E i \in 1 .. n :
                        hub.events[i].kind = "reply" /\ ReplyOf(hub.events[i]) = r
      BY <2>1 DEF HubInv, RepliesKept, n
    <3>2. SUFFICES ASSUME r.id[1] = hub.server
                   PROVE  /\ r.id[2] \in 1 .. hub'.sequence
                          /\ r.id[2] > Kept' => \E i \in 1 .. m :
                               hub'.events[i].kind = "reply" /\ ReplyOf(hub'.events[i]) = r
      BY <1>2, <3>1
    <3>3. r.id[2] \in 1 .. hub.sequence /\ r.id[2] \in Nat BY <3>1, <3>2, <1>5
    <3>4. r.id[2] \in 1 .. hub'.sequence
      <4>1. r.id[2] \in 1 .. hub.sequence + k BY <1>5, <3>3
      <4> QED BY <1>2, <4>1
    <3>5. ASSUME r.id[2] > Kept'
          PROVE  \E i \in 1 .. m :
                   hub'.events[i].kind = "reply" /\ ReplyOf(hub'.events[i]) = r
      <4>1. r.id[2] > Kept BY <1>5, <3>3, <3>5
      <4>2. PICK i \in 1 .. n : hub.events[i].kind = "reply" /\ ReplyOf(hub.events[i]) = r
        BY <3>1, <3>2, <4>1
      <4>3. r.id[2] = Kept + i
        <5>1. hub.events[i].seq = Kept + i BY DEF HubInv, HubTrue, n
        <5>2. ReplyOf(hub.events[i]).id[2] = hub.events[i].seq BY DEF ReplyOf, IdOf
        <5> QED BY <4>2, <5>1, <5>2
      <4>4. i > c BY <1>5, <3>5, <4>3
      <4>5. PICK q \in Nat : q + c = i BY <1>5, <4>4
      <4>6. q \in 1 .. m /\ q + c <= n BY <1>5, <4>4, <4>5
      <4>7. hub'.events[q] = hub.events[i] BY <1>2, <1>4, <4>5, <4>6
      <4> QED BY <4>2, <4>6, <4>7
    <3> QED BY <3>4, <3>5
  <2>2. CASE r \in Spoken(t, kinds)
    <3>1. PICK j \in 1 .. k : /\ kinds[j] = "reply"
                              /\ r = ReplyOf(EventOf(t, hub.sequence + j, kinds[j]))
                              /\ r.id[2] = hub.sequence + j
      BY <1>3, <2>2, SpokenReplies DEF k
    <3>2. r.id[1] = hub.server BY <1>3, <2>2, SpokenReplies DEF k
    <3>3. r.id[2] \in 1 .. hub'.sequence
      <4>1. hub.sequence + j \in 1 .. hub.sequence + k BY <1>5
      <4> QED BY <1>2, <3>1, <4>1
    <3>4. ASSUME r.id[2] > Kept'
          PROVE  \E i \in 1 .. m :
                   hub'.events[i].kind = "reply" /\ ReplyOf(hub'.events[i]) = r
      <4>1. n + j > c BY <1>5, <3>1, <3>4
      <4>2. PICK i \in Nat : i + c = n + j BY <1>5, <4>1
      <4>3. i \in 1 .. m /\ ~(i + c <= n) BY <1>5, <4>1, <4>2
      <4>4. hub'.events[i] = EventOf(t, hub.sequence + j, kinds[j])
        <5>1. CASE i + c \in 1 .. n BY <1>5, <4>3, <5>1
        <5>2. ASSUME NEW l \in 1 .. k, i + c = n + l,
                     hub'.events[i] = EventOf(t, hub.sequence + l, kinds[l])
              PROVE  hub'.events[i] = EventOf(t, hub.sequence + j, kinds[j])
          <6>1. l = j BY <1>5, <4>2, <5>2
          <6> QED BY <5>2, <6>1
        <5> QED BY <1>6, <4>3, <5>1, <5>2
      <4> QED BY <3>1, <4>3, <4>4 DEF EventOf
    <3> QED BY <1>2, <1>3, <3>2, <3>3, <3>4
  <2> QED BY <1>1, <2>1, <2>2
<1>10. replies' \in SUBSET ReplyIds
  <2>1. \A r \in Spoken(t, kinds) : r \in ReplyIds BY <1>3, SpokenReplies DEF k
  <2>2. replies \in SUBSET ReplyIds BY DEF LiveTypes
  <2> QED BY <1>1, <2>1, <2>2
<1> QED BY <1>7, <1>8, <1>9, <1>10 DEF HubInv

-----------------------------------------------------------------------------
(* The page while others act.                                              *)

LEMMA PageFacts ==
  ASSUME LiveTypeInv
  PROVE  /\ page \in Pages /\ page.held \in Seq(StreamEvents) /\ Len(page.held) \in Nat
         /\ page.latest \in Nat /\ \A i \in 1 .. Len(page.held) : page.held[i] \in StreamEvents
         /\ \A i \in 1 .. Len(page.held) : page.held[i].seq \in Nat
         /\ reader.pending \in Seq(StreamEvents) /\ Len(reader.pending) \in Nat
         /\ reader.last \in Nat /\ hub.sequence \in Nat /\ hub.server \in Nat
         /\ hub.events \in Seq(StreamEvents) /\ Len(hub.events) \in Nat
         /\ \A i \in 1 .. Len(reader.pending) : reader.pending[i] \in StreamEvents
         /\ \A i \in 1 .. Len(reader.pending) : reader.pending[i].seq \in Nat
         /\ replies \subseteq ReplyIds /\ ledger \subseteq replies /\ GoodPage(page)
         /\ \A r \in replies : r.id[1] \in Nat /\ r.id[2] \in Nat
<1>1. /\ page \in Pages /\ GoodPage(page) /\ replies \subseteq ReplyIds /\ ledger \subseteq replies
  BY DEF LiveTypeInv, LiveTypes, GoodPage
<1>2. /\ page.held \in Seq(StreamEvents) /\ page.latest \in 0 .. MaxSent
  BY <1>1 DEF Pages
<1>3. /\ reader.pending \in Seq(StreamEvents) /\ reader.last \in 0 .. MaxSent
      /\ hub.sequence \in 0 .. MaxSent /\ hub.server \in 1 .. MaxServers
      /\ hub.events \in Seq(StreamEvents)
  BY DEF LiveTypeInv, LiveTypes
<1>4. \A e \in StreamEvents : e.seq \in Nat BY LiveFacts, EventFacts
<1>5. \A r \in ReplyIds : r.id[1] \in Nat /\ r.id[2] \in Nat
  BY LiveFacts DEF ReplyIds, Ids
<1>6. Len(page.held) \in Nat /\ Len(reader.pending) \in Nat /\ Len(hub.events) \in Nat
  BY <1>2, <1>3, LenProperties
<1>7. /\ \A i \in 1 .. Len(page.held) : page.held[i] \in StreamEvents
      /\ \A i \in 1 .. Len(reader.pending) : reader.pending[i] \in StreamEvents
  BY <1>2, <1>3, HeldItem
<1>8. /\ page.latest \in Nat /\ reader.last \in Nat /\ hub.sequence \in Nat /\ hub.server \in Nat
  BY <1>2, <1>3, LiveFacts
<1> QED BY <1>1, <1>2, <1>3, <1>4, <1>5, <1>6, <1>7, <1>8

\* What the page has seen was published.
LEMMA SeenBounds ==
  ASSUME LiveTypeInv, PageTrue, NEW n \in Nat, Seen(page, n)
  PROVE  n <= hub.sequence
<1>1. CASE n <= page.latest BY <1>1, PageFacts DEF PageTrue
<1>2. ASSUME NEW i \in 1 .. Len(page.held), n <= page.held[i].seq PROVE n <= hub.sequence
  <2>1. page.held[i].seq \in Nat /\ page.held[i].seq <= hub.sequence /\ hub.sequence \in Nat
    BY SMTT(90), PageFacts DEF PageTrue, Past
  <2> QED BY <1>2, <2>1
<1> QED BY <1>1, <1>2 DEF Seen

\* A publication reaches the page through its stream only, and costs it an event
\* only if one that the stream had not read was evicted.
LEMMA PublishView ==
  ASSUME LiveTypeInv, HubInv, ViewInv, UNCHANGED <<reader, page>>,
         NEW t \in ViewTurns, NEW kinds \in Seq(HubKinds), PublishStep(t, kinds)
  PROVE  ViewInv'
<1> SUFFICES ASSUME Clean'
             PROVE  (PageTrue /\ SeenCovered /\ (reader.open => StreamTrue))'
  BY DEF ViewInv
<1> DEFINE k == Len(kinds)
           d == Len(hub.events) + k - Len(hub'.events)
<1>1. Publish(t, kinds) /\ replies' = replies \union Spoken(t, kinds) BY DEF PublishStep
<1>2. /\ k \in Nat /\ d \in Nat /\ Kept \in Nat
      /\ hub'.server = hub.server /\ hub'.sequence = hub.sequence + k
      /\ Kept' = Kept + d
      /\ mishaps' = {} => mishaps = {} /\ (reader.open => d = 0 \/ Kept + d <= reader.last)
  BY <1>1, Published DEF HubInv, LiveTypeInv
<1>3. hub.sequence + k <= MaxSent BY <1>1 DEF Publish
<1> HIDE DEF k, d
<1>4. Clean /\ (reader.open => d = 0 \/ Kept + d <= reader.last) BY <1>2 DEF Clean
<1>5. PageTrue /\ SeenCovered /\ (reader.open => StreamTrue) BY <1>4 DEF ViewInv
<1>6. /\ hub.sequence \in Nat /\ reader.last \in Nat /\ hub'.sequence \in Nat
      /\ hub.sequence <= hub'.sequence
      /\ \A i \in 1 .. hub.sequence : i \in 1 .. hub'.sequence
  BY <1>2, PageFacts
<1>7. \A e : Past(e) => Past(e)' BY <1>2, <1>6 DEF Past, IdOf
<1>8. \A id : SeenId(id) => SeenId(id)' BY <1>2, <1>6 DEF SeenId, Seen
<1>9. PageTrue'
  <2>1. page.latest <= hub'.sequence BY <1>2, <1>5, <1>6, PageFacts DEF PageTrue
  <2>2. \A i \in 1 .. Len(page.held) : Past(page.held[i])' BY <1>5, <1>7 DEF PageTrue
  <2> QED BY <1>5, <1>7, <1>8, <2>1, <2>2 DEF PageTrue
<1>10. \A r \in Spoken(t, kinds) : r.id[1] = hub.server /\ r.id[2] > hub.sequence
                                  /\ r.id[2] \in Nat
  <2> TAKE r \in Spoken(t, kinds)
  <2>1. r \in ReplyIds /\ r.id[1] = hub.server /\ r.id[2] > hub.sequence
    BY <1>3, SpokenReplies DEF LiveTypeInv, k
  <2> QED BY <2>1, LiveFacts DEF ReplyIds, Ids
<1>11. \A r : Covers(page, r)' <=> Covers(page, r) BY DEF Covers, ReplyOf, IdOf
<1>12. SeenCovered'
  <2> SUFFICES ASSUME NEW r \in replies', r.id[1] # hub.server \/ Seen(page, r.id[2])
               PROVE  Covers(page, r)
    BY <1>2, <1>11 DEF SeenCovered, Seen
  <2>1. CASE r \in replies BY <1>5, <2>1 DEF SeenCovered
  <2>2. CASE r \in Spoken(t, kinds)
    <3>1. r.id[1] = hub.server /\ r.id[2] > hub.sequence /\ r.id[2] \in Nat BY <1>10, <2>2
    <3>2. r.id[2] <= hub.sequence BY <1>5, <3>1, SeenBounds
    <3> QED BY <1>6, <3>1, <3>2
  <2> QED BY <1>1, <2>1, <2>2
<1>13. ASSUME reader.open PROVE StreamTrue'
  <2>1. StreamTrue BY <1>5, <1>13
  <2>2. reader.last <= hub'.sequence BY <1>6, <2>1 DEF StreamTrue
  <2>3. Kept' <= reader.last
    <3>1. Kept <= reader.last /\ (d = 0 \/ Kept + d <= reader.last)
      BY <1>4, <1>13, <2>1 DEF StreamTrue
    <3> QED BY <1>2, <1>6, <3>1
  <2>4. \A i \in 1 .. Len(reader.pending) :
       /\ Past(reader.pending[i])' /\ reader.pending[i].seq <= reader.last
       /\ reader.pending[i].kind = "resync" => Len(reader.pending) = 1
       /\ \A j \in 1 .. i - 1 : reader.pending[j].seq < reader.pending[i].seq
    BY <1>7, <2>1 DEF StreamTrue
  <2>5. ASSUME NEW r \in replies' PROVE Covers(page, r) \/ Coming(r)
    <3>1. CASE r \in replies BY <2>1, <3>1 DEF StreamTrue
    <3>2. CASE r \in Spoken(t, kinds)
      <4>1. r.id[2] > reader.last
        <5>1. r.id[2] > hub.sequence /\ r.id[2] \in Nat BY <1>10, <3>2
        <5>2. reader.last <= hub.sequence BY <2>1 DEF StreamTrue
        <5> QED BY <1>6, <5>1, <5>2
      <4> QED BY <4>1 DEF Coming
    <3> QED BY <1>1, <2>5, <3>1, <3>2
  <2>6. \A r : Coming(r)' <=> Coming(r) BY DEF Coming, ReplyOf, IdOf
  <2> QED BY <1>11, <2>2, <2>3, <2>4, <2>5, <2>6 DEF StreamTrue
<1> QED BY <1>9, <1>12, <1>13

-----------------------------------------------------------------------------
(* The verdicts.                                                           *)

LEMMA OneKind ==
  ASSUME NEW a \in HubKinds
  PROVE  /\ <<a>> \in Seq(HubKinds) /\ Len(<<a>>) = 1 /\ <<a>>[1] = a
         /\ ToSet(<<a>>) = {a}
<1>1. <<a>> \in Seq(HubKinds) /\ Len(<<a>>) = 1 /\ <<a>>[1] = a OBVIOUS
<1>2. DOMAIN <<a>> = 1 .. 1 OBVIOUS
<1> QED BY <1>1, <1>2 DEF ToSet

LEMMA TwoKinds ==
  ASSUME NEW a \in HubKinds, NEW b \in HubKinds
  PROVE  /\ <<a, b>> \in Seq(HubKinds) /\ Len(<<a, b>>) = 2
         /\ <<a, b>>[1] = a /\ <<a, b>>[2] = b
         /\ ToSet(<<a, b>>) = {a, b}
<1>1. /\ <<a, b>> \in Seq(HubKinds) /\ Len(<<a, b>>) = 2
      /\ <<a, b>>[1] = a /\ <<a, b>>[2] = b
  OBVIOUS
<1>2. DOMAIN <<a, b>> = 1 .. 2 OBVIOUS
<1> QED BY <1>1, <1>2 DEF ToSet

\* The failure of a turn stays behind its other events in the hub, and is behind them
\* when it has just been told.
LEMMA FailedStaysLast ==
  ASSUME LiveTypes, HubInv, NEW t \in ViewTurns, NEW kinds \in Seq(HubKinds), Publish(t, kinds),
         NEW u \in ViewTurns,
         \/ u # t /\ FailedLast(u)
         \/ u = t /\ Len(kinds) >= 1 /\ kinds[Len(kinds)] = "failed"
  PROVE  FailedLast(u)'
<1> DEFINE n == Len(hub.events)
           k == Len(kinds)
           d == n + k - Len(hub'.events)
           m == Len(hub'.events)
<1>1. /\ n \in Nat /\ k \in Nat /\ d \in Nat /\ m \in Nat
      /\ \A i \in 1 .. m :
           /\ i + d <= n => i + d \in 1 .. n /\ hub'.events[i] = hub.events[i + d]
           /\ i + d > n => /\ i + d - n \in 1 .. k
                           /\ hub'.events[i] =
                                EventOf(t, hub.sequence + (i + d - n), kinds[i + d - n])
  BY Published DEF HubInv
<1>2. d = n + k - m OBVIOUS
<1> HIDE DEF n, k, d, m
<1>3. PICK c \in Nat : c = d BY <1>1
<1>4. n \in Nat /\ k \in Nat /\ m \in Nat /\ m + c = n + k
  <2>1. c = n + k - m BY <1>2, <1>3
  <2> QED BY <1>1, <2>1
<1> SUFFICES ASSUME NEW i \in 1 .. m, hub'.events[i].turn = u
             PROVE  \E j \in i .. m : hub'.events[j].turn = u /\ hub'.events[j].kind = "failed"
  BY DEF FailedLast, m
<1>5. CASE u = t /\ k >= 1 /\ kinds[k] = "failed"
  <2>1. m \in 1 .. m /\ m \in i .. m BY <1>4
  <2>2. m + c > n /\ m + c - n = k BY <1>4, <1>5
  <2>3. hub'.events[m] = EventOf(t, hub.sequence + k, kinds[k])
    BY <1>1, <1>3, <2>1, <2>2
  <2>4. hub'.events[m].turn = u /\ hub'.events[m].kind = "failed"
    BY <1>5, <2>3 DEF EventOf
  <2> QED BY <2>1, <2>4
<1>6. CASE u # t /\ FailedLast(u)
  <2>1. ~(i + c > n)
    <3>1. SUFFICES ASSUME i + c > n PROVE FALSE OBVIOUS
    <3>2. hub'.events[i] = EventOf(t, hub.sequence + (i + d - n), kinds[i + d - n])
      BY <1>1, <1>3, <3>1
    <3>3. hub'.events[i].turn = t BY <3>2 DEF EventOf
    <3> QED BY <1>6, <3>3
  <2>2. i + c \in 1 .. n /\ hub'.events[i] = hub.events[i + c]
    BY <1>1, <1>3, <1>4, <2>1
  <2>3. PICK j \in (i + c) .. n : hub.events[j].turn = u /\ hub.events[j].kind = "failed"
    BY <1>6, <2>2 DEF FailedLast, n
  <2>4. PICK q \in Nat : q + c = j BY <1>4, <2>3
  <2>5. q \in i .. m /\ q \in 1 .. m /\ q + c <= n BY <1>4, <2>3, <2>4
  <2>6. hub'.events[q] = hub.events[j] BY <1>1, <1>3, <2>4, <2>5
  <2> QED BY <2>3, <2>5, <2>6
<1> QED BY <1>5, <1>6 DEF k

\* A publication about t that leaves the other turns alone.
LEMMA PublishVerdict ==
  ASSUME LiveTypes, HubInv, VerdictInv, NEW t \in ViewTurns, NEW kinds \in Seq(HubKinds),
         Publish(t, kinds), run' = run,
         \A u \in ViewTurns : u # t => gate'[u] = gate[u],
         VerdictOf(t)'
  PROVE  VerdictInv'
<1>1. verdicts' = [verdicts EXCEPT ![t] = @ \union (ToSet(kinds) \intersect Verdicts)]
  BY DEF Publish
<1>2. ASSUME NEW u \in ViewTurns, u # t PROVE VerdictOf(u)'
  <2>1. verdicts'[u] = verdicts[u] /\ gate'[u] = gate[u] /\ run'[u] = run[u]
    BY <1>1, <1>2 DEF LiveTypes
  <2>2. FailedLast(u) => FailedLast(u)' BY <1>2, FailedStaysLast
  <2>3. VerdictOf(u) BY DEF VerdictInv
  <2> QED BY <2>1, <2>2, <2>3 DEF VerdictOf, Verdicts
<1> QED BY <1>2 DEF VerdictInv

LEMMA GateVerdicts ==
  ASSUME LiveTypes, HubInv, VerdictInv, NEW t \in ViewTurns,
         \/ Reserve(t) \/ ClaimFails(t) \/ Accept(t) \/ RouteFails(t) \/ Backpressure(t)
         \/ Routed(t) \/ PollTells(t) \/ LastPoll(t) \/ PollTimesOut(t)
  PROVE  VerdictInv'
<1>0. /\ gate \in [ViewTurns -> {"new", "reserved", "routing", "polling", "last", "over", "lost"}]
      /\ run \in [ViewTurns -> {"none", "queued", "open", "completed", "failed"}]
      /\ verdicts \in [ViewTurns -> SUBSET Verdicts]
      /\ VerdictOf(t)
  BY DEF LiveTypes, Verdicts, VerdictInv
<1>1. ASSUME NEW from, NEW to, GateMoves(t, from, to)
      PROVE  /\ gate[t] = from /\ gate'[t] = to
             /\ \A u \in ViewTurns : u # t => gate'[u] = gate[u]
  BY <1>0, <1>1 DEF GateMoves
<1>2. ASSUME Quiet, run' = run, NEW from, NEW to, GateMoves(t, from, to),
             VerdictOf(t)'
      PROVE  VerdictInv'
  <2>1. ASSUME NEW u \in ViewTurns, u # t PROVE VerdictOf(u)'
    <3>1. gate'[u] = gate[u] /\ VerdictOf(u) BY <1>1, <1>2, <2>1 DEF VerdictInv
    <3> QED BY <1>2, <3>1 DEF VerdictOf, Quiet, FailedLast, Verdicts
  <2> QED BY <1>2, <2>1 DEF VerdictInv
<1>3. ASSUME NEW kinds, Publish(t, kinds)
      PROVE  verdicts'[t] = verdicts[t] \union (ToSet(kinds) \intersect Verdicts)
  BY <1>0, <1>3 DEF Publish
<1>4. CASE Reserve(t)
  <2>1. gate[t] = "new" /\ gate'[t] = "reserved" BY <1>1, <1>4 DEF Reserve
  <2>2. VerdictOf(t)' BY <1>0, <1>4, <2>1 DEF Reserve, Quiet, VerdictOf, Verdicts
  <2> QED BY <1>2, <1>4, <2>2 DEF Reserve
<1>5. CASE ClaimFails(t)
  <2>1. gate[t] = "reserved" /\ gate'[t] = "lost" BY <1>1, <1>5 DEF ClaimFails
  <2>2. VerdictOf(t)' BY <1>0, <1>5, <2>1 DEF ClaimFails, Quiet, VerdictOf, Verdicts
  <2> QED BY <1>2, <1>5, <2>2 DEF ClaimFails
<1>6. CASE Accept(t)
  <2>1. /\ gate[t] = "reserved" /\ gate'[t] = "routing" /\ run' = run
        /\ \A u \in ViewTurns : u # t => gate'[u] = gate[u]
    BY <1>1, <1>6 DEF Accept
  <2>2. <<"accepted">> \in Seq(HubKinds) /\ ToSet(<<"accepted">>) = {"accepted"}
    BY OneKind DEF HubKinds
  <2>3. verdicts'[t] = {}
    BY <1>0, <1>3, <1>6, <2>1, <2>2 DEF Accept, VerdictOf, Verdicts
  <2>4. VerdictOf(t)' BY <1>0, <2>1, <2>3 DEF VerdictOf, Verdicts
  <2> QED BY <1>6, <2>1, <2>2, <2>4, PublishVerdict DEF Accept
<1>7. CASE RouteFails(t)
  <2>1. /\ gate[t] = "routing" /\ gate'[t] = "over" /\ run' = run
        /\ \A u \in ViewTurns : u # t => gate'[u] = gate[u]
    BY <1>1, <1>7 DEF RouteFails
  <2>2. <<"failed">> \in Seq(HubKinds) /\ ToSet(<<"failed">>) = {"failed"}
    BY OneKind DEF HubKinds
  <2>3. verdicts'[t] = {"failed"}
    BY <1>0, <1>3, <1>7, <2>1, <2>2 DEF RouteFails, VerdictOf, Verdicts
  <2>4. VerdictOf(t)' BY <1>0, <2>1, <2>3 DEF VerdictOf, Verdicts
  <2> QED BY <1>7, <2>1, <2>2, <2>4, PublishVerdict DEF RouteFails
<1>8. CASE Backpressure(t)
  <2>1. /\ gate[t] = "routing" /\ gate'[t] = "polling" /\ run' = run
        /\ \A u \in ViewTurns : u # t => gate'[u] = gate[u]
    BY <1>1, <1>8 DEF Backpressure
  <2> DEFINE kinds == <<"backpressure", "failed">>
  <2>2. /\ kinds \in Seq(HubKinds) /\ ToSet(kinds) = {"backpressure", "failed"}
        /\ Len(kinds) = 2 /\ kinds[2] = "failed"
    BY TwoKinds DEF HubKinds
  <2>3. Publish(t, kinds) BY <1>8 DEF Backpressure
  <2> HIDE DEF kinds
  <2>4. verdicts'[t] = {"failed"} BY <1>0, <1>3, <2>1, <2>2, <2>3 DEF VerdictOf, Verdicts
  <2>5. FailedLast(t)' BY <2>2, <2>3, FailedStaysLast
  <2>6. run'[t] = "none" BY <1>0, <2>1 DEF VerdictOf
  <2>7. VerdictOf(t)' BY <2>1, <2>4, <2>5, <2>6 DEF VerdictOf, Verdicts
  <2> QED BY <2>1, <2>2, <2>3, <2>7, PublishVerdict
<1>9. CASE Routed(t)
  <2>1. gate[t] = "routing" /\ gate'[t] = "polling"
        /\ \A u \in ViewTurns : u # t => gate'[u] = gate[u]
    BY <1>1, <1>9 DEF Routed
  <2>2. /\ run'[t] = "queued" /\ \A u \in ViewTurns : u # t => run'[u] = run[u]
        /\ UNCHANGED <<hub, verdicts>>
    BY <1>0, <1>9 DEF Routed, Quiet
  <2>3. VerdictOf(t)' BY <1>0, <2>1, <2>2 DEF VerdictOf, Verdicts
  <2>4. ASSUME NEW u \in ViewTurns, u # t PROVE VerdictOf(u)'
    <3>1. VerdictOf(u) BY DEF VerdictInv
    <3> QED BY <2>1, <2>2, <2>4, <3>1 DEF VerdictOf, FailedLast, Verdicts
  <2> QED BY <2>3, <2>4 DEF VerdictInv
<1>10. CASE PollTells(t)
  <2>1. /\ gate[t] = "polling" /\ gate'[t] = "over" /\ run' = run
        /\ \A u \in ViewTurns : u # t => gate'[u] = gate[u]
    BY <1>1, <1>10 DEF PollTells
  <2>2. CASE Found(t) = "told"
    <3>1. Quiet BY <1>10, <2>2 DEF PollTells
    <3>2. VerdictOf(t)' BY <1>0, <2>1, <3>1 DEF Quiet, VerdictOf, Verdicts
    <3> QED BY <1>2, <1>10, <2>1, <3>1, <3>2 DEF PollTells
  <2>3. CASE Found(t) # "told"
    <3>1. Publish(t, <<Found(t)>>) BY <1>10, <2>3 DEF PollTells
    <3>2. Found(t) \in {"completed", "failed"}
      BY <1>0, <1>10, <2>3 DEF Found, PollTells, Verdicts
    <3>3. ~(run[t] = "none" /\ FailedLast(t))
      <4> SUFFICES ASSUME run[t] = "none", FailedLast(t) PROVE FALSE OBVIOUS
      <4>1. ~InLedger(t) /\ run[t] \notin Verdicts BY DEF InLedger, Verdicts
      <4>2. ~HasEvent(t, {"failed"}) BY <2>3, <4>1 DEF Found
      <4>3. HasTurnEvents(t) BY <1>10, <4>1, <4>2 DEF Found, PollTells
      <4>4. DOMAIN hub.events = 1 .. Len(hub.events) /\ Len(hub.events) \in Nat
        BY LenProperties DEF LiveTypes
      <4>5. PICK i \in 1 .. Len(hub.events) : hub.events[i].turn = t
        BY <4>3, <4>4 DEF HasTurnEvents, ToSet
      <4>6. PICK j \in i .. Len(hub.events) :
              hub.events[j].turn = t /\ hub.events[j].kind = "failed"
        BY <4>5 DEF FailedLast
      <4>7. hub.events[j] \in ToSet(hub.events) BY <4>4, <4>6 DEF ToSet
      <4> QED BY <4>2, <4>6, <4>7 DEF HasEvent
    <3>4. verdicts[t] = {} BY <1>0, <2>1, <3>3 DEF VerdictOf
    <3>5. <<Found(t)>> \in Seq(HubKinds) /\ ToSet(<<Found(t)>>) = {Found(t)}
      <4>1. Found(t) \in HubKinds BY <3>2 DEF HubKinds
      <4> HIDE DEF Found
      <4> QED BY <4>1, OneKind
    <3>6. verdicts'[t] = {Found(t)} BY <1>3, <3>1, <3>2, <3>4, <3>5 DEF Verdicts
    <3>7. VerdictOf(t)' BY <2>1, <3>2, <3>6 DEF VerdictOf, Verdicts
    <3> QED BY <2>1, <3>1, <3>5, <3>7, PublishVerdict
  <2> QED BY <2>2, <2>3
<1>11. CASE LastPoll(t)
  <2>1. gate[t] = "polling" /\ gate'[t] = "last" BY <1>1, <1>11 DEF LastPoll
  <2>2. VerdictOf(t)' BY <1>0, <1>11, <2>1 DEF LastPoll, Quiet, VerdictOf, FailedLast, Verdicts
  <2> QED BY <1>2, <1>11, <2>2 DEF LastPoll
<1>12. CASE PollTimesOut(t)
  <2>1. /\ gate[t] = "last" /\ gate'[t] = "over" /\ run' = run
        /\ \A u \in ViewTurns : u # t => gate'[u] = gate[u]
    BY <1>1, <1>12 DEF PollTimesOut
  <2>2. <<"failed">> \in Seq(HubKinds) /\ ToSet(<<"failed">>) = {"failed"}
    BY OneKind DEF HubKinds
  <2>3. verdicts'[t] = {"failed"}
    BY <1>0, <1>3, <1>12, <2>1, <2>2 DEF PollTimesOut, VerdictOf, Verdicts
  <2>4. VerdictOf(t)' BY <2>1, <2>3 DEF VerdictOf, Verdicts
  <2> QED BY <1>12, <2>1, <2>2, <2>4, PublishVerdict DEF PollTimesOut
<1> QED BY <1>4, <1>5, <1>6, <1>7, <1>8, <1>9, <1>10, <1>11, <1>12

-----------------------------------------------------------------------------
(* Steps that publish, and those that leave the hub alone.                 *)

\* What was good of a page and of events stays so when more is published and recorded.
LEMMA GoodGrows ==
  ASSUME replies \subseteq replies', ledger \subseteq ledger'
  PROVE  /\ page' = page /\ GoodPage(page) => GoodPage(page)'
         /\ reader' = reader /\ AllReal(reader.pending) => AllReal(reader.pending)'
         /\ hub' = hub /\ AllReal(hub.events) => AllReal(hub.events)'
<1>1. ASSUME NEW s, AllReal(s)
      PROVE  \A i \in 1 .. Len(s) : s[i].kind = "reply" => ReplyOf(s[i]) \in replies'
  BY <1>1 DEF AllReal, Real
<1>2. ASSUME page' = page, GoodPage(page) PROVE GoodPage(page)'
  <2>1. AllReal(page.held) BY <1>2 DEF GoodPage
  <2>2. AllReal(page.held)' BY <1>1, <1>2, <2>1 DEF AllReal, Real, ReplyOf, IdOf
  <2> QED BY <1>2, <2>2 DEF GoodPage, Pages, Cuts, ReplyIds, Ids, StreamEvents, Verdicts
<1>3. ASSUME reader' = reader, AllReal(reader.pending) PROVE AllReal(reader.pending)'
  BY <1>1, <1>3 DEF AllReal, Real, ReplyOf, IdOf
<1>4. ASSUME hub' = hub, AllReal(hub.events) PROVE AllReal(hub.events)'
  BY <1>1, <1>4 DEF AllReal, Real, ReplyOf, IdOf
<1> QED BY <1>2, <1>3, <1>4

GateStates == {"new", "reserved", "routing", "polling", "last", "over", "lost"}
RunStates == {"none", "queued", "open"} \union Verdicts

\* A step of the gateway or of a turn that publishes.
LEMMA PublishTyped ==
  ASSUME LiveTypeInv, HubInv, NEW t \in ViewTurns, NEW kinds \in Seq(HubKinds),
         PublishStep(t, kinds), UNCHANGED <<ledger, reader, page>>,
         gate' \in [ViewTurns -> GateStates], run' \in [ViewTurns -> RunStates]
  PROVE  LiveTypeInv'
<1>1. Publish(t, kinds) /\ replies \subseteq replies' BY DEF PublishStep
<1>2. /\ hub' \in [server : 1 .. MaxServers, sequence : 0 .. MaxSent, events : Seq(StreamEvents)]
      /\ verdicts' = [verdicts EXCEPT ![t] = @ \union (ToSet(kinds) \intersect Verdicts)]
      /\ mishaps' \in {mishaps, mishaps \union {"overrun"}}
  BY <1>1, Published DEF HubInv, LiveTypeInv
<1>3. verdicts' \in [ViewTurns -> SUBSET Verdicts] BY <1>2 DEF LiveTypeInv, LiveTypes
<1>4. mishaps' \in SUBSET Mishaps BY <1>2 DEF LiveTypeInv, LiveTypes, Mishaps
<1>5. AllReal(hub.events)' /\ replies' \in SUBSET ReplyIds BY PublishHub DEF LiveTypeInv
<1>6. GoodPage(page)' /\ AllReal(reader.pending)' BY <1>1, GoodGrows DEF LiveTypeInv
<1>7. /\ ledger' \in SUBSET replies'
      /\ reader' \in [open : BOOLEAN, last : 0 .. MaxSent, pending : Seq(StreamEvents)]
  BY <1>1 DEF LiveTypeInv, LiveTypes
<1>8. LiveTypes'
  BY <1>2, <1>3, <1>4, <1>5, <1>7 DEF LiveTypes, GateStates, RunStates, Verdicts, StreamEvents,
     ReplyIds, Ids, Mishaps
<1> QED BY <1>5, <1>6, <1>8 DEF LiveTypeInv

\* A step that leaves the hub, the replies and the page alone.
LEMMA StillView ==
  ASSUME ViewInv, UNCHANGED <<hub, replies, reader, page, mishaps>>
  PROVE  ViewInv'
<1>1. Clean' => Clean BY DEF Clean
<1>2. \A id : SeenId(id)' <=> SeenId(id) BY DEF SeenId, Seen, NoId
<1>3. PageTrue => PageTrue' BY <1>2 DEF PageTrue, Past, IdOf, NoId
<1>4. \A r : Covers(page, r)' <=> Covers(page, r) BY DEF Covers, ReplyOf, IdOf
<1>5. SeenCovered => SeenCovered' BY <1>4 DEF SeenCovered, Seen
<1>6. \A r : Coming(r)' <=> Coming(r) BY DEF Coming, ReplyOf, IdOf
<1>7. StreamTrue => StreamTrue' BY <1>4, <1>6 DEF StreamTrue, Past, IdOf, Kept
<1> QED BY <1>1, <1>3, <1>5, <1>7 DEF ViewInv

LEMMA StillHub ==
  ASSUME HubInv, UNCHANGED <<hub, replies>>
  PROVE  HubInv'
BY DEF HubInv, HubTrue, RepliesKept, Kept, ReplyOf, IdOf

LEMMA StillVerdicts ==
  ASSUME VerdictInv, UNCHANGED <<hub, gate, run, verdicts>>
  PROVE  VerdictInv'
BY DEF VerdictInv, VerdictOf, FailedLast, Verdicts

\* The gateway's actions: what they publish has no reply in it.
LEMMA GateSteps ==
  ASSUME LiveTypes, NEW t \in ViewTurns,
         \/ Reserve(t) \/ ClaimFails(t) \/ Accept(t) \/ RouteFails(t) \/ Backpressure(t)
         \/ Routed(t) \/ PollTells(t) \/ LastPoll(t) \/ PollTimesOut(t)
  PROVE  /\ UNCHANGED <<replies, ledger, reader, page>>
         /\ gate' \in [ViewTurns -> GateStates] /\ run' \in [ViewTurns -> RunStates]
         /\ \/ UNCHANGED <<hub, verdicts, mishaps>>
            \/ \E kinds \in Seq(HubKinds) : PublishStep(t, kinds)
<1>0. gate \in [ViewTurns -> GateStates] /\ run \in [ViewTurns -> RunStates]
  BY DEF LiveTypes, GateStates, RunStates
<1>1. ASSUME NEW from, NEW to \in GateStates, GateMoves(t, from, to)
      PROVE  gate' \in [ViewTurns -> GateStates]
  BY <1>0, <1>1 DEF GateMoves
<1>2. UNCHANGED <<replies, ledger, reader, page>>
  BY DEF Reserve, ClaimFails, Accept, RouteFails, Backpressure, Routed, PollTells, LastPoll,
         PollTimesOut, OffGate
<1>3. gate' \in [ViewTurns -> GateStates]
  BY <1>1 DEF Reserve, ClaimFails, Accept, RouteFails, Backpressure, Routed, PollTells, LastPoll,
              PollTimesOut, GateStates
<1>4. run' \in [ViewTurns -> RunStates]
  <2>1. CASE Routed(t) BY <1>0, <2>1 DEF Routed, RunStates
  <2>2. CASE run' = run BY <1>0, <2>2
  <2> QED BY <2>1, <2>2 DEF Reserve, ClaimFails, Accept, RouteFails, Backpressure, PollTells,
                            LastPoll, PollTimesOut
<1>5. ASSUME NEW kinds \in Seq(HubKinds), "reply" \notin ToSet(kinds), Publish(t, kinds)
      PROVE  PublishStep(t, kinds)
  <2>1. \A i \in 1 .. Len(kinds) : kinds[i] # "reply" BY <1>5, LenProperties DEF ToSet
  <2>2. Spoken(t, kinds) = {} BY <2>1 DEF Spoken
  <2> QED BY <1>2, <1>5, <2>2 DEF PublishStep
<1>6. ASSUME NEW a \in HubKinds \ {"reply"}, Publish(t, <<a>>)
      PROVE  \E kinds \in Seq(HubKinds) : PublishStep(t, kinds)
  <2>1. <<a>> \in Seq(HubKinds) /\ "reply" \notin ToSet(<<a>>) BY <1>6, OneKind
  <2> QED BY <1>5, <1>6, <2>1
<1>7. CASE \/ Reserve(t) \/ ClaimFails(t) \/ Routed(t) \/ LastPoll(t)
  <2>1. Quiet BY <1>7 DEF Reserve, ClaimFails, Routed, LastPoll
  <2> QED BY <1>2, <1>3, <1>4, <2>1 DEF Quiet
<1>8. CASE Accept(t)
  <2>1. \E kinds \in Seq(HubKinds) : PublishStep(t, kinds)
    BY <1>6, <1>8 DEF Accept, HubKinds
  <2> QED BY <1>2, <1>3, <1>4, <2>1
<1>9. CASE RouteFails(t) \/ PollTimesOut(t)
  <2>1. \E kinds \in Seq(HubKinds) : PublishStep(t, kinds)
    BY <1>6, <1>9 DEF RouteFails, PollTimesOut, HubKinds
  <2> QED BY <1>2, <1>3, <1>4, <2>1
<1>10. CASE Backpressure(t)
  <2> DEFINE kinds == <<"backpressure", "failed">>
  <2>1. kinds \in Seq(HubKinds) /\ "reply" \notin ToSet(kinds) BY TwoKinds DEF HubKinds
  <2>2. Publish(t, kinds) BY <1>10 DEF Backpressure
  <2> HIDE DEF kinds
  <2>3. PublishStep(t, kinds) BY <1>5, <2>1, <2>2
  <2> QED BY <1>2, <1>3, <1>4, <2>1, <2>3
<1>11. CASE PollTells(t)
  <2>1. CASE Found(t) = "told"
    BY <1>2, <1>3, <1>4, <1>11, <2>1 DEF PollTells, Quiet
  <2>2. CASE Found(t) # "told"
    <3>1. Found(t) \in HubKinds \ {"reply"}
      BY <1>0, <1>11, <2>2 DEF PollTells, Found, Verdicts, HubKinds
    <3>2. Publish(t, <<Found(t)>>) BY <1>11, <2>2 DEF PollTells
    <3> HIDE DEF Found
    <3>3. \E kinds \in Seq(HubKinds) : PublishStep(t, kinds) BY <1>6, <3>1, <3>2
    <3> QED BY <1>2, <1>3, <1>4, <3>3
  <2> QED BY <2>1, <2>2
<1> QED BY <1>7, <1>8, <1>9, <1>10, <1>11

LEMMA GateStep ==
  ASSUME LiveInv, NEW t \in ViewTurns,
         \/ Reserve(t) \/ ClaimFails(t) \/ Accept(t) \/ RouteFails(t) \/ Backpressure(t)
         \/ Routed(t) \/ PollTells(t) \/ LastPoll(t) \/ PollTimesOut(t)
  PROVE  LiveInv'
<1>1. LiveTypes /\ LiveTypeInv /\ HubInv /\ VerdictInv /\ ViewInv BY DEF LiveInv, LiveTypeInv
<1>2. VerdictInv' BY <1>1, GateVerdicts
<1>3. /\ UNCHANGED <<replies, ledger, reader, page>>
      /\ gate' \in [ViewTurns -> GateStates] /\ run' \in [ViewTurns -> RunStates]
      /\ \/ UNCHANGED <<hub, verdicts, mishaps>>
         \/ \E kinds \in Seq(HubKinds) : PublishStep(t, kinds)
  BY <1>1, GateSteps
<1>4. CASE UNCHANGED <<hub, verdicts, mishaps>>
  <2>1. HubInv' /\ ViewInv' BY <1>1, <1>3, <1>4, StillHub, StillView
  <2>2. GoodPage(page)' /\ AllReal(reader.pending)' /\ AllReal(hub.events)'
    BY <1>1, <1>3, <1>4, GoodGrows DEF LiveTypeInv
  <2>3. LiveTypes'
    BY <1>1, <1>3, <1>4 DEF LiveTypes, GateStates, RunStates, Verdicts, StreamEvents,
       ReplyIds, Ids, Mishaps
  <2> QED BY <1>2, <2>1, <2>2, <2>3 DEF LiveInv, LiveTypeInv
<1>5. CASE \E kinds \in Seq(HubKinds) : PublishStep(t, kinds)
  <2>1. PICK kinds \in Seq(HubKinds) : PublishStep(t, kinds) BY <1>5
  <2>2. LiveTypeInv' BY <1>1, <1>3, <2>1, PublishTyped
  <2>3. HubInv' BY <1>1, <2>1, PublishHub DEF LiveTypeInv
  <2>4. ViewInv' BY <1>1, <1>3, <2>1, PublishView
  <2> QED BY <1>2, <2>2, <2>3, <2>4 DEF LiveInv
<1> QED BY <1>3, <1>4, <1>5

\* A turn starts or ends.
LEMMA RunStep ==
  ASSUME LiveInv, NEW t \in ViewTurns, TurnStarts(t) \/ TurnEnds(t)
  PROVE  LiveInv'
<1>1. LiveTypes /\ LiveTypeInv /\ HubInv /\ VerdictInv /\ ViewInv BY DEF LiveInv, LiveTypeInv
<1>2. UNCHANGED <<hub, verdicts, mishaps, gate, reader, page, replies, ledger>>
  BY DEF TurnStarts, TurnEnds, Quiet, OffRun
<1>3. PICK s \in RunStates : run[t] \in {"queued", "open"} /\ s # "none" /\ run' = [run EXCEPT ![t] = s]
  BY DEF TurnStarts, TurnEnds, RunStates, Verdicts
<1>4. /\ run' \in [ViewTurns -> RunStates] /\ run'[t] = s
      /\ \A u \in ViewTurns : u # t => run'[u] = run[u]
  BY <1>1, <1>3 DEF LiveTypes, RunStates
<1>5. VerdictInv'
  <2> SUFFICES ASSUME NEW u \in ViewTurns PROVE VerdictOf(u)' BY DEF VerdictInv
  <2>1. VerdictOf(u) BY <1>1 DEF VerdictInv
  <2>2. FailedLast(u)' <=> FailedLast(u) BY <1>2 DEF FailedLast
  <2>3. CASE u = t
    <3>1. run[t] # "none" /\ run'[t] # "none" BY <1>3, <1>4
    <3> QED BY <1>2, <2>1, <2>3, <3>1 DEF VerdictOf, Verdicts
  <2>4. CASE u # t
    <3>1. run'[u] = run[u] BY <1>4, <2>4
    <3> QED BY <1>2, <2>1, <2>2, <3>1 DEF VerdictOf, Verdicts
  <2> QED BY <2>3, <2>4
<1>6. HubInv' /\ ViewInv' BY <1>1, <1>2, StillHub, StillView
<1>7. GoodPage(page)' /\ AllReal(reader.pending)' /\ AllReal(hub.events)'
  BY <1>1, <1>2, GoodGrows DEF LiveTypeInv
<1>8. LiveTypes'
  BY <1>1, <1>2, <1>4 DEF LiveTypes, RunStates, Verdicts, StreamEvents, ReplyIds, Ids, Mishaps
<1> QED BY <1>5, <1>6, <1>7, <1>8 DEF LiveInv, LiveTypeInv

\* A turn replies: the one step that publishes a message.
LEMMA ReplyStep ==
  ASSUME LiveInv, NEW t \in ViewTurns, Replies(t)
  PROVE  LiveInv'
<1> DEFINE kinds == <<"reply">>
<1>1. LiveTypes /\ LiveTypeInv /\ HubInv /\ VerdictInv /\ ViewInv BY DEF LiveInv, LiveTypeInv
<1>2. /\ Publish(t, kinds) /\ run[t] = "open"
      /\ UNCHANGED <<gate, run, reader, page, ledger>>
      /\ replies' = replies \union {[id |-> <<hub.server, hub.sequence + 1>>, turn |-> t]}
  BY DEF Replies, OffRun
<1>3. kinds \in Seq(HubKinds) /\ Len(kinds) = 1 /\ kinds[1] = "reply" /\ ToSet(kinds) = {"reply"}
  BY OneKind DEF HubKinds
<1> HIDE DEF kinds
<1>4. Spoken(t, kinds) = {[id |-> <<hub.server, hub.sequence + 1>>, turn |-> t]}
  <2>1. 1 .. Len(kinds) = {1} BY <1>3
  <2>2. {j \in 1 .. Len(kinds) : kinds[j] = "reply"} = {1} BY <1>3, <2>1
  <2> QED BY <2>2 DEF Spoken, ReplyOf, EventOf, IdOf
<1>5. PublishStep(t, kinds) BY <1>2, <1>4 DEF PublishStep
<1>6. gate' \in [ViewTurns -> GateStates] /\ run' \in [ViewTurns -> RunStates]
  BY <1>1, <1>2 DEF LiveTypes, GateStates, RunStates
<1>7. LiveTypeInv' BY <1>1, <1>2, <1>3, <1>5, <1>6, PublishTyped
<1>8. HubInv' BY <1>1, <1>3, <1>5, PublishHub DEF LiveTypeInv
<1>9. ViewInv' BY <1>1, <1>2, <1>3, <1>5, PublishView
<1>10. VerdictInv'
  <2>1. verdicts'[t] = verdicts[t]
    BY <1>1, <1>2, <1>3 DEF Publish, LiveTypes, Verdicts
  <2>2. VerdictOf(t) BY <1>1 DEF VerdictInv
  <2>3. VerdictOf(t)' BY <1>2, <2>1, <2>2 DEF VerdictOf, Verdicts
  <2> QED BY <1>1, <1>2, <1>3, <2>3, PublishVerdict
<1> QED BY <1>7, <1>8, <1>9, <1>10 DEF LiveInv

\* A reply is recorded.
LEMMA RecordStep ==
  ASSUME LiveInv, NEW r \in replies, Records(r)
  PROVE  LiveInv'
<1>1. LiveTypes /\ LiveTypeInv /\ HubInv /\ VerdictInv /\ ViewInv BY DEF LiveInv, LiveTypeInv
<1>2. /\ UNCHANGED <<hub, verdicts, mishaps, gate, reader, page, run, replies>>
      /\ ledger' = ledger \union {r}
  BY DEF Records, Quiet, OffRun
<1>3. HubInv' /\ ViewInv' /\ VerdictInv' BY <1>1, <1>2, StillHub, StillView, StillVerdicts
<1>4. GoodPage(page)' /\ AllReal(reader.pending)' /\ AllReal(hub.events)'
  BY <1>1, <1>2, GoodGrows DEF LiveTypeInv
<1>5. LiveTypes'
  BY <1>1, <1>2 DEF LiveTypes, Verdicts, StreamEvents, ReplyIds, Ids, Mishaps
<1> QED BY <1>3, <1>4, <1>5 DEF LiveInv, LiveTypeInv

-----------------------------------------------------------------------------
(* Steps of the page and of its stream.                                    *)

Readers == [open : BOOLEAN, last : 0 .. MaxSent, pending : Seq(StreamEvents)]
OnlyView == UNCHANGED <<hub, gate, run, replies, ledger, verdicts>>

\* What such a step has to show.
LEMMA ViewStep ==
  ASSUME LiveInv, OnlyView, GoodPage(page'), reader' \in Readers, AllReal(reader'.pending),
         mishaps' \in SUBSET Mishaps, ViewInv'
  PROVE  LiveInv'
<1>1. LiveTypes /\ LiveTypeInv /\ HubInv /\ VerdictInv BY DEF LiveInv, LiveTypeInv
<1>2. UNCHANGED <<hub, gate, run, replies, ledger, verdicts>> BY DEF OnlyView
<1>3. HubInv' /\ VerdictInv' BY <1>1, <1>2, StillHub, StillVerdicts
<1>4. AllReal(hub.events)' BY <1>1, <1>2, GoodGrows DEF LiveTypeInv
<1>5. AllReal(reader.pending)' BY <1>2 DEF AllReal, Real, ReplyOf, IdOf
<1>6. GoodPage(page)'
  BY <1>2 DEF GoodPage, AllReal, Real, ReplyOf, IdOf, Pages, Cuts, ReplyIds, Ids, StreamEvents,
     Verdicts
<1>7. LiveTypes'
  BY <1>1, <1>2 DEF LiveTypes, Readers, Verdicts, StreamEvents, ReplyIds, Ids, Mishaps
<1> QED BY <1>3, <1>4, <1>5, <1>6, <1>7 DEF LiveInv, LiveTypeInv

LEMMA ViewFacts ==
  ASSUME LiveInv
  PROVE  /\ page \in Pages /\ GoodPage(page) /\ reader \in Readers /\ AllReal(reader.pending)
         /\ mishaps \in SUBSET Mishaps /\ LiveTypeInv /\ HubInv /\ ViewInv
         /\ page.cut \in Cuts /\ page.base \in Cuts
BY DEF LiveInv, LiveTypeInv, LiveTypes, GoodPage, Readers, Pages

LEMMA NothingRead ==
  /\ NoReader \in Readers /\ AllReal(NoReader.pending) /\ ~NoReader.open
  /\ NoCut \in Cuts /\ NoCut.replies = {} /\ ~NoCut.taken
  /\ <<>> \in Seq(StreamEvents) /\ AllReal(<<>>)
<1>1. <<>> \in Seq(StreamEvents) /\ AllReal(<<>>) BY EmptySeq DEF AllReal
<1> QED BY <1>1, LiveFacts DEF NoReader, Readers, NoCut, Cuts

LEMMA NoIdInIds == NoId \in Ids
BY LiveFacts DEF NoId, Ids

\* A page that differs only in what it has loaded or corrected, and covers as much.
LEMMA SamePage ==
  ASSUME LiveTypeInv, OnlyView,
         page'.mode = page.mode, page'.cause = page.cause, page'.url = page.url,
         page'.header = page.header, page'.resume = page.resume, page'.latest = page.latest,
         page'.held = page.held,
         PageTrue, SeenCovered,
         \A r \in replies : Covers(page, r) => Covers(page', r)
  PROVE  /\ PageTrue' /\ SeenCovered'
         /\ reader' = reader /\ StreamTrue => StreamTrue'
<1>1. hub' = hub /\ replies' = replies BY DEF OnlyView
<1>2. \A n : Seen(page, n)' <=> Seen(page, n) BY DEF Seen
<1>3. \A id : SeenId(id)' <=> SeenId(id) BY <1>1, <1>2 DEF SeenId, NoId
<1>4. PageTrue' BY <1>1, <1>3 DEF PageTrue, Past, IdOf, NoId
<1>5. \A r : Covers(page, r)' <=> Covers(page', r) BY DEF Covers, ReplyOf, IdOf
<1>6. SeenCovered' BY <1>1, <1>2, <1>5 DEF SeenCovered
<1>7. ASSUME reader' = reader, StreamTrue PROVE StreamTrue'
  <2>1. \A r : Coming(r)' <=> Coming(r) BY <1>7 DEF Coming, ReplyOf, IdOf
  <2> QED BY <1>1, <1>5, <1>7, <2>1 DEF StreamTrue, Past, IdOf, Kept
<1> QED BY <1>4, <1>6, <1>7

LEMMA DropStep ==
  ASSUME LiveInv, Drops
  PROVE  LiveInv'
<1>1. /\ OnlyView /\ mishaps' = mishaps /\ reader' = NoReader
      /\ page' = [page EXCEPT !.drops = @ + 1]
  BY DEF Drops, OnlyView
<1>2. /\ page'.held = page.held /\ page'.base = page.base /\ page'.fixing = page.fixing
      /\ page'.cut = page.cut /\ page'.shown = page.shown
  BY <1>1, ViewFacts DEF Pages
<1>3. page' \in Pages
  <2>1. PICK d \in Nat : d = page.drops + 1 BY ViewFacts DEF Pages
  <2>2. page' = [page EXCEPT !.drops = d] BY <1>1, <2>1
  <2> QED BY <2>2, ViewFacts DEF Pages
<1>4. GoodPage(page') BY <1>2, <1>3, ViewFacts DEF GoodPage
<1>5. ViewInv'
  <2> SUFFICES ASSUME Clean' PROVE (PageTrue /\ SeenCovered)'
    BY <1>1, NothingRead DEF ViewInv
  <2>1. /\ page'.mode = page.mode /\ page'.cause = page.cause /\ page'.url = page.url
        /\ page'.header = page.header /\ page'.resume = page.resume
        /\ page'.latest = page.latest /\ page'.held = page.held
        /\ page'.cut = page.cut /\ page'.shown = page.shown
    BY <1>1, ViewFacts DEF Pages
  <2>2. PageTrue /\ SeenCovered BY <1>1, <2>1, ViewFacts DEF ViewInv, Clean
  <2>3. \A r \in replies : Covers(page, r) => Covers(page', r) BY <2>1 DEF Covers
  <2> QED BY <1>1, <2>1, <2>2, <2>3, SamePage, ViewFacts
<1> QED BY <1>1, <1>4, <1>5, NothingRead, ViewFacts, ViewStep

LEMMA OpenStep ==
  ASSUME LiveInv, Opens
  PROVE  LiveInv'
<1>1. /\ OnlyView /\ mishaps' = {} /\ reader' = NoReader
      /\ page' = [ClosedPage EXCEPT !.mode = "loading", !.views = page.views + 1,
                                    !.drops = page.drops]
  BY DEF Opens, OnlyView, OffPage
<1>2. /\ page'.mode = "loading" /\ page'.cause = "select" /\ page'.url = NoId
      /\ page'.header = NoId /\ page'.latest = 0 /\ page'.held = <<>>
      /\ page'.cut = NoCut /\ page'.base = NoCut /\ page'.shown = {} /\ page'.fixing = {}
  BY <1>1 DEF ClosedPage
<1>3. page' \in Pages
  <2>1. page' = [mode |-> "loading", cause |-> "select", url |-> NoId, header |-> NoId,
                 resume |-> NoId, latest |-> 0, held |-> <<>>, cut |-> NoCut,
                 base |-> NoCut, shown |-> {}, fixing |-> {}, views |-> page.views + 1,
                 drops |-> page.drops]
    BY <1>1 DEF ClosedPage
  <2>2. page.views + 1 \in Nat /\ page.drops \in Nat BY ViewFacts DEF Pages
  <2>3. 0 \in 0 .. MaxSent BY LiveFacts
  <2> QED BY <2>1, <2>2, <2>3, NothingRead, NoIdInIds DEF Pages
<1>4. GoodPage(page') BY <1>2, <1>3, NothingRead DEF GoodPage
<1>5. ViewInv'
  <2>1. \A r : Covers(page, r)' BY <1>2, NothingRead DEF Covers
  <2>2. SeenCovered' BY <2>1 DEF SeenCovered
  <2>3. hub'.sequence \in Nat BY <1>1, PageFacts, ViewFacts DEF OnlyView
  <2>4. Len(page'.held) = 0 /\ 1 .. 0 = {} BY <1>2
  <2>5. PageTrue' BY <1>2, <2>3, <2>4 DEF PageTrue, SeenId
  <2> QED BY <1>1, <2>2, <2>5, NothingRead DEF ViewInv
<1> QED BY <1>1, <1>4, <1>5, NothingRead, ViewFacts, ViewStep

LEMMA SnapshotStep ==
  ASSUME LiveInv, Snapshot
  PROVE  LiveInv'
<1> DEFINE c == [taken |-> TRUE, replies |-> ledger, turns |-> {t \in ViewTurns : InLedger(t)}]
<1>1. /\ OnlyView /\ reader' = reader /\ page.mode = "loading"
      /\ page' = [page EXCEPT !.cut = c]
      /\ mishaps' = IF replies \subseteq ledger THEN mishaps ELSE mishaps \union {"unrecorded"}
  BY DEF Snapshot, OnlyView, OffPage
<1>2. c \in Cuts /\ c.replies = ledger
  BY ViewFacts DEF Cuts, LiveTypeInv, LiveTypes
<1> HIDE DEF c
<1>3. page' \in Pages BY <1>1, <1>2, ViewFacts DEF Pages
<1>4. /\ page'.mode = page.mode /\ page'.cause = page.cause /\ page'.url = page.url
      /\ page'.header = page.header /\ page'.resume = page.resume
      /\ page'.latest = page.latest /\ page'.held = page.held /\ page'.base = page.base
      /\ page'.shown = page.shown /\ page'.fixing = page.fixing /\ page'.cut = c
  BY <1>1, ViewFacts DEF Pages
<1>5. GoodPage(page') BY <1>2, <1>3, <1>4, ViewFacts DEF GoodPage
<1>6. ViewInv'
  <2> SUFFICES ASSUME Clean' PROVE (PageTrue /\ SeenCovered /\ (reader.open => StreamTrue))'
    BY DEF ViewInv
  <2>1. mishaps = {} /\ replies \subseteq ledger BY <1>1 DEF Clean
  <2>2. PageTrue /\ SeenCovered /\ (reader.open => StreamTrue)
    BY <1>1, <2>1, ViewFacts DEF ViewInv, Clean
  <2>3. \A r \in replies : Covers(page', r) BY <1>1, <1>2, <1>4, <2>1 DEF Covers
  <2> QED BY <1>1, <1>4, <2>2, <2>3, SamePage, ViewFacts
<1>7. mishaps' \in SUBSET Mishaps BY <1>1, ViewFacts DEF Mishaps
<1> QED BY <1>1, <1>5, <1>6, <1>7, ViewFacts, ViewStep

LEMMA LoadFailStep ==
  ASSUME LiveInv, LoadFails
  PROVE  LiveInv'
<1>1. /\ OnlyView /\ reader' = reader /\ mishaps' = mishaps \union {"load_failed"}
      /\ page' = [page EXCEPT !.mode = IF page.cause = "select" THEN "stuck" ELSE "live",
                              !.cut = NoCut]
  BY DEF LoadFails, OnlyView, OffPage
<1>2. GoodPage(page') BY <1>1, ViewFacts, NothingRead DEF GoodPage, Pages
<1>3. ViewInv' BY <1>1 DEF ViewInv, Clean
<1>4. mishaps' \in SUBSET Mishaps BY <1>1, ViewFacts DEF Mishaps
<1> QED BY <1>1, <1>2, <1>3, <1>4, ViewFacts, ViewStep

LEMMA CorrectStep ==
  ASSUME LiveInv, NEW f \in page.fixing, Corrects(f)
  PROVE  LiveInv'
<1> DEFINE now == {r \in page.shown : r.turn # f.turn} \union f.content
<1>1. /\ OnlyView /\ reader' = reader
      /\ page' = [page EXCEPT !.fixing = @ \ {f}, !.shown = now]
      /\ mishaps' = IF page.shown \subseteq page'.shown THEN mishaps
                    ELSE mishaps \union {"cut_off"}
  BY DEF Corrects, OnlyView, OffPage
<1>2. now \subseteq replies /\ now \subseteq ReplyIds
  BY ViewFacts DEF GoodPage, LiveTypeInv, LiveTypes
<1> HIDE DEF now
<1>3. page' \in Pages BY <1>1, <1>2, ViewFacts DEF Pages
<1>4. /\ page'.mode = page.mode /\ page'.cause = page.cause /\ page'.url = page.url
      /\ page'.header = page.header /\ page'.resume = page.resume
      /\ page'.latest = page.latest /\ page'.held = page.held /\ page'.base = page.base
      /\ page'.shown = now /\ page'.fixing \subseteq page.fixing /\ page'.cut = page.cut
  BY <1>1, ViewFacts DEF Pages
<1>5. GoodPage(page') BY <1>2, <1>3, <1>4, ViewFacts DEF GoodPage
<1>6. ViewInv'
  <2> SUFFICES ASSUME Clean' PROVE (PageTrue /\ SeenCovered /\ (reader.open => StreamTrue))'
    BY DEF ViewInv
  <2>1. mishaps = {} /\ page.shown \subseteq page'.shown BY <1>1 DEF Clean
  <2>2. PageTrue /\ SeenCovered /\ (reader.open => StreamTrue)
    BY <1>4, <2>1, ViewFacts DEF ViewInv, Clean
  <2>3. \A r \in replies : Covers(page, r) => Covers(page', r) BY <1>4, <2>1 DEF Covers
  <2> QED BY <1>1, <1>4, <2>2, <2>3, SamePage, ViewFacts
<1>7. mishaps' \in SUBSET Mishaps BY <1>1, ViewFacts DEF Mishaps
<1> QED BY <1>1, <1>5, <1>6, <1>7, ViewFacts, ViewStep

\* The server restarts: nothing of the new one is in the hub, and no gateway polls.
LEMMA RestartStep ==
  ASSUME LiveInv, ServerRestarts
  PROVE  LiveInv'
<1>1. LiveTypes /\ LiveTypeInv /\ HubInv /\ VerdictInv BY DEF LiveInv, LiveTypeInv
<1>2. /\ hub.server < MaxServers
      /\ hub' = [server |-> hub.server + 1, sequence |-> 0, events |-> <<>>]
      /\ reader' = NoReader /\ mishaps' = mishaps \union {"restart"}
      /\ UNCHANGED <<replies, ledger, verdicts, page>>
  BY DEF ServerRestarts
<1>3. /\ \A t \in ViewTurns : gate'[t] = IF gate[t] \in {"new", "over"} THEN gate[t] ELSE "lost"
      /\ gate' \in [ViewTurns -> GateStates]
  BY <1>1 DEF ServerRestarts, LiveTypes, GateStates
<1>4. /\ \A t \in ViewTurns : run[t] = "none" => run'[t] = "none"
      /\ run' \in [ViewTurns -> RunStates]
  BY <1>1 DEF ServerRestarts, LiveTypes, RunStates, Verdicts
<1>5. VerdictInv'
  <2> SUFFICES ASSUME NEW t \in ViewTurns PROVE VerdictOf(t)' BY DEF VerdictInv
  <2>1. VerdictOf(t) BY <1>1 DEF VerdictInv
  <2>2. gate'[t] \in {"new", "over", "lost"} /\ (gate'[t] = "new" => gate[t] = "new") BY <1>3
  <2> QED BY <1>2, <1>4, <2>1, <2>2 DEF VerdictOf, Verdicts
<1>6. hub'.server \in 1 .. MaxServers /\ hub'.sequence \in 0 .. MaxSent
  BY <1>1, <1>2, LiveFacts DEF LiveTypes
<1>7. hub' \in [server : 1 .. MaxServers, sequence : 0 .. MaxSent, events : Seq(StreamEvents)]
  BY <1>2, <1>6, NothingRead
<1>8. HubInv'
  <2>1. Len(hub'.events) = 0 /\ 1 .. 0 = {} /\ hub'.sequence = 0 BY <1>2
  <2>2. HubTrue' BY <2>1, LiveFacts DEF HubTrue
  <2>3. ASSUME NEW r \in replies
        PROVE  r.id[1] <= hub'.server /\ r.id[1] # hub'.server
    <3>1. r.id[1] <= hub.server BY <1>1 DEF HubInv, RepliesKept
    <3>2. r.id[1] \in Nat /\ hub.server \in Nat BY <1>1, PageFacts
    <3> QED BY <1>2, <3>1, <3>2
  <2>4. RepliesKept' BY <1>2, <2>3 DEF RepliesKept
  <2> QED BY <2>2, <2>4 DEF HubInv
<1>9. GoodPage(page)' BY <1>1, <1>2, GoodGrows DEF LiveTypeInv
<1>10. AllReal(hub.events)' /\ AllReal(reader.pending)'
  <2>1. Len(hub'.events) = 0 /\ Len(reader'.pending) = 0 /\ 1 .. 0 = {} BY <1>2 DEF NoReader
  <2> QED BY <2>1 DEF AllReal
<1>11. LiveTypes'
  BY <1>1, <1>2, <1>3, <1>4, <1>7, NothingRead
  DEF LiveTypes, Readers, GateStates, RunStates, Verdicts, StreamEvents, ReplyIds, Ids, Mishaps
<1>12. ViewInv' BY <1>2 DEF ViewInv, Clean
<1> QED BY <1>5, <1>8, <1>9, <1>10, <1>11, <1>12 DEF LiveInv, LiveTypeInv

\* Seeing is downward closed, and what was seen is of this server.
LEMMA SeenBefore ==
  ASSUME LiveTypeInv, NEW m \in Nat, NEW n \in Nat, m <= n, Seen(page, n)
  PROVE  Seen(page, m)
<1>1. CASE n <= page.latest BY <1>1, PageFacts DEF Seen
<1>2. CASE \E i \in 1 .. Len(page.held) : n <= page.held[i].seq
  <2>1. PICK i \in 1 .. Len(page.held) : n <= page.held[i].seq BY <1>2
  <2>2. page.held[i].seq \in Nat BY PageFacts
  <2>3. m <= page.held[i].seq BY <2>1, <2>2
  <2> QED BY <2>3 DEF Seen
<1> QED BY <1>1, <1>2 DEF Seen

\* What the stream reads out of the hub.
LEMMA UnreadEvents ==
  ASSUME LiveTypeInv, HubInv, NEW n \in Nat
  PROVE  LET u == Unread(n) IN
         /\ u \in Seq(StreamEvents) /\ Len(u) \in Nat /\ AllReal(u)
         /\ \A i \in 1 .. Len(u) : /\ Past(u[i]) /\ u[i].kind # "resync" /\ u[i].seq > n
                                   /\ \A j \in 1 .. i - 1 : u[j].seq < u[i].seq
         /\ \A r \in replies :
              r.id[1] = hub.server /\ r.id[2] > n /\ r.id[2] > Kept =>
                \E i \in 1 .. Len(u) : u[i].kind = "reply" /\ ReplyOf(u[i]) = r
<1> DEFINE q == hub.events
           gone == {e \in ToSet(hub.events) : e.seq <= n}
           u == Unread(n)
<1>0. /\ q \in Seq(StreamEvents) /\ Len(q) \in Nat /\ hub.sequence \in Nat
      /\ DOMAIN q = 1 .. Len(q)
      /\ \A i \in 1 .. Len(q) : q[i] \in StreamEvents /\ q[i].seq \in Nat
  <2>1. q \in Seq(StreamEvents) /\ Len(q) \in Nat /\ hub.sequence \in Nat BY PageFacts
  <2> QED BY <2>1, LenProperties, HeldItem, EventFacts, LiveFacts
<1>1. u \in Seq(StreamEvents) /\ ToSet(u) = ToSet(q) \ gone
  BY <1>0, RejectingProperties DEF Unread
<1>2. Len(u) \in Nat /\ DOMAIN u = 1 .. Len(u) BY <1>1, LenProperties
<1>3. ASSUME NEW i \in 1 .. Len(u) PROVE \E j \in 1 .. Len(q) : u[i] = q[j] /\ q[j].seq > n
  <2>1. u[i] \in ToSet(q) \ gone BY <1>1, <1>2 DEF ToSet
  <2>2. PICK j \in 1 .. Len(q) : u[i] = q[j] BY <1>0, <2>1 DEF ToSet
  <2>3. ~(q[j].seq <= n) BY <2>1, <2>2
  <2> QED BY <1>0, <2>2, <2>3
<1>4. Len(q) <= hub.sequence
  BY <1>0, LiveFacts DEF HubInv, HubTrue
<1>5. \A j \in 1 .. Len(q) : q[j].server = hub.server /\ q[j].seq = Kept + j /\ q[j].kind # "resync"
  BY DEF HubInv, HubTrue
<1>6. Kept \in Nat /\ Kept + Len(q) = hub.sequence BY <1>0, <1>4 DEF Kept
<1>7. \A j \in 1 .. Len(q) : q[j].seq \in 1 .. hub.sequence BY <1>0, <1>5, <1>6
<1>8. \A i \in 1 .. Len(u) : Past(u[i]) /\ u[i].kind # "resync" /\ u[i].seq > n
  BY <1>3, <1>5, <1>7 DEF Past
<1>9. \A i \in 1 .. Len(u) : \A j \in 1 .. i - 1 : u[j].seq < u[i].seq
  <2> DEFINE R == {p \in StreamEvents \X StreamEvents : p[1].seq < p[2].seq}
  <2>1. \A i, j \in 1 .. Len(q) : i < j => <<q[i], q[j]>> \in R
    <3> TAKE i, j \in 1 .. Len(q)
    <3>1. q[i].seq = Kept + i /\ q[j].seq = Kept + j BY <1>5
    <3>2. i < j => q[i].seq < q[j].seq BY <1>0, <1>6, <3>1
    <3> QED BY <1>0, <3>2
  <2> HIDE DEF R
  <2>2. \A i, j \in 1 .. Len(u) : i < j => <<u[i], u[j]>> \in R
    BY <1>0, <2>1, RejectingKeepsOrder DEF Unread
  <2>3. \A i, j \in 1 .. Len(u) : i < j => u[i].seq < u[j].seq BY <2>2 DEF R
  <2>4. \A i \in 1 .. Len(u) : \A j \in 1 .. i - 1 : j \in 1 .. Len(u) /\ j < i BY <1>2
  <2> QED BY <2>3, <2>4
<1>10. AllReal(u)
  <2>1. AllReal(q) BY DEF LiveTypeInv
  <2> QED BY <1>3, <2>1 DEF AllReal, Real
<1>11. ASSUME NEW r \in replies, r.id[1] = hub.server, r.id[2] > n, r.id[2] > Kept
       PROVE  \E i \in 1 .. Len(u) : u[i].kind = "reply" /\ ReplyOf(u[i]) = r
  <2>1. PICK j \in 1 .. Len(q) : q[j].kind = "reply" /\ ReplyOf(q[j]) = r
    BY <1>11 DEF HubInv, RepliesKept
  <2>2. r.id[2] = q[j].seq BY <2>1 DEF ReplyOf, IdOf
  <2>3. ~(q[j].seq <= n) BY <1>0, <1>11, <2>2
  <2>4. q[j] \in ToSet(q) \ gone BY <1>0, <2>3 DEF ToSet
  <2>5. PICK i \in 1 .. Len(u) : u[i] = q[j] BY <1>1, <1>2, <2>4 DEF ToSet
  <2> QED BY <2>1, <2>5
<1> QED BY <1>1, <1>2, <1>8, <1>9, <1>10, <1>11

\* The stream takes what the hub has and it has not read.
LEMMA FetchStep ==
  ASSUME LiveInv, Fetch
  PROVE  LiveInv'
<1> DEFINE u == Unread(reader.last)
<1>1. /\ OnlyView /\ mishaps' = mishaps /\ page' = page /\ reader.open /\ reader.pending = <<>>
      /\ reader' = [reader EXCEPT !.pending = u, !.last = hub.sequence]
  BY DEF Fetch, OnlyView
<1>2. LiveTypeInv /\ HubInv /\ reader.last \in Nat BY PageFacts, ViewFacts
<1>3. /\ u \in Seq(StreamEvents) /\ Len(u) \in Nat /\ AllReal(u)
      /\ \A i \in 1 .. Len(u) : /\ Past(u[i]) /\ u[i].kind # "resync"
                                /\ \A j \in 1 .. i - 1 : u[j].seq < u[i].seq
      /\ \A r \in replies :
           r.id[1] = hub.server /\ r.id[2] > reader.last /\ r.id[2] > Kept =>
             \E i \in 1 .. Len(u) : u[i].kind = "reply" /\ ReplyOf(u[i]) = r
  BY <1>2, UnreadEvents
<1> HIDE DEF u
<1>4. hub.sequence \in 0 .. MaxSent /\ hub.sequence \in Nat
  BY ViewFacts, PageFacts DEF LiveTypeInv, LiveTypes
<1>5. reader'.open /\ reader'.pending = u /\ reader'.last = hub.sequence /\ reader' \in Readers
  BY <1>1, <1>3, <1>4, ViewFacts DEF Readers
<1>6. ViewInv'
  <2> SUFFICES ASSUME Clean' PROVE (PageTrue /\ SeenCovered /\ StreamTrue)' BY DEF ViewInv
  <2>1. PageTrue /\ SeenCovered /\ StreamTrue BY <1>1, ViewFacts DEF ViewInv, Clean
  <2>2. PageTrue' /\ SeenCovered' BY <1>1, <1>2, <2>1, SamePage
  <2>3. hub' = hub /\ replies' = replies /\ page' = page BY <1>1 DEF OnlyView
  <2>4. Kept <= hub.sequence BY <1>4, PageFacts, <1>2 DEF Kept
  <2>5. \A i \in 1 .. Len(u) : u[i].seq <= hub.sequence BY <1>3, <1>4 DEF Past
  <2>6. ASSUME NEW r \in replies
        PROVE  Covers(page, r) \/ \E i \in 1 .. Len(u) : u[i].kind = "reply" /\ ReplyOf(u[i]) = r
    <3>1. CASE Covers(page, r) BY <3>1
    <3>2. CASE ~Covers(page, r)
      <4>1. r.id[1] = hub.server BY <2>1, <3>2 DEF SeenCovered
      <4>2. Coming(r) BY <2>1, <3>2 DEF StreamTrue
      <4>3. Len(reader.pending) = 0 /\ 1 .. 0 = {} BY <1>1
      <4>4. r.id[2] > reader.last BY <4>2, <4>3 DEF Coming
      <4>5. Kept <= reader.last BY <2>1 DEF StreamTrue
      <4>6. r.id[2] \in Nat /\ Kept \in Int /\ reader.last \in Nat BY <1>2, PageFacts DEF Kept
      <4>7. r.id[2] > Kept BY <4>4, <4>5, <4>6
      <4> QED BY <1>3, <4>1, <4>4, <4>7
    <3> QED BY <3>1, <3>2
  <2>7. \A r \in replies' : Covers(page, r)' \/ Coming(r)'
    BY <1>5, <2>3, <2>6 DEF Covers, Coming, ReplyOf, IdOf
  <2>8. StreamTrue'
    BY <1>3, <1>4, <1>5, <2>3, <2>4, <2>5, <2>7 DEF StreamTrue, Past, Kept, IdOf
  <2> QED BY <2>2, <2>8
<1> QED BY <1>1, <1>3, <1>5, <1>6, ViewFacts, ViewStep

\* The request to resync, which names the last event the hub has.
LEMMA ResyncFacts ==
  ASSUME LiveTypeInv, HubInv
  PROVE  /\ ResyncEvent \in StreamEvents /\ <<ResyncEvent>> \in Seq(StreamEvents)
         /\ Len(<<ResyncEvent>>) = 1 /\ <<ResyncEvent>>[1] = ResyncEvent
         /\ AllReal(<<ResyncEvent>>) /\ ResyncEvent.kind = "resync"
         /\ ResyncEvent.seq = hub.sequence
         /\ hub.sequence >= 1 => Past(ResyncEvent)
<1>0. /\ hub.sequence \in 0 .. MaxSent /\ hub.server \in 1 .. MaxServers
      /\ hub.events \in Seq(StreamEvents) /\ Len(hub.events) \in Nat /\ hub.sequence \in Nat
  BY PageFacts DEF LiveTypeInv, LiveTypes
<1>1. hub.events # <<>> => Len(hub.events) \in 1 .. Len(hub.events)
  BY <1>0, EmptySeq
<1>2. hub.events # <<>> =>
        /\ Last(hub.events) \in StreamEvents
        /\ IdOf(Last(hub.events)) = <<hub.server, hub.sequence>>
  <2> SUFFICES ASSUME hub.events # <<>>
               PROVE  /\ Last(hub.events) \in StreamEvents
                      /\ IdOf(Last(hub.events)) = <<hub.server, hub.sequence>>
    OBVIOUS
  <2>1. Len(hub.events) \in 1 .. Len(hub.events) BY <1>1
  <2>2. Last(hub.events) = hub.events[Len(hub.events)] BY DEF Last
  <2>3. hub.events[Len(hub.events)].server = hub.server
        /\ hub.events[Len(hub.events)].seq = Kept + Len(hub.events)
    BY <2>1 DEF HubInv, HubTrue
  <2>4. Kept + Len(hub.events) = hub.sequence BY <1>0 DEF Kept
  <2>5. Last(hub.events) \in StreamEvents BY <1>0, <2>1, <2>2, HeldItem
  <2> QED BY <2>2, <2>3, <2>4, <2>5 DEF IdOf
<1>3. ResyncEvent.resume \in Ids BY <1>2, EventFacts, NoIdInIds DEF ResyncEvent
<1>4. ResyncEvent \in StreamEvents BY <1>0, <1>3 DEF ResyncEvent, StreamEvents
<1>5. ResyncEvent.kind = "resync" /\ ResyncEvent.seq = hub.sequence /\ ResyncEvent.server = hub.server
  BY DEF ResyncEvent
<1>6. ASSUME hub.sequence >= 1 PROVE Past(ResyncEvent)
  <2>1. Len(hub.events) >= 1 BY <1>0, <1>6, LiveFacts DEF HubInv, HubTrue
  <2>2. hub.events # <<>> BY <2>1
  <2>3. ResyncEvent.resume = <<hub.server, hub.sequence>> BY <1>2, <2>2 DEF ResyncEvent
  <2>4. hub.sequence \in 1 .. hub.sequence BY <1>0, <1>6
  <2> QED BY <1>5, <2>3, <2>4 DEF Past, IdOf
<1> HIDE DEF ResyncEvent
<1>7. /\ <<ResyncEvent>> \in Seq(StreamEvents) /\ Len(<<ResyncEvent>>) = 1
      /\ <<ResyncEvent>>[1] = ResyncEvent
  BY <1>4
<1>8. AllReal(<<ResyncEvent>>) BY <1>5, <1>7 DEF AllReal, Real
<1> QED BY <1>4, <1>5, <1>6, <1>7, <1>8

\* A new stream.
LEMMA RegisterStep ==
  ASSUME LiveInv, Register
  PROVE  LiveInv'
<1> DEFINE found == {e \in ToSet(hub.events) : IdOf(e) = ResumeAfter}
           s == IF ResumeAfter = NoId THEN <<>>
                ELSE IF found = {} THEN <<ResyncEvent>>
                ELSE Unread((CHOOSE e \in found : TRUE).seq)
<1>1. /\ OnlyView /\ page' = page /\ page.mode # "closed"
      /\ reader' = [open |-> TRUE, last |-> hub.sequence, pending |-> s]
      /\ mishaps' = IF TailGap THEN mishaps \union {"tail_gap"} ELSE mishaps
  BY DEF Register, OnlyView
<1>2. LiveTypeInv /\ HubInv BY ViewFacts
<1>3. hub.sequence \in 0 .. MaxSent /\ hub.sequence \in Nat /\ Kept <= hub.sequence /\ Kept \in Int
  BY <1>2, PageFacts DEF LiveTypeInv, LiveTypes, Kept
<1>4. ASSUME found # {}
      PROVE  \E e \in ToSet(hub.events) :
               /\ IdOf(e) = ResumeAfter /\ e.seq \in Nat /\ e.seq > Kept
               /\ (CHOOSE x \in found : TRUE) = e
  <2>1. PICK e \in found : e = CHOOSE x \in found : TRUE BY <1>4
  <2>2. e \in ToSet(hub.events) /\ IdOf(e) = ResumeAfter BY <2>1
  <2>3. DOMAIN hub.events = 1 .. Len(hub.events) BY <1>2, PageFacts, LenProperties
  <2>4. PICK j \in 1 .. Len(hub.events) : hub.events[j] = e BY <2>2, <2>3 DEF ToSet
  <2>5. e.seq = Kept + j BY <1>2, <2>4 DEF HubInv, HubTrue
  <2>6. e.seq \in Nat BY <1>2, <2>4, PageFacts, HeldItem, EventFacts, LiveFacts
  <2>7. e.seq > Kept BY <1>2, <1>3, <2>5, PageFacts
  <2> QED BY <2>1, <2>2, <2>6, <2>7
<1>5. /\ s \in Seq(StreamEvents) /\ Len(s) \in Nat /\ AllReal(s)
  <2>1. CASE ResumeAfter = NoId BY <2>1, NothingRead
  <2>2. CASE ResumeAfter # NoId /\ found = {} BY <1>2, <2>2, ResyncFacts
  <2>3. CASE ResumeAfter # NoId /\ found # {}
    <3>1. PICK e \in ToSet(hub.events) : e.seq \in Nat /\ (CHOOSE x \in found : TRUE) = e
      BY <1>4, <2>3
    <3>2. s = Unread(e.seq) BY <2>3, <3>1
    <3> HIDE DEF s
    <3> QED BY <1>2, <3>1, <3>2, UnreadEvents
  <2> QED BY <2>1, <2>2, <2>3
<1> HIDE DEF s
<1>6. reader'.open /\ reader'.pending = s /\ reader'.last = hub.sequence /\ reader' \in Readers
  BY <1>1, <1>3, <1>5 DEF Readers
<1>7. ViewInv'
  <2> SUFFICES ASSUME Clean' PROVE (PageTrue /\ SeenCovered /\ StreamTrue)' BY DEF ViewInv
  <2>1. mishaps = {} /\ ~TailGap BY <1>1 DEF Clean
  <2>2. PageTrue /\ SeenCovered BY <1>1, <2>1, ViewFacts DEF ViewInv, Clean
  <2>3. PageTrue' /\ SeenCovered' BY <1>1, <1>2, <2>2, SamePage
  <2>4. hub' = hub /\ replies' = replies /\ page' = page BY <1>1 DEF OnlyView
  <2>5. SeenId(ResumeAfter) BY <2>2 DEF PageTrue, ResumeAfter
  <2>6. /\ \A i \in 1 .. Len(s) :
             /\ Past(s[i]) /\ s[i].seq <= hub.sequence
             /\ s[i].kind = "resync" => Len(s) = 1
             /\ \A j \in 1 .. i - 1 : s[j].seq < s[i].seq
        /\ \A r \in replies :
             \/ Covers(page, r)
             \/ \E i \in 1 .. Len(s) : \/ s[i].kind = "resync"
                                       \/ s[i].kind = "reply" /\ ReplyOf(s[i]) = r
    <3>1. CASE ResumeAfter = NoId
      <4>1. s = <<>> /\ Len(s) = 0 /\ 1 .. 0 = {} BY <3>1 DEF s
      <4>2. page.cause = "select"
        BY <2>2, <3>1, ViewFacts DEF PageTrue, ResumeAfter, Pages
      <4>3. page.mode \in {"loading", "live"} BY <2>2 DEF PageTrue
      <4>4. CASE page.mode = "live"
        <5>1. replies \subseteq page.shown BY <2>1, <3>1, <4>2, <4>4 DEF TailGap
        <5> QED BY <4>1, <4>4, <5>1 DEF Covers
      <4>5. CASE page.mode = "loading"
        <5>1. ~page.cut.taken \/ replies \subseteq page.cut.replies
          BY <2>1, <3>1, <4>2, <4>5 DEF TailGap
        <5> QED BY <4>1, <4>5, <5>1 DEF Covers
      <4> QED BY <4>3, <4>4, <4>5
    <3>2. CASE ResumeAfter # NoId /\ found = {}
      <4>1. s = <<ResyncEvent>> BY <3>2 DEF s
      <4>2. ResumeAfter[2] \in 1 .. hub.sequence BY <2>5, <3>2 DEF SeenId
      <4>3. hub.sequence >= 1 BY <1>3, <4>2
      <4>4. /\ Len(s) = 1 /\ s[1].kind = "resync" /\ s[1].seq = hub.sequence /\ Past(s[1])
        BY <1>2, <4>1, <4>3, ResyncFacts
      <4>5. 1 .. 1 = {1} /\ 1 .. 1 - 1 = {} /\ hub.sequence <= hub.sequence BY <1>3
      <4> QED BY <4>4, <4>5
    <3>3. CASE ResumeAfter # NoId /\ found # {}
      <4>1. PICK e \in ToSet(hub.events) :
               /\ IdOf(e) = ResumeAfter /\ e.seq \in Nat /\ e.seq > Kept
               /\ (CHOOSE x \in found : TRUE) = e
        BY <1>4, <3>3
      <4>2. s = Unread(e.seq) BY <3>3, <4>1 DEF s
      <4>3. /\ \A i \in 1 .. Len(s) : /\ Past(s[i]) /\ s[i].kind # "resync"
                                      /\ \A j \in 1 .. i - 1 : s[j].seq < s[i].seq
            /\ \A r \in replies :
                 r.id[1] = hub.server /\ r.id[2] > e.seq /\ r.id[2] > Kept =>
                   \E i \in 1 .. Len(s) : s[i].kind = "reply" /\ ReplyOf(s[i]) = r
        BY <1>2, <4>1, <4>2, UnreadEvents
      <4>4. \A i \in 1 .. Len(s) : s[i].seq <= hub.sequence BY <1>3, <4>3 DEF Past
      <4>5. Seen(page, e.seq)
        <5>1. e.seq = ResumeAfter[2] BY <4>1 DEF IdOf
        <5> QED BY <2>5, <3>3, <5>1 DEF SeenId
      <4>6. ASSUME NEW r \in replies, ~Covers(page, r)
            PROVE  \E i \in 1 .. Len(s) : s[i].kind = "reply" /\ ReplyOf(s[i]) = r
        <5>1. r.id[1] = hub.server /\ ~Seen(page, r.id[2]) BY <2>2, <4>6 DEF SeenCovered
        <5>2. r.id[2] \in Nat BY <1>2, PageFacts
        <5>3. ~(r.id[2] <= e.seq) BY <1>2, <4>1, <4>5, <5>1, <5>2, SeenBefore
        <5>4. r.id[2] > e.seq /\ r.id[2] > Kept BY <1>3, <4>1, <5>2, <5>3
        <5> QED BY <4>3, <5>1, <5>4
      <4> QED BY <4>3, <4>4, <4>6
    <3> QED BY <3>1, <3>2, <3>3
  <2>7. \A r \in replies' : Covers(page, r)' \/ Coming(r)'
    BY <1>6, <2>4, <2>6 DEF Covers, Coming, ReplyOf, IdOf
  <2>8. StreamTrue'
    BY <1>3, <1>6, <2>4, <2>6, <2>7 DEF StreamTrue, Past, Kept, IdOf
  <2> QED BY <2>3, <2>8
<1>8. mishaps' \in SUBSET Mishaps BY <1>1, ViewFacts DEF Mishaps
<1> QED BY <1>1, <1>5, <1>6, <1>7, <1>8, ViewFacts, ViewStep

\* What the page has seen and covers depends on these parts of it only.
LEMMA SeesAlike ==
  ASSUME NEW p, NEW q, p.mode = q.mode, p.latest = q.latest, p.held = q.held,
         p.cut = q.cut, p.shown = q.shown
  PROVE  /\ \A n : Seen(p, n) <=> Seen(q, n)
         /\ \A r : Covers(p, r) <=> Covers(q, r)
<1>1. \A n : Seen(p, n) <=> Seen(q, n) BY DEF Seen
<1>2. \A r : Covers(p, r) <=> Covers(q, r) BY DEF Covers
<1> QED BY <1>1, <1>2

\* The first event of the stream, and the others.
LEMMA FirstOfPending ==
  ASSUME NEW s \in Seq(StreamEvents), s # <<>>
  PROVE  /\ Head(s) \in StreamEvents /\ Head(s) = s[1] /\ 1 \in 1 .. Len(s)
         /\ Tail(s) \in Seq(StreamEvents) /\ Len(Tail(s)) = Len(s) - 1
         /\ \A i \in 1 .. Len(Tail(s)) : i + 1 \in 1 .. Len(s) /\ Tail(s)[i] = s[i + 1]
         /\ \A i \in 1 .. Len(s) : i = 1 \/ (i - 1 \in 1 .. Len(Tail(s)) /\ Tail(s)[i - 1] = s[i])
<1>1. Len(s) \in Nat /\ Len(s) >= 1 BY EmptySeq, LenProperties
<1>2. /\ Head(s) \in StreamEvents /\ Head(s) = s[1]
      /\ Tail(s) \in Seq(StreamEvents) /\ Len(Tail(s)) = Len(s) - 1
      /\ \A i \in 1 .. Len(Tail(s)) : Tail(s)[i] = s[i + 1]
  BY HeadTailProperties
<1>3. \A i \in 1 .. Len(s) : i = 1 \/ i - 1 \in 1 .. Len(Tail(s)) BY <1>1, <1>2
<1>4. \A i \in 1 .. Len(s) : (i - 1) + 1 = i BY <1>1
<1> QED BY <1>1, <1>2, <1>3, <1>4

\* A page that was never opened has no stream.
ClosedUnread == page.mode = "closed" => ~reader.open

\* The stream hands the page an event.
LEMMA DeliverStep ==
  ASSUME LiveInv, ClosedUnread, Delivers
  PROVE  LiveInv'
<1> DEFINE s == reader.pending
           e == Head(reader.pending)
           h == Handle(page, e)
<1>1. /\ OnlyView /\ mishaps' = mishaps /\ reader.open /\ s # <<>>
      /\ reader' = [reader EXCEPT !.pending = Tail(s)]
      /\ page' = [h EXCEPT !.header = IdOf(e)]
  BY DEF Delivers, OnlyView, OffPage
<1>2. LiveTypeInv /\ HubInv /\ s \in Seq(StreamEvents) /\ Len(s) \in Nat
      /\ replies \subseteq ReplyIds /\ ledger \subseteq replies /\ GoodPage(page)
  BY PageFacts, ViewFacts
<1>3. /\ e \in StreamEvents /\ e = s[1] /\ 1 \in 1 .. Len(s)
      /\ Tail(s) \in Seq(StreamEvents) /\ Len(Tail(s)) = Len(s) - 1
      /\ \A i \in 1 .. Len(Tail(s)) : i + 1 \in 1 .. Len(s) /\ Tail(s)[i] = s[i + 1]
      /\ \A i \in 1 .. Len(s) : i = 1 \/ (i - 1 \in 1 .. Len(Tail(s)) /\ Tail(s)[i - 1] = s[i])
  BY <1>1, <1>2, FirstOfPending
<1>4. Real(e) /\ AllReal(Tail(s))
  <2>1. AllReal(s) BY ViewFacts
  <2> QED BY <1>3, <2>1 DEF AllReal
<1>5. e.seq \in Nat /\ IdOf(e) \in Ids /\ IdOf(e) # NoId /\ IdOf(e)[1] = e.server
      /\ IdOf(e)[2] = e.seq
  BY <1>3, EventFacts, LiveFacts
<1> HIDE DEF e
<1>6. GoodPage(h) BY <1>2, <1>3, <1>4, HandleGood
<1>7. h \in Pages BY <1>6 DEF GoodPage
<1> HIDE DEF h
<1>8. /\ page'.mode = h.mode /\ page'.cause = h.cause /\ page'.url = h.url
      /\ page'.header = IdOf(e) /\ page'.resume = h.resume /\ page'.latest = h.latest
      /\ page'.held = h.held /\ page'.cut = h.cut /\ page'.shown = h.shown
      /\ page'.base = h.base /\ page'.fixing = h.fixing /\ page' \in Pages
  BY <1>1, <1>5, <1>7 DEF Pages
<1>9. GoodPage(page') BY <1>6, <1>8 DEF GoodPage
<1>10. reader' \in Readers /\ reader'.pending = Tail(s) /\ reader'.open /\ reader'.last = reader.last
  BY <1>1, <1>3, ViewFacts DEF Readers
<1>11. ViewInv'
  <2> SUFFICES ASSUME Clean' PROVE (PageTrue /\ SeenCovered /\ StreamTrue)' BY DEF ViewInv
  <2>1. hub' = hub /\ replies' = replies BY <1>1 DEF OnlyView
  <2>2. PageTrue /\ SeenCovered /\ StreamTrue
    BY <1>1, ViewFacts DEF ViewInv, Clean, ClosedUnread
  <2>3. page.mode \in {"loading", "live"} /\ (page.mode = "live" => page.held = <<>>) /\ page \in Pages
    BY <2>2, ViewFacts DEF PageTrue
  <2>4. /\ h.mode \in {"live", "loading"} /\ (h.mode = "live" => h.held = <<>>)
        /\ \A n \in Nat : Seen(h, n) <=> Seen(page, n) \/ n <= e.seq
        /\ \A r : \/ Covers(page, r)
                  \/ e.kind = "resync"
                  \/ e.kind = "reply" /\ ReplyOf(e) = r /\ ~Seen(page, e.seq)
                  => Covers(h, r)
        /\ h.url = page.url /\ h.latest \in {page.latest, e.seq}
        /\ \/ h.cause = page.cause /\ h.resume = page.resume
           \/ e.kind = "resync" /\ h.cause = "resync" /\ h.resume = e.resume
        /\ \A i \in 1 .. Len(h.held) :
             h.held[i] = e \/ \E j \in 1 .. Len(page.held) : h.held[i] = page.held[j]
    BY <1>3, <2>3, HandleCovers DEF h
  <2>5. /\ \A n : Seen(page', n) <=> Seen(h, n)
        /\ \A r : Covers(page', r) <=> Covers(h, r)
    BY <1>8, SeesAlike
  <2>6. Past(e) /\ e.seq <= reader.last BY <1>3, <2>2 DEF StreamTrue
  <2>7. e.server = hub.server /\ e.seq \in 1 .. hub.sequence /\ (e.kind = "resync" => e.resume = IdOf(e))
    BY <2>6 DEF Past
  <2>8. hub.sequence \in Nat /\ reader.last \in Nat /\ \A r \in replies : r.id[1] \in Nat /\ r.id[2] \in Nat
    BY <1>2, PageFacts
  <2>9. \A id : SeenId(id) => SeenId(id)'
    <3> SUFFICES ASSUME NEW id, SeenId(id), id # NoId PROVE SeenId(id)'
      BY DEF SeenId, NoId
    <3>1. id[1] = hub.server /\ id[2] \in 1 .. hub.sequence /\ Seen(page, id[2])
      BY DEF SeenId
    <3>2. id[2] \in Nat BY <2>8, <3>1
    <3>3. Seen(page', id[2]) BY <2>4, <2>5, <3>1, <3>2
    <3>4. Seen(page, id[2])' BY <3>3 DEF Seen
    <3> QED BY <2>1, <3>1, <3>4 DEF SeenId
  <2>10. \A id : id = IdOf(e) => SeenId(id)'
    <3> SUFFICES ASSUME NEW id, id = IdOf(e) PROVE SeenId(id)' OBVIOUS
    <3>1. id[1] = hub.server /\ id[2] = e.seq BY <1>5, <2>7
    <3>2. Seen(page', id[2])
      <4>1. e.seq <= e.seq BY <1>5
      <4> QED BY <1>5, <2>4, <2>5, <3>1, <4>1
    <3>3. Seen(page, id[2])' BY <3>2 DEF Seen
    <3> QED BY <2>1, <2>7, <3>1, <3>3 DEF SeenId
  <2>11. PageTrue'
    <3>1. page'.mode \in {"loading", "live"} /\ (page'.mode = "live" => page'.held = <<>>)
      BY <1>8, <2>4
    <3>2. page'.latest <= hub'.sequence
      <4>1. page.latest <= hub.sequence /\ e.seq <= hub.sequence
        BY <2>2, <2>7, <2>8 DEF PageTrue
      <4> QED BY <1>8, <2>1, <2>4, <4>1
    <3>3. \A i \in 1 .. Len(page'.held) : Past(page'.held[i])
      <4>1. \A i \in 1 .. Len(page.held) : Past(page.held[i]) BY <2>2 DEF PageTrue
      <4> QED BY <1>8, <2>4, <2>6, <4>1
    <3>4. \A i \in 1 .. Len(page'.held) : Past(page.held[i])'
      BY <2>1, <3>3 DEF Past, IdOf
    <3>5. SeenId(page.url)' /\ SeenId(page.header)'
      <4>1. SeenId(page.url) BY <2>2 DEF PageTrue
      <4>2. \A id : id = page'.url /\ SeenId(page.url) => SeenId(id)' BY <1>8, <2>4, <2>9
      <4>3. page'.url = page.url BY <1>8, <2>4
      <4>4. SeenId(page.url)' BY <4>1, <4>2, <4>3 DEF SeenId
      <4>5. SeenId(page.header)' BY <1>8, <2>10 DEF SeenId
      <4> QED BY <4>4, <4>5
    <3>6. page'.cause = "resync" => SeenId(page.resume)' /\ page'.resume # NoId
      <4>1. CASE h.cause = page.cause /\ h.resume = page.resume
        <5>1. page'.cause = "resync" => SeenId(page.resume) /\ page.resume # NoId
          BY <1>8, <2>2, <4>1 DEF PageTrue
        <5>2. page'.resume = page.resume BY <1>8, <4>1
        <5>3. page'.cause = "resync" => \A id : id = page.resume => SeenId(id)' BY <2>9, <5>1
        <5> QED BY <5>1, <5>2, <5>3 DEF SeenId
      <4>2. CASE e.kind = "resync" /\ h.resume = e.resume
        <5>1. page'.resume = IdOf(e) BY <1>8, <2>7, <4>2
        <5> QED BY <1>5, <2>10, <5>1 DEF SeenId
      <4> QED BY <2>4, <4>1, <4>2
    <3>7. page'.header # NoId BY <1>5, <1>8
    <3> QED BY <2>1, <3>1, <3>2, <3>4, <3>5, <3>6, <3>7 DEF PageTrue, NoId
  <2>12. ASSUME NEW r \in replies, ~Covers(page', r)
         PROVE  /\ r.id[2] > e.seq
                /\ \/ r.id[2] > reader.last
                   \/ \E i \in 1 .. Len(Tail(s)) :
                        \/ Tail(s)[i].kind = "resync"
                        \/ Tail(s)[i].kind = "reply" /\ ReplyOf(Tail(s)[i]) = r
    <3>1. ~Covers(page, r) /\ e.kind # "resync"
          /\ ~(e.kind = "reply" /\ ReplyOf(e) = r /\ ~Seen(page, e.seq))
      BY <2>4, <2>5, <2>12
    <3>2. ~Seen(page, r.id[2]) BY <2>2, <3>1 DEF SeenCovered
    <3>3. ~(e.kind = "reply" /\ ReplyOf(e) = r)
      BY <1>5, <3>1, <3>2 DEF ReplyOf
    <3>4. Coming(r) BY <2>2, <3>1 DEF StreamTrue
    <3>5. CASE r.id[2] > reader.last BY <1>5, <2>6, <2>8, <3>5
    <3>6. CASE \E i \in 1 .. Len(s) : \/ s[i].kind = "resync"
                                      \/ s[i].kind = "reply" /\ ReplyOf(s[i]) = r
      <4>1. PICK i \in 1 .. Len(s) : \/ s[i].kind = "resync"
                                     \/ s[i].kind = "reply" /\ ReplyOf(s[i]) = r
        BY <3>6
      <4>2. i # 1 BY <1>3, <3>1, <3>3, <4>1
      <4>3. i - 1 \in 1 .. Len(Tail(s)) /\ Tail(s)[i - 1] = s[i] BY <1>3, <4>2
      <4>4. 1 \in 1 .. i - 1 BY <1>2, <4>2
      <4>5. /\ s[1].seq < s[i].seq /\ (s[i].kind = "resync" => Len(s) = 1)
        BY <2>2, <4>4 DEF StreamTrue
      <4>6. s[i].kind # "resync" BY <1>2, <4>2, <4>5
      <4>7. r.id[2] = s[i].seq BY <4>1, <4>6 DEF ReplyOf, IdOf
      <4>8. r.id[2] > e.seq BY <1>3, <1>5, <2>8, <4>5, <4>7
      <4> QED BY <4>1, <4>3, <4>8
    <3> QED BY <3>4, <3>5, <3>6 DEF Coming
  <2>13. \A r : Covers(page, r)' <=> Covers(page', r) BY DEF Covers, ReplyOf, IdOf
  <2>14. SeenCovered'
    <3> SUFFICES ASSUME NEW r \in replies, r.id[1] # hub.server \/ Seen(page', r.id[2])
                 PROVE  Covers(page', r)
      BY <2>1, <2>13 DEF SeenCovered, Seen
    <3>1. CASE r.id[1] # hub.server \/ Seen(page, r.id[2])
      BY <2>2, <2>4, <2>5, <3>1 DEF SeenCovered
    <3>2. CASE r.id[2] <= e.seq BY <1>5, <2>8, <2>12, <3>2
    <3> QED BY <2>4, <2>5, <2>8, <3>1, <3>2
  <2>15. StreamTrue'
    <3>1. \A i \in 1 .. Len(Tail(s)) :
            /\ Past(Tail(s)[i]) /\ Tail(s)[i].seq <= reader.last
            /\ Tail(s)[i].kind = "resync" => Len(Tail(s)) = 1
            /\ \A j \in 1 .. i - 1 : Tail(s)[j].seq < Tail(s)[i].seq
      <4> TAKE i \in 1 .. Len(Tail(s))
      <4>1. i + 1 \in 1 .. Len(s) /\ Tail(s)[i] = s[i + 1] BY <1>3
      <4>2. /\ Past(s[i + 1]) /\ s[i + 1].seq <= reader.last
            /\ s[i + 1].kind = "resync" => Len(s) = 1
            /\ \A j \in 1 .. (i + 1) - 1 : s[j].seq < s[i + 1].seq
        BY <2>2, <4>1 DEF StreamTrue
      <4>3. ~(Len(s) = 1) BY <1>2, <1>3, <4>1
      <4>4. \A j \in 1 .. i - 1 : /\ j \in 1 .. Len(Tail(s)) /\ j + 1 \in 1 .. (i + 1) - 1
                                  /\ Tail(s)[j] = s[j + 1]
        BY <1>2, <1>3
      <4> QED BY <4>1, <4>2, <4>3, <4>4
    <3>2. \A r \in replies' : Covers(page, r)' \/ Coming(r)'
      BY <1>10, <2>1, <2>12, <2>13 DEF Coming, ReplyOf, IdOf
    <3>3. reader.last <= hub.sequence /\ Kept <= reader.last BY <2>2 DEF StreamTrue
    <3> QED BY <1>10, <2>1, <3>1, <3>2, <3>3 DEF StreamTrue, Past, IdOf, Kept
  <2> QED BY <2>11, <2>14, <2>15
<1> QED BY <1>1, <1>4, <1>9, <1>10, <1>11, ViewFacts, ViewStep

\* A page that has loaded its history, and goes on with its stream or asks for a new one
\* where the resync said.
LEMMA LoadedTrue ==
  ASSUME LiveTypeInv, OnlyView, page.mode = "loading", page.cut.taken, PageTrue, SeenCovered,
         page'.mode = Loaded.mode, page'.cause = Loaded.cause, page'.resume = Loaded.resume,
         page'.latest = Loaded.latest, page'.held = Loaded.held, page'.cut = Loaded.cut,
         page'.shown = Loaded.shown,
         \/ page'.url = page.url /\ page'.header = page.header
         \/ page.cause = "resync" /\ page'.url = page.resume /\ page'.header = NoId
  PROVE  /\ PageTrue' /\ SeenCovered'
         /\ \A r : Covers(page, r) => Covers(page', r)
<1>1. /\ Loaded.mode \in {"live", "loading"} /\ (Loaded.mode = "live" => Loaded.held = <<>>)
      /\ \A n \in Nat : Seen(Loaded, n) <=> Seen(page, n)
      /\ \A r : Covers(page, r) => Covers(Loaded, r)
      /\ Loaded.latest = page.latest \/ \E j \in 1 .. Len(page.held) : Loaded.latest = page.held[j].seq
      /\ \/ Loaded.cause = page.cause /\ Loaded.resume = page.resume
         \/ \E j \in 1 .. Len(page.held) :
              /\ page.held[j].kind = "resync"
              /\ Loaded.cause = "resync" /\ Loaded.resume = page.held[j].resume
      /\ \A i \in 1 .. Len(Loaded.held) :
           \E j \in 1 .. Len(page.held) : Loaded.held[i] = page.held[j]
  BY PageFacts, LoadedCovers
<1> DEFINE l == Loaded
<1>2. hub' = hub /\ replies' = replies BY DEF OnlyView
<1>3. /\ hub.sequence \in Nat /\ \A r \in replies : r.id[1] \in Nat /\ r.id[2] \in Nat
      /\ Len(page.held) \in Nat
      /\ \A i \in 1 .. Len(page.held) : page.held[i] \in StreamEvents /\ page.held[i].seq \in Nat
  BY PageFacts
<1>4. /\ \A n : Seen(page', n) <=> Seen(Loaded, n)
      /\ \A r : Covers(page', r) <=> Covers(Loaded, r)
  BY SeesAlike
<1>5. \A i \in 1 .. Len(page.held) :
        Past(page.held[i]) /\ page.held[i].seq <= hub.sequence
  BY <1>3 DEF PageTrue, Past
<1>6. \A id : SeenId(id) => SeenId(id)'
  <2> SUFFICES ASSUME NEW id, SeenId(id), id # NoId PROVE SeenId(id)'
    BY DEF SeenId, NoId
  <2>1. id[1] = hub.server /\ id[2] \in 1 .. hub.sequence /\ Seen(page, id[2])
    BY DEF SeenId
  <2>2. id[2] \in Nat BY <1>3, <2>1
  <2>3. Seen(page', id[2]) BY <1>1, <1>4, <2>1, <2>2
  <2>4. Seen(page, id[2])' BY <2>3 DEF Seen
  <2> QED BY <1>2, <2>1, <2>4 DEF SeenId
<1>7. PageTrue'
  <2>1. page'.latest <= hub'.sequence BY <1>1, <1>2, <1>5 DEF PageTrue
  <2>2. \A i \in 1 .. Len(page'.held) : Past(page'.held[i]) BY <1>1, <1>5
  <2>3. \A i \in 1 .. Len(page'.held) : Past(page.held[i])' BY <1>2, <2>2 DEF Past, IdOf
  <2>4. \A id : SeenId(id) /\ (id = page'.url \/ id = page'.header \/ id = page'.resume) => SeenId(id)'
    BY <1>6
  <2>5. SeenId(page'.url) /\ SeenId(page'.header) BY DEF PageTrue, SeenId
  <2>6. page'.cause = "resync" => SeenId(page'.resume) /\ page'.resume # NoId
    <3>1. CASE Loaded.cause = page.cause /\ Loaded.resume = page.resume
      BY <3>1 DEF PageTrue
    <3>2. CASE \E j \in 1 .. Len(page.held) :
                 page.held[j].kind = "resync" /\ Loaded.resume = page.held[j].resume
      <4>1. PICK j \in 1 .. Len(page.held) :
                 page.held[j].kind = "resync" /\ Loaded.resume = page.held[j].resume
        BY <3>2
      <4> DEFINE e == page.held[j]
      <4>2. page'.resume = IdOf(e) /\ e.server = hub.server /\ e.seq \in 1 .. hub.sequence
        BY <1>5, <4>1 DEF Past
      <4>3. e \in StreamEvents /\ e.seq \in Nat /\ e.seq <= e.seq BY <1>3
      <4>4. Seen(page, e.seq) BY <4>3 DEF Seen
      <4>5. IdOf(e)[1] = e.server /\ IdOf(e)[2] = e.seq /\ IdOf(e) # NoId
        BY <4>3, EventFacts
      <4> QED BY <4>2, <4>4, <4>5 DEF SeenId
    <3> QED BY <1>1, <3>1, <3>2
  <2>7. page'.cause = "resync" \/ page'.held # <<>> => page'.url # NoId \/ page'.header # NoId
    <3>1. CASE page.cause = "resync" /\ page'.url = page.resume BY <3>1 DEF PageTrue
    <3>2. CASE page'.url = page.url /\ page'.header = page.header
      <4>1. SUFFICES ASSUME page'.cause = "resync" \/ page'.held # <<>>
                     PROVE  page.cause = "resync" \/ page.held # <<>>
        BY <3>2 DEF PageTrue
      <4>2. SUFFICES ASSUME page.held = <<>> PROVE page.cause = "resync" OBVIOUS
      <4>3. Len(page.held) = 0 /\ 1 .. 0 = {} BY <4>2
      <4>4. Loaded.held \in Seq(StreamEvents)
        BY PageFacts, LoadedGood DEF GoodPage, Pages
      <4>5. Len(Loaded.held) = 0
        <5>1. Len(Loaded.held) \in Nat /\ ~(1 \in 1 .. Len(Loaded.held))
          BY <1>1, <4>3, <4>4, LenProperties
        <5> QED BY <5>1
      <4>6. page'.held = <<>> BY <4>4, <4>5, EmptySeq
      <4> QED BY <1>1, <4>1, <4>3, <4>6
    <3> QED BY <3>1, <3>2
  <2>8. SeenId(page.url)' /\ SeenId(page.header)' /\ (page'.cause = "resync" => SeenId(page.resume)')
    BY <2>4, <2>5, <2>6 DEF SeenId
  <2> QED BY <1>1, <2>1, <2>3, <2>6, <2>7, <2>8 DEF PageTrue, NoId
<1>8. SeenCovered'
  <2>1. \A r : Covers(page, r)' <=> Covers(page', r) BY DEF Covers, ReplyOf, IdOf
  <2> SUFFICES ASSUME NEW r \in replies, r.id[1] # hub.server \/ Seen(page', r.id[2])
               PROVE  Covers(page', r)
    BY <1>2, <2>1 DEF SeenCovered, Seen
  <2>2. r.id[1] # hub.server \/ Seen(page, r.id[2]) BY <1>1, <1>3, <1>4
  <2> QED BY <1>1, <1>4, <2>2 DEF SeenCovered
<1> QED BY <1>1, <1>4, <1>7, <1>8

LEMMA SelectLoadStep ==
  ASSUME LiveInv, SelectLoads
  PROVE  LiveInv'
<1>1. /\ OnlyView /\ reader' = reader /\ mishaps' = mishaps /\ page' = Loaded
      /\ page.mode = "loading" /\ page.cut.taken
  BY DEF SelectLoads, OnlyView, OffPage
<1>2. GoodPage(page') BY <1>1, LoadedGood, PageFacts, ViewFacts
<1>3. ViewInv'
  <2> SUFFICES ASSUME Clean' PROVE (PageTrue /\ SeenCovered /\ (reader.open => StreamTrue))'
    BY DEF ViewInv
  <2>1. PageTrue /\ SeenCovered /\ (reader.open => StreamTrue)
    BY <1>1, ViewFacts DEF ViewInv, Clean
  <2>2. Loaded.url = page.url /\ Loaded.header = page.header
    BY <1>1, LoadedCovers, PageFacts, ViewFacts
  <2>3. /\ PageTrue' /\ SeenCovered' /\ \A r : Covers(page, r) => Covers(page', r)
    BY <1>1, <2>1, <2>2, LoadedTrue, ViewFacts
  <2>4. hub' = hub /\ replies' = replies BY <1>1 DEF OnlyView
  <2>5. ASSUME reader.open PROVE StreamTrue'
    <3>1. \A r : Covers(page, r)' <=> Covers(page', r) BY DEF Covers, ReplyOf, IdOf
    <3>2. \A r : Coming(r)' <=> Coming(r) BY <1>1 DEF Coming, ReplyOf, IdOf
    <3> QED BY <1>1, <2>1, <2>3, <2>4, <2>5, <3>1, <3>2 DEF StreamTrue, Past, IdOf, Kept
  <2> QED BY <1>1, <2>3, <2>5
<1> QED BY <1>1, <1>2, <1>3, ViewFacts, ViewStep

LEMMA ResyncLoadStep ==
  ASSUME LiveInv, ResyncLoads
  PROVE  LiveInv'
<1>1. /\ OnlyView /\ reader' = NoReader /\ mishaps' = mishaps
      /\ page' = [Loaded EXCEPT !.url = page.resume, !.header = NoId]
      /\ page.mode = "loading" /\ page.cut.taken /\ page.cause = "resync"
  BY DEF ResyncLoads, OnlyView, OffPage
<1>2. GoodPage(Loaded) /\ Loaded \in Pages
  BY LoadedGood, PageFacts, ViewFacts DEF GoodPage
<1>3. /\ page'.mode = Loaded.mode /\ page'.cause = Loaded.cause /\ page'.resume = Loaded.resume
      /\ page'.latest = Loaded.latest /\ page'.held = Loaded.held /\ page'.cut = Loaded.cut
      /\ page'.shown = Loaded.shown /\ page'.base = Loaded.base /\ page'.fixing = Loaded.fixing
      /\ page'.url = page.resume /\ page'.header = NoId
      /\ page' \in Pages
  BY <1>1, <1>2, ViewFacts, NoIdInIds DEF Pages
<1>4. GoodPage(page') BY <1>2, <1>3 DEF GoodPage
<1>5. ViewInv'
  <2> SUFFICES ASSUME Clean' PROVE (PageTrue /\ SeenCovered)'
    BY <1>1, NothingRead DEF ViewInv
  <2>1. PageTrue /\ SeenCovered BY <1>1, ViewFacts DEF ViewInv, Clean
  <2> QED BY <1>1, <1>3, <2>1, LoadedTrue, ViewFacts
<1> QED BY <1>1, <1>4, <1>5, NothingRead, ViewFacts, ViewStep

-----------------------------------------------------------------------------
(* The theorems.                                                           *)

LEMMA LiveInitially == LiveInit => LiveInv /\ ClosedUnread
<1> SUFFICES ASSUME LiveInit PROVE LiveInv /\ ClosedUnread OBVIOUS
<1>1. /\ hub = [server |-> 1, sequence |-> 0, events |-> <<>>]
      /\ gate = [t \in ViewTurns |-> "new"] /\ run = [t \in ViewTurns |-> "none"]
      /\ replies = {} /\ ledger = {} /\ verdicts = [t \in ViewTurns |-> {}]
      /\ reader = NoReader /\ page = ClosedPage /\ mishaps = {}
  BY DEF LiveInit
<1>2. page \in Pages
  <2>1. 0 \in 0 .. MaxSent BY LiveFacts
  <2> QED BY <1>1, <2>1, NothingRead, NoIdInIds DEF Pages, ClosedPage
<1>3. /\ page.mode = "closed" /\ page.shown = {} /\ page.cut = NoCut /\ page.base = NoCut
      /\ page.fixing = {} /\ page.held = <<>> /\ ~reader.open
  BY <1>1 DEF ClosedPage, NoReader
<1>4. GoodPage(page) BY <1>2, <1>3, NothingRead DEF GoodPage
<1>5. Len(hub.events) = 0 /\ hub.sequence = 0 /\ 1 .. 0 = {} /\ Len(reader.pending) = 0
  BY <1>1 DEF NoReader
<1>6. HubInv BY <1>1, <1>5, LiveFacts DEF HubInv, HubTrue, RepliesKept
<1>7. VerdictInv BY <1>1 DEF VerdictInv, VerdictOf, Verdicts
<1>8. ViewInv BY <1>3 DEF ViewInv, Clean
<1>9. AllReal(hub.events) /\ AllReal(reader.pending) BY <1>5 DEF AllReal
<1>10. hub \in [server : 1 .. MaxServers, sequence : 0 .. MaxSent, events : Seq(StreamEvents)]
  <2>1. 1 \in 1 .. MaxServers /\ 0 \in 0 .. MaxSent BY LiveFacts
  <2> QED BY <1>1, <2>1, NothingRead
<1>11. LiveTypes BY <1>1, <1>10, NothingRead DEF LiveTypes, Readers, Verdicts, Mishaps
<1> QED BY <1>3, <1>4, <1>6, <1>7, <1>8, <1>9, <1>11 DEF LiveInv, LiveTypeInv, ClosedUnread

\* A page that was opened is never closed again, and only an open one has a stream.
LEMMA ClosedStep ==
  ASSUME LiveInv, ClosedUnread, LiveNext
  PROVE  ClosedUnread'
<1>0. page \in Pages /\ GoodPage(page) /\ LiveTypeInv BY ViewFacts
<1>1. CASE UNCHANGED <<page, reader>> BY <1>1 DEF ClosedUnread
<1>2. CASE reader' = NoReader BY <1>2, NothingRead DEF ClosedUnread
<1>3. CASE Fetch BY <1>0, <1>3, ViewFacts DEF Fetch, ClosedUnread, Readers
<1>4. CASE Register BY <1>4 DEF Register, ClosedUnread
<1>5. CASE Delivers
  <2> DEFINE e == Head(reader.pending)
             h == Handle(page, e)
  <2>1. page.mode # "closed" /\ page'.mode = h.mode
    <3>1. /\ e \in StreamEvents /\ Real(e)
      <4>1. AllReal(reader.pending) /\ reader.pending # <<>> BY <1>5, ViewFacts DEF Delivers
      <4>2. reader.pending \in Seq(StreamEvents) BY <1>0, PageFacts
      <4>3. e = reader.pending[1] /\ 1 \in 1 .. Len(reader.pending) /\ e \in StreamEvents
        BY <4>1, <4>2, FirstOfPending
      <4> HIDE DEF e
      <4> QED BY <4>1, <4>3 DEF AllReal
    <3>2. h \in Pages BY <1>0, <3>1, HandleGood, PageFacts DEF GoodPage
    <3> HIDE DEF h
    <3>3. page' = [h EXCEPT !.header = IdOf(e)] BY <1>5 DEF Delivers, h
    <3> QED BY <1>5, <3>2, <3>3 DEF Delivers, ClosedUnread, Pages
  <2> HIDE DEF e
  <2>2. h.mode # "closed" BY <1>0, <2>1 DEF Handle, Applied, Pages
  <2> QED BY <2>1, <2>2 DEF ClosedUnread
<1>6. CASE SelectLoads
  <2>1. page'.mode \in {"live", "loading"}
    BY <1>0, <1>6, LoadedCovers, PageFacts DEF SelectLoads
  <2> QED BY <2>1 DEF ClosedUnread
<1>7. CASE Snapshot BY <1>0, <1>7 DEF Snapshot, ClosedUnread, Pages
<1>8. CASE LoadFails BY <1>0, <1>8 DEF LoadFails, ClosedUnread, Pages
<1>9. ASSUME NEW f \in page.fixing, Corrects(f) PROVE ClosedUnread'
  BY <1>0, <1>9 DEF Corrects, ClosedUnread, Pages
<1>10. ASSUME NEW t \in ViewTurns,
              \/ Reserve(t) \/ ClaimFails(t) \/ Accept(t) \/ RouteFails(t) \/ Backpressure(t)
              \/ Routed(t) \/ PollTells(t) \/ LastPoll(t) \/ PollTimesOut(t)
              \/ TurnStarts(t) \/ Replies(t) \/ TurnEnds(t)
       PROVE  UNCHANGED <<page, reader>>
  BY <1>10 DEF Reserve, ClaimFails, Accept, RouteFails, Backpressure, Routed, PollTells, LastPoll,
     PollTimesOut, TurnStarts, Replies, TurnEnds, OffGate, OffRun
<1>11. ASSUME NEW r \in replies, Records(r) PROVE UNCHANGED <<page, reader>>
  BY <1>11 DEF Records, OffRun
<1>12. CASE Drops \/ Opens \/ ResyncLoads \/ ServerRestarts
  BY <1>2, <1>12 DEF Drops, Opens, ResyncLoads, ServerRestarts
<1> QED BY <1>1, <1>3, <1>4, <1>5, <1>6, <1>7, <1>8, <1>9, <1>10, <1>11, <1>12 DEF LiveNext

LEMMA LiveStep ==
  ASSUME LiveInv, ClosedUnread, [LiveNext]_liveVars
  PROVE  LiveInv' /\ ClosedUnread'
<1>1. CASE LiveNext
  <2>1. ClosedUnread' BY <1>1, ClosedStep
  <2>2. ASSUME NEW t \in ViewTurns,
               \/ Reserve(t) \/ ClaimFails(t) \/ Accept(t) \/ RouteFails(t) \/ Backpressure(t)
               \/ Routed(t) \/ PollTells(t) \/ LastPoll(t) \/ PollTimesOut(t)
               \/ TurnStarts(t) \/ Replies(t) \/ TurnEnds(t)
        PROVE  LiveInv'
    BY <2>2, GateStep, RunStep, ReplyStep
  <2>3. ASSUME NEW r \in replies, Records(r) PROVE LiveInv' BY <2>3, RecordStep
  <2>4. ASSUME NEW f \in page.fixing, Corrects(f) PROVE LiveInv' BY <2>4, CorrectStep
  <2>5. CASE \/ Fetch \/ Register \/ Drops \/ Delivers
             \/ Opens \/ Snapshot \/ SelectLoads \/ ResyncLoads \/ LoadFails
             \/ ServerRestarts
    <3>1. CASE Fetch BY <2>1, <3>1, FetchStep
    <3>2. CASE Register BY <2>1, <3>2, RegisterStep
    <3>3. CASE Drops BY <2>1, <3>3, DropStep
    <3>4. CASE Delivers BY <2>1, <3>4, DeliverStep
    <3>5. CASE Opens BY <2>1, <3>5, OpenStep
    <3>6. CASE Snapshot BY <2>1, <3>6, SnapshotStep
    <3>7. CASE SelectLoads BY <2>1, <3>7, SelectLoadStep
    <3>8. CASE ResyncLoads BY <2>1, <3>8, ResyncLoadStep
    <3>9. CASE LoadFails BY <2>1, <3>9, LoadFailStep
    <3>10. CASE ServerRestarts BY <2>1, <3>10, RestartStep
    <3> QED BY <2>5, <3>1, <3>2, <3>3, <3>4, <3>5, <3>6, <3>7, <3>8, <3>9, <3>10
  <2> QED BY <1>1, <2>1, <2>2, <2>3, <2>4, <2>5 DEF LiveNext
<1>2. CASE UNCHANGED liveVars
  <2>1. /\ OnlyView /\ page' = page /\ reader' = reader /\ mishaps' = mishaps
    BY <1>2 DEF liveVars, OnlyView
  <2>2. ViewInv' BY <2>1, ViewFacts, StillView DEF OnlyView
  <2> QED BY <2>1, <2>2, ViewFacts, ViewStep DEF ClosedUnread
<1> QED BY <1>1, <1>2

\* The invariant of the live view: the hub has the last events of its server without a gap,
\* a turn that is polled was not spoken of, and of a page without mishaps every reply is
\* shown, held, or still to come from its stream.
THEOREM LiveInvariant == LiveSpec => [](LiveInv /\ ClosedUnread)
BY LiveInitially, LiveStep, PTL DEF LiveSpec

\* The types: the hub is bounded, and the page shows only what was published and has
\* loaded only what was recorded.
THEOREM LiveTyped == LiveSpec => []LiveTypeOK
<1>1. LiveInv => LiveTypeOK
  <2> SUFFICES ASSUME LiveInv PROVE LiveTypeOK OBVIOUS
  <2>1. LiveTypes /\ LiveTypeInv /\ HubInv BY DEF LiveInv, LiveTypeInv
  <2>2. Len(hub.events) <= MaxHub
    <3>1. hub.sequence \in Nat BY <2>1, PageFacts
    <3> QED BY <2>1, <3>1, LiveFacts DEF HubInv, HubTrue
  <2>3. \A s \in Seq(StreamEvents) : ToSet(s) \subseteq StreamEvents
    BY HeldItem, LenProperties DEF ToSet
  <2>4. page \in Pages /\ GoodPage(page) BY <2>1 DEF LiveTypeInv, GoodPage
  <2>5. /\ ToSet(hub.events) \subseteq StreamEvents /\ ToSet(reader.pending) \subseteq StreamEvents
        /\ ToSet(page.held) \subseteq StreamEvents
    BY <2>1, <2>3, PageFacts
  <2>6. /\ page.mode \in {"closed", "loading", "stuck", "live"}
        /\ page.cause \in {"select", "resync"}
        /\ {page.url, page.header, page.resume} \subseteq Ids
        /\ page.latest \in 0 .. MaxSent
    BY <2>4 DEF Pages
  <2>7. page.shown \subseteq replies /\ page.cut.replies \union page.base.replies \subseteq ledger
    BY <2>4 DEF GoodPage
  <2> QED BY <2>1, <2>2, <2>5, <2>6, <2>7 DEF LiveTypes, LiveTypeOK, Mishaps, Verdicts
<1> QED BY <1>1, LiveInvariant, PTL

\* _run_turn(): the user is never told of one turn both that it completed and that it
\* failed, whatever the inbox, the route, the ledger and the poll say.
THEOREM VerdictsAreOne == LiveSpec => []VerdictsAgree
<1>1. LiveInv => VerdictsAgree
  BY DEF LiveInv, LiveTypeInv, LiveTypes, VerdictInv, VerdictOf, VerdictsAgree
<1> QED BY <1>1, LiveInvariant, PTL

\* EventHub.stream() and the page: a page that is up to date shows every reply, unless one
\* of the mishaps happened to it.
THEOREM UpToDateShows == LiveSpec => []UpToDateShowsAll
<1>1. LiveInv => UpToDateShowsAll
  <2> SUFFICES ASSUME LiveInv, UpToDate, mishaps = {}, NEW r \in replies
               PROVE  r \in page.shown
    BY DEF UpToDateShowsAll
  <2>1. page.mode = "live" /\ reader.open /\ reader.pending = <<>> /\ Unread(reader.last) = <<>>
    BY DEF UpToDate
  <2>2. SeenCovered /\ StreamTrue BY <2>1, ViewFacts DEF ViewInv, Clean
  <2>3. CASE Covers(page, r) BY <2>1, <2>3 DEF Covers
  <2>4. CASE ~Covers(page, r)
    <3>1. r.id[1] = hub.server BY <2>2, <2>4 DEF SeenCovered
    <3>2. Len(reader.pending) = 0 /\ 1 .. 0 = {} BY <2>1
    <3>3. r.id[2] > reader.last BY <2>2, <2>4, <3>2 DEF StreamTrue, Coming
    <3>4. r.id[2] \in Nat /\ Kept \in Int /\ reader.last \in Nat BY PageFacts, ViewFacts DEF Kept
    <3>5. r.id[2] > Kept BY <2>2, <3>3, <3>4 DEF StreamTrue
    <3>6. \E i \in 1 .. Len(Unread(reader.last)) :
            /\ Unread(reader.last)[i].kind = "reply"
            /\ ReplyOf(Unread(reader.last)[i]) = r
      BY <3>1, <3>3, <3>4, <3>5, UnreadEvents, ViewFacts
    <3> QED BY <2>1, <3>2, <3>6
  <2> QED BY <2>3, <2>4
<1> QED BY <1>1, LiveInvariant, PTL
=============================================================================
