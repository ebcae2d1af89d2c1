------------------------- MODULE ModelContextProofs -------------------------
(***************************************************************************)
(* That the transcript of ModelContext tells the truth, and that prompts   *)
(* are made from it as it is, for every number of turns, compactions and   *)
(* faults and every bound on what it keeps.                                *)
(***************************************************************************)
EXTENDS ModelContext, TLAPS

Fields == {"kind", "num", "short", "seq", "at", "covers", "own", "echo"}

\* What a turn or the summary of an archived one tells follows from its id.
OwnById(e) ==
  ~IsCheckpoint(e) => e.own = IF e.kind = "turn" THEN {e.num} ELSE {}

\* Entry e when the turns of cl are over and those of gone are to be told no
\* more.
Sound(e, cl, gone) ==
  /\ DOMAIN e = Fields
  /\ OwnById(e)
  /\ e.own \subseteq e.covers
  /\ e.covers \subseteq cl
  /\ e.own \cap gone = {}

AllSound(es, cl, gone) ==
  /\ \A e \in es : Sound(e, cl, gone)
  /\ \A d, e \in es : d # e => d.covers \cap e.covers = {}

\* The archive hides turns that are over; the one that runs is not.
LogInv ==
  /\ hiding \subseteq archived /\ archived \subseteq closed
  /\ convTurn = [n |-> convTurn.n, at |-> convTurn.at, overflowed |-> convTurn.overflowed]
  /\ convTurn.n \in Nat
  /\ \A n \in closed : n \in Nat /\ n <= convTurn.n
  /\ convTurn.at # "idle" => convTurn.n \notin closed

EntriesInv ==
  /\ AllSound(entries, closed, archived \ hiding)
  /\ taken \subseteq Covered(entries)

\* What a caller has read and chosen; a checkpoint is never chosen.
ReadInv(c) ==
  /\ \A e \in writing[c].read : DOMAIN e = Fields /\ OwnById(e)
  /\ \A e \in writing[c].read : IdOf(e) \in writing[c].chosen => ~IsCheckpoint(e)

WritingInv ==
  /\ DOMAIN writing = Callers
  /\ \A c \in Callers : ReadInv(c)
  /\ writing["turn"].op # 0 => convTurn.at \in {"prompt", "rebuild"}
  /\ StartedIsAlive

ContextInv == LogInv /\ EntriesInv /\ WritingInv

-----------------------------------------------------------------------------
(* Numbering and shortening change neither what an entry covers nor what   *)
(* it tells.                                                               *)

Same(d, e) ==
  /\ DOMAIN d = DOMAIN e
  /\ d.kind = e.kind /\ d.num = e.num
  /\ d.covers = e.covers /\ d.own = e.own

\* Set new consists of the entries of set old, each changed in ways that do
\* not matter, and no two made of one.
Renders(new, old) ==
  /\ \A d \in new : \E e \in old : Same(d, e)
  /\ \A e \in old : \E d \in new : Same(d, e)
  /\ \A d1, d2 \in new : d1 # d2 =>
       \E e1, e2 \in old : e1 # e2 /\ Same(d1, e1) /\ Same(d2, e2)

LEMMA SameSeq ==
  ASSUME NEW e, NEW x, DOMAIN e = Fields
  PROVE  Same([e EXCEPT !.seq = x], e)
  BY DEF Same, Fields

LEMMA SameShort ==
  ASSUME NEW e, NEW x, DOMAIN e = Fields
  PROVE  Same([e EXCEPT !.short = x], e)
  BY DEF Same, Fields

\* A set of entries that are each given another seq, whatever the order.
LEMMA NumberedRenders ==
  ASSUME NEW old, NEW place, \A e \in old : DOMAIN e = Fields
  PROVE  Renders(Numbered(old, place), old)
  <1> DEFINE new == {[e EXCEPT !.seq = place[e]] : e \in old}
  <1>1. \A e \in old : Same([e EXCEPT !.seq = place[e]], e)
    BY SameSeq
  <1>2. \A d \in new : \E e \in old : d = [e EXCEPT !.seq = place[e]]
    OBVIOUS
  <1>3. \A d1, d2 \in new : d1 # d2 =>
          \E e1, e2 \in old : e1 # e2 /\ Same(d1, e1) /\ Same(d2, e2)
    <2> SUFFICES ASSUME NEW d1 \in new, NEW d2 \in new, d1 # d2
                 PROVE  \E e1, e2 \in old : e1 # e2 /\ Same(d1, e1) /\ Same(d2, e2)
      OBVIOUS
    <2>1. PICK e1 \in old : d1 = [e1 EXCEPT !.seq = place[e1]] BY <1>2
    <2>2. PICK e2 \in old : d2 = [e2 EXCEPT !.seq = place[e2]] BY <1>2
    <2>3. e1 # e2 BY <2>1, <2>2
    <2> QED BY <1>1, <2>1, <2>2, <2>3
  <1>4. \A d \in new : \E e \in old : Same(d, e) BY <1>1, <1>2
  <1>5. \A e \in old : [e EXCEPT !.seq = place[e]] \in new OBVIOUS
  <1>6. \A e \in old : \E d \in new : Same(d, e) BY <1>1, <1>5
  <1> QED BY <1>3, <1>4, <1>6 DEF Renders, Numbered

LEMMA ShortenRenders ==
  ASSUME NEW old, NEW which \in SUBSET old, \A e \in old : DOMAIN e = Fields
  PROVE  Renders(Shorten(old, which), old)
  <1> DEFINE new == Shorten(old, which)
             short(e) == [e EXCEPT !.short = TRUE]
             made(e) == IF e \in which THEN short(e) ELSE e
  <1>1. \A e \in old : Same(made(e), e)
    BY SameShort DEF Same
  <1>2. \A d \in new : \E e \in old : d = made(e)
    BY DEF Shorten
  <1>3. \A e \in old : made(e) \in new
    BY DEF Shorten
  <1> HIDE DEF new, made
  <1>4. \A d1, d2 \in new : d1 # d2 =>
          \E e1, e2 \in old : e1 # e2 /\ Same(d1, e1) /\ Same(d2, e2)
    <2> SUFFICES ASSUME NEW d1 \in new, NEW d2 \in new, d1 # d2
                 PROVE  \E e1, e2 \in old : e1 # e2 /\ Same(d1, e1) /\ Same(d2, e2)
      OBVIOUS
    <2>1. PICK e1 \in old : d1 = made(e1) BY <1>2
    <2>2. PICK e2 \in old : d2 = made(e2) BY <1>2
    <2>3. e1 # e2 BY <2>1, <2>2
    <2> QED BY <1>1, <2>1, <2>2, <2>3
  <1>5. \A d \in new : \E e \in old : Same(d, e) BY <1>1, <1>2
  <1>6. \A e \in old : \E d \in new : Same(d, e) BY <1>1, <1>3
  <1> QED BY <1>4, <1>5, <1>6 DEF Renders, new

LEMMA RendersKeep ==
  ASSUME NEW new, NEW old, NEW cl, NEW gone,
         Renders(new, old), AllSound(old, cl, gone)
  PROVE  AllSound(new, cl, gone) /\ Covered(new) = Covered(old)
  <1>1. ASSUME NEW d \in new PROVE Sound(d, cl, gone)
    <2>1. PICK e \in old : Same(d, e) BY DEF Renders
    <2>2. Sound(e, cl, gone) BY DEF AllSound
    <2> QED BY <2>1, <2>2 DEF Same, Sound, OwnById, IsCheckpoint
  <1>2. ASSUME NEW d1 \in new, NEW d2 \in new, d1 # d2
        PROVE  d1.covers \cap d2.covers = {}
    <2>1. PICK e1 \in old, e2 \in old : e1 # e2 /\ Same(d1, e1) /\ Same(d2, e2)
      BY <1>2 DEF Renders
    <2>2. e1.covers \cap e2.covers = {} BY <2>1 DEF AllSound
    <2> QED BY <2>1, <2>2 DEF Same
  <1>3. Covered(new) = Covered(old)
    <2>1. \A d \in new : \E e \in old : d.covers = e.covers
      BY DEF Renders, Same
    <2>2. \A e \in old : \E d \in new : d.covers = e.covers
      BY DEF Renders, Same
    <2> QED BY <2>1, <2>2 DEF Covered
  <1> QED BY <1>1, <1>2, <1>3 DEF AllSound

\* Entries that are kept, beside one that covers what they do not.
LEMMA OneMore ==
  ASSUME NEW es, NEW kept \in SUBSET es, NEW e, NEW cl, NEW gone,
         AllSound(es, cl, gone), Sound(e, cl, gone),
         \A d \in kept : d.covers \cap e.covers = {}
  PROVE  AllSound(kept \cup {e}, cl, gone)
  BY DEF AllSound

LEMMA CoveredMember == ASSUME NEW es, NEW n PROVE n \in Covered(es) <=> \E e \in es : n \in e.covers
  BY DEF Covered

-----------------------------------------------------------------------------
(* The invariant holds at the start and is kept by every step.             *)

LEMMA ContextInitInv == ContextInit => ContextInv
  <1> SUFFICES ASSUME ContextInit PROVE ContextInv OBVIOUS
  <1>1. LogInv BY DEF ContextInit, LogInv
  <1>2. EntriesInv BY DEF ContextInit, EntriesInv, AllSound
  <1>3. WritingInv
    BY DEF ContextInit, WritingInv, ReadInv, StartedIsAlive, Nothing, Callers
  <1> QED BY <1>1, <1>2, <1>3 DEF ContextInv

\* What the callers have read stays, when a call for a text ends.
LEMMA EndedWriting ==
  ASSUME WritingInv, NEW c \in Callers, Ended(c), RowEnds(c)
  PROVE  /\ DOMAIN writing' = Callers
         /\ \A b \in Callers : ReadInv(b)'
         /\ StartedIsAlive'
         /\ writing'["turn"].op # 0 => c # "turn" /\ writing["turn"].op # 0
  <1>1. \A b \in Callers : writing'[b] = IF b = c THEN Nothing ELSE writing[b]
    BY DEF WritingInv, Ended
  <1>2. \A b \in Callers : ReadInv(b)'
    BY <1>1 DEF WritingInv, ReadInv, Nothing
  <1>3. StartedIsAlive'
    BY <1>1 DEF WritingInv, StartedIsAlive, RowEnds
  <1>4. "turn" \in Callers BY DEF Callers
  <1> QED BY <1>1, <1>2, <1>3, <1>4 DEF WritingInv, Ended, Nothing

LEMMA GivenLog ==
  ASSUME LogInv, NEW c \in Callers, NEW es, Given(c, es),
         c = "turn" => convTurn.at # "idle",
         UNCHANGED <<archived, hiding, closed>>
  PROVE  LogInv' /\ (c # "turn" => convTurn' = convTurn)
  <1>1. CASE c = "turn"
    BY <1>1 DEF LogInv, Given
  <1>2. CASE c # "turn"
    BY <1>2 DEF LogInv, Given
  <1> QED BY <1>1, <1>2

\* A text that is committed was made from the turns it covers: what was read
\* has the ids of what is there, and those tell which turns.
LEMMA CheckpointSound ==
  ASSUME EntriesInv, NEW c \in Callers, ReadInv(c), StillRead(c)
  PROVE  Sound(Checkpoint(c), closed, archived \ hiding)
  <1> DEFINE ck == Checkpoint(c)
             gone == archived \ hiding
  <1>1. DOMAIN ck = Fields /\ IsCheckpoint(ck)
    BY DEF Checkpoint, Fields, IsCheckpoint
  <1>2. /\ ck.covers = Covered(Chosen(c, entries))
        /\ ck.own = UNION {e.own : e \in Chosen(c, writing[c].read)}
    BY DEF Checkpoint
  <1>3. ASSUME NEW x \in ck.own PROVE x \in ck.covers /\ x \notin gone
    <2>1. PICK r \in Chosen(c, writing[c].read) : x \in r.own
      BY <1>2
    <2>2. r \in writing[c].read /\ IdOf(r) \in writing[c].chosen
      BY <2>1 DEF Chosen
    <2>3. PICK e \in entries : IdOf(e) = IdOf(r)
      BY <2>2 DEF StillRead, Ids
    <2>4. ~IsCheckpoint(r) /\ OwnById(r)
      BY <2>2 DEF ReadInv
    <2>5. e.kind = r.kind /\ e.num = r.num
      BY <2>3 DEF IdOf
    <2>6. Sound(e, closed, gone)
      BY DEF EntriesInv, AllSound
    <2>7. e.own = r.own
      BY <2>4, <2>5, <2>6 DEF Sound, OwnById, IsCheckpoint
    <2>8. e \in Chosen(c, entries)
      BY <2>2, <2>3 DEF Chosen
    <2>9. x \in e.covers /\ x \notin gone
      BY <2>1, <2>6, <2>7 DEF Sound
    <2> QED BY <1>2, <2>8, <2>9, CoveredMember
  <1>4. ASSUME NEW x \in ck.covers PROVE x \in closed
    <2>1. PICK e \in Chosen(c, entries) : x \in e.covers
      BY <1>2, CoveredMember
    <2>2. Sound(e, closed, gone)
      BY <2>1 DEF Chosen, EntriesInv, AllSound
    <2> QED BY <2>1, <2>2 DEF Sound
  <1> HIDE DEF ck
  <1> QED BY <1>1, <1>3, <1>4 DEF Sound, OwnById, ck

LEMMA TextCommittedInv ==
  ASSUME ContextInv, NEW c \in Callers, TextCommitted(c)
  PROVE  ContextInv'
  <1> DEFINE kept == entries \ Chosen(c, entries)
             ck == Checkpoint(c)
             gone == archived \ hiding
  <1>1. ReadInv(c) BY DEF ContextInv, WritingInv
  <1>2. Sound(ck, closed, gone)
    BY <1>1, CheckpointSound DEF ContextInv, TextCommitted
  <1>3. ck.covers = Covered(Chosen(c, entries)) BY DEF Checkpoint
  <1>4. \A d \in kept : d.covers \cap ck.covers = {}
    <2> SUFFICES ASSUME NEW d \in kept, NEW x \in d.covers, x \in ck.covers PROVE FALSE
      OBVIOUS
    <2>1. PICK e \in Chosen(c, entries) : x \in e.covers
      BY <1>3, CoveredMember
    <2>2. e \in entries /\ d \in entries /\ d # e BY <2>1 DEF Chosen
    <2> QED BY <2>1, <2>2 DEF ContextInv, EntriesInv, AllSound
  <1>5. AllSound(kept \cup {ck}, closed, gone)
    <2> HIDE DEF ck, kept
    <2>1. kept \in SUBSET entries BY DEF kept
    <2>2. AllSound(entries, closed, gone) BY DEF ContextInv, EntriesInv
    <2> HIDE DEF gone
    <2> QED BY <1>2, <1>4, <2>1, <2>2, OneMore
  <1>6. Covered(kept \cup {ck}) = Covered(entries)
    <2>1. ASSUME NEW x PROVE x \in Covered(kept \cup {ck}) <=> x \in Covered(entries)
      <3>1. x \in Covered(kept \cup {ck}) <=>
            (\E e \in kept : x \in e.covers) \/ x \in ck.covers
        BY CoveredMember
      <3>2. x \in ck.covers <=> \E e \in Chosen(c, entries) : x \in e.covers
        BY <1>3, CoveredMember
      <3>3. x \in Covered(entries) <=> \E e \in entries : x \in e.covers
        BY CoveredMember
      <3>4. entries = kept \cup Chosen(c, entries) BY DEF Chosen
      <3> HIDE DEF ck, kept
      <3> QED BY <3>1, <3>2, <3>3, <3>4
    <2> QED BY <2>1
  <1>7. EntriesInv'
    <2>1. entries' = Numbered(kept \cup {ck}, BySeq(kept \cup {ck})) BY DEF TextCommitted
    <2>2. Renders(entries', kept \cup {ck})
      <3>1. \A e \in kept \cup {ck} : DOMAIN e = Fields
        BY <1>5 DEF AllSound, Sound
      <3> HIDE DEF ck, kept
      <3> QED BY <2>1, <3>1, NumberedRenders
    <2>3. AllSound(entries', closed, gone) /\ Covered(entries') = Covered(entries)
      <3> HIDE DEF ck, kept, gone
      <3> QED BY <2>2, <1>5, <1>6, RendersKeep
    <2> QED BY <2>3 DEF TextCommitted, ContextInv, EntriesInv
  <1>8. LogInv' /\ WritingInv'
    <2>1. c = "turn" => convTurn.at # "idle"
      BY DEF ContextInv, WritingInv, TextCommitted
    <2>2. LogInv' /\ (c # "turn" => convTurn' = convTurn)
      BY <2>1, GivenLog DEF ContextInv, TextCommitted
    <2>3. WritingInv /\ Ended(c) /\ RowEnds(c) BY DEF ContextInv, TextCommitted
    <2> QED BY <2>2, <2>3, EndedWriting DEF WritingInv
  <1> QED BY <1>7, <1>8 DEF ContextInv

LEMMA TextRefusedInv ==
  ASSUME ContextInv, NEW c \in Callers, TextRefused(c)
  PROVE  ContextInv'
  <1>1. c = "turn" => convTurn.at # "idle"
    BY DEF ContextInv, WritingInv, TextRefused
  <1>2. LogInv' /\ (c # "turn" => convTurn' = convTurn)
    BY <1>1, GivenLog DEF ContextInv, TextRefused
  <1>3. WritingInv'
    <2>1. WritingInv /\ Ended(c) /\ RowEnds(c) BY DEF ContextInv, TextRefused
    <2> QED BY <1>2, <2>1, EndedWriting DEF WritingInv
  <1>4. EntriesInv' BY DEF ContextInv, EntriesInv, TextRefused
  <1> QED BY <1>2, <1>3, <1>4 DEF ContextInv

\* A compaction up to the call for a text: what is read for it is what is
\* stored, and no checkpoint is among what is chosen.
LEMMA CompactsInv ==
  ASSUME ContextInv, NEW c \in Callers, NEW forced, Compacts(c, forced),
         writing[c].op = 0,
         c = "turn" => convTurn.at \in {"prompt", "rebuild"},
         UNCHANGED <<archived, hiding, closed, taken>>
  PROVE  ContextInv'
  <1>1. PICK k \in Protected, summarise \in BOOLEAN, which \in SUBSET entries :
          LET now == Shorten(entries, which)
              chosen == IF summarise THEN Selected(now, k) ELSE {}
          IN /\ entries' = now
             /\ \/ /\ Given(c, now)
                   /\ UNCHANGED <<running, writing>>
                \/ AsksForText(c, now, chosen)
    BY DEF Compacts, Unprotected
  <1> DEFINE now == Shorten(entries, which)
             chosen == IF summarise THEN Selected(now, k) ELSE {}
             gone == archived \ hiding
  <1>2. AllSound(now, closed, gone) /\ Covered(now) = Covered(entries)
    <2>1. AllSound(entries, closed, gone) BY DEF ContextInv, EntriesInv
    <2>2. \A e \in entries : DOMAIN e = Fields BY <2>1 DEF AllSound, Sound
    <2>4. Renders(now, entries) BY <2>2, ShortenRenders
    <2> HIDE DEF now, gone
    <2> QED BY <2>1, <2>4, RendersKeep
  <1>3. EntriesInv'
    BY <1>1, <1>2 DEF ContextInv, EntriesInv
  <1>4. CASE Given(c, now) /\ UNCHANGED <<running, writing>>
    <2>1. LogInv' /\ (c # "turn" => convTurn' = convTurn)
      BY <1>4, GivenLog DEF ContextInv
    <2>2. WritingInv'
      BY <1>4, <2>1 DEF ContextInv, WritingInv, ReadInv, StartedIsAlive
    <2> QED BY <1>3, <2>1, <2>2 DEF ContextInv
  <1>5. CASE AsksForText(c, now, chosen)
    <2>1. LogInv' BY <1>5 DEF ContextInv, LogInv, AsksForText
    <2>2. /\ writing'[c].read = now /\ writing'[c].chosen = Ids(chosen)
          /\ writing'[c].op = running'
          /\ DOMAIN writing' = Callers
          /\ \A b \in Callers : b # c => writing'[b] = writing[b]
      BY <1>5 DEF ContextInv, WritingInv, AsksForText
    <2>3. ASSUME NEW e \in now, IdOf(e) \in Ids(chosen) PROVE ~IsCheckpoint(e)
      <3>1. PICK d \in chosen : IdOf(d) = IdOf(e) BY <2>3 DEF Ids
      <3>2. ~IsCheckpoint(d) BY <3>1 DEF Selected
      <3> QED BY <3>1, <3>2 DEF IdOf, IsCheckpoint
    <2>4. \A e \in now : DOMAIN e = Fields /\ OwnById(e)
      BY <1>2 DEF AllSound, Sound
    <2>5. ReadInv(c)'
      <3> HIDE DEF now, chosen
      <3> QED BY <2>2, <2>3, <2>4 DEF ReadInv
    <2>6. \A b \in Callers : ReadInv(b)'
      BY <2>2, <2>5 DEF ContextInv, WritingInv, ReadInv
    <2>7. StartedIsAlive' BY <2>2 DEF StartedIsAlive
    <2>8. writing'["turn"].op # 0 => convTurn'.at \in {"prompt", "rebuild"}
      <3>1. convTurn' = convTurn /\ "turn" \in Callers
        BY <1>5 DEF AsksForText, Callers
      <3>2. CASE c = "turn" BY <3>1, <3>2
      <3>3. CASE c # "turn" BY <2>2, <3>1, <3>3 DEF ContextInv, WritingInv
      <3> QED BY <3>2, <3>3
    <2> QED BY <1>3, <2>1, <2>2, <2>6, <2>7, <2>8 DEF ContextInv, WritingInv
  <1> QED BY <1>1, <1>4, <1>5

LEMMA TurnAnsweredInv == ASSUME ContextInv, TurnAnswered PROVE ContextInv'
  <1> DEFINE n == convTurn.n
             te == TurnEntry(n, NextSeq(entries))
             all == entries \cup {te}
             kept == {e \in all : Cardinality(After(all, e)) < MaxEntries}
             gone == archived \ hiding
             cl == closed \cup {n}
  <1>1. n \notin closed /\ archived \subseteq closed
    BY DEF ContextInv, LogInv, TurnAnswered
  <1>2. AllSound(entries, cl, gone)
    BY DEF ContextInv, EntriesInv, AllSound, Sound
  <1>3. /\ te.covers = {n} /\ te.own = {n} /\ te.kind = "turn" /\ te.num = n
        /\ DOMAIN te = Fields
    BY DEF TurnEntry, Fields
  <1>4. Sound(te, cl, gone)
    <2> HIDE DEF te
    <2> QED BY <1>1, <1>3 DEF Sound, OwnById, IsCheckpoint
  <1>5. \A d \in entries : d.covers \cap te.covers = {}
    <2> HIDE DEF te
    <2> QED BY <1>1, <1>3 DEF ContextInv, EntriesInv, AllSound, Sound
  <1>6. AllSound(all, cl, gone)
    <2> HIDE DEF te, cl, gone
    <2> QED BY <1>2, <1>4, <1>5, OneMore
  <1>7. AllSound(kept, cl, gone)
    <2>1. kept \subseteq all OBVIOUS
    <2> HIDE DEF kept, all
    <2> QED BY <1>6, <2>1 DEF AllSound
  <1>8. /\ entries' = Numbered(kept, BySeq(kept))
        /\ taken' \subseteq Covered(kept)
        /\ closed' = cl
    BY DEF TurnAnswered, TurnOver
  <1>9. AllSound(entries', cl, gone) /\ Covered(entries') = Covered(kept)
    <2>1. \A e \in kept : DOMAIN e = Fields BY <1>7 DEF AllSound, Sound
    <2> HIDE DEF kept, cl, gone
    <2>2. Renders(entries', kept) BY <1>8, <2>1, NumberedRenders
    <2> QED BY <1>7, <2>2, RendersKeep
  <1>10. EntriesInv'
    BY <1>8, <1>9 DEF EntriesInv, TurnAnswered
  <1>11. LogInv'
    BY DEF ContextInv, LogInv, TurnAnswered, TurnOver
  <1>12. WritingInv'
    <2>1. writing' = writing /\ running' = running BY DEF TurnAnswered
    <2>2. writing["turn"].op = 0
      BY DEF ContextInv, WritingInv, TurnAnswered
    <2> QED BY <2>1, <2>2 DEF ContextInv, WritingInv, ReadInv, StartedIsAlive
  <1> QED BY <1>10, <1>11, <1>12 DEF ContextInv

\* What a rotation keeps covers nothing hidden; a summary tells nothing.
LEMMA TranscriptRotatesInv == ASSUME ContextInv, TranscriptRotates PROVE ContextInv'
  <1> DEFINE left == entries \ Affected
             es == left \cup ArchiveSummaries
  <1>1. /\ hiding \subseteq archived /\ archived \subseteq closed
        /\ AllSound(entries, closed, archived \ hiding)
    BY DEF ContextInv, LogInv, EntriesInv
  <1>2. \A e \in left : Sound(e, closed, archived) /\ e.covers \cap hiding = {}
    <2> SUFFICES ASSUME NEW e \in left
                 PROVE  Sound(e, closed, archived) /\ e.covers \cap hiding = {}
      OBVIOUS
    <2>1. e.covers \cap hiding = {} BY DEF Affected
    <2>2. Sound(e, closed, archived \ hiding) BY <1>1 DEF AllSound
    <2> QED BY <2>1, <2>2 DEF Sound
  <1>3. \A e \in ArchiveSummaries : \E n \in hiding :
          /\ DOMAIN e = Fields
          /\ e.kind = "summary" /\ e.num = n /\ e.covers = {n} /\ e.own = {}
    BY DEF ArchiveSummaries, Fields
  <1>4. \A d, e \in ArchiveSummaries : d # e => d.num # e.num
    <2> DEFINE summary(n) ==
          [kind |-> "summary", num |-> n, short |-> FALSE, seq |-> NextSeq(entries) + n,
           at |-> 2 * convTurn.n + 1, covers |-> {n}, own |-> {}, echo |-> {}]
    <2>1. \A e \in ArchiveSummaries : \E n \in hiding : e = summary(n)
      BY DEF ArchiveSummaries
    <2>2. \A n : summary(n).num = n OBVIOUS
    <2> HIDE DEF summary
    <2>3. \A e \in ArchiveSummaries : e = summary(e.num) BY <2>1, <2>2
    <2> QED BY <2>3
  <1>5. ASSUME NEW e \in ArchiveSummaries PROVE Sound(e, closed, archived)
    <2>1. PICK n \in hiding :
            /\ DOMAIN e = Fields
            /\ e.kind = "summary" /\ e.num = n /\ e.covers = {n} /\ e.own = {}
      BY <1>3
    <2> QED BY <1>1, <2>1 DEF Sound, OwnById
  <1>6. AllSound(es, closed, archived)
    <2>1. \A e \in es : Sound(e, closed, archived) BY <1>2, <1>5
    <2>2. \A d, e \in left : d # e => d.covers \cap e.covers = {}
      BY <1>1 DEF AllSound
    <2>3. \A d \in left : \A e \in ArchiveSummaries : d.covers \cap e.covers = {}
      <3> HIDE DEF left
      <3> QED BY <1>2, <1>3
    <2>4. \A d, e \in ArchiveSummaries : d # e => d.covers \cap e.covers = {}
      BY <1>3, <1>4
    <2> HIDE DEF left
    <2> QED BY <2>1, <2>2, <2>3, <2>4 DEF AllSound
  <1>7. /\ entries' = Numbered(es, ByTime(es)) /\ taken' \subseteq Covered(es)
        /\ UNCHANGED <<archived, closed>> /\ hiding' = {}
    BY DEF TranscriptRotates
  <1>8. AllSound(entries', closed, archived) /\ Covered(entries') = Covered(es)
    <2>1. \A e \in es : DOMAIN e = Fields BY <1>6 DEF AllSound, Sound
    <2> HIDE DEF es
    <2>2. Renders(entries', es) BY <1>7, <2>1, NumberedRenders
    <2> QED BY <1>6, <2>2, RendersKeep
  <1>9. EntriesInv'
    <2>1. archived' \ hiding' = archived BY <1>7
    <2> HIDE DEF es
    <2> QED BY <1>7, <1>8, <2>1 DEF EntriesInv
  <1>10. LogInv' BY DEF ContextInv, LogInv, TranscriptRotates
  <1>11. WritingInv'
    BY DEF ContextInv, WritingInv, ReadInv, StartedIsAlive, TranscriptRotates
  <1> QED BY <1>9, <1>10, <1>11 DEF ContextInv

LEMMA ArchiveHidesInv == ASSUME ContextInv, ArchiveHides PROVE ContextInv'
  <1>1. PICK batch \in SUBSET (closed \ archived) :
          archived' = archived \cup batch /\ hiding' = batch
    BY DEF ArchiveHides
  <1>2. archived' \ hiding' = archived \ hiding
    BY <1>1 DEF ArchiveHides
  <1>3. LogInv' BY <1>1 DEF ContextInv, LogInv, ArchiveHides
  <1>4. EntriesInv'
    BY <1>2 DEF ContextInv, EntriesInv, ArchiveHides, AllSound
  <1>5. WritingInv'
    BY DEF ContextInv, WritingInv, ReadInv, StartedIsAlive, ArchiveHides
  <1> QED BY <1>3, <1>4, <1>5 DEF ContextInv

\* A set that is emptied tells nothing that is untrue.
LEMMA NoEntriesSound ==
  ASSUME entries' = {}, taken' = {} PROVE EntriesInv'
  BY DEF EntriesInv, AllSound

LEMMA ForgetsInv == ASSUME ContextInv, IdentityChanges \/ ChatCleared PROVE ContextInv'
  <1>1. EntriesInv' BY NoEntriesSound DEF IdentityChanges, ChatCleared
  <1>2. CASE IdentityChanges
    <2>1. LogInv' BY <1>2 DEF ContextInv, LogInv, IdentityChanges
    <2>2. WritingInv'
      BY <1>2 DEF ContextInv, WritingInv, ReadInv, StartedIsAlive, IdentityChanges
    <2> QED BY <1>1, <2>1, <2>2 DEF ContextInv
  <1>3. CASE ChatCleared
    <2>1. LogInv' BY <1>3 DEF ContextInv, LogInv, ChatCleared
    <2>2. WritingInv'
      BY <1>3 DEF ContextInv, WritingInv, ReadInv, StartedIsAlive, ChatCleared
    <2> QED BY <1>1, <2>1, <2>2 DEF ContextInv
  <1> QED BY <1>2, <1>3

LEMMA TurnStepsInv ==
  ASSUME ContextInv, TurnBegins \/ Overflows PROVE ContextInv'
  <1>1. LogInv'
    <2>1. CASE TurnBegins
      BY <2>1 DEF ContextInv, LogInv, TurnBegins
    <2>2. CASE Overflows
      BY <2>2 DEF ContextInv, LogInv, Overflows
    <2> QED BY <2>1, <2>2
  <1>2. EntriesInv'
    BY DEF ContextInv, EntriesInv, TurnBegins, Overflows
  <1>3. WritingInv'
    BY DEF ContextInv, WritingInv, ReadInv, StartedIsAlive, TurnBegins, Overflows
  <1> QED BY <1>1, <1>2, <1>3 DEF ContextInv

\* A turn that ends without an answer leaves the entries as they are.
LEMMA EndedSound ==
  ASSUME ContextInv, UNCHANGED <<entries, archived, hiding, taken>>,
         TurnOver \/ UNCHANGED closed
  PROVE  EntriesInv'
  <1>1. AllSound(entries, closed', archived \ hiding)
    BY DEF ContextInv, EntriesInv, AllSound, Sound, TurnOver
  <1> QED BY <1>1 DEF ContextInv, EntriesInv

LEMMA TurnEndsInv ==
  ASSUME ContextInv, TurnFails \/ ContextRestarts PROVE ContextInv'
  <1>1. EntriesInv'
    BY EndedSound DEF TurnFails, ContextRestarts
  <1>2. LogInv'
    BY DEF ContextInv, LogInv, TurnFails, ContextRestarts, TurnOver
  <1>3. CASE TurnFails
    <2>1. WritingInv /\ "turn" \in Callers /\ Ended("turn") /\ RowEnds("turn")
      BY <1>3 DEF ContextInv, TurnFails, Callers
    <2>2. WritingInv' BY <2>1, EndedWriting DEF WritingInv
    <2> QED BY <1>1, <1>2, <2>2 DEF ContextInv
  <1>4. CASE ContextRestarts
    <2>1. WritingInv'
      BY <1>4 DEF ContextRestarts, WritingInv, ReadInv, StartedIsAlive, Nothing, Callers
    <2> QED BY <1>1, <1>2, <2>1 DEF ContextInv
  <1> QED BY <1>3, <1>4

-----------------------------------------------------------------------------
(* The theorems.                                                           *)

LEMMA ContextNextInv == ContextInv /\ [ContextNext]_contextVars => ContextInv'
  <1> SUFFICES ASSUME ContextInv, [ContextNext]_contextVars PROVE ContextInv'
    OBVIOUS
  <1>1. ASSUME NEW c \in Callers, TextCommitted(c) PROVE ContextInv'
    BY <1>1, TextCommittedInv
  <1>2. ASSUME NEW c \in Callers, TextRefused(c) PROVE ContextInv'
    BY <1>2, TextRefusedInv
  <1>3. CASE PageCompacts
    <2>1. "page" \in Callers /\ "page" # "turn" BY DEF Callers
    <2>2. Compacts("page", TRUE) /\ writing["page"].op = 0
          /\ UNCHANGED <<archived, hiding, closed, taken>>
      BY <1>3 DEF PageCompacts
    <2> QED BY <2>1, <2>2, CompactsInv
  <1>4. CASE BuildsPrompt
    <2>1. "turn" \in Callers BY DEF Callers
    <2>2. Compacts("turn", convTurn.at = "rebuild") /\ writing["turn"].op = 0
          /\ convTurn.at \in {"prompt", "rebuild"}
          /\ UNCHANGED <<archived, hiding, closed, taken>>
      BY <1>4 DEF BuildsPrompt
    <2> QED BY <2>1, <2>2, CompactsInv
  <1>5. CASE TurnAnswered BY <1>5, TurnAnsweredInv
  <1>6. CASE TurnBegins \/ Overflows BY <1>6, TurnStepsInv
  <1>7. CASE TurnFails \/ ContextRestarts BY <1>7, TurnEndsInv
  <1>8. CASE IdentityChanges \/ ChatCleared BY <1>8, ForgetsInv
  <1>9. CASE ArchiveHides BY <1>9, ArchiveHidesInv
  <1>10. CASE TranscriptRotates BY <1>10, TranscriptRotatesInv
  <1>11. CASE UNCHANGED contextVars
    BY <1>11 DEF contextVars, ContextInv, LogInv, EntriesInv, WritingInv, ReadInv,
                 StartedIsAlive
  <1> QED
    BY <1>1, <1>2, <1>3, <1>4, <1>5, <1>6, <1>7, <1>8, <1>9, <1>10, <1>11 DEF ContextNext

LEMMA ContextInvHolds == ContextSpec => []ContextInv
  BY ContextInitInv, ContextNextInv, PTL DEF ContextSpec

\* For every number of turns and texts: no compaction loses or doubles a
\* turn, no archived one is told from its events once the transcript is
\* rotated, and no row bars compactions that nobody runs.
THEOREM TranscriptTruth == ContextSpec => []TranscriptTellsTruth
  <1>1. ContextInv => TranscriptTellsTruth
    BY DEF ContextInv, EntriesInv, AllSound, Sound, WritingInv, TranscriptTellsTruth,
           ToldOnce, ArchivedUntold
  <1> QED BY <1>1, ContextInvHolds, PTL

\* Whatever happens at the await, the model is given what is stored.
THEOREM PromptCurrent == ContextSpec => PromptIsCurrent
  <1>1. [ContextNext]_contextVars =>
          [prompted' # prompted => prompted' \in {{}, entries'}]_contextVars
    <2> SUFFICES ASSUME [ContextNext]_contextVars, prompted' # prompted
                 PROVE  prompted' \in {{}, entries'}
      BY DEF contextVars
    <2>1. ASSUME NEW c \in Callers, TextCommitted(c) \/ TextRefused(c)
          PROVE  prompted' \in {{}, entries'}
      BY <2>1 DEF TextCommitted, TextRefused, Given
    <2>2. ASSUME NEW c, NEW forced, Compacts(c, forced)
          PROVE  prompted' \in {{}, entries'}
      BY <2>2 DEF Compacts, Given, AsksForText
    <2>3. CASE PageCompacts \/ BuildsPrompt
      BY <2>2, <2>3 DEF PageCompacts, BuildsPrompt
    <2>4. CASE TurnAnswered \/ TurnFails \/ ContextRestarts
      BY <2>4 DEF TurnAnswered, TurnFails, ContextRestarts, TurnOver
    <2>5. CASE TurnBegins \/ IdentityChanges \/ Overflows \/ ArchiveHides
               \/ TranscriptRotates \/ ChatCleared
      BY <2>5 DEF TurnBegins, IdentityChanges, Overflows, ArchiveHides,
                  TranscriptRotates, ChatCleared
    <2> QED BY <2>1, <2>3, <2>4, <2>5 DEF ContextNext, contextVars
  <1> QED BY <1>1, PTL DEF ContextSpec, PromptIsCurrent
=============================================================================
