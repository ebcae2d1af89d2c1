------------------------- MODULE SessionInboxProofs -------------------------
(* Theorems about SessionInbox, for any number of messages, slots, tokens   *)
(* and any inbox size.                                                      *)
EXTENDS SessionInbox, SequenceTheorems, FiniteSetTheorems, TLAPS

USE DEF inboxVars

(***************************************************************************)
(* Sequences the inbox is built from.                                      *)
(***************************************************************************)
\* s without the items at positions a+1 .. b.
Cut(s, a, b) == SubSeq(s, 1, a) \o SubSeq(s, b + 1, Len(s))

LEMMA PartOfSeq ==
  ASSUME NEW S, NEW s \in Seq(S), NEW a \in Nat, NEW b \in Nat,
         1 <= a, b <= Len(s), a <= b + 1
  PROVE  /\ SubSeq(s, a, b) \in Seq(S)
         /\ Len(SubSeq(s, a, b)) = b - a + 1
         /\ \A i \in 1 .. b - a + 1 : SubSeq(s, a, b)[i] = s[a + i - 1]
<1>1. \A i \in a .. b : s[i] \in S
  BY ElementOfSeq, LenProperties
<1>2. a \in Int /\ b \in Int /\ (a <= b \/ b - a + 1 = 0)
  OBVIOUS
<1> QED BY <1>1, <1>2, SubSeqProperties

LEMMA CutProperties ==
  ASSUME NEW S, NEW s \in Seq(S), NEW a \in Nat, NEW b \in Nat,
         a <= b, b <= Len(s)
  PROVE  /\ Cut(s, a, b) \in Seq(S)
         /\ Len(Cut(s, a, b)) = Len(s) - (b - a)
         /\ \A i \in 1 .. Len(s) - (b - a) :
              Cut(s, a, b)[i] = IF i <= a THEN s[i] ELSE s[i + (b - a)]
<1> DEFINE l == SubSeq(s, 1, a)
           r == SubSeq(s, b + 1, Len(s))
           c == l \o r
           n == Len(s) - (b - a)
<1>0. Len(s) \in Nat BY LenProperties
<1>1. l \in Seq(S) /\ Len(l) = a /\ \A i \in 1 .. a : l[i] = s[i]
  BY <1>0, PartOfSeq
<1>2. /\ r \in Seq(S) /\ Len(r) = Len(s) - b
      /\ \A i \in 1 .. Len(s) - b : r[i] = s[b + i]
  BY <1>0, PartOfSeq
<1>3. n \in Nat /\ n = a + (Len(s) - b) BY <1>0
<1>4. /\ c \in Seq(S) /\ Len(c) = n
      /\ \A i \in 1 .. n : c[i] = IF i <= a THEN l[i] ELSE r[i - a]
  <2> HIDE DEF l, r, n
  <2> QED BY <1>1, <1>2, <1>3, ConcatProperties
<1>5. \A i \in 1 .. n : c[i] = IF i <= a THEN s[i] ELSE s[i + (b - a)]
  <2> HIDE DEF l, r, c, n
  <2> SUFFICES ASSUME NEW i \in 1 .. n
               PROVE  c[i] = IF i <= a THEN s[i] ELSE s[i + (b - a)]
    OBVIOUS
  <2>1. i \in Int BY <1>3
  <2>2. CASE i <= a BY <2>1, <2>2, <1>1, <1>4
  <2>3. CASE i > a
    <3>1. i - a \in 1 .. Len(s) - b BY <2>1, <2>3, <1>0, <1>3
    <3>2. b + (i - a) = i + (b - a) BY <2>1
    <3>3. r[i - a] = s[i + (b - a)] BY <3>1, <3>2, <1>2
    <3> QED BY <2>1, <2>3, <3>3, <1>4
  <2> QED BY <2>1, <2>2, <2>3
<1> QED BY <1>4, <1>5 DEF Cut

LEMMA CutLength ==
  ASSUME NEW S, NEW s \in Seq(S), NEW a \in Nat, NEW b \in Nat,
         a <= b, b <= Len(s)
  PROVE  /\ Cut(s, a, b) \in Seq(S)
         /\ Len(Cut(s, a, b)) = Len(s) - (b - a)
BY CutProperties

\* The same of a sequence of messages.
LEMMA QueueCut ==
  ASSUME NEW q \in Seq(Messages), NEW a \in Nat, NEW b \in Nat,
         a <= b, b <= Len(q)
  PROVE  /\ Cut(q, a, b) \in Seq(Messages)
         /\ Len(Cut(q, a, b)) = Len(q) - (b - a)
         /\ \A i \in 1 .. Len(q) - (b - a) :
              Cut(q, a, b)[i] = IF i <= a THEN q[i] ELSE q[i + (b - a)]
BY CutProperties, SMTT(60)

\* What is left of a sequence of messages after its first k.
LEMMA QueueRest ==
  ASSUME NEW q \in Seq(Messages), NEW k \in Nat
  PROVE  LET rest == SubSeq(q, k + 1, Len(q)) IN
         /\ rest \in Seq(Messages)
         /\ Len(rest) = IF k + 1 <= Len(q) THEN Len(q) - (k + 1) + 1 ELSE 0
         /\ \A i \in 1 .. Len(q) - (k + 1) + 1 : rest[i] = q[(k + 1) + i - 1]
<1>1. k + 1 \in Int /\ Len(q) \in Int BY LenProperties
<1>2. \A i \in k + 1 .. Len(q) : q[i] \in Messages
  <2>1. \A i \in k + 1 .. Len(q) : i \in 1 .. Len(q) BY <1>1
  <2> QED BY <2>1, ElementOfSeq
<1> DEFINE m == k + 1
           n == Len(q)
           rest == SubSeq(q, m, n)
<1> HIDE DEF m, n
<1>3. m \in Int /\ n \in Int /\ \A i \in m .. n : q[i] \in Messages
  BY <1>1, <1>2 DEF m, n
<1>4. /\ rest \in Seq(Messages)
      /\ Len(rest) = IF m <= n THEN n - m + 1 ELSE 0
      /\ \A i \in 1 .. n - m + 1 : rest[i] = q[m + i - 1]
  BY <1>3, SubSeqProperties
<1> QED BY <1>4 DEF m, n

LEMMA WithoutIsCut ==
  ASSUME NEW S, NEW s \in Seq(S), NEW i \in 1 .. Len(s)
  PROVE  Without(s, i) = Cut(s, i - 1, i)
BY DEF Without, Cut

LEMMA TailIsCut ==
  ASSUME NEW S, NEW s \in Seq(S), s # <<>>
  PROVE  Tail(s) = Cut(s, 0, 1)
<1>1. Tail(s) = SubSeq(s, 2, Len(s)) BY TailIsSubSeq
<1>2. SubSeq(s, 1, 0) = <<>> BY SubSeqEmpty
<1>3. Tail(s) \in Seq(S) BY HeadTailProperties
<1> QED BY <1>1, <1>2, <1>3, ConcatEmptySeq DEF Cut

LEMMA HeadIsPart ==
  ASSUME NEW S, NEW s \in Seq(S), s # <<>>
  PROVE  SubSeq(s, 1, 1) = <<Head(s)>>
<1>1. Len(s) \in Nat /\ 1 <= Len(s) BY LenProperties, EmptySeq
<1>2. 1 \in 1 .. Len(s) /\ 1 \in 1 .. Len(s) BY <1>1
<1>3. SubSeq(s, 1, 1) = <<s[1]>> \o SubSeq(s, 2, 1)
  BY <1>2, SubSeqRecursiveFirst
<1>4. SubSeq(s, 2, 1) = <<>> BY SubSeqEmpty
<1>5. s[1] = Head(s) /\ <<s[1]>> \in Seq(S) BY <1>2, ElementOfSeq
<1> QED BY <1>3, <1>4, <1>5, ConcatEmptySeq

LEMMA Positions ==
  ASSUME NEW S, NEW s \in Seq(S)
  PROVE  /\ DOMAIN s = 1 .. Len(s) /\ Len(s) \in Nat
         /\ ItemsOf(s) \subseteq S
BY LenProperties, ElementOfSeq DEF ItemsOf

LEMMA AppendItems ==
  ASSUME NEW S, NEW s \in Seq(S), NEW e \in S
  PROVE  /\ ItemsOf(Append(s, e)) = ItemsOf(s) \cup {e}
         /\ Distinct(s) /\ e \notin ItemsOf(s) => Distinct(Append(s, e))
<1> DEFINE t == Append(s, e)
<1>1. DOMAIN s = 1 .. Len(s) /\ Len(s) \in Nat BY Positions
<1>2. /\ t \in Seq(S) /\ Len(t) = Len(s) + 1
      /\ \A i \in 1 .. Len(s) : t[i] = s[i]
      /\ t[Len(s) + 1] = e
  BY AppendProperties
<1>3. DOMAIN t = 1 .. Len(s) + 1 BY <1>2, Positions
<1> HIDE DEF t
<1>4. ItemsOf(t) = ItemsOf(s) \cup {e}
  BY <1>1, <1>2, <1>3 DEF ItemsOf
<1>5. Distinct(s) /\ e \notin ItemsOf(s) => Distinct(t)
  BY <1>1, <1>2, <1>3 DEF ItemsOf, Distinct
<1> QED BY <1>4, <1>5 DEF t

LEMMA ConcatItems ==
  ASSUME NEW S, NEW s \in Seq(S), NEW t \in Seq(S)
  PROVE  /\ ItemsOf(s \o t) = ItemsOf(s) \cup ItemsOf(t)
         /\ Distinct(s) /\ Distinct(t) /\ ItemsOf(s) \cap ItemsOf(t) = {}
              => Distinct(s \o t)
<1> DEFINE c == s \o t
<1>1. /\ DOMAIN s = 1 .. Len(s) /\ Len(s) \in Nat
      /\ DOMAIN t = 1 .. Len(t) /\ Len(t) \in Nat
  BY Positions
<1>2. /\ c \in Seq(S) /\ Len(c) = Len(s) + Len(t)
      /\ \A i \in 1 .. Len(s) + Len(t) :
           c[i] = IF i <= Len(s) THEN s[i] ELSE t[i - Len(s)]
  BY ConcatProperties
<1>3. DOMAIN c = 1 .. Len(s) + Len(t) BY <1>2, Positions
<1> HIDE DEF c
<1>4. \A i \in 1 .. Len(s) : i \in DOMAIN c /\ c[i] = s[i]
  BY <1>1, <1>2, <1>3
<1>5. \A i \in 1 .. Len(t) : Len(s) + i \in DOMAIN c /\ c[Len(s) + i] = t[i]
  <2> TAKE i \in 1 .. Len(t)
  <2>1. /\ Len(s) + i \in 1 .. Len(s) + Len(t)
        /\ ~(Len(s) + i <= Len(s)) /\ (Len(s) + i) - Len(s) = i
    BY <1>1
  <2> QED BY <2>1, <1>2, <1>3
<1>6. \A i \in DOMAIN c : \/ i \in DOMAIN s /\ c[i] = s[i]
                          \/ i - Len(s) \in DOMAIN t /\ c[i] = t[i - Len(s)]
  BY <1>1, <1>2, <1>3
<1>7. ItemsOf(c) = ItemsOf(s) \cup ItemsOf(t)
  <2>1. ItemsOf(s) \subseteq ItemsOf(c) BY <1>1, <1>4 DEF ItemsOf
  <2>2. ItemsOf(t) \subseteq ItemsOf(c) BY <1>1, <1>5 DEF ItemsOf
  <2>3. ItemsOf(c) \subseteq ItemsOf(s) \cup ItemsOf(t) BY <1>6 DEF ItemsOf
  <2> QED BY <2>1, <2>2, <2>3
<1>8. ASSUME Distinct(s), Distinct(t), ItemsOf(s) \cap ItemsOf(t) = {},
             NEW i \in DOMAIN c, NEW j \in DOMAIN c, c[i] = c[j]
      PROVE  i = j
  <2>1. \A x \in DOMAIN s, y \in DOMAIN t : s[x] # t[y]
    BY <1>8 DEF ItemsOf
  <2>2. i \in Int /\ j \in Int BY <1>1, <1>3
  <2>3. CASE i \in DOMAIN s /\ c[i] = s[i]
    BY <2>1, <2>3, <1>6, <1>8 DEF Distinct
  <2>4. CASE i - Len(s) \in DOMAIN t /\ c[i] = t[i - Len(s)]
    <3>1. j - Len(s) \in DOMAIN t /\ c[j] = t[j - Len(s)]
      BY <2>1, <2>4, <1>6, <1>8
    <3>2. i - Len(s) = j - Len(s) BY <2>4, <3>1, <1>8 DEF Distinct
    <3> QED BY <3>2, <2>2, <1>1
  <2> QED BY <2>3, <2>4, <1>6
<1> QED BY <1>7, <1>8 DEF c, Distinct

LEMMA PartItems ==
  ASSUME NEW S, NEW s \in Seq(S), NEW a \in Nat, NEW b \in Nat,
         a <= b, b <= Len(s)
  PROVE  /\ ItemsOf(SubSeq(s, a + 1, b)) = {s[i] : i \in a + 1 .. b}
         /\ Distinct(s) => Distinct(SubSeq(s, a + 1, b))
<1> DEFINE p == SubSeq(s, a + 1, b)
<1>1. DOMAIN s = 1 .. Len(s) /\ Len(s) \in Nat BY Positions
<1>2. /\ p \in Seq(S) /\ Len(p) = b - (a + 1) + 1
      /\ \A i \in 1 .. b - (a + 1) + 1 : p[i] = s[(a + 1) + i - 1]
  BY <1>1, PartOfSeq
<1> HIDE DEF p
<1>3. DOMAIN p = 1 .. b - a /\ \A i \in 1 .. b - a : p[i] = s[a + i]
  <2>1. b - (a + 1) + 1 = b - a OBVIOUS
  <2>2. \A i \in 1 .. b - a : (a + 1) + i - 1 = a + i OBVIOUS
  <2> QED BY <1>2, <2>1, <2>2, Positions
<1>4. ItemsOf(p) = {s[i] : i \in a + 1 .. b}
  <2>1. \A i \in 1 .. b - a : a + i \in a + 1 .. b OBVIOUS
  <2>2. \A i \in a + 1 .. b : i - a \in 1 .. b - a /\ a + (i - a) = i OBVIOUS
  <2>3. \A i \in a + 1 .. b : p[i - a] = s[i]
    BY <1>3, <2>2
  <2>4. ItemsOf(p) \subseteq {s[i] : i \in a + 1 .. b}
    BY <1>3, <2>1 DEF ItemsOf
  <2>5. {s[i] : i \in a + 1 .. b} \subseteq ItemsOf(p)
    BY <1>3, <2>2, <2>3 DEF ItemsOf
  <2> QED BY <2>4, <2>5
<1>5. ASSUME Distinct(s), NEW i \in 1 .. b - a, NEW j \in 1 .. b - a,
             s[a + i] = s[a + j]
      PROVE  i = j
  <2>1. a + i \in DOMAIN s /\ a + j \in DOMAIN s BY <1>1
  <2>2. a + i = a + j BY <1>5, <2>1 DEF Distinct
  <2> QED BY <2>2
<1> QED BY <1>3, <1>4, <1>5 DEF p, Distinct

\* Cutting a sequence without repetitions takes out exactly the cut items.
LEMMA CutItems ==
  ASSUME NEW S, NEW s \in Seq(S), NEW a \in Nat, NEW b \in Nat,
         a <= b, b <= Len(s), Distinct(s)
  PROVE  /\ ItemsOf(Cut(s, a, b)) = ItemsOf(s) \ {s[i] : i \in a + 1 .. b}
         /\ Distinct(Cut(s, a, b))
<1> DEFINE l == SubSeq(s, 1, a)
           r == SubSeq(s, b + 1, Len(s))
<1>1. DOMAIN s = 1 .. Len(s) /\ Len(s) \in Nat BY Positions
<1>2. ItemsOf(l) = {s[i] : i \in 1 .. a} /\ Distinct(l)
  <2>1. \A k \in Nat : k <= a =>
          /\ ItemsOf(SubSeq(s, k + 1, a)) = {s[i] : i \in k + 1 .. a}
          /\ Distinct(SubSeq(s, k + 1, a))
    BY <1>1, PartItems
  <2>2. 0 \in Nat /\ 0 <= a /\ 0 + 1 = 1 OBVIOUS
  <2>3. /\ ItemsOf(SubSeq(s, 0 + 1, a)) = {s[i] : i \in 0 + 1 .. a}
        /\ Distinct(SubSeq(s, 0 + 1, a))
    BY <2>1, <2>2, Zenon
  <2> QED BY <2>2, <2>3
<1>3. ItemsOf(r) = {s[i] : i \in b + 1 .. Len(s)} /\ Distinct(r)
  BY <1>1, PartItems
<1>4. l \in Seq(S) /\ r \in Seq(S) BY <1>1, PartOfSeq
<1> HIDE DEF l, r
<1>5. \A i, j \in 1 .. Len(s) : s[i] = s[j] => i = j
  BY <1>1 DEF Distinct
<1>6. /\ 1 .. a \subseteq 1 .. Len(s) /\ b + 1 .. Len(s) \subseteq 1 .. Len(s)
      /\ a + 1 .. b \subseteq 1 .. Len(s)
      /\ (1 .. a) \cap (b + 1 .. Len(s)) = {}
      /\ 1 .. Len(s) = (1 .. a) \cup (a + 1 .. b) \cup (b + 1 .. Len(s))
      /\ (a + 1 .. b) \cap ((1 .. a) \cup (b + 1 .. Len(s))) = {}
  BY <1>1
<1>7. ItemsOf(l) \cap ItemsOf(r) = {}
  BY <1>2, <1>3, <1>5, <1>6
<1>8. ItemsOf(l) \cup ItemsOf(r) = ItemsOf(s) \ {s[i] : i \in a + 1 .. b}
  <2>1. ItemsOf(s) = {s[i] : i \in 1 .. Len(s)} BY <1>1 DEF ItemsOf
  <2>2. ItemsOf(s) = ItemsOf(l) \cup {s[i] : i \in a + 1 .. b} \cup ItemsOf(r)
    BY <1>2, <1>3, <1>6, <2>1
  <2>3. (ItemsOf(l) \cup ItemsOf(r)) \cap {s[i] : i \in a + 1 .. b} = {}
    BY <1>2, <1>3, <1>5, <1>6
  <2> QED BY <2>2, <2>3
<1>9. /\ ItemsOf(l \o r) = ItemsOf(l) \cup ItemsOf(r)
      /\ Distinct(l \o r)
  <2>1. Distinct(l) /\ Distinct(r) BY <1>2, <1>3
  <2> QED BY <1>4, <1>7, <2>1, ConcatItems
<1>10. Cut(s, a, b) = l \o r BY DEF Cut, l, r
<1> QED BY <1>8, <1>9, <1>10

(***************************************************************************)
(* Types.                                                                  *)
(***************************************************************************)
\* Granting or handing on the slot keeps the token counter in range, and the
\* new owner is nobody, the old owner or a token never issued before.
LEMMA SlotStep ==
  ASSUME InboxTypeOK, TakeSlotIfFree \/ HandSlotOn
  PROVE  /\ running' \in Tokens \cup {NoOwner}
         /\ nextToken' \in 0 .. MaxToken
         /\ running' \in {running, NoOwner, nextToken + 1}
BY InboxAssumption DEF InboxTypeOK, TakeSlotIfFree, HandSlotOn, Tokens, NoOwner

LEMMA EnqueueType ==
  ASSUME InboxTypeOK, NEW m \in Messages, Enqueue(m)
  PROVE  InboxTypeOK'
<1> USE DEF MessageStates
<1>1. CASE EnqueueRoom(m)
  <2>1. inbox' \in Seq(Messages)
    BY <1>1, AppendProperties DEF EnqueueRoom, InboxTypeOK
  <2> QED BY <1>1, <2>1, SlotStep DEF EnqueueRoom, InboxTypeOK
<1>2. CASE EnqueueDropping(m)
  <2>1. PICK i \in DOMAIN inbox :
          /\ inbox' = Append(Without(inbox, i), m)
          /\ mstate' = [mstate EXCEPT ![m] = "accepted", ![inbox[i]] = "dropped"]
    BY <1>2 DEF EnqueueDropping
  <2>2. i \in 1 .. Len(inbox) /\ Len(inbox) \in Nat
    BY LenProperties DEF InboxTypeOK
  <2>3. Without(inbox, i) \in Seq(Messages)
    <3>1. i - 1 \in Nat /\ i \in Nat /\ i - 1 <= i /\ i <= Len(inbox)
      BY <2>2
    <3> QED BY <2>2, <3>1, WithoutIsCut, CutProperties DEF InboxTypeOK
  <2>4. inbox' \in Seq(Messages)
    BY <2>1, <2>3, AppendProperties
  <2> QED BY <1>2, <2>1, <2>4, SlotStep DEF EnqueueDropping, InboxTypeOK
<1>3. CASE EnqueueRefused(m)
  BY <1>3 DEF EnqueueRefused, InboxTypeOK
<1> QED BY <1>1, <1>2, <1>3 DEF Enqueue

LEMMA ClaimNextType ==
  ASSUME InboxTypeOK, NEW s \in Slots, NEW t \in Tokens, ClaimNext(s, t)
  PROVE  InboxTypeOK'
<1>1. Head(inbox) \in Messages /\ inbox' \in Seq(Messages)
  BY HeadTailProperties DEF ClaimNext, InboxTypeOK
<1>2. [items |-> <<Head(inbox)>>, committed |-> 0, active |-> TRUE] \in Leases
  BY <1>1 DEF Leases
<1>3. lease' \in [Slots -> Leases] BY <1>2 DEF ClaimNext, InboxTypeOK
<1> QED BY <1>1, <1>3 DEF ClaimNext, InboxTypeOK

LEMMA ClaimSteerType ==
  ASSUME InboxTypeOK, NEW s \in Slots, NEW skip \in {0, 1}, NEW n \in Nat \ {0},
         NEW like, skip + n <= Len(inbox),
         ClaimSteer(s, skip, n, like, Messages)
  PROVE  InboxTypeOK'
<1>0. Len(inbox) \in Nat BY LenProperties DEF InboxTypeOK
<1>1. inbox' = Cut(inbox, skip, skip + n) BY DEF ClaimSteer, Cut
<1>2. inbox' \in Seq(Messages)
  BY <1>0, <1>1, CutProperties DEF InboxTypeOK
<1>3. SubSeq(inbox, skip + 1, skip + n) \in Seq(Messages)
  BY <1>0, PartOfSeq DEF InboxTypeOK
<1>4. lease' \in [Slots -> Leases]
  BY <1>3 DEF ClaimSteer, InboxTypeOK, Leases
<1> QED BY <1>2, <1>4 DEF ClaimSteer, InboxTypeOK

LEMMA ReleaseType ==
  ASSUME InboxTypeOK, NEW n \in Nat
  PROVE  Release(n) \in Nat
BY DEF Release, InboxTypeOK

LEMMA SettleType ==
  ASSUME InboxTypeOK, NEW s \in Slots, NEW how \in MessageStates, Settle(s, how)
  PROVE  InboxTypeOK'
<1>1. lease' \in [Slots -> Leases] BY DEF Settle, InboxTypeOK, Leases
<1>2. leasedCount' \in Nat BY ReleaseType DEF Settle
<1> QED BY <1>1, <1>2 DEF Settle, InboxTypeOK

LEMMA UncommittedType ==
  ASSUME NEW l \in Leases
  PROVE  /\ Uncommitted(l) \in Seq(Messages)
         /\ l.committed <= Len(l.items) =>
              Len(Uncommitted(l)) = Len(l.items) - l.committed
         /\ \A i \in 1 .. Len(l.items) - l.committed :
              Uncommitted(l)[i] = l.items[l.committed + i]
<1>1. l.items \in Seq(Messages) /\ l.committed \in Nat BY DEF Leases
<1>2. Len(l.items) \in Nat BY <1>1, LenProperties
<1>4. /\ Uncommitted(l) \in Seq(Messages)
      /\ Len(Uncommitted(l)) =
           IF l.committed + 1 <= Len(l.items)
           THEN Len(l.items) - (l.committed + 1) + 1 ELSE 0
      /\ \A i \in 1 .. Len(l.items) - (l.committed + 1) + 1 :
           Uncommitted(l)[i] = l.items[(l.committed + 1) + i - 1]
  BY <1>1, QueueRest, ZenonT(60) DEF Uncommitted
<1>5. ASSUME NEW i \in 1 .. Len(l.items) - l.committed
      PROVE  Uncommitted(l)[i] = l.items[l.committed + i]
  <2>1. /\ i \in 1 .. Len(l.items) - (l.committed + 1) + 1
        /\ (l.committed + 1) + i - 1 = l.committed + i
    BY <1>1, <1>2
  <2> QED BY <1>4, <2>1
<1>6. l.committed <= Len(l.items) =>
        Len(Uncommitted(l)) = Len(l.items) - l.committed
  BY <1>1, <1>2, <1>4
<1> QED BY <1>4, <1>5, <1>6

LEMMA RequeueFrontType ==
  ASSUME InboxTypeOK, NEW s \in Slots, RequeueFront(s)
  PROVE  InboxTypeOK'
<1>1. lease[s] \in Leases BY DEF InboxTypeOK
<1>2. Uncommitted(lease[s]) \in Seq(Messages) BY <1>1, UncommittedType
<1>3. inbox' \in Seq(Messages)
  BY <1>2, ConcatProperties DEF RequeueFront, InboxTypeOK
<1>4. leasedCount' \in Nat
  BY <1>2, LenProperties, ReleaseType DEF RequeueFront
<1>5. Closed(lease[s]) \in Leases BY <1>1 DEF Closed, Leases
<1>6. lease' \in [Slots -> Leases] BY <1>5 DEF RequeueFront, InboxTypeOK
<1> QED BY <1>3, <1>4, <1>6 DEF RequeueFront, InboxTypeOK

\* The operations on the consumer slot alone.
LEMMA SlotType ==
  ASSUME InboxTypeOK,
         \/ \E t \in Tokens : Handoff(t) \/ ReleaseIfIdle(t)
         \/ ClaimExisting
         \/ CleanupAll
  PROVE  /\ InboxTypeOK'
         /\ running' \in {running, NoOwner, nextToken + 1}
<1>1. CASE \E t \in Tokens : Handoff(t)
  BY <1>1, SlotStep DEF Handoff, InboxTypeOK
<1>2. CASE \E t \in Tokens : ReleaseIfIdle(t)
  BY <1>2 DEF ReleaseIfIdle, InboxTypeOK
<1>3. CASE ClaimExisting
  BY <1>3, InboxAssumption DEF ClaimExisting, InboxTypeOK, Tokens
<1>4. CASE CleanupAll
  BY <1>4 DEF CleanupAll, InboxTypeOK
<1> QED BY <1>1, <1>2, <1>3, <1>4

LEMMA InboxInitType ==
  ASSUME InboxInit
  PROVE  InboxTypeOK
<1>1. NoLease \in Leases BY EmptySeq DEF NoLease, Leases
<1> QED BY <1>1, EmptySeq, InboxAssumption
        DEF InboxInit, InboxTypeOK, MessageStates

LEMMA InboxNextType ==
  ASSUME InboxTypeOK, [InboxNext]_inboxVars
  PROVE  InboxTypeOK'
<1>1. CASE \E m \in Messages : Enqueue(m) BY <1>1, EnqueueType
<1>2. CASE \E s \in Slots, t \in Tokens : ClaimNext(s, t)
  BY <1>2, ClaimNextType
<1>3. CASE \E s \in Slots, skip \in {0, 1}, n \in 1 .. Len(inbox) :
             /\ skip + n <= Len(inbox)
             /\ ClaimSteer(s, skip, n, inbox[skip + 1], Messages)
  <2>1. \A n \in 1 .. Len(inbox) : n \in Nat \ {0}
    BY LenProperties DEF InboxTypeOK
  <2> QED BY <1>3, <2>1, ClaimSteerType
<1>4. CASE \E s \in Slots : Commit(s) \/ Fail(s)
  BY <1>4, SettleType DEF Commit, Fail, MessageStates
<1>5. CASE \E s \in Slots : RequeueFront(s) BY <1>5, RequeueFrontType
<1>6. CASE \/ \E t \in Tokens : Handoff(t) \/ ReleaseIfIdle(t)
           \/ ClaimExisting
           \/ CleanupAll
  BY <1>6, SlotType
<1>7. CASE UNCHANGED inboxVars BY <1>7 DEF InboxTypeOK
<1> QED BY <1>1, <1>2, <1>3, <1>4, <1>5, <1>6, <1>7 DEF InboxNext

\* Every reachable state of the inbox has its types, whatever the number of
\* messages, claimants and consumers: in particular the token counter and the
\* slot's owner stay in range and no settlement makes the lease count negative.
THEOREM InboxTypeCorrect == InboxSpec => []InboxTypeOK
<1> QED BY InboxInitType, InboxNextType, PTL DEF InboxSpec

(***************************************************************************)
(* The slot.                                                               *)
(***************************************************************************)
LEMMA SlotOwnerStep ==
  ASSUME InboxTypeOK, [InboxNext]_inboxVars
  PROVE  running' \in {running, NoOwner, nextToken + 1}
<1>1. CASE \E m \in Messages : Enqueue(m)
  BY <1>1, SlotStep
     DEF Enqueue, EnqueueRoom, EnqueueDropping, EnqueueRefused
<1>2. CASE \/ \E s \in Slots, t \in Tokens : ClaimNext(s, t)
           \/ \E s \in Slots, skip \in {0, 1}, n \in 1 .. Len(inbox) :
                ClaimSteer(s, skip, n, inbox[skip + 1], Messages)
           \/ \E s \in Slots : Commit(s) \/ Fail(s) \/ RequeueFront(s)
  BY <1>2 DEF ClaimNext, ClaimSteer, Commit, Fail, Settle, RequeueFront
<1>3. CASE \/ \E t \in Tokens : Handoff(t) \/ ReleaseIfIdle(t)
           \/ ClaimExisting
           \/ CleanupAll
  BY <1>3, SlotType
<1>4. CASE UNCHANGED inboxVars BY <1>4
<1> QED BY <1>1, <1>2, <1>3, <1>4 DEF InboxNext

\* A consumer that lost its slot never finds itself the owner again, however
\* many consumers follow it: tokens are issued in order and never reused, so
\* the ownership checks of the scheduler keep refusing a replaced consumer.
THEOREM LostSlot == InboxSpec => LostSlotStaysLost
<1> DEFINE Lost == \A t \in Tokens :
                     t <= nextToken /\ running # t => running' # t
<1>1. InboxTypeOK /\ [InboxNext]_inboxVars => Lost
  BY SlotOwnerStep DEF InboxTypeOK, Tokens, NoOwner
<1>2. InboxTypeOK /\ [InboxNext]_inboxVars => [Lost]_inboxVars
  BY <1>1
<1> QED BY <1>2, InboxTypeCorrect, PTL DEF InboxSpec, LostSlotStaysLost

(***************************************************************************)
(* Where the messages are.                                                 *)
(***************************************************************************)
\* AcceptedIsHeld message by message.
EachAcceptedHeld ==
  \A m \in Messages :
     mstate[m] = "accepted" <=>
       \/ m \in ItemsOf(inbox)
       \/ \E s \in Slots : m \in LeasedItems(s)

\* NoDuplicate and AcceptedIsHeld are inductive together: a message that
\* enters the inbox is not there yet because it is not accepted, and one that
\* is settled is nowhere else because it is there only once.
InboxInv == InboxTypeOK /\ NoDuplicate /\ EachAcceptedHeld

\* The two directions of EachAcceptedHeld.  A claimant that forgets a lease
\* breaks the second; the first, with NoDuplicate, survives even that.
HeldAreAccepted ==
  \A m \in Messages :
     m \in ItemsOf(inbox) \/ (\E s \in Slots : m \in LeasedItems(s)) =>
       mstate[m] = "accepted"

AcceptedAreHeld ==
  \A m \in Messages :
     mstate[m] = "accepted" =>
       m \in ItemsOf(inbox) \/ \E s \in Slots : m \in LeasedItems(s)

HeldOnce == InboxTypeOK /\ NoDuplicate /\ HeldAreAccepted

LEMMA Halves ==
  /\ EachAcceptedHeld <=> HeldAreAccepted /\ AcceptedAreHeld
  /\ InboxInv <=> HeldOnce /\ AcceptedAreHeld
<1>1. EachAcceptedHeld <=> HeldAreAccepted /\ AcceptedAreHeld
  BY DEF EachAcceptedHeld, HeldAreAccepted, AcceptedAreHeld
<1> QED BY <1>1 DEF InboxInv, HeldOnce

LEMMA HalvesNext ==
  HeldAreAccepted' /\ AcceptedAreHeld' => EachAcceptedHeld'
BY DEF EachAcceptedHeld, HeldAreAccepted, AcceptedAreHeld

LEMMA UncommittedItems ==
  ASSUME NEW l \in Leases
  PROVE  /\ ItemsOf(Uncommitted(l)) =
              {l.items[i] : i \in l.committed + 1 .. Len(l.items)}
         /\ Distinct(l.items) => Distinct(Uncommitted(l))
<1>1. l.items \in Seq(Messages) /\ l.committed \in Nat BY DEF Leases
<1>2. Len(l.items) \in Nat BY <1>1, LenProperties
<1>3. CASE l.committed <= Len(l.items)
  <2>1. \A a, b \in Nat : a <= b /\ b <= Len(l.items) =>
          /\ ItemsOf(SubSeq(l.items, a + 1, b)) = {l.items[i] : i \in a + 1 .. b}
          /\ Distinct(l.items) => Distinct(SubSeq(l.items, a + 1, b))
    BY <1>1, PartItems
  <2>2. Len(l.items) <= Len(l.items) BY <1>2
  <2> QED BY <1>1, <1>2, <1>3, <2>1, <2>2, Zenon DEF Uncommitted
<1>4. CASE l.committed > Len(l.items)
  <2>1. Uncommitted(l) = <<>> BY <1>1, <1>2, <1>4, SubSeqEmpty DEF Uncommitted
  <2>2. l.committed + 1 .. Len(l.items) = {} BY <1>1, <1>2, <1>4
  <2>3. ItemsOf(<<>>) = {} /\ Distinct(<<>>) BY DEF ItemsOf, Distinct
  <2> QED BY <2>1, <2>2, <2>3
<1> QED BY <1>1, <1>2, <1>3, <1>4

LEMMA SameLeases ==
  ASSUME lease' = lease
  PROVE  \A s \in Slots : LeasedItems(s)' = LeasedItems(s)
BY DEF LeasedItems

\* A new item at the back of the inbox.
LEMMA EnqueueOnce ==
  ASSUME HeldOnce, NEW m \in Messages, Dispatchable(m), Enqueue(m)
  PROVE  /\ NoDuplicate' /\ HeldAreAccepted'
         /\ AcceptedAreHeld => AcceptedAreHeld'
<1> USE DEF HeldOnce
<1>1. mstate[m] # "accepted" BY DEF Dispatchable
<1>2. /\ m \notin ItemsOf(inbox)
      /\ \A s \in Slots : m \notin LeasedItems(s)
  BY <1>1 DEF HeldAreAccepted
<1>3. inbox \in Seq(Messages) /\ mstate \in [Messages -> MessageStates]
  BY DEF InboxTypeOK
<1>4. lease' = lease
  BY DEF Enqueue, EnqueueRoom, EnqueueDropping, EnqueueRefused
<1>5. \A s \in Slots : LeasedItems(s)' = LeasedItems(s)
  BY <1>4, SameLeases
<1>6. CASE EnqueueRoom(m)
  <2>1. ItemsOf(inbox') = ItemsOf(inbox) \cup {m} /\ Distinct(inbox')
    BY <1>2, <1>3, <1>6, AppendItems DEF EnqueueRoom, NoDuplicate
  <2>2. {n \in Messages : mstate'[n] = "accepted"} =
          {n \in Messages : mstate[n] = "accepted"} \cup {m}
    BY <1>3, <1>6 DEF EnqueueRoom
  <2>3. NoDuplicate' BY <1>2, <1>4, <1>5, <2>1 DEF NoDuplicate
  <2>4. HeldAreAccepted' BY <1>5, <2>1, <2>2 DEF HeldAreAccepted
  <2>5. AcceptedAreHeld => AcceptedAreHeld'
    BY <1>5, <2>1, <2>2 DEF AcceptedAreHeld
  <2> QED BY <2>3, <2>4, <2>5
<1>7. CASE EnqueueDropping(m)
  <2>1. PICK i \in DOMAIN inbox :
          /\ inbox' = Append(Without(inbox, i), m)
          /\ mstate' = [mstate EXCEPT ![m] = "accepted", ![inbox[i]] = "dropped"]
    BY <1>7 DEF EnqueueDropping
  <2>2. i \in 1 .. Len(inbox) /\ Len(inbox) \in Nat BY <1>3, LenProperties
  <2>3. i - 1 \in Nat /\ i \in Nat /\ i - 1 <= i /\ i <= Len(inbox)
        /\ (i - 1) + 1 .. i = {i}
    BY <2>2
  <2>4. /\ Without(inbox, i) = Cut(inbox, i - 1, i)
        /\ Without(inbox, i) \in Seq(Messages)
    BY <1>3, <2>2, <2>3, WithoutIsCut, CutProperties
  <2>5. /\ ItemsOf(Without(inbox, i)) = ItemsOf(inbox) \ {inbox[i]}
        /\ Distinct(Without(inbox, i))
    BY <1>3, <2>3, <2>4, CutItems DEF NoDuplicate
  <2>6. /\ ItemsOf(inbox') = (ItemsOf(inbox) \ {inbox[i]}) \cup {m}
        /\ Distinct(inbox')
    BY <1>2, <2>1, <2>4, <2>5, AppendItems
  <2>7. inbox[i] \in ItemsOf(inbox) /\ inbox[i] \in Messages /\ inbox[i] # m
    BY <1>2, <1>3, Positions DEF ItemsOf
  <2>8. {n \in Messages : mstate'[n] = "accepted"} =
          ({n \in Messages : mstate[n] = "accepted"} \ {inbox[i]}) \cup {m}
    BY <1>3, <2>1, <2>7
  <2>9. NoDuplicate' BY <1>2, <1>4, <1>5, <2>6 DEF NoDuplicate
  <2>10. \A s \in Slots : inbox[i] \notin LeasedItems(s)
    BY <2>7 DEF NoDuplicate
  <2>11. HeldAreAccepted' BY <1>5, <2>6, <2>8, <2>10 DEF HeldAreAccepted
  <2>12. AcceptedAreHeld => AcceptedAreHeld'
    BY <1>5, <2>6, <2>8, <2>10 DEF AcceptedAreHeld
  <2> QED BY <2>9, <2>11, <2>12
<1>8. CASE EnqueueRefused(m)
  <2>1. {n \in Messages : mstate'[n] = "accepted"} =
          {n \in Messages : mstate[n] = "accepted"}
    BY <1>1, <1>3, <1>8 DEF EnqueueRefused
  <2> QED BY <1>4, <1>5, <1>8, <2>1
          DEF EnqueueRefused, NoDuplicate, HeldAreAccepted, AcceptedAreHeld
<1> QED BY <1>6, <1>7, <1>8 DEF Enqueue

LEMMA EnqueueInv ==
  ASSUME InboxInv, NEW m \in Messages, Dispatchable(m), Enqueue(m)
  PROVE  NoDuplicate' /\ EachAcceptedHeld'
BY Halves, HalvesNext, EnqueueOnce

\* A claim moves items from the inbox to a slot.
LEMMA MoveOnce ==
  ASSUME HeldOnce, NEW s \in Slots,
         NEW a \in Nat, NEW b \in Nat, a < b, b <= Len(inbox),
         inbox' = Cut(inbox, a, b),
         lease' = [lease EXCEPT ![s] = [items |-> SubSeq(inbox, a + 1, b),
                                        committed |-> 0, active |-> TRUE]],
         mstate' = mstate
  PROVE  /\ NoDuplicate' /\ HeldAreAccepted'
         /\ AcceptedAreHeld /\ ~lease[s].active => AcceptedAreHeld'
<1> USE DEF HeldOnce
<1> DEFINE part == SubSeq(inbox, a + 1, b)
           moved == {inbox[i] : i \in a + 1 .. b}
           new == [items |-> part, committed |-> 0, active |-> TRUE]
<1>1. inbox \in Seq(Messages) /\ lease \in [Slots -> Leases] /\ Distinct(inbox)
  BY DEF InboxTypeOK, NoDuplicate
<1>2. DOMAIN inbox = 1 .. Len(inbox) /\ Len(inbox) \in Nat BY <1>1, Positions
<1>3. ItemsOf(inbox') = ItemsOf(inbox) \ moved /\ Distinct(inbox')
  <2>1. a <= b OBVIOUS
  <2>2. /\ ItemsOf(Cut(inbox, a, b)) = ItemsOf(inbox) \ moved
        /\ Distinct(Cut(inbox, a, b))
    BY <1>1, <2>1, CutItems
  <2> QED BY <2>2
<1>4. ItemsOf(part) = moved /\ Distinct(part)
  <2>1. a <= b OBVIOUS
  <2>2. /\ ItemsOf(SubSeq(inbox, a + 1, b)) = {inbox[i] : i \in a + 1 .. b}
        /\ Distinct(inbox) => Distinct(SubSeq(inbox, a + 1, b))
    BY <1>1, <2>1, PartItems
  <2> QED BY <1>1, <2>2
<1>5. part \in Seq(Messages) BY <1>1, PartOfSeq
<1>6. moved \subseteq ItemsOf(inbox) BY <1>2 DEF ItemsOf
<1> HIDE DEF part, moved
<1>7. lease'[s] = new /\ \A r \in Slots \ {s} : lease'[r] = lease[r]
  BY <1>1 DEF part
<1>8. Uncommitted(new) = part
  BY <1>5, SubSeqFull DEF Uncommitted
<1>9. LeasedItems(s)' = moved
  BY <1>4, <1>7, <1>8 DEF LeasedItems
<1>10. \A r \in Slots \ {s} : LeasedItems(r)' = LeasedItems(r)
  BY <1>7 DEF LeasedItems
<1>11. \A r \in Slots : LeasedItems(r)' \cap ItemsOf(inbox') = {}
  BY <1>3, <1>9, <1>10 DEF NoDuplicate
<1>12. \A r, q \in Slots : r # q =>
         LeasedItems(r)' \cap LeasedItems(q)' = {}
  BY <1>6, <1>9, <1>10 DEF NoDuplicate
<1>13. \A r \in Slots : lease'[r].active => Distinct(lease'[r].items)
  <2> TAKE r \in Slots
  <2>1. CASE r = s
    <3>1. lease'[r].items = part BY <1>7, <2>1
    <3> QED BY <3>1, <1>4
  <2>2. CASE r # s
    <3>1. lease'[r] = lease[r] BY <1>7, <2>2
    <3> QED BY <3>1 DEF NoDuplicate
  <2> QED BY <2>1, <2>2
<1>14. NoDuplicate' BY <1>3, <1>11, <1>12, <1>13 DEF NoDuplicate
<1>15. HeldAreAccepted'
  <2>1. \A m \in Messages :
          (\E r \in Slots : m \in LeasedItems(r)')
          => m \in moved \/ \E r \in Slots : m \in LeasedItems(r)
    BY <1>9, <1>10
  <2> QED BY <1>3, <1>6, <2>1 DEF HeldAreAccepted
<1>16. ASSUME AcceptedAreHeld, ~lease[s].active PROVE AcceptedAreHeld'
  <2>1. LeasedItems(s) = {} BY <1>16 DEF LeasedItems
  <2>2. \A m \in Messages :
          m \in moved \/ (\E r \in Slots : m \in LeasedItems(r))
          => \E r \in Slots : m \in LeasedItems(r)'
    BY <1>9, <1>10, <2>1
  <2> QED BY <1>3, <1>16, <2>2 DEF AcceptedAreHeld
<1> QED BY <1>14, <1>15, <1>16

LEMMA MoveInv ==
  ASSUME InboxInv, NEW s \in Slots, ~lease[s].active,
         NEW a \in Nat, NEW b \in Nat, a < b, b <= Len(inbox),
         inbox' = Cut(inbox, a, b),
         lease' = [lease EXCEPT ![s] = [items |-> SubSeq(inbox, a + 1, b),
                                        committed |-> 0, active |-> TRUE]],
         mstate' = mstate
  PROVE  NoDuplicate' /\ EachAcceptedHeld'
<1>1. HeldOnce /\ AcceptedAreHeld BY Halves
<1>2. NoDuplicate' /\ HeldAreAccepted' /\ AcceptedAreHeld' BY <1>1, MoveOnce
<1> QED BY <1>2, HalvesNext

LEMMA ClaimOnce ==
  ASSUME HeldOnce, NEW s \in Slots,
         \/ \E t \in Tokens : ClaimNext(s, t)
         \/ \E skip \in {0, 1}, n \in 1 .. Len(inbox) :
              /\ skip + n <= Len(inbox)
              /\ ClaimSteer(s, skip, n, inbox[skip + 1], Messages)
  PROVE  /\ NoDuplicate' /\ HeldAreAccepted' /\ mstate' = mstate
         /\ AcceptedAreHeld /\ ~lease[s].active => AcceptedAreHeld'
<1>0. inbox \in Seq(Messages) /\ Len(inbox) \in Nat
  BY LenProperties DEF HeldOnce, InboxTypeOK
<1>1. CASE \E t \in Tokens : ClaimNext(s, t)
  <2>1. /\ inbox # <<>> /\ inbox' = Tail(inbox) /\ mstate' = mstate
        /\ lease' = [lease EXCEPT ![s] = [items |-> <<Head(inbox)>>,
                                          committed |-> 0, active |-> TRUE]]
    BY <1>1 DEF ClaimNext
  <2>2. 0 < 1 /\ 1 <= Len(inbox) BY <1>0, <2>1, EmptySeq
  <2>3. inbox' = Cut(inbox, 0, 1) BY <1>0, <2>1, TailIsCut
  <2>4. SubSeq(inbox, 1, 1) = <<Head(inbox)>>
    BY <1>0, <2>1, HeadIsPart
  <2>5. 0 + 1 = 1 OBVIOUS
  <2> QED BY <2>1, <2>2, <2>3, <2>4, <2>5, MoveOnce
<1>2. CASE \E skip \in {0, 1}, n \in 1 .. Len(inbox) :
             /\ skip + n <= Len(inbox)
             /\ ClaimSteer(s, skip, n, inbox[skip + 1], Messages)
  <2>1. PICK skip \in {0, 1}, n \in 1 .. Len(inbox) :
             /\ skip + n <= Len(inbox)
             /\ ClaimSteer(s, skip, n, inbox[skip + 1], Messages)
    BY <1>2
  <2>2. skip \in Nat /\ skip + n \in Nat /\ skip < skip + n BY <1>0
  <2>3. inbox' = Cut(inbox, skip, skip + n) BY <2>1 DEF ClaimSteer, Cut
  <2> QED BY <2>1, <2>2, <2>3, MoveOnce DEF ClaimSteer
<1> QED BY <1>1, <1>2

LEMMA ClaimInv ==
  ASSUME InboxInv, NEW s \in Slots, ~lease[s].active,
         \/ \E t \in Tokens : ClaimNext(s, t)
         \/ \E skip \in {0, 1}, n \in 1 .. Len(inbox) :
              /\ skip + n <= Len(inbox)
              /\ ClaimSteer(s, skip, n, inbox[skip + 1], Messages)
  PROVE  NoDuplicate' /\ EachAcceptedHeld'
<1>1. HeldOnce /\ AcceptedAreHeld BY Halves
<1>2. NoDuplicate' /\ HeldAreAccepted' /\ AcceptedAreHeld' BY <1>1, ClaimOnce
<1> QED BY <1>2, HalvesNext

\* The item a lease settles next is leased there and nowhere else.
LEMMA NextItem ==
  ASSUME HeldOnce, NEW s \in Slots, lease[s].active,
         lease[s].committed < Len(lease[s].items)
  PROVE  LET m == lease[s].items[lease[s].committed + 1] IN
         /\ m \in Messages
         /\ m \in LeasedItems(s)
         /\ mstate[m] = "accepted"
<1> DEFINE l == lease[s]
           m == l.items[l.committed + 1]
<1>1. l \in Leases BY DEF HeldOnce, InboxTypeOK
<1>2. l.items \in Seq(Messages) /\ l.committed \in Nat BY <1>1 DEF Leases
<1>3. Len(l.items) \in Nat BY <1>2, LenProperties
<1>4. l.committed + 1 \in l.committed + 1 .. Len(l.items) BY <1>2, <1>3
<1>5. m \in Messages
  <2>1. l.committed + 1 \in 1 .. Len(l.items) BY <1>2, <1>3
  <2> HIDE DEF l
  <2> QED BY <1>2, <2>1, ElementOfSeq
<1>6. LeasedItems(s) = {l.items[i] : i \in l.committed + 1 .. Len(l.items)}
  BY <1>1, UncommittedItems DEF LeasedItems
<1> HIDE DEF l
<1>7. m \in LeasedItems(s) BY <1>4, <1>6
<1>8. mstate[m] = "accepted" BY <1>5, <1>7 DEF HeldOnce, HeldAreAccepted
<1> QED BY <1>5, <1>7, <1>8 DEF l

\* Settling takes the next item, and no other, out of the leases.
LEMMA SettleTakesNext ==
  ASSUME HeldOnce, NEW s \in Slots, NEW how, Settle(s, how)
  PROVE  /\ LeasedItems(s)' =
              LeasedItems(s) \ {lease[s].items[lease[s].committed + 1]}
         /\ \A r \in Slots \ {s} : LeasedItems(r)' = LeasedItems(r)
<1> DEFINE l == lease[s]
           m == l.items[l.committed + 1]
           n == [items |-> l.items, committed |-> l.committed + 1,
                 active |-> l.committed + 1 < Len(l.items)]
<1>1. l \in Leases /\ lease \in [Slots -> Leases]
  BY DEF HeldOnce, InboxTypeOK
<1>2. /\ l.active /\ l.committed < Len(l.items)
      /\ lease' = [lease EXCEPT ![s] = n]
  BY DEF Settle
<1>4. /\ l.items \in Seq(Messages) /\ l.committed \in Nat
      /\ Len(l.items) \in Nat /\ DOMAIN l.items = 1 .. Len(l.items)
  BY <1>1, LenProperties DEF Leases
<1>5. n \in Leases BY <1>4 DEF Leases
<1>6. Distinct(l.items) BY <1>2 DEF HeldOnce, NoDuplicate
<1>7. lease'[s] = n /\ \A r \in Slots \ {s} : lease'[r] = lease[r]
  BY <1>1, <1>2
<1>8. LeasedItems(s) = {l.items[i] : i \in l.committed + 1 .. Len(l.items)}
  BY <1>1, <1>2, UncommittedItems DEF LeasedItems
<1>9. LeasedItems(s)' =
        IF n.active THEN {l.items[i] : i \in l.committed + 2 .. Len(l.items)}
        ELSE {}
  <2>1. ItemsOf(Uncommitted(n)) =
          {n.items[i] : i \in n.committed + 1 .. Len(n.items)}
    BY <1>5, UncommittedItems
  <2>2. n.items = l.items /\ n.committed + 1 = l.committed + 2 BY <1>4
  <2> HIDE DEF n, l
  <2>3. ItemsOf(Uncommitted(n)) =
          {l.items[i] : i \in l.committed + 2 .. Len(l.items)}
    BY <2>1, <2>2
  <2> QED BY <1>7, <2>3 DEF LeasedItems
<1>10. LeasedItems(s)' = LeasedItems(s) \ {m}
  <2>1. \A i \in l.committed + 2 .. Len(l.items) : l.items[i] # m
    <3> HIDE DEF l, n
    <3> TAKE i \in l.committed + 2 .. Len(l.items)
    <3>1. /\ i \in 1 .. Len(l.items) /\ l.committed + 1 \in 1 .. Len(l.items)
          /\ i # l.committed + 1
      BY <1>2, <1>4
    <3> QED BY <3>1, <1>4, <1>6 DEF Distinct
  <2>2. l.committed + 1 .. Len(l.items) =
          {l.committed + 1} \cup (l.committed + 2 .. Len(l.items))
    BY <1>2, <1>4
  <2>3. CASE n.active
    BY <1>8, <1>9, <2>1, <2>2, <2>3
  <2>4. CASE ~n.active
    <3>1. l.committed + 2 .. Len(l.items) = {}
      <4>1. ~(l.committed + 1 < Len(l.items)) BY <2>4
      <4> HIDE DEF l, n
      <4> QED BY <1>4, <4>1
    <3> QED BY <1>8, <1>9, <2>2, <2>4, <3>1
  <2> QED BY <2>3, <2>4
<1>11. \A r \in Slots \ {s} : LeasedItems(r)' = LeasedItems(r)
  BY <1>7 DEF LeasedItems
<1> QED BY <1>10, <1>11

LEMMA SettleOnce ==
  ASSUME HeldOnce, NEW s \in Slots, NEW how \in MessageStates \ {"accepted"},
         Settle(s, how)
  PROVE  /\ NoDuplicate' /\ HeldAreAccepted'
         /\ AcceptedAreHeld => AcceptedAreHeld'
<1> DEFINE l == lease[s]
           m == l.items[l.committed + 1]
           n == [items |-> l.items, committed |-> l.committed + 1,
                 active |-> l.committed + 1 < Len(l.items)]
<1>1. /\ l \in Leases /\ lease \in [Slots -> Leases]
      /\ mstate \in [Messages -> MessageStates]
  BY DEF HeldOnce, InboxTypeOK
<1>2. /\ l.active /\ l.committed < Len(l.items)
      /\ lease' = [lease EXCEPT ![s] = n]
      /\ mstate' = [mstate EXCEPT ![m] = how]
      /\ inbox' = inbox
  BY DEF Settle
<1>3. m \in Messages /\ m \in LeasedItems(s) BY <1>2, NextItem
<1>4. /\ l.items \in Seq(Messages) /\ l.committed \in Nat
      /\ Len(l.items) \in Nat /\ DOMAIN l.items = 1 .. Len(l.items)
  BY <1>1, LenProperties DEF Leases
<1>6. Distinct(l.items) BY <1>2 DEF HeldOnce, NoDuplicate
<1>7. lease'[s] = n /\ \A r \in Slots \ {s} : lease'[r] = lease[r]
  BY <1>1, <1>2
<1>10. /\ LeasedItems(s)' = LeasedItems(s) \ {m}
       /\ \A r \in Slots \ {s} : LeasedItems(r)' = LeasedItems(r)
  BY SettleTakesNext
<1> HIDE DEF l, m
<1>12. NoDuplicate'
  <2>1. Distinct(inbox') BY <1>2 DEF HeldOnce, NoDuplicate
  <2>2. \A r \in Slots : LeasedItems(r)' \cap ItemsOf(inbox') = {}
    BY <1>2, <1>10 DEF HeldOnce, NoDuplicate
  <2>3. \A r, q \in Slots : r # q =>
          LeasedItems(r)' \cap LeasedItems(q)' = {}
    BY <1>10 DEF HeldOnce, NoDuplicate
  <2>4. \A r \in Slots : lease'[r].active => Distinct(lease'[r].items)
    <3> TAKE r \in Slots
    <3>1. CASE r = s
      <4>1. lease'[r].items = l.items BY <1>7, <3>1
      <4> QED BY <4>1, <1>6
    <3>2. CASE r # s
      <4>1. lease'[r] = lease[r] BY <1>7, <3>2
      <4> QED BY <4>1 DEF HeldOnce, NoDuplicate
    <3> QED BY <3>1, <3>2
  <2> QED BY <2>1, <2>2, <2>3, <2>4 DEF NoDuplicate
<1>13. HeldAreAccepted' /\ (AcceptedAreHeld => AcceptedAreHeld')
  <2>1. /\ m \notin ItemsOf(inbox)
        /\ \A r \in Slots \ {s} : m \notin LeasedItems(r)
    BY <1>3 DEF HeldOnce, NoDuplicate
  <2>2. \A x \in Messages : mstate'[x] = "accepted"
                              <=> x # m /\ mstate[x] = "accepted"
    BY <1>1, <1>2, <1>3
  <2>3. \A x \in Messages :
          (\E r \in Slots : x \in LeasedItems(r)')
          <=> x # m /\ \E r \in Slots : x \in LeasedItems(r)
    BY <1>10, <2>1
  <2>4. HeldAreAccepted'
    BY <1>2, <2>1, <2>2, <2>3 DEF HeldOnce, HeldAreAccepted
  <2>5. AcceptedAreHeld => AcceptedAreHeld'
    BY <1>2, <2>1, <2>2, <2>3 DEF AcceptedAreHeld
  <2> QED BY <2>4, <2>5
<1> QED BY <1>12, <1>13

LEMMA SettleInv ==
  ASSUME InboxInv, NEW s \in Slots, NEW how \in MessageStates \ {"accepted"},
         Settle(s, how)
  PROVE  NoDuplicate' /\ EachAcceptedHeld'
BY Halves, HalvesNext, SettleOnce

LEMMA RequeueOnce ==
  ASSUME HeldOnce, NEW s \in Slots, RequeueFront(s)
  PROVE  /\ NoDuplicate' /\ HeldAreAccepted' /\ mstate' = mstate
         /\ AcceptedAreHeld => AcceptedAreHeld'
<1> DEFINE rest == Uncommitted(lease[s])
<1>1. /\ lease \in [Slots -> Leases] /\ lease[s] \in Leases
      /\ inbox \in Seq(Messages)
  BY DEF HeldOnce, InboxTypeOK
<1>2. /\ lease[s].active
      /\ inbox' = rest \o inbox
      /\ lease' = [lease EXCEPT ![s] = Closed(lease[s])]
      /\ mstate' = mstate
  BY DEF RequeueFront
<1>3. rest \in Seq(Messages) BY <1>1, UncommittedType
<1>4. LeasedItems(s) = ItemsOf(rest) BY <1>2 DEF LeasedItems
<1>5. Distinct(rest)
  BY <1>1, <1>2, UncommittedItems DEF HeldOnce, NoDuplicate
<1> HIDE DEF rest
<1>6. ItemsOf(rest) \cap ItemsOf(inbox) = {} /\ Distinct(inbox)
  BY <1>4 DEF HeldOnce, NoDuplicate
<1>7. ItemsOf(inbox') = ItemsOf(rest) \cup ItemsOf(inbox) /\ Distinct(inbox')
  BY <1>1, <1>2, <1>3, <1>5, <1>6, ConcatItems
<1>8. ~lease'[s].active /\ \A r \in Slots \ {s} : lease'[r] = lease[r]
  BY <1>1, <1>2 DEF Closed
<1>9. LeasedItems(s)' = {} /\ \A r \in Slots \ {s} : LeasedItems(r)' = LeasedItems(r)
  BY <1>8 DEF LeasedItems
<1>10. NoDuplicate'
  <2>1. \A r \in Slots : LeasedItems(r)' \cap ItemsOf(inbox') = {}
    BY <1>4, <1>7, <1>9 DEF HeldOnce, NoDuplicate
  <2>2. \A r, q \in Slots : r # q =>
          LeasedItems(r)' \cap LeasedItems(q)' = {}
    BY <1>9 DEF HeldOnce, NoDuplicate
  <2>3. \A r \in Slots : lease'[r].active => Distinct(lease'[r].items)
    BY <1>8 DEF HeldOnce, NoDuplicate
  <2> QED BY <1>7, <2>1, <2>2, <2>3 DEF NoDuplicate
<1>11. HeldAreAccepted' /\ (AcceptedAreHeld => AcceptedAreHeld')
  <2>1. \A x \in Messages :
          x \in ItemsOf(rest) \/ (\E r \in Slots : x \in LeasedItems(r)')
          <=> \E r \in Slots : x \in LeasedItems(r)
    BY <1>4, <1>9
  <2>2. HeldAreAccepted' BY <1>2, <1>7, <2>1 DEF HeldOnce, HeldAreAccepted
  <2>3. AcceptedAreHeld => AcceptedAreHeld'
    BY <1>2, <1>7, <2>1 DEF AcceptedAreHeld
  <2> QED BY <2>2, <2>3
<1> QED BY <1>2, <1>10, <1>11

LEMMA RequeueInv ==
  ASSUME InboxInv, NEW s \in Slots, RequeueFront(s)
  PROVE  NoDuplicate' /\ EachAcceptedHeld'
BY Halves, HalvesNext, RequeueOnce

\* A claimant that forgets leases, and what leaves the queue with them.
LEMMA ForgetOnce ==
  ASSUME HeldOnce, mstate' = mstate,
         Distinct(inbox'), ItemsOf(inbox') \subseteq ItemsOf(inbox),
         \A s \in Slots : lease'[s] = lease[s] \/ ~lease'[s].active
  PROVE  NoDuplicate' /\ HeldAreAccepted'
<1>1. \A s \in Slots : LeasedItems(s)' \subseteq LeasedItems(s)
  BY DEF LeasedItems
<1>2. \A s \in Slots : lease'[s].active => lease'[s] = lease[s]
  OBVIOUS
<1>3. NoDuplicate'
  <2>1. \A s \in Slots : LeasedItems(s)' \cap ItemsOf(inbox') = {}
    BY <1>1 DEF HeldOnce, NoDuplicate
  <2>2. \A s, r \in Slots : s # r => LeasedItems(s)' \cap LeasedItems(r)' = {}
    BY <1>1 DEF HeldOnce, NoDuplicate
  <2>3. \A s \in Slots : lease'[s].active => Distinct(lease'[s].items)
    BY <1>2 DEF HeldOnce, NoDuplicate
  <2> QED BY <2>1, <2>2, <2>3 DEF NoDuplicate
<1>4. HeldAreAccepted' BY <1>1 DEF HeldOnce, HeldAreAccepted
<1> QED BY <1>3, <1>4

LEMMA InboxInvInit ==
  ASSUME InboxInit
  PROVE  InboxInv
<1>1. InboxTypeOK BY InboxInitType
<1>2. \A s \in Slots : lease[s] = NoLease /\ ~lease[s].active
  BY DEF InboxInit, NoLease
<1>3. \A s \in Slots : LeasedItems(s) = {} BY <1>2 DEF LeasedItems
<1>4. ItemsOf(inbox) = {} /\ Distinct(inbox)
  BY DEF InboxInit, ItemsOf, Distinct
<1>5. NoDuplicate BY <1>2, <1>3, <1>4 DEF NoDuplicate
<1>6. EachAcceptedHeld BY <1>3, <1>4 DEF EachAcceptedHeld, InboxInit
<1> QED BY <1>1, <1>5, <1>6 DEF InboxInv

LEMMA InboxInvNext ==
  ASSUME InboxInv, [InboxNext]_inboxVars
  PROVE  InboxInv'
<1>0. InboxTypeOK' BY InboxNextType DEF InboxInv
<1> SUFFICES NoDuplicate' /\ EachAcceptedHeld' BY <1>0 DEF InboxInv
<1>1. CASE \E m \in Messages : Dispatchable(m) /\ Enqueue(m)
  BY <1>1, EnqueueInv
<1>2. CASE \E s \in Slots, t \in Tokens : ~lease[s].active /\ ClaimNext(s, t)
  BY <1>2, ClaimInv
<1>3. CASE \E s \in Slots, skip \in {0, 1}, n \in 1 .. Len(inbox) :
             /\ ~lease[s].active
             /\ skip + n <= Len(inbox)
             /\ ClaimSteer(s, skip, n, inbox[skip + 1], Messages)
  BY <1>3, ClaimInv
<1>4. CASE \E s \in Slots : Commit(s) \/ Fail(s)
  BY <1>4, SettleInv DEF Commit, Fail, MessageStates
<1>5. CASE \E s \in Slots : RequeueFront(s) BY <1>5, RequeueInv
<1>6. CASE UNCHANGED <<inbox, lease, mstate>>
  <2>1. \A s \in Slots : LeasedItems(s)' = LeasedItems(s)
    BY <1>6, SameLeases
  <2> QED BY <1>6, <2>1 DEF InboxInv, NoDuplicate, EachAcceptedHeld
<1>7. CASE \/ \E t \in Tokens : Handoff(t) \/ ReleaseIfIdle(t)
           \/ ClaimExisting
           \/ CleanupAll
  BY <1>6, <1>7 DEF Handoff, ReleaseIfIdle, ClaimExisting, CleanupAll
<1> QED BY <1>1, <1>2, <1>3, <1>4, <1>5, <1>6, <1>7 DEF InboxNext

THEOREM InboxInvariant == InboxSpec => []InboxInv
<1> QED BY InboxInvInit, InboxInvNext, PTL DEF InboxSpec

\* No order of enqueues, claims, steering claims, requeues and drops ever
\* leaves one message in two places, so none is answered twice.
THEOREM Unduplicated == InboxSpec => []NoDuplicate
<1>1. InboxInv => NoDuplicate BY DEF InboxInv
<1> QED BY <1>1, InboxInvariant, PTL

\* The accepted messages are exactly the ones queued or leased: none is lost
\* and no settled one comes back, whatever a claimant does with its leases.
THEOREM AcceptedHeld == InboxSpec => []AcceptedIsHeld
<1>1. ASSUME InboxInv PROVE AcceptedIsHeld
  <2>1. ItemsOf(inbox) \subseteq Messages
    BY <1>1, Positions DEF InboxInv, InboxTypeOK
  <2>2. \A s \in Slots : LeasedItems(s) \subseteq Messages
    <3> TAKE s \in Slots
    <3>1. Uncommitted(lease[s]) \in Seq(Messages)
      BY <1>1, UncommittedType DEF InboxInv, InboxTypeOK
    <3> QED BY <3>1, Positions DEF LeasedItems
  <2>3. \A m : m \in ItemsOf(inbox) \cup UNION {LeasedItems(s) : s \in Slots}
               <=> \/ m \in ItemsOf(inbox)
                   \/ \E s \in Slots : m \in LeasedItems(s)
    OBVIOUS
  <2> QED BY <1>1, <2>1, <2>2, <2>3
          DEF InboxInv, EachAcceptedHeld, AcceptedIsHeld
<1> QED BY <1>1, InboxInvariant, PTL

(***************************************************************************)
(* The reservation.                                                        *)
(***************************************************************************)
\* Every item that some lease still owes a settlement.
Held == UNION {LeasedItems(s) : s \in Slots}

\* CapacityHolds, with what Cardinality needs.  It is inductive next to
\* InboxInv: only because no item is leased twice do a claim of n items and
\* the release of n items change the number of leased items by n.
CapacityInv ==
  /\ IsFiniteSet(Held)
  /\ leasedCount = Cardinality(Held)
  /\ Len(inbox) + leasedCount <= MaxInbox

\* A sequence without repetitions has as many items as places.
LEMMA DistinctLength ==
  ASSUME NEW S, NEW q \in Seq(S), Distinct(q)
  PROVE  IsFiniteSet(ItemsOf(q)) /\ Cardinality(ItemsOf(q)) = Len(q)
<1> DEFINE f == [i \in 1 .. Len(q) |-> q[i]]
<1>1. DOMAIN q = 1 .. Len(q) /\ Len(q) \in Nat BY Positions
<1>2. IsFiniteSet(1 .. Len(q)) /\ Cardinality(1 .. Len(q)) = Len(q)
  <2>1. 1 \in Int /\ Len(q) \in Int BY <1>1
  <2>2. /\ IsFiniteSet(1 .. Len(q))
        /\ Cardinality(1 .. Len(q)) =
             IF 1 > Len(q) THEN 0 ELSE Len(q) - 1 + 1
    BY <2>1, FS_Interval
  <2> QED BY <1>1, <2>2
<1>3. f \in Bijection(1 .. Len(q), ItemsOf(q))
  BY <1>1 DEF ItemsOf, Distinct, Bijection, Injection, Surjection, IsInjective
<1>4. ExistsBijection(1 .. Len(q), ItemsOf(q)) BY <1>3 DEF ExistsBijection
<1> QED BY <1>2, <1>4, FS_Bijection

\* The set counts as its parts do.
LEMMA HeldGrows ==
  ASSUME IsFiniteSet(Held), NEW P, IsFiniteSet(P), P \cap Held = {}
  PROVE  /\ IsFiniteSet(Held \cup P)
         /\ Cardinality(Held \cup P) = Cardinality(Held) + Cardinality(P)
<1>1. Held \cap P = {} OBVIOUS
<1>2. Cardinality(Held) \in Nat /\ Cardinality(P) \in Nat
  BY FS_CardinalityType
<1>3. Cardinality(Held \cap P) = 0 BY <1>1, FS_EmptySet
<1>4. /\ IsFiniteSet(Held \cup P)
      /\ Cardinality(Held \cup P) =
           Cardinality(Held) + Cardinality(P) - Cardinality(Held \cap P)
  BY FS_Union
<1> QED BY <1>2, <1>3, <1>4

LEMMA HeldShrinks ==
  ASSUME IsFiniteSet(Held), NEW P, P \subseteq Held
  PROVE  /\ IsFiniteSet(Held \ P) /\ IsFiniteSet(P)
         /\ Cardinality(Held) \in Nat /\ Cardinality(P) \in Nat
         /\ Cardinality(P) <= Cardinality(Held)
         /\ Cardinality(Held \ P) = Cardinality(Held) - Cardinality(P)
<1>1. Held \cap P = P OBVIOUS
<1>2. /\ IsFiniteSet(Held \ P)
      /\ Cardinality(Held \ P) = Cardinality(Held) - Cardinality(Held \cap P)
  BY FS_Difference
<1>3. IsFiniteSet(P) /\ Cardinality(P) <= Cardinality(Held)
  BY FS_Subset
<1>4. Cardinality(Held) \in Nat /\ Cardinality(P) \in Nat
  BY <1>3, FS_CardinalityType
<1> QED BY <1>1, <1>2, <1>3, <1>4

LEMMA SameHeld ==
  ASSUME lease' = lease
  PROVE  Held' = Held
BY SameLeases DEF Held

LEMMA CapacityEnqueue ==
  ASSUME InboxInv, CapacityInv, NEW m \in Messages, Enqueue(m)
  PROVE  CapacityInv'
<1>1. /\ inbox \in Seq(Messages) /\ Len(inbox) \in Nat /\ leasedCount \in Nat
      /\ MaxInbox \in Nat
  BY InboxAssumption, LenProperties DEF InboxInv, InboxTypeOK
<1>2. lease' = lease /\ leasedCount' = leasedCount
  BY DEF Enqueue, EnqueueRoom, EnqueueDropping, EnqueueRefused
<1>3. Held' = Held BY <1>2, SameHeld
<1>4. Len(inbox') + leasedCount <= MaxInbox
  <2>1. CASE EnqueueRoom(m)
    <3>1. Len(inbox') = Len(inbox) + 1
      BY <1>1, <2>1, AppendProperties DEF EnqueueRoom
    <3> QED BY <1>1, <2>1, <3>1 DEF EnqueueRoom, Full
  <2>2. CASE EnqueueDropping(m)
    <3>1. PICK i \in DOMAIN inbox : inbox' = Append(Without(inbox, i), m)
      BY <2>2 DEF EnqueueDropping
    <3>2. i \in 1 .. Len(inbox) BY <1>1, LenProperties
    <3>3. i - 1 \in Nat /\ i \in Nat /\ i - 1 <= i /\ i <= Len(inbox)
      BY <1>1, <3>2
    <3>4. /\ Cut(inbox, i - 1, i) \in Seq(Messages)
          /\ Len(Cut(inbox, i - 1, i)) = Len(inbox) - (i - (i - 1))
      <4> DEFINE a == i - 1
      <4> HIDE DEF a
      <4>1. a \in Nat /\ i \in Nat /\ a <= i /\ i <= Len(inbox) BY <3>3 DEF a
      <4>2. Cut(inbox, a, i) \in Seq(Messages) /\ Len(Cut(inbox, a, i)) = Len(inbox) - (i - a)
        BY <1>1, <4>1, QueueCut, Zenon
      <4> QED BY <4>2 DEF a
    <3>5. Without(inbox, i) = Cut(inbox, i - 1, i)
      BY <1>1, <3>2, WithoutIsCut
    <3>6. Len(inbox') = Len(Without(inbox, i)) + 1
      BY <3>1, <3>4, <3>5, AppendProperties
    <3> QED BY <1>1, <3>3, <3>4, <3>5, <3>6 DEF CapacityInv
  <2>3. CASE EnqueueRefused(m)
    BY <1>1, <2>3 DEF EnqueueRefused, CapacityInv
  <2> QED BY <2>1, <2>2, <2>3 DEF Enqueue
<1> QED BY <1>2, <1>3, <1>4 DEF CapacityInv

\* A claim moves the number of items it takes from the inbox to the count.
LEMMA CapacityMove ==
  ASSUME InboxInv, CapacityInv, NEW s \in Slots, ~lease[s].active,
         NEW a \in Nat, NEW b \in Nat, a < b, b <= Len(inbox),
         inbox' = Cut(inbox, a, b),
         lease' = [lease EXCEPT ![s] = [items |-> SubSeq(inbox, a + 1, b),
                                        committed |-> 0, active |-> TRUE]],
         leasedCount' = leasedCount + (b - a)
  PROVE  CapacityInv'
<1> DEFINE part == SubSeq(inbox, a + 1, b)
           new == [items |-> part, committed |-> 0, active |-> TRUE]
<1>1. /\ inbox \in Seq(Messages) /\ Len(inbox) \in Nat /\ leasedCount \in Nat
      /\ lease \in [Slots -> Leases] /\ MaxInbox \in Nat /\ Distinct(inbox)
  BY InboxAssumption, LenProperties DEF InboxInv, InboxTypeOK, NoDuplicate
<1>2. part \in Seq(Messages) /\ Len(part) = b - a
  <2>1. 1 <= a + 1 /\ a + 1 <= b + 1 /\ a + 1 \in Nat OBVIOUS
  <2>2. part \in Seq(Messages) /\ Len(part) = b - (a + 1) + 1
    BY <1>1, <2>1, PartOfSeq
  <2> QED BY <2>2
<1>3. ItemsOf(part) = {inbox[i] : i \in a + 1 .. b} /\ Distinct(part)
  <2>1. a <= b OBVIOUS
  <2>2. /\ ItemsOf(SubSeq(inbox, a + 1, b)) = {inbox[i] : i \in a + 1 .. b}
        /\ Distinct(inbox) => Distinct(SubSeq(inbox, a + 1, b))
    BY <1>1, <2>1, PartItems
  <2> QED BY <1>1, <2>2
<1>4. ItemsOf(part) \subseteq ItemsOf(inbox)
  BY <1>1, <1>3, Positions DEF ItemsOf
<1>5. Len(inbox') = Len(inbox) - (b - a)
  <2>1. a <= b OBVIOUS
  <2>2. Len(Cut(inbox, a, b)) = Len(inbox) - (b - a)
    BY <1>1, <2>1, QueueCut, ZenonT(60)
  <2> QED BY <2>2
<1> HIDE DEF part
<1>6. IsFiniteSet(ItemsOf(part)) /\ Cardinality(ItemsOf(part)) = b - a
  BY <1>2, <1>3, DistinctLength
<1>7. ItemsOf(part) \cap Held = {}
  BY <1>4 DEF Held, InboxInv, NoDuplicate
<1>8. lease'[s] = new /\ \A r \in Slots \ {s} : lease'[r] = lease[r]
  BY <1>1 DEF part
<1>9. Uncommitted(new) = part BY <1>2, SubSeqFull DEF Uncommitted
<1>10. LeasedItems(s)' = ItemsOf(part) /\ LeasedItems(s) = {}
  BY <1>8, <1>9 DEF LeasedItems
<1>11. \A r \in Slots \ {s} : LeasedItems(r)' = LeasedItems(r)
  BY <1>8 DEF LeasedItems
<1>12. Held' = Held \cup ItemsOf(part) BY <1>10, <1>11 DEF Held
<1>13. /\ IsFiniteSet(Held \cup ItemsOf(part))
       /\ Cardinality(Held \cup ItemsOf(part)) = Cardinality(Held) + (b - a)
  BY <1>6, <1>7, HeldGrows DEF CapacityInv
<1>14. Len(inbox') + leasedCount' = Len(inbox) + leasedCount
  BY <1>1, <1>5
<1> QED BY <1>12, <1>13, <1>14 DEF CapacityInv

LEMMA CapacityClaim ==
  ASSUME InboxInv, CapacityInv, NEW s \in Slots, ~lease[s].active,
         \/ \E t \in Tokens : ClaimNext(s, t)
         \/ \E skip \in {0, 1}, n \in 1 .. Len(inbox) :
              /\ skip + n <= Len(inbox)
              /\ ClaimSteer(s, skip, n, inbox[skip + 1], Messages)
  PROVE  CapacityInv'
<1>0. inbox \in Seq(Messages) /\ Len(inbox) \in Nat
  BY LenProperties DEF InboxInv, InboxTypeOK
<1>1. CASE \E t \in Tokens : ClaimNext(s, t)
  <2>1. /\ inbox # <<>> /\ inbox' = Tail(inbox)
        /\ leasedCount' = leasedCount + (1 - 0)
        /\ lease' = [lease EXCEPT ![s] = [items |-> <<Head(inbox)>>,
                                          committed |-> 0, active |-> TRUE]]
    BY <1>1 DEF ClaimNext
  <2>2. 0 < 1 /\ 1 <= Len(inbox) BY <1>0, <2>1, EmptySeq
  <2>3. inbox' = Cut(inbox, 0, 1) BY <1>0, <2>1, TailIsCut
  <2>4. SubSeq(inbox, 1, 1) = <<Head(inbox)>>
    BY <1>0, <2>1, HeadIsPart
  <2>5. 0 + 1 = 1 OBVIOUS
  <2> QED BY <2>1, <2>2, <2>3, <2>4, <2>5, CapacityMove
<1>2. CASE \E skip \in {0, 1}, n \in 1 .. Len(inbox) :
             /\ skip + n <= Len(inbox)
             /\ ClaimSteer(s, skip, n, inbox[skip + 1], Messages)
  <2>1. PICK skip \in {0, 1}, n \in 1 .. Len(inbox) :
             /\ skip + n <= Len(inbox)
             /\ ClaimSteer(s, skip, n, inbox[skip + 1], Messages)
    BY <1>2
  <2>2. /\ skip \in Nat /\ skip + n \in Nat /\ skip < skip + n
        /\ (skip + n) - skip = n
    BY <1>0
  <2>3. inbox' = Cut(inbox, skip, skip + n) BY <2>1 DEF ClaimSteer, Cut
  <2> QED BY <2>1, <2>2, <2>3, CapacityMove DEF ClaimSteer
<1> QED BY <1>1, <1>2

\* Settling takes the item it settles, and no other, out of Held.
LEMMA CapacitySettle ==
  ASSUME InboxInv, CapacityInv, NEW s \in Slots,
         NEW how \in MessageStates \ {"accepted"}, Settle(s, how)
  PROVE  CapacityInv'
<1> DEFINE m == lease[s].items[lease[s].committed + 1]
<1>1. /\ lease[s].active /\ lease[s].committed < Len(lease[s].items)
      /\ leasedCount' = Release(1) /\ inbox' = inbox
  BY DEF Settle
<1>2. m \in LeasedItems(s) BY <1>1, Halves, NextItem
<1>3. /\ LeasedItems(s)' = LeasedItems(s) \ {m}
      /\ \A r \in Slots \ {s} : LeasedItems(r)' = LeasedItems(r)
  BY Halves, SettleTakesNext
<1> HIDE DEF m
<1>4. m \in Held BY <1>2 DEF Held
<1>5. \A r \in Slots \ {s} : m \notin LeasedItems(r)
  BY <1>2 DEF InboxInv, NoDuplicate
<1>6. Held' = Held \ {m} BY <1>3, <1>5 DEF Held
<1>7. Cardinality({m}) = 1 BY FS_Singleton
<1>8. /\ IsFiniteSet(Held \ {m}) /\ leasedCount \in Nat /\ 1 <= leasedCount
      /\ Cardinality(Held \ {m}) = leasedCount - 1
  BY <1>4, <1>7, HeldShrinks DEF CapacityInv
<1>9. Release(1) = leasedCount - 1 BY <1>8 DEF Release
<1>10. Len(inbox) \in Nat /\ MaxInbox \in Nat
  BY InboxAssumption, LenProperties DEF InboxInv, InboxTypeOK
<1>11. Len(inbox') + leasedCount' <= MaxInbox
  BY <1>1, <1>8, <1>9, <1>10 DEF CapacityInv
<1> QED BY <1>1, <1>6, <1>8, <1>9, <1>11 DEF CapacityInv

\* Requeueing gives back as much room as it takes.
LEMMA CapacityRequeue ==
  ASSUME InboxInv, CapacityInv, NEW s \in Slots, RequeueFront(s)
  PROVE  CapacityInv'
<1> DEFINE rest == Uncommitted(lease[s])
<1>1. /\ lease \in [Slots -> Leases] /\ lease[s] \in Leases
      /\ inbox \in Seq(Messages) /\ Len(inbox) \in Nat /\ MaxInbox \in Nat
  BY InboxAssumption, LenProperties DEF InboxInv, InboxTypeOK
<1>2. /\ lease[s].active
      /\ inbox' = rest \o inbox
      /\ lease' = [lease EXCEPT ![s] = Closed(lease[s])]
      /\ leasedCount' = Release(Len(rest))
  BY DEF RequeueFront
<1>3. rest \in Seq(Messages) /\ Len(rest) \in Nat
  BY <1>1, UncommittedType, LenProperties
<1>4. LeasedItems(s) = ItemsOf(rest) BY <1>2 DEF LeasedItems
<1>5. Distinct(rest)
  BY <1>1, <1>2, UncommittedItems DEF InboxInv, NoDuplicate
<1> HIDE DEF rest
<1>6. Cardinality(ItemsOf(rest)) = Len(rest) BY <1>3, <1>5, DistinctLength
<1>7. ~lease'[s].active /\ \A r \in Slots \ {s} : lease'[r] = lease[r]
  BY <1>1, <1>2 DEF Closed
<1>8. LeasedItems(s)' = {} /\ \A r \in Slots \ {s} : LeasedItems(r)' = LeasedItems(r)
  BY <1>7 DEF LeasedItems
<1>9. \A r \in Slots \ {s} : LeasedItems(r) \cap ItemsOf(rest) = {}
  BY <1>4 DEF InboxInv, NoDuplicate
<1>10. ItemsOf(rest) \subseteq Held BY <1>4 DEF Held
<1>11. Held' = Held \ ItemsOf(rest) BY <1>4, <1>8, <1>9 DEF Held
<1>12. /\ IsFiniteSet(Held \ ItemsOf(rest)) /\ leasedCount \in Nat
       /\ Len(rest) <= leasedCount
       /\ Cardinality(Held \ ItemsOf(rest)) = leasedCount - Len(rest)
  BY <1>6, <1>10, HeldShrinks DEF CapacityInv
<1>13. Release(Len(rest)) = leasedCount - Len(rest)
  BY <1>3, <1>12 DEF Release
<1>14. Len(inbox') = Len(rest) + Len(inbox)
  BY <1>1, <1>2, <1>3, ConcatProperties
<1>15. Len(inbox') + leasedCount' <= MaxInbox
  BY <1>1, <1>2, <1>3, <1>12, <1>13, <1>14 DEF CapacityInv
<1> QED BY <1>2, <1>11, <1>12, <1>13, <1>15 DEF CapacityInv

LEMMA CapacityStep ==
  ASSUME OrderlyStop, InboxInv, CapacityInv, [InboxNext]_inboxVars
  PROVE  CapacityInv'
<1>1. CASE \E m \in Messages : Enqueue(m) BY <1>1, CapacityEnqueue
<1>2. CASE \E s \in Slots, t \in Tokens : ~lease[s].active /\ ClaimNext(s, t)
  BY <1>2, CapacityClaim
<1>3. CASE \E s \in Slots, skip \in {0, 1}, n \in 1 .. Len(inbox) :
             /\ ~lease[s].active
             /\ skip + n <= Len(inbox)
             /\ ClaimSteer(s, skip, n, inbox[skip + 1], Messages)
  BY <1>3, CapacityClaim
<1>4. CASE \E s \in Slots : Commit(s) \/ Fail(s)
  BY <1>4, CapacitySettle DEF Commit, Fail, MessageStates
<1>5. CASE \E s \in Slots : RequeueFront(s) BY <1>5, CapacityRequeue
<1>6. CASE UNCHANGED <<inbox, lease, leasedCount>>
  BY <1>6, SameHeld DEF CapacityInv
<1>7. CASE (\E t \in Tokens : Handoff(t) \/ ReleaseIfIdle(t)) \/ ClaimExisting
  BY <1>6, <1>7 DEF Handoff, ReleaseIfIdle, ClaimExisting
<1>8. CASE CleanupAll
  <2>1. /\ \A s \in Slots : ~lease[s].active
        /\ lease' = lease /\ inbox' = inbox /\ leasedCount' = 0
    BY <1>8 DEF CleanupAll
  <2>2. Held = {} BY <2>1 DEF Held, LeasedItems
  <2>3. leasedCount = 0 BY <2>2, FS_EmptySet DEF CapacityInv
  <2> QED BY <2>1, <2>3, SameHeld DEF CapacityInv
<1> QED BY <1>1, <1>2, <1>3, <1>4, <1>5, <1>6, <1>7, <1>8 DEF InboxNext

\* Queue and leases together never exceed the bound of the inbox, and the
\* count is exactly the number of items leased, so a claimant can always put
\* back what it holds; provided cleanup_all runs, as stop() has it, only once
\* every lease is settled.
THEOREM CapacityKept ==
  ASSUME OrderlyStop
  PROVE  InboxSpec => []CapacityHolds
<1>1. InboxInit => CapacityInv
  <2> SUFFICES ASSUME InboxInit PROVE CapacityInv OBVIOUS
  <2>1. \A s \in Slots : LeasedItems(s) = {}
    BY DEF InboxInit, LeasedItems, NoLease
  <2>2. Held = {} BY <2>1 DEF Held
  <2> QED BY <2>2, FS_EmptySet, InboxAssumption DEF InboxInit, CapacityInv
<1>2. InboxInv /\ CapacityInv /\ [InboxNext]_inboxVars => CapacityInv'
  BY CapacityStep
<1>3. CapacityInv => CapacityHolds BY DEF CapacityInv, CapacityHolds, Held
<1> QED BY <1>1, <1>2, <1>3, InboxInvariant, PTL DEF InboxSpec

(***************************************************************************)
(* The inbox implements the fate of messages.                              *)
(***************************************************************************)
LEMMA FateEnqueue ==
  ASSUME HeldOnce, NEW m \in Messages, Dispatchable(m), Enqueue(m)
  PROVE  Fate!FateNext
<1>1. Fate!Unheld(m) BY DEF Dispatchable, Fate!Unheld
<1>2. CASE EnqueueRoom(m)
  BY <1>1, <1>2 DEF EnqueueRoom, Fate!FateNext, Fate!Accept
<1>3. CASE EnqueueDropping(m)
  <2>1. PICK i \in DOMAIN inbox :
          /\ OldestAmbient(i)
          /\ mstate' = [mstate EXCEPT ![m] = "accepted",
                                      ![inbox[i]] = "dropped"]
    BY <1>3 DEF EnqueueDropping
  <2>2. inbox[i] \in Ambient /\ inbox[i] \in ItemsOf(inbox)
    BY <2>1 DEF OldestAmbient, ItemsOf
  <2>3. mstate[inbox[i]] = "accepted"
    BY <2>2, InboxAssumption DEF HeldOnce, HeldAreAccepted
  <2> QED BY <1>1, <2>1, <2>2, <2>3 DEF Fate!FateNext, Fate!Accept
<1>4. CASE EnqueueRefused(m)
  BY <1>1, <1>4 DEF EnqueueRefused, Fate!FateNext, Fate!Refuse
<1> QED BY <1>2, <1>3, <1>4 DEF Enqueue

LEMMA FateSettle ==
  ASSUME HeldOnce, NEW s \in Slots, NEW how \in {"admitted", "failed"},
         Settle(s, how)
  PROVE  Fate!FateNext
<1> DEFINE m == lease[s].items[lease[s].committed + 1]
<1>1. m \in Messages /\ mstate[m] = "accepted" BY NextItem DEF Settle
<1>2. mstate' = [mstate EXCEPT ![m] = how] BY DEF Settle
<1> HIDE DEF m
<1> QED BY <1>1, <1>2 DEF Fate!FateNext, Fate!SettleAs

LEMMA FateStep ==
  ASSUME InboxInv, [InboxNext]_inboxVars
  PROVE  [Fate!FateNext]_mstate
<1>0. HeldOnce BY Halves
<1>1. CASE \E m \in Messages : Dispatchable(m) /\ Enqueue(m)
  BY <1>0, <1>1, FateEnqueue
<1>2. CASE \E s \in Slots : Commit(s) \/ Fail(s)
  BY <1>0, <1>2, FateSettle DEF Commit, Fail
<1>3. CASE UNCHANGED mstate BY <1>3
<1>4. CASE \/ \E s \in Slots, t \in Tokens : ClaimNext(s, t)
           \/ \E s \in Slots, skip \in {0, 1}, n \in 1 .. Len(inbox) :
                ClaimSteer(s, skip, n, inbox[skip + 1], Messages)
           \/ \E s \in Slots : RequeueFront(s)
           \/ \E t \in Tokens : Handoff(t) \/ ReleaseIfIdle(t)
           \/ ClaimExisting
           \/ CleanupAll
  BY <1>3, <1>4 DEF ClaimNext, ClaimSteer, RequeueFront, Handoff,
                    ReleaseIfIdle, ClaimExisting, CleanupAll
<1> QED BY <1>1, <1>2, <1>3, <1>4 DEF InboxNext

\* The session manager implements the abstract fate of messages: a message is
\* admitted at most once and for good, only an accepted one is settled, and
\* only ambient messages are given up after they were accepted.
THEOREM ImplementsFate == InboxSpec => FateOfMessages
<1>1. InboxInit => Fate!FateInit BY DEF InboxInit, Fate!FateInit
<1>2. InboxInv /\ [InboxNext]_inboxVars => [Fate!FateNext]_mstate BY FateStep
<1> QED BY <1>1, <1>2, InboxInvariant, PTL
        DEF InboxSpec, FateOfMessages, Fate!FateSpec
=============================================================================
