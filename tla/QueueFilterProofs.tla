------------------------- MODULE QueueFilterProofs -------------------------
(***************************************************************************)
(* What Rejecting returns, for every sequence.  It is defined by recursion *)
(* on positions, so this is shown by induction: a set of numbers that does *)
(* not hold them all has a least one that is missing.                      *)
(***************************************************************************)
EXTENDS QueueFilter, WellFoundedInduction, SequenceTheorems, TLAPS

\* A set of natural numbers that is not empty has a least one.
LEMMA LeastNumber ==
  ASSUME NEW T \in SUBSET Nat, T # {}
  PROVE  \E n \in T : \A k \in T : n <= k
<1> DEFINE less == {p \in Nat \X Nat : p[1] < p[2]}
<1>1. IsWellFoundedOn(less, Nat)
  BY NatLessThanWellFounded DEF OpToRel
<1>2. PICK n \in T : \A k \in T : ~(<<k, n>> \in less)
  <2> HIDE DEF less
  <2> QED BY <1>1, WFMin
<1>3. ASSUME NEW k \in T PROVE n <= k
  <2>1. ~(<<k, n>> \in {p \in Nat \X Nat : p[1] < p[2]})
    BY <1>2
  <2> QED BY <2>1
<1> QED BY <1>3

\* What holds of 0, and of a number when it holds of the one before, holds up
\* to n.
LEMMA Climbing ==
  ASSUME NEW n \in Nat, NEW G, 0 \in G,
         \A i \in 1 .. n : i - 1 \in G => i \in G
  PROVE  \A i \in 0 .. n : i \in G
<1> DEFINE T == {i \in 0 .. n : i \notin G}
<1>1. SUFFICES ASSUME T # {} PROVE FALSE
  OBVIOUS
<1>2. PICK i \in T : \A j \in T : i <= j
  <2>1. T \in SUBSET Nat OBVIOUS
  <2> HIDE DEF T
  <2> QED BY <1>1, <2>1, LeastNumber
<1>3. i \in 1 .. n /\ i - 1 \in 0 .. n /\ i - 1 \notin T
  BY <1>2
<1> QED BY <1>2, <1>3

\* One stage of the filter from the stage before it.
KeptAt(q, gone, f, i) ==
  IF i = 0 THEN <<>>
  ELSE IF q[i] \in gone THEN f[i - 1] ELSE Append(f[i - 1], q[i])

\* f are the stages of the filter of q up to position n.
Stages(q, gone, n, f) ==
  /\ f = [i \in 0 .. n |-> f[i]]
  /\ \A i \in 0 .. n : f[i] = KeptAt(q, gone, f, i)

\* The recursion has a solution, so that Rejecting returns its last stage.
LEMMA StagesExist ==
  ASSUME NEW q, NEW gone, NEW n \in Nat
  PROVE  \E f : Stages(q, gone, n, f)
<1> DEFINE T == {k \in Nat : ~ \E f : Stages(q, gone, k, f)}
<1>1. SUFFICES ASSUME T # {} PROVE FALSE
  OBVIOUS
<1>2. PICK k \in T : \A j \in T : k <= j
  BY <1>1, LeastNumber
<1>3. CASE k = 0
  <2> DEFINE f == [i \in 0 .. 0 |-> <<>>]
  <2>1. Stages(q, gone, 0, f) BY DEF Stages, KeptAt
  <2> QED BY <2>1, <1>2, <1>3
<1>4. CASE k # 0
  <2>1. k - 1 \in Nat /\ k - 1 \notin T BY <1>2, <1>4
  <2>2. PICK f : Stages(q, gone, k - 1, f) BY <2>1
  <2> DEFINE g == [i \in 0 .. k |-> IF i = k THEN KeptAt(q, gone, f, k) ELSE f[i]]
  <2>3. \A i \in 0 .. k - 1 : g[i] = f[i] BY <2>1
  <2>4. g[k] = KeptAt(q, gone, f, k) BY <2>1
  <2>5. g = [i \in 0 .. k |-> g[i]] OBVIOUS
  <2> HIDE DEF g
  <2>6. ASSUME NEW i \in 0 .. k PROVE g[i] = KeptAt(q, gone, g, i)
    <3>1. i # 0 => i - 1 \in 0 .. k - 1 BY <2>1
    <3>2. KeptAt(q, gone, g, i) = KeptAt(q, gone, f, i) BY <3>1, <2>3 DEF KeptAt
    <3>3. i # k => i \in 0 .. k - 1 BY <2>1
    <3>4. CASE i = k BY <3>4, <3>2, <2>4
    <3>5. CASE i # k BY <3>5, <3>3, <3>2, <2>2, <2>3 DEF Stages
    <3> QED BY <3>4, <3>5
  <2>7. Stages(q, gone, k, g) BY <2>5, <2>6 DEF Stages
  <2> QED BY <2>7, <1>2
<1> QED BY <1>3, <1>4

LEMMA RejectingStages ==
  ASSUME NEW S, NEW q \in Seq(S), NEW gone
  PROVE  \E f : Stages(q, gone, Len(q), f) /\ Rejecting(q, gone) = f[Len(q)]
<1> DEFINE f == CHOOSE f : f = [i \in 0 .. Len(q) |->
                   IF i = 0 THEN <<>>
                   ELSE IF q[i] \in gone THEN f[i - 1] ELSE Append(f[i - 1], q[i])]
<1>0. Len(q) \in Nat BY LenProperties
<1>1. PICK g : Stages(q, gone, Len(q), g) BY <1>0, StagesExist
<1>2. g = [i \in 0 .. Len(q) |->
                   IF i = 0 THEN <<>>
                   ELSE IF q[i] \in gone THEN g[i - 1] ELSE Append(g[i - 1], q[i])]
  BY <1>1 DEF Stages, KeptAt
<1>3. f = [i \in 0 .. Len(q) |->
                   IF i = 0 THEN <<>>
                   ELSE IF q[i] \in gone THEN f[i - 1] ELSE Append(f[i - 1], q[i])]
  BY <1>2
<1>4. Stages(q, gone, Len(q), f) 
   <2> HIDE DEF f
   <2> QED BY <1>3 DEF Stages, KeptAt
<1>5. Rejecting(q, gone) = f[Len(q)] BY DEF Rejecting
<1> QED BY <1>4, <1>5

\* One item more, at the back of a sequence.
LEMMA AppendToSet ==
  ASSUME NEW S, NEW q \in Seq(S), NEW e \in S
  PROVE  /\ Append(q, e) \in Seq(S) /\ Len(Append(q, e)) = Len(q) + 1
         /\ ToSet(Append(q, e)) = ToSet(q) \cup {e}
<1> DEFINE t == Append(q, e)
<1>1. /\ \A j \in 1 .. Len(q) : t[j] = q[j]
      /\ t[Len(q) + 1] = e
      /\ t \in Seq(S) /\ Len(t) = Len(q) + 1
  BY AppendProperties
<1>2. /\ DOMAIN q = 1 .. Len(q) /\ Len(q) \in Nat
      /\ DOMAIN t = 1 .. Len(q) + 1
  BY <1>1, LenProperties
<1> HIDE DEF t
<1>3. ToSet(t) = ToSet(q) \cup {e} BY <1>1, <1>2 DEF ToSet
<1> QED BY <1>1, <1>3 DEF t

\* One item less, from any place in a sequence.
LEMMA WithoutPosition ==
  ASSUME NEW S, NEW q \in Seq(S), NEW i \in 1 .. Len(q)
  PROVE  LET r == SubSeq(q, 1, i - 1) \o SubSeq(q, i + 1, Len(q)) IN
         /\ r \in Seq(S) /\ Len(r) = Len(q) - 1
         /\ ToSet(r) = {q[j] : j \in (1 .. Len(q)) \ {i}}
<1> DEFINE a == SubSeq(q, 1, i - 1)
           b == SubSeq(q, i + 1, Len(q))
           r == a \o b
           n == Len(q)
<1>0. n \in Nat /\ i \in Nat /\ 1 <= i /\ i <= n /\ \A j \in 1 .. n : q[j] \in S
  BY LenProperties, ElementOfSeq
<1>1. a \in Seq(S) /\ Len(a) = i - 1 /\ \A j \in 1 .. i - 1 : a[j] = q[j]
  <2>1. /\ a \in Seq(S)
        /\ Len(a) = IF 1 <= i - 1 THEN (i - 1) - 1 + 1 ELSE 0
        /\ \A j \in 1 .. (i - 1) - 1 + 1 : a[j] = q[1 + j - 1]
    <3>1. 1 \in Int /\ i - 1 \in Int /\ \A j \in 1 .. i - 1 : q[j] \in S BY <1>0
    <3> QED BY <3>1, SubSeqProperties
  <2>2. \A j \in 1 .. i - 1 : j \in 1 .. (i - 1) - 1 + 1 /\ 1 + j - 1 = j BY <1>0
  <2> QED BY <1>0, <2>1, <2>2
<1>2. b \in Seq(S) /\ Len(b) = n - i /\ \A j \in 1 .. n - i : b[j] = q[i + j]
  <2>1. /\ b \in Seq(S)
        /\ Len(b) = IF i + 1 <= n THEN n - (i + 1) + 1 ELSE 0
        /\ \A j \in 1 .. n - (i + 1) + 1 : b[j] = q[(i + 1) + j - 1]
    <3>1. i + 1 \in Int /\ n \in Int /\ \A j \in i + 1 .. n : q[j] \in S BY <1>0
    <3> QED BY <3>1, SubSeqProperties
  <2>2. \A j \in 1 .. n - i : j \in 1 .. n - (i + 1) + 1 /\ (i + 1) + j - 1 = i + j
    BY <1>0
  <2> QED BY <1>0, <2>1, <2>2
<1> HIDE DEF a, b, n
<1>3. /\ r \in Seq(S) /\ Len(r) = n - 1
      /\ \A j \in 1 .. n - 1 : r[j] = IF j <= i - 1 THEN a[j] ELSE b[j - (i - 1)]
  <2>1. /\ r \in Seq(S) /\ Len(r) = Len(a) + Len(b)
        /\ \A j \in 1 .. Len(a) + Len(b) :
             r[j] = IF j <= Len(a) THEN a[j] ELSE b[j - Len(a)]
    BY <1>1, <1>2, ConcatProperties
  <2>2. Len(a) + Len(b) = n - 1 BY <1>0, <1>1, <1>2
  <2> QED BY <2>1, <2>2, <1>1
<1> HIDE DEF r
<1>4. \A j \in 1 .. n - 1 : r[j] = IF j <= i - 1 THEN q[j] ELSE q[j + 1]
  <2> TAKE j \in 1 .. n - 1
  <2>1. CASE j <= i - 1 BY <2>1, <1>0, <1>1, <1>3
  <2>2. CASE ~(j <= i - 1)
    <3>1. j - (i - 1) \in 1 .. n - i /\ i + (j - (i - 1)) = j + 1 BY <2>2, <1>0
    <3>2. b[j - (i - 1)] = q[j + 1] BY <3>1, <1>2
    <3> QED BY <3>2, <2>2, <1>3
  <2> QED BY <2>1, <2>2
<1>5. DOMAIN r = 1 .. n - 1 BY <1>3, LenProperties
<1>6. ToSet(r) \subseteq {q[j] : j \in (1 .. n) \ {i}}
  <2> SUFFICES ASSUME NEW j \in 1 .. n - 1
               PROVE  r[j] \in {q[k] : k \in (1 .. n) \ {i}}
    BY <1>5 DEF ToSet
  <2>1. /\ j <= i - 1 => j \in (1 .. n) \ {i}
        /\ ~(j <= i - 1) => j + 1 \in (1 .. n) \ {i}
    BY <1>0
  <2> QED BY <1>4, <2>1
<1>7. {q[j] : j \in (1 .. n) \ {i}} \subseteq ToSet(r)
  <2> SUFFICES ASSUME NEW j \in (1 .. n) \ {i}
               PROVE  \E k \in 1 .. n - 1 : r[k] = q[j]
    BY <1>5 DEF ToSet
  <2>1. CASE j < i
    <3>1. j \in 1 .. n - 1 /\ j <= i - 1 BY <2>1, <1>0
    <3> QED BY <3>1, <1>4
  <2>2. CASE j > i
    <3>1. j - 1 \in 1 .. n - 1 /\ ~(j - 1 <= i - 1) /\ (j - 1) + 1 = j
      BY <2>2, <1>0
    <3>2. r[j - 1] = q[j] BY <3>1, <1>4
    <3> QED BY <3>1, <3>2
  <2> QED BY <2>1, <2>2, <1>0
<1> QED BY <1>3, <1>6, <1>7 DEF r, a, b, n

\* The filter of a sequence is a sequence that is not longer, of the items
\* that are not to go, and of all of them.
THEOREM RejectingProperties ==
  ASSUME NEW S, NEW q \in Seq(S), NEW gone
  PROVE  /\ Rejecting(q, gone) \in Seq(S)
         /\ Len(Rejecting(q, gone)) <= Len(q)
         /\ ToSet(Rejecting(q, gone)) = ToSet(q) \ gone
<1>0. Len(q) \in Nat /\ DOMAIN q = 1 .. Len(q) /\ \A i \in 1 .. Len(q) : q[i] \in S
  BY LenProperties, ElementOfSeq
<1>1. PICK f : Stages(q, gone, Len(q), f) /\ Rejecting(q, gone) = f[Len(q)]
  BY RejectingStages
<1> DEFINE Good(i) == /\ f[i] \in Seq(S) /\ Len(f[i]) <= i
                      /\ ToSet(f[i]) = {q[j] : j \in 1 .. i} \ gone
           G == {i \in 0 .. Len(q) : Good(i)}
<1>2. 0 \in G
  <2>1. f[0] = <<>> BY <1>0, <1>1 DEF Stages, KeptAt
  <2>2. ToSet(f[0]) = {} /\ f[0] \in Seq(S) /\ Len(f[0]) <= 0 BY <2>1, EmptySeq DEF ToSet
  <2>3. {q[j] : j \in 1 .. 0} = {} OBVIOUS
  <2> QED BY <1>0, <2>2, <2>3
<1>3. ASSUME NEW i \in 1 .. Len(q), i - 1 \in G
      PROVE  i \in G
  <2>1. i \in 0 .. Len(q) /\ i \in Nat /\ i # 0 BY <1>0
  <2>2. Good(i - 1) BY <1>3
  <2>0. f[i] = KeptAt(q, gone, f, i) BY <1>1, <2>1 DEF Stages
  <2>3. {q[j] : j \in 1 .. i} = {q[j] : j \in 1 .. i - 1} \cup {q[i]}
    <3>1. 1 .. i = (1 .. i - 1) \cup {i} BY <2>1
    <3> QED BY <3>1
  <2>4. CASE q[i] \in gone
    <3>1. f[i] = f[i - 1] BY <2>0, <2>1, <2>4 DEF KeptAt
    <3>2. Len(f[i]) \in Nat BY <3>1, <2>2, LenProperties
    <3>3. ToSet(f[i]) = {q[j] : j \in 1 .. i} \ gone BY <3>1, <2>2, <2>3, <2>4
    <3> QED BY <3>1, <3>2, <3>3, <2>2, <2>1
  <2>5. CASE q[i] \notin gone
    <3>1. f[i] = Append(f[i - 1], q[i]) BY <2>0, <2>1, <2>5 DEF KeptAt
    <3>2. q[i] \in S BY <1>0
    <3>3. f[i] \in Seq(S) /\ Len(f[i]) = Len(f[i - 1]) + 1 /\ Len(f[i - 1]) \in Nat
      BY <3>1, <3>2, <2>2, AppendProperties, LenProperties
    <3>4. ToSet(f[i]) = ToSet(f[i - 1]) \cup {q[i]}
      BY <3>1, <3>2, <2>2, AppendToSet
    <3>5. ToSet(f[i]) = {q[j] : j \in 1 .. i} \ gone BY <3>4, <2>2, <2>3, <2>5
    <3> QED BY <3>3, <3>5, <2>2, <2>1
  <2> QED BY <2>4, <2>5
<1>4. \A i \in 0 .. Len(q) : i \in G
  <2> HIDE DEF G
  <2> QED BY <1>0, <1>2, <1>3, Climbing
<1>5. Len(q) \in G
  <2>1. Len(q) \in 0 .. Len(q) BY <1>0
  <2> HIDE DEF G
  <2> QED BY <1>4, <2>1
<1>6. Good(Len(q)) BY <1>5
<1> QED BY <1>0, <1>1, <1>6 DEF ToSet

\* The filter keeps the items in an order R that they are in.
LEMMA RejectingKeepsOrder ==
  ASSUME NEW S, NEW q \in Seq(S), NEW gone, NEW R,
         \A i, j \in 1 .. Len(q) : i < j => <<q[i], q[j]>> \in R
  PROVE  \A i, j \in 1 .. Len(Rejecting(q, gone)) :
           i < j => <<Rejecting(q, gone)[i], Rejecting(q, gone)[j]>> \in R
<1>0. Len(q) \in Nat /\ DOMAIN q = 1 .. Len(q) /\ \A i \in 1 .. Len(q) : q[i] \in S
  BY LenProperties, ElementOfSeq
<1>1. PICK f : Stages(q, gone, Len(q), f) /\ Rejecting(q, gone) = f[Len(q)]
  BY RejectingStages
<1> DEFINE Good(n) == /\ f[n] \in Seq(S)
                      /\ \A i \in 1 .. Len(f[n]) : \E k \in 1 .. n : f[n][i] = q[k]
                      /\ \A i, j \in 1 .. Len(f[n]) : i < j => <<f[n][i], f[n][j]>> \in R
           G == {n \in 0 .. Len(q) : Good(n)}
<1>2. 0 \in G
  <2>1. f[0] = <<>> BY <1>0, <1>1 DEF Stages, KeptAt
  <2>2. f[0] \in Seq(S) /\ Len(f[0]) = 0 BY <2>1, EmptySeq
  <2> QED BY <1>0, <2>2
<1>3. ASSUME NEW n \in 1 .. Len(q), n - 1 \in G
      PROVE  n \in G
  <2>1. n \in 0 .. Len(q) /\ n \in Nat /\ n # 0 /\ n - 1 \in Nat BY <1>0
  <2>2. Good(n - 1) BY <1>3
  <2>3. f[n] = KeptAt(q, gone, f, n) BY <1>1, <2>1 DEF Stages
  <2>4. CASE q[n] \in gone
    <3>1. f[n] = f[n - 1] BY <2>1, <2>3, <2>4 DEF KeptAt
    <3>2. \A k \in 1 .. n - 1 : k \in 1 .. n BY <2>1
    <3>3. Good(n) BY <2>2, <3>1, <3>2
    <3> QED BY <2>1, <3>3
  <2>5. CASE q[n] \notin gone
    <3> DEFINE m == Len(f[n - 1])
    <3>1. f[n] = Append(f[n - 1], q[n]) BY <2>1, <2>3, <2>5 DEF KeptAt
    <3>2. /\ f[n] \in Seq(S) /\ Len(f[n]) = m + 1 /\ m \in Nat
          /\ \A i \in 1 .. m : f[n][i] = f[n - 1][i]
          /\ f[n][m + 1] = q[n]
      BY <3>1, <1>0, <2>2, AppendProperties, LenProperties
    <3> HIDE DEF m
    <3>3. \A i \in 1 .. m : \E k \in 1 .. n - 1 : f[n][i] = q[k] BY <2>2, <3>2 DEF m
    <3>4. \A k \in 1 .. n - 1 : k \in 1 .. n /\ k < n BY <2>1
    <3>5. \A i \in 1 .. m + 1 : i \in 1 .. m \/ i = m + 1 BY <3>2
    <3>6. \A i \in 1 .. Len(f[n]) : \E k \in 1 .. n : f[n][i] = q[k]
      BY <2>1, <3>2, <3>3, <3>4, <3>5
    <3>7. ASSUME NEW i \in 1 .. Len(f[n]), NEW j \in 1 .. Len(f[n]), i < j
          PROVE  <<f[n][i], f[n][j]>> \in R
      <4>1. i \in 1 .. m BY <3>2, <3>7
      <4>2. CASE j \in 1 .. m BY <4>1, <4>2, <3>2, <3>7, <2>2 DEF m
      <4>3. CASE j = m + 1
        <5>1. PICK k \in 1 .. n - 1 : f[n][i] = q[k] BY <4>1, <3>3
        <5>2. k \in 1 .. Len(q) /\ k < n BY <2>1, <1>0
        <5> QED BY <4>3, <5>1, <5>2, <3>2
      <4> QED BY <4>2, <4>3, <3>2, <3>5
    <3>8. Good(n) BY <3>2, <3>6, <3>7
    <3> QED BY <2>1, <3>8
  <2> QED BY <2>4, <2>5
<1>4. \A n \in 0 .. Len(q) : n \in G
  <2> HIDE DEF G
  <2> QED BY <1>0, <1>2, <1>3, Climbing
<1>5. Len(q) \in G
  <2>1. Len(q) \in 0 .. Len(q) BY <1>0
  <2> HIDE DEF G
  <2> QED BY <1>4, <2>1
<1>6. Good(Len(q)) BY <1>5
<1> QED BY <1>1, <1>6
=============================================================================
