------------------------ MODULE DeliveryLedgerProofs ------------------------
(***************************************************************************)
(* Theorems about DeliveryLedger for every set of deliveries, keys and     *)
(* texts, with and without transport retries and any number of crashes.    *)
(***************************************************************************)
EXTENDS DeliveryLedger, TLAPS

-----------------------------------------------------------------------------
(* The statements of the table on a row.                                   *)

USE DEF Settlements

LEMMA SettledRow ==
  ASSUME LedgerTypeOK, NEW k \in Keys, NEW status \in Settlements
  PROVE /\ Settled(k, status) \in Rows
        /\ Settled(k, status).content = row[k].content
        /\ Settled(k, status).attempts = row[k].attempts
        /\ row[k].status = "prepared" => Settled(k, status).status = status
        /\ row[k].status # "prepared" => Settled(k, status).status = row[k].status
<1>1. row[k] \in Rows  BY DEF LedgerTypeOK
<1>2. CASE row[k].status = "prepared"
      BY <1>1, <1>2 DEF Settled, Rows, RowStatus
<1>3. CASE row[k].status # "prepared"
      BY <1>1, <1>3 DEF Settled, Rows, RowStatus
<1> QED  BY <1>2, <1>3

LEMMA RetriedRow ==
  ASSUME LedgerTypeOK, NEW k \in Keys
  PROVE /\ Retried(k) \in Rows
        /\ Retried(k).content = row[k].content
        /\ Retried(k).status = row[k].status
<1>1. row[k] \in Rows  BY DEF LedgerTypeOK
<1>2. CASE row[k].status = "prepared"
      BY <1>1, <1>2 DEF Retried, Rows, RowStatus
<1>3. CASE row[k].status # "prepared"
      BY <1>1, <1>3 DEF Retried, Rows, RowStatus
<1> QED  BY <1>2, <1>3

LEMMA PreparedRow ==
  ASSUME LedgerTypeOK, NEW k \in Keys, NEW status \in {"prepared", "suppressed"},
         NEW c \in Contents
  PROVE /\ Prepared(k, status, c) \in Rows
        /\ Prepared(k, status, c).status # "none"
        /\ row[k].status # "none" => Prepared(k, status, c) = row[k]
        /\ row[k].status = "none" => /\ Prepared(k, status, c).status = status
                                     /\ Prepared(k, status, c).content = c
<1>1. row[k] \in Rows  BY DEF LedgerTypeOK
<1>2. CASE row[k].status = "none"
      BY <1>1, <1>2 DEF Prepared, Rows, RowStatus
<1>3. CASE row[k].status # "none"
      BY <1>1, <1>3 DEF Prepared, Rows, RowStatus
<1> QED  BY <1>2, <1>3

LEMMA StatusOfReceipt ==
  ASSUME NEW r \in Receipts \ {"none"}
  PROVE /\ StatusOf(r) \in Settlements
        /\ StatusOf(r) = "sent" <=> r = "accepted"
BY DEF StatusOf, Receipts

-----------------------------------------------------------------------------
(* What is known of a job: it concerns a key and a text while it is under  *)
(* way, it has a receipt when it settles, and that receipt says accepted   *)
(* only if the transport accepted the text.                                *)

Honest(j, texts) ==
  /\ j.pc \in {"sending", "settling", "projecting"}
       => j.key \in Keys /\ j.content \in Contents
  /\ j.pc = "settling" => j.receipt # "none"
  /\ j.project => j.receipt = "accepted"
  /\ j.pc = "projecting" => j.receipt = "accepted"
  /\ j.pc \in {"settling", "projecting"} /\ j.receipt = "accepted"
       => j.content \in texts[j.key]

JobsHonest == \A a \in Actors : Honest(job[a], accepted)

\* A row that is there holds a text, and the worker treats rows that are there.
RowsHoldText ==
  /\ \A k \in Keys : row[k].status # "none" => row[k].content \in Contents
  /\ \A k \in todo : row[k].status # "none"

LedgerInv == LedgerTypeOK /\ JobsHonest /\ RowsHoldText /\ HistoryWasAccepted

LEMMA InvInit == LedgerInit => LedgerInv
<1> SUFFICES ASSUME LedgerInit PROVE LedgerInv  OBVIOUS
<1> USE DEF LedgerInit
<1>1. NoRow \in Rows /\ NoRow.status = "none"
      BY DEF NoRow, Rows, RowStatus
<1>2. NoJob \in Jobs /\ NoJob.pc = "idle" /\ NoJob.project = FALSE
      BY <1>1 DEF NoJob, Jobs, Receipts
<1>3. NoEvent \in Events /\ NoEvent.content = NoContent
      BY DEF NoEvent, Events, RowStatus
<1>4. LedgerTypeOK
  <2>1. row \in [Keys -> Rows] /\ job \in [Actors -> Jobs]
        BY <1>1, <1>2
  <2>2. log \in [Keys -> Events] /\ late \in [Keys -> Events]
        BY <1>3
  <2>3. crashes \in 0 .. MaxCrashes  BY LedgerAssumption
  <2>4. open \in [Keys -> BOOLEAN] /\ attached \in BOOLEAN /\ todo \subseteq Keys
        OBVIOUS
  <2>5. /\ sends \in [Keys -> Nat]
        /\ resends \in [Keys -> Nat]
        /\ accepted \in [Keys -> SUBSET Contents]
        OBVIOUS
  <2> QED  BY <2>1, <2>2, <2>3, <2>4, <2>5 DEF LedgerTypeOK
<1>5. JobsHonest  BY <1>2 DEF JobsHonest, Honest
<1>6. RowsHoldText  BY <1>1 DEF RowsHoldText
<1>7. HistoryWasAccepted  BY <1>3 DEF HistoryWasAccepted
<1> QED  BY <1>4, <1>5, <1>6, <1>7 DEF LedgerInv

-----------------------------------------------------------------------------
(* Each action changes a row, a job, or both, and takes no acceptance back. *)

MoreAccepted == \A k \in Keys : accepted[k] \subseteq accepted'[k]

LEMMA JobChanges ==
  ASSUME LedgerTypeOK, JobsHonest, MoreAccepted,
         NEW a \in Actors, NEW j \in Jobs, Honest(j, accepted'),
         job' = [job EXCEPT ![a] = j]
  PROVE job' \in [Actors -> Jobs] /\ JobsHonest'
<1>1. job' \in [Actors -> Jobs]  BY DEF LedgerTypeOK
<1>2. ASSUME NEW b \in Actors PROVE Honest(job'[b], accepted')
  <2>1. CASE b = a
    <3>1. job'[b] = j  BY <2>1 DEF LedgerTypeOK
    <3> QED  BY <3>1 DEF Honest
  <2>2. CASE b # a
    <3>1. job'[b] = job[b]  BY <2>2 DEF LedgerTypeOK
    <3>2. Honest(job[b], accepted)  BY DEF JobsHonest
    <3>3. job[b].key \in Keys => accepted[job[b].key] \subseteq accepted'[job[b].key]
          BY DEF MoreAccepted
    <3> QED  BY <3>1, <3>2, <3>3 DEF Honest
  <2> QED  BY <2>1, <2>2
<1> QED  BY <1>1, <1>2 DEF JobsHonest

LEMMA JobsStay ==
  ASSUME JobsHonest, job' = job, accepted' = accepted
  PROVE JobsHonest'
BY DEF JobsHonest, Honest

LEMMA RowChanges ==
  ASSUME LedgerTypeOK, RowsHoldText, NEW k \in Keys, NEW r \in Rows,
         r.status # "none" => r.content \in Contents,
         row[k].status # "none" => r.status # "none",
         row' = [row EXCEPT ![k] = r], todo' \subseteq todo
  PROVE row' \in [Keys -> Rows] /\ RowsHoldText' /\ todo' \subseteq Keys
<1>1. row' \in [Keys -> Rows]  BY DEF LedgerTypeOK
<1>2. \A n \in Keys : row'[n] = IF n = k THEN r ELSE row[n]
      BY DEF LedgerTypeOK
<1>3. todo' \subseteq Keys  BY DEF LedgerTypeOK
<1> QED  BY <1>1, <1>2, <1>3 DEF RowsHoldText

LEMMA RowsStay ==
  ASSUME LedgerTypeOK, RowsHoldText, row' = row, todo' \subseteq todo
  PROVE row' \in [Keys -> Rows] /\ RowsHoldText' /\ todo' \subseteq Keys
BY DEF LedgerTypeOK, RowsHoldText

LEMMA HistoryStays ==
  ASSUME HistoryWasAccepted, MoreAccepted, log' = log, late' = late
  PROVE HistoryWasAccepted'
<1>1. ASSUME NEW k \in Keys
      PROVE {log'[k].content, late'[k].content} \ {NoContent} \subseteq accepted'[k]
  <2>1. {log[k].content, late[k].content} \ {NoContent} \subseteq accepted[k]
        BY DEF HistoryWasAccepted
  <2>2. accepted[k] \subseteq accepted'[k]  BY DEF MoreAccepted
  <2> QED  BY <2>1, <2>2
<1> QED  BY <1>1 DEF HistoryWasAccepted

LEMMA SettledHoldsText ==
  ASSUME LedgerTypeOK, RowsHoldText, NEW k \in Keys, NEW status \in Settlements
  PROVE /\ Settled(k, status).status # "none" => Settled(k, status).content \in Contents
        /\ row[k].status # "none" => Settled(k, status).status # "none"
<1>1. row[k].status = "none" => Settled(k, status) = row[k]  BY DEF Settled
<1>2. row[k].status # "none" => row[k].content \in Contents  BY DEF RowsHoldText
<1> QED  BY <1>1, <1>2, SettledRow

LEMMA AcceptedGrows ==
  ASSUME LedgerTypeOK, NEW k \in Keys, NEW S \in SUBSET Contents,
         accepted' = [accepted EXCEPT ![k] = @ \cup S]
  PROVE /\ MoreAccepted
        /\ accepted' \in [Keys -> SUBSET Contents]
        /\ S \subseteq accepted'[k]
<1>1. accepted \in [Keys -> SUBSET Contents]  BY DEF LedgerTypeOK
<1>2. accepted'[k] = accepted[k] \cup S  BY <1>1
<1>3. \A n \in Keys : n # k => accepted'[n] = accepted[n]  BY <1>1
<1>4. accepted[k] \cup S \in SUBSET Contents  BY <1>1
<1>5. accepted' \in [Keys -> SUBSET Contents]  BY <1>1, <1>4
<1> QED  BY <1>2, <1>3, <1>5 DEF MoreAccepted

-----------------------------------------------------------------------------
(* The actions of a sender.                                                *)

LEMMA BeginKeeps ==
  ASSUME LedgerInv, NEW d \in Deliveries, Begin(d)
  PROVE LedgerInv'
<1> USE DEF LedgerInv
<1> DEFINE k == KeyOf[d]
           status == IF Suppressed(d) THEN "suppressed" ELSE "prepared"
           record == Prepared(k, status, ContentOf[d])
           starts == Sends(d, record)
           j == [pc |-> IF starts THEN "sending" ELSE "done", key |-> k,
                 content |-> ContentOf[d], record |-> record,
                 receipt |-> "none", project |-> FALSE]
<1>1. k \in Keys /\ ContentOf[d] \in Contents /\ d \in Actors
      BY LedgerAssumption DEF Actors
<1>2. status \in {"prepared", "suppressed"}  OBVIOUS
<1>3. /\ record \in Rows
      /\ record.status # "none"
      /\ row[k].status # "none" => record = row[k]
      /\ row[k].status = "none" => record.content = ContentOf[d]
      BY <1>1, <1>2, PreparedRow
<1>4. /\ row' = [row EXCEPT ![k] = record]
      /\ job' = [job EXCEPT ![d] = j]
      /\ sends' = [sends EXCEPT ![k] = @ + IF starts THEN 1 ELSE 0]
      /\ UNCHANGED <<log, late, open, todo, attached, crashes, resends, accepted>>
      BY DEF Begin
<1> HIDE DEF k, status, record, starts
<1>5. j \in Jobs
      BY <1>1, <1>3 DEF Jobs, Receipts
<1>6. Honest(j, accepted')
      BY <1>1 DEF Honest
<1> HIDE DEF j
<1>7. MoreAccepted  BY <1>4 DEF MoreAccepted
<1>8. job' \in [Actors -> Jobs] /\ JobsHonest'
      BY <1>1, <1>4, <1>5, <1>6, <1>7, JobChanges
<1>9. record.content \in Contents
      BY <1>1, <1>3 DEF RowsHoldText
<1>10. row' \in [Keys -> Rows] /\ RowsHoldText' /\ todo' \subseteq Keys
       BY <1>1, <1>3, <1>4, <1>9, RowChanges
<1>11. HistoryWasAccepted'  BY <1>4, <1>7, HistoryStays
<1>12. sends' \in [Keys -> Nat]
  <2>1. sends[k] + (IF starts THEN 1 ELSE 0) \in Nat
        BY <1>1 DEF LedgerTypeOK
  <2> QED  BY <1>4, <2>1 DEF LedgerTypeOK
<1>13. LedgerTypeOK'
       BY <1>4, <1>8, <1>10, <1>12 DEF LedgerTypeOK
<1> QED  BY <1>8, <1>10, <1>11, <1>13

\* A job that ends a call, with what the transport accepted on the way.
LEMMA JobKeeps ==
  ASSUME LedgerInv, NEW a \in Actors, NEW j \in Jobs, NEW S \in SUBSET Contents,
         NEW k \in Keys,
         accepted' = [accepted EXCEPT ![k] = @ \cup S], Honest(j, accepted'),
         job' = [job EXCEPT ![a] = j],
         UNCHANGED <<row, log, late, open, todo, attached, crashes, sends, resends>>
  PROVE LedgerInv'
<1> USE DEF LedgerInv
<1>1. MoreAccepted /\ accepted' \in [Keys -> SUBSET Contents]
      BY AcceptedGrows
<1>2. job' \in [Actors -> Jobs] /\ JobsHonest'  BY <1>1, JobChanges
<1>3. row' \in [Keys -> Rows] /\ RowsHoldText' /\ todo' \subseteq Keys
      BY RowsStay
<1>4. HistoryWasAccepted'  BY <1>1, HistoryStays
<1>5. LedgerTypeOK'  BY <1>1, <1>2, <1>3 DEF LedgerTypeOK
<1> QED  BY <1>2, <1>3, <1>4, <1>5

LEMMA InFlightJob ==
  ASSUME LedgerInv, NEW a \in Actors
  PROVE /\ job[a] \in Jobs
        /\ job[a].record \in Rows
        /\ job[a].receipt \in Receipts
        /\ job[a].project \in BOOLEAN
        /\ job[a].key \in Keys \cup {NoKey}
        /\ job[a].content \in Contents \cup {NoContent}
        /\ InFlight(a) => job[a].key \in Keys /\ job[a].content \in Contents
<1>1. job[a] \in Jobs  BY DEF LedgerInv, LedgerTypeOK
<1>2. Honest(job[a], accepted)  BY DEF LedgerInv, JobsHonest
<1> QED  BY <1>1, <1>2 DEF Jobs, Honest, InFlight

LEMMA ReceivedKeeps ==
  ASSUME LedgerInv, NEW a \in Actors, NEW r \in Receipts \ {"none"},
         NEW p \in BOOLEAN, p => r = "accepted",
         job[a].pc = "sending", Received(a, r, p),
         UNCHANGED <<row, log, late, open, todo, attached, crashes, sends, resends>>
  PROVE LedgerInv'
<1> DEFINE k == job[a].key
           S == IF r = "accepted" THEN {job[a].content} ELSE {}
           j == [pc |-> "settling", key |-> job[a].key, content |-> job[a].content,
                 record |-> job[a].record, receipt |-> r, project |-> p]
<1>1. k \in Keys /\ job[a].content \in Contents /\ job[a].record \in Rows
      BY InFlightJob DEF InFlight
<1>2. S \in SUBSET Contents  BY <1>1
<1>3. accepted' = [accepted EXCEPT ![k] = @ \cup S]
  <2>1. CASE r = "accepted"  BY <2>1 DEF Received
  <2>2. CASE r # "accepted"
    <3>1. accepted[k] \cup S = accepted[k]  BY <2>2
    <3> QED  BY <2>2, <3>1 DEF Received
  <2> QED  BY <2>1, <2>2
<1>4. job' = [job EXCEPT ![a] = j]  BY DEF Received
<1>5. S \subseteq accepted'[k]
      BY <1>1, <1>2, <1>3, AcceptedGrows DEF LedgerInv
<1>6. j \in Jobs  BY <1>1 DEF Jobs
<1>7. Honest(j, accepted')  BY <1>1, <1>5 DEF Honest
<1> HIDE DEF k, S, j
<1> QED  BY <1>1, <1>2, <1>3, <1>4, <1>6, <1>7, JobKeeps

LEMMA AnswersKeeps ==
  ASSUME LedgerInv, NEW d \in Deliveries, TransportAnswers(d)
  PROVE LedgerInv'
<1>1. d \in Actors /\ "accepted" \in Receipts \ {"none"}
      BY DEF Actors, Receipts
<1>2. PICK project \in MayProject(d) :
        \/ \E r \in Receipts \ {"none"} :
             Received(d, r, project /\ r = "accepted")
        \/ Received(d, "accepted", project /\ Kind[KeyOf[d]] # "ambient")
      BY DEF TransportAnswers
<1>3. project \in BOOLEAN  BY <1>2 DEF MayProject
<1>4. CASE \E r \in Receipts \ {"none"} :
             Received(d, r, project /\ r = "accepted")
  <2> PICK r \in Receipts \ {"none"} : Received(d, r, project /\ r = "accepted")
      BY <1>4
  <2>1. /\ (project /\ r = "accepted") \in BOOLEAN
        /\ (project /\ r = "accepted") => r = "accepted"
        OBVIOUS
  <2> QED  BY <1>1, <2>1, ReceivedKeeps DEF TransportAnswers
<1>5. CASE Received(d, "accepted", project /\ Kind[KeyOf[d]] # "ambient")
  <2>1. (project /\ Kind[KeyOf[d]] # "ambient") \in BOOLEAN  BY <1>3
  <2> QED  BY <1>1, <1>5, <2>1, ReceivedKeeps DEF TransportAnswers
<1> QED  BY <1>2, <1>4, <1>5

LEMMA DiedJob ==
  ASSUME LedgerInv, NEW d \in Deliveries
  PROVE Died(d) \in Jobs /\ \A texts : Honest(Died(d), texts)
<1>1. d \in Actors  BY DEF Actors
<1> QED  BY <1>1, InFlightJob DEF Died, Jobs, Honest

LEMMA RaisesKeeps ==
  ASSUME LedgerInv, NEW d \in Deliveries, TransportRaises(d)
  PROVE LedgerInv'
<1> DEFINE k == job[d].key
           sent == [pc |-> "settling", key |-> k, content |-> job[d].content,
                    record |-> job[d].record, receipt |-> "retryable",
                    project |-> FALSE]
           j == IF Kind[k] = "ambient" THEN Died(d) ELSE sent
<1>1. d \in Actors /\ k \in Keys
      BY InFlightJob DEF Actors, TransportRaises, InFlight
<1>2. job[d].content \in Contents /\ job[d].record \in Rows
      BY <1>1, InFlightJob DEF TransportRaises, InFlight
<1>3. sent \in Jobs /\ Honest(sent, accepted')
      BY <1>1, <1>2 DEF Jobs, Honest, Receipts
<1>4. Died(d) \in Jobs /\ Honest(Died(d), accepted')  BY DiedJob
<1>5. j \in Jobs /\ Honest(j, accepted')  BY <1>3, <1>4
<1>6. PICK S \in {{}, {job[d].content}} :
             accepted' = [accepted EXCEPT ![k] = @ \cup S]
      BY DEF TransportRaises
<1>7. S \in SUBSET Contents  BY <1>2
<1>8. job' = [job EXCEPT ![d] = j]  BY DEF TransportRaises
<1>9. UNCHANGED <<row, log, late, open, todo, attached, crashes, sends, resends>>
      BY DEF TransportRaises
<1> HIDE DEF j, k
<1> QED  BY <1>1, <1>5, <1>6, <1>7, <1>8, <1>9, JobKeeps

LEMMA CancelKeeps ==
  ASSUME LedgerInv, NEW d \in Deliveries, CancelSend(d)
  PROVE LedgerInv'
<1> DEFINE k == KeyOf[d]
<1>1. d \in Actors /\ k \in Keys  BY LedgerAssumption DEF Actors
<1>2. job[d].content \in Contents
      BY <1>1, InFlightJob DEF CancelSend
<1>3. PICK got \in {{}, {job[d].content}} :
             accepted' = [accepted EXCEPT ![k] =
                            IF job[d].pc = "sending" THEN @ \cup got ELSE @]
      BY DEF CancelSend
<1> DEFINE S == IF job[d].pc = "sending" THEN got ELSE {}
<1>4. S \in SUBSET Contents  BY <1>2
<1>5. accepted' = [accepted EXCEPT ![k] = @ \cup S]
  <2>1. CASE job[d].pc = "sending"  BY <1>3, <2>1
  <2>2. CASE job[d].pc # "sending"
    <3>1. accepted[k] \cup S = accepted[k]  BY <2>2
    <3> QED  BY <1>3, <2>2, <3>1
  <2> QED  BY <2>1, <2>2
<1>6. job' = [job EXCEPT ![d] = Died(d)]  BY DEF CancelSend
<1>7. UNCHANGED <<row, log, late, open, todo, attached, crashes, sends, resends>>
      BY DEF CancelSend
<1>8. Died(d) \in Jobs /\ Honest(Died(d), accepted')  BY DiedJob
<1> HIDE DEF S, k
<1> QED  BY <1>1, <1>4, <1>5, <1>6, <1>7, <1>8, JobKeeps

-----------------------------------------------------------------------------
(* Settling and recording.                                                 *)

LEMMA IdleJob == NoJob \in Jobs /\ \A texts : Honest(NoJob, texts)
<1>1. NoRow \in Rows  BY DEF NoRow, Rows, RowStatus
<1> QED  BY <1>1 DEF NoJob, Jobs, Receipts, Honest

LEMMA AfterJob ==
  ASSUME LedgerInv, NEW a \in Actors
  PROVE /\ After(a) \in Jobs
        /\ job[a].project => job[a].receipt = "accepted"
        /\ Honest(After(a), accepted)
<1>1. Moved(a, "done") \in Jobs  BY InFlightJob DEF Moved, Jobs
<1>2. Honest(job[a], accepted)  BY DEF LedgerInv, JobsHonest
<1>3. Honest(Moved(a, "done"), accepted)  BY <1>2 DEF Honest, Moved
<1>4. job[a].project => job[a].receipt = "accepted"  BY <1>2 DEF Honest
<1> QED  BY <1>1, <1>3, <1>4, IdleJob DEF After

LEMMA SettleKeeps ==
  ASSUME LedgerInv, NEW a \in Actors, SettleReceipt(a)
  PROVE LedgerInv'
<1> USE DEF LedgerInv
<1> DEFINE k == job[a].key
           j == IF job[a].project THEN Moved(a, "projecting") ELSE After(a)
           r == Settled(k, StatusOf(job[a].receipt))
<1>1. k \in Keys /\ job[a].content \in Contents
      BY InFlightJob DEF SettleReceipt, InFlight
<1>2. Honest(job[a], accepted)  BY DEF JobsHonest
<1>3. job[a].receipt \in Receipts \ {"none"}
      BY <1>2, InFlightJob DEF SettleReceipt, Honest
<1>4. StatusOf(job[a].receipt) \in Settlements  BY <1>3, StatusOfReceipt
<1>5. /\ row' = [row EXCEPT ![k] = r]
      /\ job' = [job EXCEPT ![a] = j]
      /\ UNCHANGED <<log, late, open, todo, attached, crashes, sends, resends, accepted>>
      BY DEF SettleReceipt
<1>6. Moved(a, "projecting") \in Jobs  BY InFlightJob DEF Moved, Jobs
<1>7. job[a].project => Honest(Moved(a, "projecting"), accepted)
      BY <1>1, <1>2 DEF Honest, Moved, SettleReceipt
<1>8. j \in Jobs /\ Honest(j, accepted')
      BY <1>5, <1>6, <1>7, AfterJob
<1>9. MoreAccepted  BY <1>5 DEF MoreAccepted
<1>10. /\ r \in Rows
       /\ r.status # "none" => r.content \in Contents
       /\ row[k].status # "none" => r.status # "none"
       BY <1>1, <1>4, SettledRow, SettledHoldsText
<1> HIDE DEF j, r, k
<1>11. job' \in [Actors -> Jobs] /\ JobsHonest'
       BY <1>5, <1>8, <1>9, JobChanges
<1>12. row' \in [Keys -> Rows] /\ RowsHoldText' /\ todo' \subseteq Keys
       BY <1>1, <1>5, <1>10, RowChanges
<1>13. HistoryWasAccepted'  BY <1>5, <1>9, HistoryStays
<1>14. LedgerTypeOK'  BY <1>5, <1>11, <1>12 DEF LedgerTypeOK
<1> QED  BY <1>11, <1>12, <1>13, <1>14

LEMMA ProjectKeeps ==
  ASSUME LedgerInv, NEW a \in Actors, Project(a)
  PROVE LedgerInv'
<1> USE DEF LedgerInv
<1> DEFINE k == job[a].key
           e == EventOf(a)
<1>1. k \in Keys /\ job[a].content \in Contents /\ job[a].record \in Rows
      BY InFlightJob DEF Project, InFlight
<1>2. Honest(job[a], accepted)  BY DEF JobsHonest
<1>3. job[a].content \in accepted[k]
      BY <1>2 DEF Honest, Project
<1>4. e \in Events /\ e.content = job[a].content
      BY <1>1 DEF EventOf, Events, Rows
<1>5. /\ job' = [job EXCEPT ![a] = After(a)]
      /\ UNCHANGED <<row, open, todo, attached, crashes, sends, resends, accepted>>
      BY DEF Project
<1>6. /\ log' = log \/ log' = [log EXCEPT ![k] = e]
      /\ late' = late \/ late' = [late EXCEPT ![k] = e]
      BY DEF Project
<1>7. MoreAccepted  BY <1>5 DEF MoreAccepted
<1>8. After(a) \in Jobs /\ Honest(After(a), accepted')
      BY <1>5, AfterJob
<1> HIDE DEF k, e
<1>9. job' \in [Actors -> Jobs] /\ JobsHonest'
      BY <1>5, <1>7, <1>8, JobChanges
<1>10. row' \in [Keys -> Rows] /\ RowsHoldText' /\ todo' \subseteq Keys
       BY <1>5, RowsStay
<1>11. log' \in [Keys -> Events] /\ late' \in [Keys -> Events]
       BY <1>1, <1>4, <1>6 DEF LedgerTypeOK
<1>12. LedgerTypeOK'  BY <1>5, <1>9, <1>10, <1>11 DEF LedgerTypeOK
<1>13. ASSUME NEW n \in Keys
       PROVE {log'[n].content, late'[n].content} \ {NoContent} \subseteq accepted'[n]
  <2>1. log'[n] = log[n] \/ (n = k /\ log'[n] = e)
        BY <1>6 DEF LedgerTypeOK
  <2>2. late'[n] = late[n] \/ (n = k /\ late'[n] = e)
        BY <1>6 DEF LedgerTypeOK
  <2>3. {log[n].content, late[n].content} \ {NoContent} \subseteq accepted[n]
        BY DEF HistoryWasAccepted
  <2>4. n = k => e.content \in accepted[n]  BY <1>3, <1>4 DEF k
  <2>5. accepted'[n] = accepted[n]  BY <1>5
  <2> QED  BY <2>1, <2>2, <2>3, <2>4, <2>5
<1>14. HistoryWasAccepted'  BY <1>13 DEF HistoryWasAccepted
<1> QED  BY <1>9, <1>10, <1>12, <1>14

-----------------------------------------------------------------------------
(* The recovery worker.                                                    *)

LEMMA TreatedRow ==
  ASSUME LedgerInv, NEW k \in todo
  PROVE k \in Keys /\ row[k].status # "none" /\ row[k].content \in Contents
BY DEF LedgerInv, LedgerTypeOK, RowsHoldText

LEMMA RowKeeps ==
  ASSUME LedgerInv, NEW k \in Keys, NEW r \in Rows,
         r.status # "none" => r.content \in Contents,
         row[k].status # "none" => r.status # "none",
         row' = [row EXCEPT ![k] = r], todo' \subseteq todo,
         UNCHANGED <<job, log, late, open, attached, crashes, sends, resends, accepted>>
  PROVE LedgerInv'
<1> USE DEF LedgerInv
<1>1. row' \in [Keys -> Rows] /\ RowsHoldText' /\ todo' \subseteq Keys
      BY RowChanges
<1>2. JobsHonest'  BY JobsStay
<1>3. HistoryWasAccepted'  BY HistoryStays DEF MoreAccepted
<1>4. LedgerTypeOK'  BY <1>1 DEF LedgerTypeOK
<1> QED  BY <1>1, <1>2, <1>3, <1>4

LEMMA SettlesKeeps ==
  ASSUME LedgerInv, NEW k \in todo, NEW status \in Settlements,
         row' = [row EXCEPT ![k] = Settled(k, status)], todo' \subseteq todo,
         UNCHANGED <<job, log, late, open, attached, crashes, sends, resends, accepted>>
  PROVE LedgerInv'
<1>1. k \in Keys  BY TreatedRow
<1>2. /\ Settled(k, status) \in Rows
      /\ Settled(k, status).status # "none" => Settled(k, status).content \in Contents
      /\ row[k].status # "none" => Settled(k, status).status # "none"
      BY <1>1, SettledRow, SettledHoldsText DEF LedgerInv
<1> QED  BY <1>1, <1>2, RowKeeps

LEMMA ResendKeeps ==
  ASSUME LedgerInv, NEW k \in Keys, Resend(k)
  PROVE LedgerInv'
<1> USE DEF LedgerInv
<1> DEFINE j == [pc |-> "sending", key |-> k, content |-> row[k].content,
                 record |-> Scanned(k), receipt |-> "none", project |-> FALSE]
<1>1. row[k] \in Rows /\ row[k].content \in Contents
      BY TreatedRow DEF Resend, Treating, LedgerTypeOK
<1>2. Scanned(k) \in Rows  BY <1>1 DEF Scanned, Rows, RowStatus
<1>3. j \in Jobs /\ Honest(j, accepted')
      BY <1>1, <1>2 DEF Jobs, Receipts, Honest
<1>4. /\ job' = [job EXCEPT ![Recovery] = j]
      /\ todo' = todo \ {k}
      /\ sends' = [sends EXCEPT ![k] = @ + 1]
      /\ resends' = [resends EXCEPT ![k] = @ + 1]
      /\ UNCHANGED <<row, log, late, open, attached, crashes, accepted>>
      BY DEF Resend
<1>5. MoreAccepted  BY <1>4 DEF MoreAccepted
<1> HIDE DEF j
<1>6. job' \in [Actors -> Jobs] /\ JobsHonest'
      BY <1>3, <1>4, <1>5, JobChanges DEF Actors
<1>7. row' \in [Keys -> Rows] /\ RowsHoldText' /\ todo' \subseteq Keys
      BY <1>4, RowsStay
<1>8. sends' \in [Keys -> Nat] /\ resends' \in [Keys -> Nat]
      BY <1>4 DEF LedgerTypeOK
<1>9. HistoryWasAccepted'  BY <1>4, <1>5, HistoryStays
<1>10. LedgerTypeOK'  BY <1>4, <1>6, <1>7, <1>8 DEF LedgerTypeOK
<1> QED  BY <1>6, <1>7, <1>9, <1>10

LEMMA RecoverKeeps ==
  ASSUME LedgerInv, NEW k \in Keys, RecoverOne(k)
  PROVE LedgerInv'
<1>1. CASE RecoverExhausted(k)
      BY <1>1, SettlesKeeps DEF RecoverExhausted, Treating
<1>2. CASE RecoverUncertain(k)
      BY <1>2, SettlesKeeps DEF RecoverUncertain, Treating
<1>3. CASE ResolverRaises(k)
  <2>1. k \in todo  BY <1>3 DEF ResolverRaises, Treating
  <2>2. /\ Retried(k) \in Rows
        /\ Retried(k).content \in Contents
        /\ Retried(k).status # "none"
        BY <2>1, RetriedRow, TreatedRow DEF LedgerInv
  <2> QED  BY <1>3, <2>2, RowKeeps DEF ResolverRaises
<1>4. CASE ContentLost(k)
      BY <1>4, SettlesKeeps DEF ContentLost, Treating
<1>5. CASE Resend(k)  BY <1>5, ResendKeeps
<1> QED  BY <1>1, <1>2, <1>3, <1>4, <1>5 DEF RecoverOne

LEMMA ResendEndsKeeps ==
  ASSUME LedgerInv, ResendEnds
  PROVE LedgerInv'
<1> USE DEF LedgerInv
<1> DEFINE k == job[Recovery].key
<1>1. Recovery \in Actors  BY DEF Actors
<1>2. /\ k \in Keys
      /\ job[Recovery].content \in Contents
      /\ job[Recovery].record \in Rows
      BY <1>1, InFlightJob
      DEF ResendEnds, ResendAnswers, ResendRetryable, ResendRaises, InFlight
<1>3. CASE ResendAnswers
  <2>1. PICK r \in Receipts \ {"none", "retryable"} :
               Received(Recovery, r, r = "accepted")
        BY <1>3 DEF ResendAnswers
  <2>2. (r = "accepted") \in BOOLEAN  OBVIOUS
  <2> QED  BY <1>1, <1>3, <2>1, <2>2, ReceivedKeeps DEF ResendAnswers
<1>4. CASE ResendRetryable
  <2>1. /\ row' = [row EXCEPT ![k] = Retried(k)]
        /\ job' = [job EXCEPT ![Recovery] = NoJob]
        /\ UNCHANGED <<log, late, open, todo, attached, crashes, sends, resends, accepted>>
        BY <1>4 DEF ResendRetryable
  <2>2. /\ Retried(k) \in Rows
        /\ Retried(k).content = row[k].content
        /\ Retried(k).status = row[k].status
        BY <1>2, RetriedRow
  <2>3. NoJob \in Jobs /\ Honest(NoJob, accepted')  BY IdleJob
  <2>4. MoreAccepted  BY <2>1 DEF MoreAccepted
  <2>5. job' \in [Actors -> Jobs] /\ JobsHonest'
        BY <1>1, <2>1, <2>3, <2>4, JobChanges
  <2>6. row[k].status # "none" => row[k].content \in Contents
        BY <1>2 DEF RowsHoldText
  <2> HIDE DEF k
  <2>7. row' \in [Keys -> Rows] /\ RowsHoldText' /\ todo' \subseteq Keys
        BY <1>2, <2>1, <2>2, <2>6, RowChanges
  <2>8. HistoryWasAccepted'  BY <2>1, <2>4, HistoryStays
  <2>9. LedgerTypeOK'  BY <2>1, <2>5, <2>7 DEF LedgerTypeOK
  <2> QED  BY <2>5, <2>7, <2>8, <2>9
<1>5. CASE ResendRaises
  <2> DEFINE j == [pc |-> "settling", key |-> k,
                   content |-> job[Recovery].content,
                   record |-> job[Recovery].record,
                   receipt |-> "unknown", project |-> FALSE]
  <2>1. j \in Jobs /\ Honest(j, accepted')
        BY <1>2 DEF Jobs, Receipts, Honest
  <2>2. PICK S \in {{}, {job[Recovery].content}} :
               accepted' = [accepted EXCEPT ![k] = @ \cup S]
        BY <1>5 DEF ResendRaises
  <2>3. S \in SUBSET Contents  BY <1>2
  <2>4. job' = [job EXCEPT ![Recovery] = j]  BY <1>5 DEF ResendRaises
  <2>5. UNCHANGED <<row, log, late, open, todo, attached, crashes, sends, resends>>
        BY <1>5 DEF ResendRaises
  <2> HIDE DEF j, k
  <2> QED  BY <1>1, <1>2, <2>1, <2>2, <2>3, <2>4, <2>5, JobKeeps
<1> QED  BY <1>3, <1>4, <1>5 DEF ResendEnds

-----------------------------------------------------------------------------
(* A crash, and the steps that touch neither rows nor jobs.                *)

LEMMA CrashKeeps ==
  ASSUME LedgerInv, Crash
  PROVE LedgerInv'
<1> USE DEF LedgerInv
<1>1. PICK arrived \in SUBSET {a \in Actors : job[a].pc = "sending"} :
        accepted' = [k \in Keys |-> accepted[k] \cup
          {job[a].content : a \in {b \in arrived : job[b].key = k}}]
      BY DEF Crash
<1>2. MoreAccepted  BY <1>1 DEF MoreAccepted
<1>3. accepted' \in [Keys -> SUBSET Contents]
  <2>1. \A a \in arrived : job[a].content \in Contents
        BY InFlightJob DEF InFlight
  <2>2. \A k \in Keys : accepted[k] \in SUBSET Contents
        BY DEF LedgerTypeOK
  <2> QED  BY <1>1, <2>1, <2>2
<1>4. /\ job' = [a \in Actors |-> IF a = Recovery THEN NoJob
                                  ELSE IF InFlight(a) THEN Died(a) ELSE job[a]]
      /\ todo' = {}
      /\ attached' = FALSE
      /\ crashes < MaxCrashes /\ crashes' = crashes + 1
      /\ UNCHANGED <<row, log, late, open, sends, resends>>
      BY DEF Crash
<1>5. ASSUME NEW a \in Actors
      PROVE job'[a] \in Jobs /\ Honest(job'[a], accepted')
  <2>1. CASE a = Recovery
        BY <1>4, <2>1, IdleJob
  <2>2. CASE a # Recovery /\ InFlight(a)
    <3>1. a \in Deliveries  BY <2>2 DEF Actors
    <3>2. job'[a] = Died(a)  BY <1>4, <2>2
    <3> QED  BY <3>1, <3>2, DiedJob
  <2>3. CASE a # Recovery /\ ~InFlight(a)
    <3>1. job'[a] = job[a]  BY <1>4, <2>3
    <3>2. Honest(job[a], accepted)  BY DEF JobsHonest
    <3>3. Honest(job[a], accepted')  BY <2>3, <3>2 DEF Honest, InFlight
    <3> QED  BY <3>1, <3>3, InFlightJob
  <2> QED  BY <2>1, <2>2, <2>3
<1>6. job' \in [Actors -> Jobs] /\ JobsHonest'
      BY <1>4, <1>5 DEF JobsHonest
<1>7. row' \in [Keys -> Rows] /\ RowsHoldText' /\ todo' \subseteq Keys
      BY <1>4, RowsStay
<1>8. HistoryWasAccepted'  BY <1>2, <1>4, HistoryStays
<1>9. crashes' \in 0 .. MaxCrashes
      BY <1>4, LedgerAssumption DEF LedgerTypeOK
<1>10. LedgerTypeOK'  BY <1>3, <1>4, <1>6, <1>7, <1>9 DEF LedgerTypeOK
<1> QED  BY <1>6, <1>7, <1>8, <1>10

LEMMA FrameKeeps ==
  ASSUME LedgerInv, UNCHANGED <<row, job, log, late, accepted>>,
         todo' \subseteq Keys, \A k \in todo' : row[k].status # "none",
         open' \in [Keys -> BOOLEAN], attached' \in BOOLEAN,
         UNCHANGED <<crashes, sends, resends>>
  PROVE LedgerInv'
<1> USE DEF LedgerInv
<1>1. JobsHonest'  BY JobsStay
<1>2. RowsHoldText'  BY DEF RowsHoldText
<1>3. HistoryWasAccepted'  BY DEF HistoryWasAccepted
<1>4. LedgerTypeOK'  BY DEF LedgerTypeOK
<1> QED  BY <1>1, <1>2, <1>3, <1>4

LEMMA InvStep == LedgerInv /\ [LedgerNext]_ledgerVars => LedgerInv'
<1> SUFFICES ASSUME LedgerInv, [LedgerNext]_ledgerVars PROVE LedgerInv'
    OBVIOUS
<1>1. /\ todo \subseteq Keys /\ open \in [Keys -> BOOLEAN] /\ attached \in BOOLEAN
      /\ \A k \in todo : row[k].status # "none"
      BY DEF LedgerInv, LedgerTypeOK, RowsHoldText
<1>2. ASSUME NEW d \in Deliveries, SenderStep(d) PROVE LedgerInv'
      BY <1>2, BeginKeeps, AnswersKeeps, RaisesKeeps, CancelKeeps DEF SenderStep
<1>3. ASSUME NEW a \in Actors, SettleReceipt(a) \/ Project(a) PROVE LedgerInv'
      BY <1>3, SettleKeeps, ProjectKeeps
<1>4. ASSUME NEW k \in Keys, CloseTurn(k) PROVE LedgerInv'
      BY <1>1, <1>4, FrameKeeps DEF CloseTurn
<1>5. ASSUME NEW k \in Keys, RecoverOne(k) PROVE LedgerInv'
      BY <1>5, RecoverKeeps
<1>6. ASSUME NEW keys \in SUBSET Keys, Scan(keys) PROVE LedgerInv'
  <2>1. \A k \in keys : row[k].status # "none"  BY <1>6 DEF Scan, Stale
  <2> QED  BY <1>1, <1>6, <2>1, FrameKeeps DEF Scan
<1>7. CASE ResendEnds  BY <1>7, ResendEndsKeeps
<1>8. CASE Attach  BY <1>1, <1>8, FrameKeeps DEF Attach
<1>9. CASE Crash  BY <1>9, CrashKeeps
<1>10. CASE UNCHANGED ledgerVars
       BY <1>1, <1>10, FrameKeeps DEF ledgerVars
<1> QED
    BY <1>2, <1>3, <1>4, <1>5, <1>6, <1>7, <1>8, <1>9, <1>10 DEF LedgerNext

\* The inductive invariant holds in every reachable state.
THEOREM LedgerInvariant == LedgerSpec => []LedgerInv
<1>1. LedgerInit => LedgerInv  BY InvInit
<1>2. LedgerInv /\ [LedgerNext]_ledgerVars => LedgerInv'  BY InvStep
<1> QED  BY <1>1, <1>2, PTL DEF LedgerSpec

\* The variables of the ledger keep their types (the rows' statuses are the
\* ones settle and prepare admit).
THEOREM LedgerTypeCorrect == LedgerSpec => []LedgerTypeOK
<1>1. LedgerInv => LedgerTypeOK  BY DEF LedgerInv
<1> QED  BY <1>1, LedgerInvariant, PTL

\* No text enters the event log that no transport accepted, whatever fails,
\* is cancelled or is recovered (settle_receipt, _append_accepted_timeline).
THEOREM HistoryIsTrue == LedgerSpec => []HistoryWasAccepted
<1>1. LedgerInv => HistoryWasAccepted  BY DEF LedgerInv
<1> QED  BY <1>1, LedgerInvariant, PTL

-----------------------------------------------------------------------------
(* What a step does to the table: at most one row changes, and it is       *)
(* inserted, settled as sent on an accepted receipt, settled otherwise, or *)
(* keeps its status.  Its text stays.                                      *)

Inserted(k, r) == row[k].status = "none" /\ r.status \in {"prepared", "suppressed"}

AcceptedBy(a, k) ==
  job[a].key = k /\ job[a].pc = "settling" /\ job[a].receipt = "accepted"

Concluded(k, r) ==
  /\ row[k].status = "prepared"
  /\ r.status \in Settlements
  /\ r.content = row[k].content
  /\ r.status = "sent" => \E a \in Actors : AcceptedBy(a, k)

SameStatus(k, r) == r.status = row[k].status /\ r.content = row[k].content

RowStep(k, r) ==
  /\ row' = [row EXCEPT ![k] = r]
  /\ Inserted(k, r) \/ Concluded(k, r) \/ SameStatus(k, r)

LEMMA SettlesRow ==
  ASSUME LedgerInv, NEW k \in Keys, NEW status \in Settlements,
         status = "sent" => \E a \in Actors : AcceptedBy(a, k),
         row' = [row EXCEPT ![k] = Settled(k, status)]
  PROVE RowStep(k, Settled(k, status))
<1>1. CASE row[k].status = "prepared"
  <2>1. /\ Settled(k, status).status = status
        /\ Settled(k, status).content = row[k].content
        BY <1>1, SettledRow DEF LedgerInv
  <2> QED  BY <1>1, <2>1 DEF RowStep, Concluded
<1>2. CASE row[k].status # "prepared"
  <2>1. /\ Settled(k, status).status = row[k].status
        /\ Settled(k, status).content = row[k].content
        BY <1>2, SettledRow DEF LedgerInv
  <2> QED  BY <2>1 DEF RowStep, SameStatus
<1> QED  BY <1>1, <1>2

LEMMA TableStep ==
  ASSUME LedgerInv, [LedgerNext]_ledgerVars
  PROVE row' = row \/ \E k \in Keys : \E r : RowStep(k, r)
<1> USE DEF LedgerInv
<1>1. CASE \E d \in Deliveries : Begin(d)
  <2>1. PICK d \in Deliveries : Begin(d)  BY <1>1
  <2> DEFINE k == KeyOf[d]
             status == IF Suppressed(d) THEN "suppressed" ELSE "prepared"
             record == Prepared(k, status, ContentOf[d])
  <2>2. k \in Keys /\ ContentOf[d] \in Contents  BY LedgerAssumption
  <2>3. status \in {"prepared", "suppressed"}  OBVIOUS
  <2>4. row' = [row EXCEPT ![k] = record]  BY <2>1 DEF Begin
  <2>5. /\ row[k].status # "none" => record = row[k]
        /\ row[k].status = "none" => record.status = status
        BY <2>2, <2>3, PreparedRow
  <2> HIDE DEF k, status, record
  <2>6. RowStep(k, record)
        BY <2>3, <2>4, <2>5 DEF RowStep, Inserted, SameStatus
  <2> QED  BY <2>2, <2>6
<1>2. CASE \E a \in Actors : SettleReceipt(a)
  <2>1. PICK a \in Actors : SettleReceipt(a)  BY <1>2
  <2> DEFINE k == job[a].key
             status == StatusOf(job[a].receipt)
  <2>2. k \in Keys  BY <2>1, InFlightJob DEF SettleReceipt, InFlight
  <2>3. Honest(job[a], accepted)  BY DEF JobsHonest
  <2>4. job[a].receipt \in Receipts \ {"none"}
        BY <2>1, <2>3, InFlightJob DEF SettleReceipt, Honest
  <2>5. status \in Settlements /\ (status = "sent" => AcceptedBy(a, k))
        BY <2>1, <2>4, StatusOfReceipt DEF SettleReceipt, AcceptedBy
  <2>6. row' = [row EXCEPT ![k] = Settled(k, status)]  BY <2>1 DEF SettleReceipt
  <2> HIDE DEF k, status
  <2>7. RowStep(k, Settled(k, status))  BY <2>2, <2>5, <2>6, SettlesRow
  <2> QED  BY <2>2, <2>7
<1>3. CASE \E k \in Keys : RecoverOne(k)
  <2>1. PICK k \in Keys : RecoverOne(k)  BY <1>3
  <2>2. ASSUME NEW status \in {"failed", "unknown"},
               row' = [row EXCEPT ![k] = Settled(k, status)]
        PROVE RowStep(k, Settled(k, status))
        BY <2>2, SettlesRow
  <2>3. CASE RecoverExhausted(k)  BY <2>2, <2>3 DEF RecoverExhausted
  <2>4. CASE RecoverUncertain(k)  BY <2>2, <2>4 DEF RecoverUncertain
  <2>5. CASE ResolverRaises(k)
    <3>1. RowStep(k, Retried(k))
          BY <2>5, RetriedRow DEF ResolverRaises, RowStep, SameStatus
    <3> QED  BY <3>1
  <2>6. CASE ContentLost(k)  BY <2>2, <2>6 DEF ContentLost
  <2>7. CASE Resend(k)  BY <2>7 DEF Resend
  <2> QED  BY <2>1, <2>3, <2>4, <2>5, <2>6, <2>7 DEF RecoverOne
<1>4. CASE ResendRetryable
  <2>1. Recovery \in Actors  BY DEF Actors
  <2>2. job[Recovery].key \in Keys
        BY <1>4, <2>1, InFlightJob DEF ResendRetryable, InFlight
  <2>3. RowStep(job[Recovery].key, Retried(job[Recovery].key))
        BY <1>4, <2>2, RetriedRow DEF ResendRetryable, RowStep, SameStatus
  <2> QED  BY <2>2, <2>3
<1>5. CASE \/ \E d \in Deliveries : TransportAnswers(d) \/ TransportRaises(d)
                                    \/ CancelSend(d)
           \/ \E a \in Actors : Project(a)
           \/ \E k \in Keys : CloseTurn(k)
           \/ \E keys \in SUBSET Keys : Scan(keys)
           \/ ResendAnswers \/ ResendRaises \/ Attach \/ Crash
           \/ UNCHANGED ledgerVars
      BY <1>5 DEF TransportAnswers, TransportRaises, CancelSend, Project,
                  CloseTurn, Scan, ResendAnswers, ResendRaises, Attach, Crash,
                  ledgerVars
<1> QED  BY <1>1, <1>2, <1>3, <1>4, <1>5 DEF LedgerNext, SenderStep, ResendEnds

-----------------------------------------------------------------------------
(* The ledger implements DeliveryOutcome.                                  *)

StatusMap == [k \in Keys |-> row[k].status]

LEMMA OutcomeStep ==
  ASSUME LedgerInv, [LedgerNext]_ledgerVars
  PROVE [Outcome!OutcomeNext]_StatusMap
<1>1. CASE row' = row  BY <1>1 DEF StatusMap
<1>2. CASE \E k \in Keys : \E r : RowStep(k, r)
  <2> PICK k \in Keys : \E r : RowStep(k, r)  BY <1>2
  <2>1. PICK r : RowStep(k, r)  OBVIOUS
  <2>2. row \in [Keys -> Rows]  BY DEF LedgerInv, LedgerTypeOK
  <2>3. \A n \in Keys : row'[n] = IF n = k THEN r ELSE row[n]
        BY <2>1, <2>2 DEF RowStep
  <2>4. StatusMap' = [StatusMap EXCEPT ![k] = r.status]
        BY <2>3 DEF StatusMap
  <2>5. StatusMap[k] = row[k].status  BY DEF StatusMap
  <2>6. CASE Inserted(k, r)
        BY <2>4, <2>5, <2>6
        DEF Inserted, Outcome!OutcomeNext, Outcome!Decide, StatusMap
  <2>7. CASE Concluded(k, r)
        BY <2>4, <2>5, <2>7
        DEF Concluded, Outcome!OutcomeNext, Outcome!Conclude,
            Outcome!Settlements, StatusMap
  <2>8. CASE SameStatus(k, r)
    <3>1. \A n \in Keys : row'[n].status = row[n].status
          BY <2>3, <2>8 DEF SameStatus
    <3> QED  BY <3>1 DEF StatusMap
  <2> QED  BY <2>1, <2>6, <2>7, <2>8 DEF RowStep
<1> QED  BY <1>1, <1>2, TableStep

\* However a slow sender, the recovery worker, retries and crashes interleave,
\* a delivery key is prepared once and its outcome is final: the detailed
\* ledger implements DeliveryOutcome.
THEOREM ImplementsOutcome == LedgerSpec => OutcomeIsFinal
<1>1. LedgerInit => Outcome!OutcomeInit
      BY DEF LedgerInit, Outcome!OutcomeInit, NoRow
<1>2. LedgerInv /\ [LedgerNext]_ledgerVars => [Outcome!OutcomeNext]_StatusMap
      BY OutcomeStep
<1> QED  BY <1>1, <1>2, LedgerInvariant, PTL
         DEF LedgerSpec, OutcomeIsFinal, Outcome!OutcomeSpec, StatusMap

-----------------------------------------------------------------------------
(* If the deliveries of a key carry one text, as the callers see to it,    *)
(* then whoever settles a row as sent has had that text accepted.          *)

SameText == \A d, e \in Deliveries : KeyOf[d] = KeyOf[e] => ContentOf[d] = ContentOf[e]

RowText ==
  \A d \in Deliveries :
    row[KeyOf[d]].status # "none" => row[KeyOf[d]].content = ContentOf[d]

JobText ==
  \A a \in Actors :
    InFlight(a) => /\ row[job[a].key].status # "none"
                   /\ job[a].content = row[job[a].key].content

TextInv == RowText /\ JobText /\ SentWasAccepted

LEMMA TextStays ==
  ASSUME LedgerInv, [LedgerNext]_ledgerVars
  PROVE \A k \in Keys : row[k].status # "none" =>
          row'[k].status # "none" /\ row'[k].content = row[k].content
<1>1. row \in [Keys -> Rows]  BY DEF LedgerInv, LedgerTypeOK
<1>2. ASSUME NEW k \in Keys, NEW r, RowStep(k, r), NEW n \in Keys,
             row[n].status # "none"
      PROVE row'[n].status # "none" /\ row'[n].content = row[n].content
      BY <1>1, <1>2 DEF RowStep, Inserted, Concluded, SameStatus
<1> QED  BY <1>2, TableStep

LEMMA JobStep ==
  ASSUME LedgerInv, [LedgerNext]_ledgerVars, NEW a \in Actors, InFlight(a)'
  PROVE \/ InFlight(a) /\ job'[a].key = job[a].key /\ job'[a].content = job[a].content
        \/ a \in Deliveries /\ Begin(a)
        \/ a = Recovery /\ \E k \in Keys : Resend(k)
<1>1. job \in [Actors -> Jobs]  BY DEF LedgerInv, LedgerTypeOK
<1>2. Recovery \in Actors /\ Deliveries \subseteq Actors  BY DEF Actors
<1>3. CASE UNCHANGED job  BY <1>3 DEF InFlight
<1>4. ASSUME NEW d \in Deliveries, SenderStep(d)
      PROVE \/ InFlight(a) /\ job'[a].key = job[a].key /\ job'[a].content = job[a].content
            \/ a \in Deliveries /\ Begin(a)
  <2>1. CASE Begin(d)
        BY <1>1, <1>2, <2>1 DEF Begin, InFlight
  <2>2. CASE TransportAnswers(d)
        BY <1>1, <1>2, <2>2 DEF TransportAnswers, Received, InFlight
  <2>3. CASE TransportRaises(d)
    <3>1. job'[d].content = job[d].content  BY <1>1, <1>2, <2>3 DEF TransportRaises, Died
    <3>2. CASE Kind[job[d].key] = "ambient"
          BY <1>1, <1>2, <2>3, <3>2 DEF TransportRaises, Died, InFlight
    <3>3. CASE Kind[job[d].key] # "ambient"
          BY <1>1, <1>2, <2>3, <3>3 DEF TransportRaises, InFlight
    <3> QED  BY <3>2, <3>3
  <2>4. CASE CancelSend(d)
        BY <1>1, <1>2, <2>4 DEF CancelSend, Died, InFlight
  <2> QED  BY <1>4, <2>1, <2>2, <2>3, <2>4 DEF SenderStep
<1>5. CASE \E b \in Actors : SettleReceipt(b) \/ Project(b)
  <2>1. PICK b \in Actors : SettleReceipt(b) \/ Project(b)  BY <1>5
  <2>2. InFlight(b)  BY <2>1 DEF SettleReceipt, Project, InFlight
  <2>3. \/ job' = [job EXCEPT ![b] = Moved(b, "projecting")]
        \/ job' = [job EXCEPT ![b] = After(b)]
        BY <2>1 DEF SettleReceipt, Project
  <2>4. CASE a = b
    <3>1. job'[a] \in {Moved(a, "projecting"), Moved(a, "done"), NoJob}
          BY <1>1, <2>3, <2>4 DEF After
    <3>2. job'[a] = Moved(a, "projecting")
          BY <3>1 DEF InFlight, Moved, NoJob
    <3> QED  BY <2>2, <2>4, <3>2 DEF Moved
  <2>5. CASE a # b
    <3>1. job'[a] = job[a]  BY <1>1, <2>3, <2>5
    <3> QED  BY <3>1 DEF InFlight
  <2> QED  BY <2>4, <2>5
<1>6. CASE \E k \in Keys : Resend(k)
  <2>1. PICK k \in Keys : Resend(k)  BY <1>6
  <2>2. a # Recovery => job'[a] = job[a]  BY <1>1, <2>1 DEF Resend
  <2> QED  BY <1>2, <2>1, <2>2 DEF InFlight
<1>7. CASE ResendEnds
  <2>1. a # Recovery => job'[a] = job[a]
        BY <1>1, <1>2, <1>7
        DEF ResendEnds, ResendAnswers, Received, ResendRetryable, ResendRaises
  <2>2. CASE ResendAnswers
        BY <1>1, <1>2, <2>1, <2>2 DEF ResendAnswers, Received, InFlight
  <2>3. CASE ResendRetryable
        BY <1>1, <1>2, <2>1, <2>3 DEF ResendRetryable, NoJob, InFlight
  <2>4. CASE ResendRaises
        BY <1>1, <1>2, <2>1, <2>4 DEF ResendRaises, InFlight
  <2> QED  BY <1>7, <2>2, <2>3, <2>4 DEF ResendEnds
<1>8. CASE Crash
  <2>1. job'[a] = IF a = Recovery THEN NoJob
                  ELSE IF InFlight(a) THEN Died(a) ELSE job[a]
        BY <1>8 DEF Crash
  <2>2. job'[a].pc = "idle" \/ job'[a].pc = "dead" \/ job'[a] = job[a]
        BY <2>1 DEF NoJob, Died
  <2> QED  BY <2>2 DEF InFlight
<1>9. CASE \/ \E k \in Keys : \/ CloseTurn(k) \/ RecoverExhausted(k)
                               \/ RecoverUncertain(k) \/ ResolverRaises(k)
                               \/ ContentLost(k)
           \/ \E keys \in SUBSET Keys : Scan(keys)
           \/ Attach \/ UNCHANGED ledgerVars
      BY <1>3, <1>9 DEF CloseTurn, RecoverExhausted, RecoverUncertain,
                        ResolverRaises, ContentLost, Scan, Attach, ledgerVars
<1> QED
    BY <1>4, <1>5, <1>6, <1>7, <1>8, <1>9 DEF LedgerNext, RecoverOne

\* Only prepare inserts a row.
LEMMA OnlyBeginInserts ==
  ASSUME LedgerInv, [LedgerNext]_ledgerVars, NEW k \in Keys,
         row[k].status = "none", row'[k].status # "none"
  PROVE \E d \in Deliveries : Begin(d)
<1>1. row \in [Keys -> Rows]  BY DEF LedgerInv, LedgerTypeOK
<1>2. ASSUME NEW n \in Keys, NEW status,
             row' = [row EXCEPT ![n] = Settled(n, status)]
      PROVE row'[k].status = "none"
      BY <1>1, <1>2 DEF Settled
<1>3. ASSUME NEW n \in Keys, row' = [row EXCEPT ![n] = Retried(n)]
      PROVE row'[k].status = "none"
      BY <1>1, <1>3 DEF Retried
<1>4. ASSUME NEW a \in Actors, SettleReceipt(a) PROVE FALSE
  <2>1. job[a].key \in Keys  BY <1>4, InFlightJob DEF SettleReceipt, InFlight
  <2>2. row' = [row EXCEPT ![job[a].key] =
                  Settled(job[a].key, StatusOf(job[a].receipt))]
        BY <1>4 DEF SettleReceipt
  <2> QED  BY <1>2, <2>1, <2>2
<1>5. ASSUME NEW n \in Keys, RecoverOne(n) PROVE FALSE
      BY <1>2, <1>3, <1>5 DEF RecoverOne, RecoverExhausted, RecoverUncertain,
                              ResolverRaises, ContentLost, Resend
<1>6. ASSUME ResendRetryable PROVE FALSE
  <2>1. Recovery \in Actors  BY DEF Actors
  <2>2. job[Recovery].key \in Keys
        BY <1>6, <2>1, InFlightJob DEF ResendRetryable, InFlight
  <2> QED  BY <1>3, <1>6, <2>2 DEF ResendRetryable
<1>7. row' # row  OBVIOUS
<1> QED  BY <1>4, <1>5, <1>6, <1>7
         DEF LedgerNext, SenderStep, ResendEnds, TransportAnswers,
             TransportRaises, CancelSend, Project, CloseTurn, Scan,
             ResendAnswers, ResendRaises, Attach, Crash, ledgerVars

\* What the transport accepted stays accepted.
LEMMA AcceptedStays ==
  ASSUME LedgerInv, [LedgerNext]_ledgerVars
  PROVE \A k \in Keys : accepted[k] \subseteq accepted'[k]
<1>1. accepted \in [Keys -> SUBSET Contents]  BY DEF LedgerInv, LedgerTypeOK
<1>2. ASSUME NEW a \in Actors, NEW r, NEW p, Received(a, r, p), NEW k \in Keys
      PROVE accepted[k] \subseteq accepted'[k]
      BY <1>1, <1>2 DEF Received
<1>3. ASSUME NEW n, NEW S, accepted' = [accepted EXCEPT ![n] = @ \cup S],
             NEW k \in Keys
      PROVE accepted[k] \subseteq accepted'[k]
      BY <1>1, <1>3
<1>4. ASSUME NEW d \in Deliveries, SenderStep(d)
      PROVE \A k \in Keys : accepted[k] \subseteq accepted'[k]
  <2>1. d \in Actors  BY DEF Actors
  <2>2. CASE Begin(d)  BY <2>2 DEF Begin
  <2>3. CASE TransportAnswers(d)
        BY <1>2, <2>1, <2>3 DEF TransportAnswers
  <2>4. CASE TransportRaises(d)  BY <1>3, <2>4 DEF TransportRaises
  <2>5. CASE CancelSend(d)
    <3>1. PICK got : accepted' = [accepted EXCEPT ![KeyOf[d]] =
                       IF job[d].pc = "sending" THEN @ \cup got ELSE @]
          BY <2>5 DEF CancelSend
    <3> QED  BY <1>1, <3>1
  <2> QED  BY <1>4, <2>2, <2>3, <2>4, <2>5 DEF SenderStep
<1>5. CASE ResendEnds
  <2>1. Recovery \in Actors  BY DEF Actors
  <2>2. CASE ResendAnswers  BY <1>2, <2>1, <2>2 DEF ResendAnswers
  <2>3. CASE ResendRetryable  BY <2>3 DEF ResendRetryable
  <2>4. CASE ResendRaises  BY <1>3, <2>4 DEF ResendRaises
  <2> QED  BY <1>5, <2>2, <2>3, <2>4 DEF ResendEnds
<1>6. CASE Crash
  <2>1. PICK arrived : accepted' = [k \in Keys |-> accepted[k] \cup
          {job[a].content : a \in {b \in arrived : job[b].key = k}}]
        BY <1>6 DEF Crash
  <2> QED  BY <2>1
<1>7. CASE UNCHANGED accepted  BY <1>7
<1>8. ASSUME NEW k \in Keys, RecoverOne(k) PROVE UNCHANGED accepted
      BY <1>8 DEF RecoverOne, RecoverExhausted, RecoverUncertain,
                  ResolverRaises, ContentLost, Resend
<1>9. ASSUME NEW a \in Actors, SettleReceipt(a) \/ Project(a) PROVE UNCHANGED accepted
      BY <1>9 DEF SettleReceipt, Project
<1>10. ASSUME NEW k \in Keys, CloseTurn(k) PROVE UNCHANGED accepted
       BY <1>10 DEF CloseTurn
<1> QED  BY <1>4, <1>5, <1>6, <1>7, <1>8, <1>9, <1>10
         DEF LedgerNext, Scan, Attach, ledgerVars

LEMMA BegunJob ==
  ASSUME LedgerInv, NEW d \in Deliveries, Begin(d)
  PROVE /\ job'[d].key = KeyOf[d]
        /\ job'[d].content = ContentOf[d]
        /\ row'[KeyOf[d]] = Prepared(KeyOf[d],
             IF Suppressed(d) THEN "suppressed" ELSE "prepared", ContentOf[d])
        /\ row'[KeyOf[d]].status # "none"
        /\ row[KeyOf[d]].status = "none" => row'[KeyOf[d]].content = ContentOf[d]
        /\ \A k \in Keys : k # KeyOf[d] => row'[k] = row[k]
<1> DEFINE status == IF Suppressed(d) THEN "suppressed" ELSE "prepared"
<1>1. job \in [Actors -> Jobs] /\ row \in [Keys -> Rows]
      BY DEF LedgerInv, LedgerTypeOK
<1>2. d \in Actors /\ KeyOf[d] \in Keys /\ ContentOf[d] \in Contents
      BY LedgerAssumption DEF Actors
<1>3. job'[d].key = KeyOf[d] /\ job'[d].content = ContentOf[d]
      BY <1>1, <1>2 DEF Begin
<1>4. row' = [row EXCEPT ![KeyOf[d]] = Prepared(KeyOf[d], status, ContentOf[d])]
      BY DEF Begin
<1>5. status \in {"prepared", "suppressed"}  OBVIOUS
<1> HIDE DEF status
<1>6. /\ Prepared(KeyOf[d], status, ContentOf[d]).status # "none"
      /\ row[KeyOf[d]].status = "none"
           => Prepared(KeyOf[d], status, ContentOf[d]).content = ContentOf[d]
      BY <1>2, <1>5, PreparedRow DEF LedgerInv
<1>7. /\ row'[KeyOf[d]] = Prepared(KeyOf[d], status, ContentOf[d])
      /\ \A k \in Keys : k # KeyOf[d] => row'[k] = row[k]
      BY <1>1, <1>2, <1>4
<1> QED  BY <1>3, <1>6, <1>7 DEF status

LEMMA TextStep ==
  ASSUME SameText, LedgerInv, LedgerInv', TextInv, [LedgerNext]_ledgerVars
  PROVE TextInv'
<1>1. \A k \in Keys : row[k].status # "none" =>
        row'[k].status # "none" /\ row'[k].content = row[k].content
      BY TextStays
<1>2. ASSUME NEW d \in Deliveries, row'[KeyOf[d]].status # "none"
      PROVE row'[KeyOf[d]].content = ContentOf[d]
  <2>1. KeyOf[d] \in Keys  BY LedgerAssumption
  <2>2. CASE row[KeyOf[d]].status # "none"
        BY <1>1, <2>1, <2>2 DEF TextInv, RowText
  <2>3. CASE row[KeyOf[d]].status = "none"
    <3>1. row'[KeyOf[d]] # row[KeyOf[d]]  BY <1>2, <2>3
    <3>2. PICK e \in Deliveries : Begin(e) /\ KeyOf[e] = KeyOf[d]
      <4>1. \E e \in Deliveries : Begin(e)
            BY <1>2, <2>1, <2>3, OnlyBeginInserts
      <4> QED  BY <2>1, <3>1, <4>1, BegunJob
    <3>3. row'[KeyOf[d]].content = ContentOf[e]  BY <2>3, <3>2, BegunJob
    <3> QED  BY <3>2, <3>3 DEF SameText
  <2> QED  BY <2>2, <2>3
<1>3. ASSUME NEW a \in Actors, InFlight(a)'
      PROVE /\ row'[job'[a].key].status # "none"
            /\ job'[a].content = row'[job'[a].key].content
  <2>1. CASE /\ InFlight(a)
             /\ job'[a].key = job[a].key
             /\ job'[a].content = job[a].content
    <3>1. job[a].key \in Keys  BY <2>1, InFlightJob
    <3> QED  BY <1>1, <2>1, <3>1 DEF TextInv, JobText
  <2>2. CASE a \in Deliveries /\ Begin(a)
    <3>1. /\ job'[a].key = KeyOf[a]
          /\ job'[a].content = ContentOf[a]
          /\ row'[KeyOf[a]].status # "none"
          BY <2>2, BegunJob
    <3> QED  BY <1>2, <2>2, <3>1
  <2>3. CASE a = Recovery /\ \E k \in Keys : Resend(k)
    <3>1. PICK k \in Keys : Resend(k)  BY <2>3
    <3>2. job \in [Actors -> Jobs]  BY DEF LedgerInv, LedgerTypeOK
    <3>3. job'[a].key = k /\ job'[a].content = row[k].content /\ row' = row
          BY <2>3, <3>1, <3>2 DEF Resend
    <3>4. row[k].status # "none"  BY <3>1, TreatedRow DEF Resend, Treating
    <3> QED  BY <3>3, <3>4
  <2> QED  BY <1>3, <2>1, <2>2, <2>3, JobStep
<1>4. ASSUME NEW k \in Keys, row'[k].status = "sent"
      PROVE row'[k].content \in accepted'[k]
  <2>1. accepted[k] \subseteq accepted'[k]  BY AcceptedStays
  <2>2. row \in [Keys -> Rows]  BY DEF LedgerInv, LedgerTypeOK
  <2>3. CASE row[k].status = "sent"
        BY <1>1, <2>1, <2>3 DEF TextInv, SentWasAccepted
  <2>4. CASE row[k].status # "sent"
    <3> PICK n \in Keys : \E r : RowStep(n, r)
          BY <1>4, <2>4, TableStep
    <3>1. PICK r : RowStep(n, r)  OBVIOUS
    <3>2. n = k /\ row'[k] = r
          BY <1>4, <2>2, <2>4, <3>1 DEF RowStep
    <3>3. Concluded(k, r) /\ r.status = "sent"
          BY <1>4, <2>4, <3>1, <3>2 DEF RowStep, Inserted, SameStatus
    <3>4. PICK a \in Actors : AcceptedBy(a, k)
          BY <3>3 DEF Concluded
    <3>5. job[a].content \in accepted[k]
          BY <3>4 DEF LedgerInv, JobsHonest, Honest, AcceptedBy
    <3>6. job[a].content = row[k].content
          BY <3>4 DEF TextInv, JobText, AcceptedBy, InFlight
    <3>7. row'[k].content = row[k].content
          BY <3>2, <3>3 DEF Concluded
    <3> QED  BY <2>1, <3>5, <3>6, <3>7
  <2> QED  BY <2>3, <2>4
<1>5. RowText'  BY <1>2 DEF RowText
<1>6. JobText'  BY <1>3 DEF JobText
<1>7. SentWasAccepted'  BY <1>4 DEF SentWasAccepted
<1> QED  BY <1>5, <1>6, <1>7 DEF TextInv

\* If the deliveries of a key carry one text, a row that says sent holds a
\* text the transport accepted, whichever of a slow sender and the recovery
\* worker settled it.
THEOREM SentIsTrue == SameText => (LedgerSpec => []SentWasAccepted)
<1> SUFFICES ASSUME SameText PROVE LedgerSpec => []SentWasAccepted
    OBVIOUS
<1>1. LedgerInit => TextInv
  <2> SUFFICES ASSUME LedgerInit PROVE TextInv  OBVIOUS
  <2>1. \A k \in Keys : row[k].status = "none"  BY DEF LedgerInit, NoRow
  <2>2. \A a \in Actors : ~InFlight(a)  BY DEF LedgerInit, NoJob, InFlight
  <2> QED  BY <2>1, <2>2, LedgerAssumption
           DEF TextInv, RowText, JobText, SentWasAccepted
<1>2. LedgerInv /\ LedgerInv' /\ TextInv /\ [LedgerNext]_ledgerVars => TextInv'
      BY TextStep
<1>3. TextInv => SentWasAccepted  BY DEF TextInv
<1> QED  BY <1>1, <1>2, <1>3, LedgerInvariant, PTL DEF LedgerSpec

-----------------------------------------------------------------------------
(* How often a text is sent.  The attempts that a row counts pay for the   *)
(* worker's calls, except for the call under way and those a crash cut off.*)

Resending(k) == job[Recovery].pc \in {"sending", "settling"} /\ job[Recovery].key = k

CallsPaid(k) ==
  /\ resends[k] < MaxAttempts + crashes
  /\ row[k].status = "none" => resends[k] <= crashes
  /\ (row[k].status = "prepared" \/ k \in todo) /\ ~Resending(k)
       => resends[k] < row[k].attempts + crashes
  /\ Resending(k) => /\ k \notin todo /\ row[k].status # "none"
                     /\ row[k].attempts < MaxAttempts
                     /\ resends[k] <= row[k].attempts + crashes

\* A delivery that was begun is of the key it was given.
JobsOwn ==
  \A d \in Deliveries : job[d].pc # "idle" => job[d].key = KeyOf[d]

\* A row that is still prepared has a sender that has begun: it is under way, or dead.
SentOnce(k) ==
  Kind[k] = "ambient" =>
    /\ sends[k] <= 1
    /\ row[k].status = "none" => sends[k] = 0
    /\ row[k].status = "prepared" =>
         \E d \in Deliveries :
           KeyOf[d] = k /\ job[d].pc \in {"sending", "settling", "dead"}

SendsInv ==
  /\ JobsOwn
  /\ \A k \in Keys : CallsPaid(k)
  /\ ~AllowRetry => \A k \in Keys : SentOnce(k)

LEMMA LedgerFacts ==
  ASSUME LedgerInv
  PROVE  /\ Recovery \in Actors /\ Recovery \notin Deliveries
         /\ \A d \in Deliveries : d \in Actors /\ KeyOf[d] \in Keys /\ ContentOf[d] \in Contents
         /\ job \in [Actors -> Jobs] /\ row \in [Keys -> Rows]
         /\ sends \in [Keys -> Nat] /\ resends \in [Keys -> Nat]
         /\ crashes \in Nat /\ MaxAttempts \in Nat
         /\ \A k \in Keys : row[k].attempts \in Nat
<1>1. crashes \in Nat BY LedgerAssumption DEF LedgerInv, LedgerTypeOK
<1>2. row \in [Keys -> Rows] BY DEF LedgerInv, LedgerTypeOK
<1>3. \A k \in Keys : row[k].attempts \in Nat BY <1>2 DEF Rows
<1> QED BY <1>1, <1>2, <1>3, LedgerAssumption DEF LedgerInv, LedgerTypeOK, Actors

LEMMA SendsInvInit == LedgerInit => SendsInv
<1> SUFFICES ASSUME LedgerInit PROVE SendsInv OBVIOUS
<1>1. \A k \in Keys : row[k].status = "none" /\ sends[k] = 0 /\ resends[k] = 0
  BY DEF LedgerInit, NoRow
<1>2. \A a \in Actors : job[a].pc = "idle" BY DEF LedgerInit, NoJob
<1>3. crashes = 0 /\ todo = {} BY DEF LedgerInit
<1>4. \A d \in Deliveries : job[d].pc = "idle" BY <1>2 DEF Actors
<1>5. job[Recovery].pc = "idle" BY <1>2 DEF Actors
<1>6. \A k \in Keys : CallsPaid(k)
  BY <1>1, <1>3, <1>5, LedgerAssumption DEF CallsPaid, Resending
<1>7. \A k \in Keys : SentOnce(k) BY <1>1 DEF SentOnce
<1> QED BY <1>4, <1>6, <1>7 DEF SendsInv, JobsOwn

\* A step that changes the jobs of senders only.
LEMMA SenderPaid ==
  ASSUME SendsInv, LedgerInv, NEW d \in Deliveries, NEW j,
         job' = [job EXCEPT ![d] = j], j.key = KeyOf[d],
         job[d].pc # "idle" => j.pc # "idle" /\ job[d].pc # "done",
         job[d].pc \in {"sending", "settling", "dead"}
           => j.pc \in {"sending", "settling", "dead"},
         UNCHANGED <<row, todo, crashes, sends, resends>>
  PROVE  SendsInv'
<1>0. /\ Recovery # d /\ \A e \in Deliveries : e \in Actors
      /\ job \in [Actors -> Jobs] /\ Recovery \in Actors
  BY LedgerFacts
<1>1. job'[Recovery] = job[Recovery] BY <1>0
<1>2. \A e \in Deliveries : job'[e] = IF e = d THEN j ELSE job[e] BY <1>0
<1>3. \A k \in Keys : CallsPaid(k)' BY <1>1 DEF SendsInv, CallsPaid, Resending
<1>4. JobsOwn' BY <1>2 DEF SendsInv, JobsOwn
<1>5. ASSUME ~AllowRetry, NEW k \in Keys PROVE SentOnce(k)'
  BY <1>2, <1>5 DEF SendsInv, SentOnce
<1> QED BY <1>3, <1>4, <1>5 DEF SendsInv

LEMMA SendersPaid ==
  ASSUME SendsInv, LedgerInv, NEW d \in Deliveries,
         TransportAnswers(d) \/ TransportRaises(d) \/ CancelSend(d)
  PROVE  SendsInv'
<1>0. d \in Actors /\ InFlight(d) /\ job[d].key = KeyOf[d]
  BY LedgerFacts DEF TransportAnswers, TransportRaises, CancelSend, InFlight,
                     SendsInv, JobsOwn
<1>1. CASE TransportAnswers(d)
  <2>1. PICK r, p : Received(d, r, p) BY <1>1 DEF TransportAnswers
  <2> DEFINE j == [pc |-> "settling", key |-> job[d].key, content |-> job[d].content,
                   record |-> job[d].record, receipt |-> r, project |-> p]
  <2>2. job' = [job EXCEPT ![d] = j] BY <2>1 DEF Received
  <2>3. /\ j.key = KeyOf[d] /\ j.pc = "settling" /\ job[d].pc = "sending"
        /\ UNCHANGED <<row, todo, crashes, sends, resends>>
    BY <1>0, <1>1 DEF TransportAnswers
  <2> HIDE DEF j
  <2> QED BY <2>2, <2>3, SenderPaid
<1>2. CASE TransportRaises(d)
  <2> DEFINE j == IF Kind[job[d].key] = "ambient" THEN Died(d)
                  ELSE [pc |-> "settling", key |-> job[d].key,
                        content |-> job[d].content, record |-> job[d].record,
                        receipt |-> "retryable", project |-> FALSE]
  <2>1. job' = [job EXCEPT ![d] = j] BY <1>2 DEF TransportRaises
  <2>2. /\ j.key = KeyOf[d] /\ j.pc \in {"settling", "dead"} /\ job[d].pc = "sending"
        /\ UNCHANGED <<row, todo, crashes, sends, resends>>
    BY <1>0, <1>2 DEF TransportRaises, Died
  <2> HIDE DEF j
  <2> QED BY <2>1, <2>2, SenderPaid
<1>3. CASE CancelSend(d)
  <2>1. job' = [job EXCEPT ![d] = Died(d)] BY <1>3 DEF CancelSend
  <2>2. Died(d).key = KeyOf[d] /\ Died(d).pc = "dead" BY <1>0 DEF Died
  <2>3. job[d].pc # "done" /\ UNCHANGED <<row, todo, crashes, sends, resends>>
    BY <1>0, <1>3 DEF CancelSend, InFlight
  <2> QED BY <2>1, <2>2, <2>3, SenderPaid
<1> QED BY <1>1, <1>2, <1>3

LEMMA BeginPaid ==
  ASSUME SendsInv, LedgerInv, NEW d \in Deliveries, Begin(d)
  PROVE  SendsInv'
<1> DEFINE n == KeyOf[d]
           status == IF Suppressed(d) THEN "suppressed" ELSE "prepared"
           record == Prepared(n, status, ContentOf[d])
           starts == Sends(d, record)
<1>0. /\ d \in Actors /\ n \in Keys /\ Recovery # d /\ Recovery \in Actors
      /\ \A e \in Deliveries : e \in Actors
      /\ job \in [Actors -> Jobs] /\ row \in [Keys -> Rows]
      /\ sends \in [Keys -> Nat] /\ resends \in [Keys -> Nat]
      /\ crashes \in Nat /\ MaxAttempts \in Nat /\ \A k \in Keys : row[k].attempts \in Nat
  BY LedgerFacts
<1>1. /\ row' = [row EXCEPT ![n] = record] /\ job[d].pc = "idle" /\ TurnFree(d)
      /\ sends' = [sends EXCEPT ![n] = @ + IF starts THEN 1 ELSE 0]
      /\ UNCHANGED <<todo, crashes, resends>>
  BY DEF Begin
<1>2. /\ job'[d].pc = IF starts THEN "sending" ELSE "done"
      /\ job'[d].key = n
      /\ \A a \in Actors : a # d => job'[a] = job[a]
  BY <1>0 DEF Begin
<1>3. /\ row[n].status # "none" => record = row[n]
      /\ row[n].status = "none" => record.attempts = 1
                                   /\ record.status \in {"prepared", "suppressed"}
                                   /\ (record.status = "prepared" => ~Suppressed(d))
  BY DEF Prepared
<1> HIDE DEF record, status
<1>4. ASSUME NEW k \in Keys PROVE CallsPaid(k)'
  <2>1. CallsPaid(k) BY DEF SendsInv
  <2>2. Resending(k)' <=> Resending(k) BY <1>0, <1>2 DEF Resending
  <2>3. row'[k] = IF k = n THEN record ELSE row[k] BY <1>0, <1>1
  <2>4. todo' = todo /\ crashes' = crashes /\ resends' = resends BY <1>1
  <2>5. CASE row'[k] = row[k] BY <2>1, <2>2, <2>4, <2>5 DEF CallsPaid
  <2>6. CASE row'[k] # row[k]
    <3>1. k = n /\ row[k].status = "none" /\ row'[k].attempts = 1
          /\ row'[k].status \in {"prepared", "suppressed"}
      BY <1>3, <2>3, <2>6
    <3>2. k \notin todo BY <3>1 DEF LedgerInv, RowsHoldText
    <3>3. ~Resending(k) BY <2>1, <3>1 DEF CallsPaid
    <3> QED BY <1>0, <2>1, <2>2, <2>4, <3>1, <3>2, <3>3 DEF CallsPaid
  <2> QED BY <2>5, <2>6
<1>5. JobsOwn' BY <1>0, <1>2 DEF SendsInv, JobsOwn
<1>6. ASSUME ~AllowRetry, NEW k \in Keys PROVE SentOnce(k)'
  <2>1. SentOnce(k) BY <1>6 DEF SendsInv
  <2>2. ASSUME Kind[k] = "ambient", k = n
        PROVE  /\ sends'[k] <= 1
               /\ row'[k].status # "none"
               /\ row'[k].status = "prepared" =>
                    \E e \in Deliveries :
                      KeyOf[e] = k /\ job'[e].pc \in {"sending", "settling", "dead"}
    <3>1. row'[k] = record /\ sends'[k] = sends[k] + IF starts THEN 1 ELSE 0
      BY <1>0, <1>1, <2>2
    <3>2. starts <=> ~Suppressed(d) /\ record.status = "prepared"
      BY <2>2 DEF Sends
    <3>3. CASE row[k].status = "none"
      <4>1. sends[k] = 0 BY <2>1, <2>2, <3>3 DEF SentOnce
      <4>2. row'[k].status = "prepared" => job'[d].pc = "sending"
        BY <1>2, <1>3, <2>2, <3>1, <3>2, <3>3
      <4> QED BY <1>3, <2>2, <3>1, <3>3, <4>1, <4>2
    <3>4. CASE row[k].status # "none"
      <4>1. row'[k] = row[k] BY <1>3, <2>2, <3>1, <3>4
      <4>2. row[k].status # "prepared"
        <5>1. SUFFICES ASSUME row[k].status = "prepared" PROVE FALSE OBVIOUS
        <5>2. PICK e \in Deliveries :
                KeyOf[e] = k /\ job[e].pc \in {"sending", "settling", "dead"}
          BY <2>1, <2>2, <5>1 DEF SentOnce
        <5>3. e # d /\ e \in Siblings(d) BY <1>1, <2>2, <5>2 DEF Siblings
        <5> QED BY <1>1, <2>2, <5>2, <5>3 DEF TurnFree
      <4>3. ~starts BY <3>1, <3>2, <4>1, <4>2
      <4> QED BY <1>0, <2>1, <2>2, <3>1, <3>4, <4>1, <4>2, <4>3 DEF SentOnce
    <3> QED BY <3>3, <3>4
  <2>3. CASE k # n
    <3>1. row'[k] = row[k] /\ sends'[k] = sends[k] BY <1>0, <1>1, <2>3
    <3>2. \A e \in Deliveries : KeyOf[e] = k => job'[e] = job[e]
      BY <1>0, <1>2, <2>3
    <3> QED BY <2>1, <3>1, <3>2 DEF SentOnce
  <2> QED BY <2>2, <2>3 DEF SentOnce
<1> QED BY <1>4, <1>5, <1>6 DEF SendsInv

\* A row is settled by the sender of a job or by the worker; the attempts stay.
LEMMA RowPaid ==
  ASSUME SendsInv, LedgerInv, NEW n \in Keys, NEW r,
         row' = [row EXCEPT ![n] = r],
         r = row[n] \/ (row[n].status = "prepared" /\ r.status \notin {"none", "prepared"}
                        /\ r.attempts = row[n].attempts),
         todo' \subseteq todo, UNCHANGED <<crashes, sends, resends>>,
         NEW a \in Actors, NEW j, job' = [job EXCEPT ![a] = j],
         a = Recovery => /\ j.pc \in {"sending", "settling"} => j = job[a]
                         /\ \A k \in Keys :
                              Resending(k) /\ j # job[a] =>
                                k = n /\ (r = row[n] => row[n].status # "prepared"),
         a \in Deliveries =>
           /\ j.pc # "idle" => j.key = KeyOf[a]
           /\ \/ j.pc = job[a].pc
              \/ job[a].pc \in {"projecting", "done"} /\ j.pc # "idle"
              \/ KeyOf[a] = n /\ r.status # "prepared"
  PROVE  SendsInv'
<1>0. /\ Recovery \in Actors /\ Recovery \notin Deliveries
      /\ \A e \in Deliveries : e \in Actors
      /\ job \in [Actors -> Jobs] /\ row \in [Keys -> Rows]
      /\ sends \in [Keys -> Nat] /\ resends \in [Keys -> Nat]
      /\ crashes \in Nat /\ MaxAttempts \in Nat /\ \A k \in Keys : row[k].attempts \in Nat
  BY LedgerFacts
<1>1. \A b \in Actors : job'[b] = IF b = a THEN j ELSE job[b] BY <1>0
<1>2. \A k \in Keys : row'[k] = IF k = n THEN r ELSE row[k] BY <1>0
<1>3. ASSUME NEW k \in Keys PROVE CallsPaid(k)'
  <2>1. CallsPaid(k) BY DEF SendsInv
  <2>2. row'[k].attempts = row[k].attempts BY <1>2
  <2>3. row'[k].status = "prepared" => row[k].status = "prepared" BY <1>2
  <2>4. row'[k].status = "none" => row[k].status = "none" BY <1>2
  <2>5. Resending(k)' => Resending(k) BY <1>0, <1>1 DEF Resending
  <2>6. CASE Resending(k)' <=> Resending(k)
    BY <1>0, <2>1, <2>2, <2>3, <2>4, <2>6 DEF CallsPaid
  <2>7. CASE Resending(k) /\ ~Resending(k)'
    <3>1. a = Recovery /\ j # job[a] BY <1>0, <1>1, <2>7 DEF Resending
    <3>2. k = n /\ row'[k].status # "prepared" BY <1>2, <2>7, <3>1
    <3>3. k \notin todo' BY <2>1, <2>7 DEF CallsPaid
    <3> QED BY <1>0, <2>1, <2>2, <2>4, <2>7, <3>2, <3>3 DEF CallsPaid
  <2> QED BY <2>5, <2>6, <2>7
<1>4. JobsOwn' BY <1>0, <1>1 DEF SendsInv, JobsOwn
<1>5. ASSUME ~AllowRetry, NEW k \in Keys PROVE SentOnce(k)'
  <2>1. SentOnce(k) BY <1>5 DEF SendsInv
  <2>2. row'[k].status = "none" => row[k].status = "none" BY <1>2
  <2>3. ASSUME Kind[k] = "ambient", row'[k].status = "prepared"
        PROVE  \E d \in Deliveries :
                 KeyOf[d] = k /\ job'[d].pc \in {"sending", "settling", "dead"}
    <3>1. row[k].status = "prepared" BY <1>2, <2>3
    <3>2. PICK d \in Deliveries :
            KeyOf[d] = k /\ job[d].pc \in {"sending", "settling", "dead"}
      BY <2>1, <2>3, <3>1 DEF SentOnce
    <3>3. d = a => job'[d].pc = job[d].pc BY <1>0, <1>1, <1>2, <2>3, <3>2
    <3> QED BY <1>0, <1>1, <3>2, <3>3
  <2> QED BY <2>1, <2>2, <2>3 DEF SentOnce
<1> QED BY <1>3, <1>4, <1>5 DEF SendsInv

LEMMA SettlesPaid ==
  ASSUME SendsInv, LedgerInv, NEW a \in Actors, SettleReceipt(a) \/ Project(a)
  PROVE  SendsInv'
<1> DEFINE k == job[a].key
<1>1. /\ k \in Keys /\ InFlight(a) /\ job[a].receipt \in Receipts
      /\ job[a].pc = "settling" => job[a].receipt # "none"
  BY InFlightJob DEF SettleReceipt, Project, InFlight, LedgerInv, JobsHonest, Honest
<1>2. row \in [Keys -> Rows] /\ Recovery \notin Deliveries /\ job \in [Actors -> Jobs]
  BY LedgerFacts
<1>3. a \in Deliveries => k = KeyOf[a]
  BY <1>1 DEF SendsInv, JobsOwn, InFlight
<1>4. UNCHANGED <<todo, crashes, sends, resends>> BY DEF SettleReceipt, Project
<1>5. CASE SettleReceipt(a)
  <2> DEFINE s == StatusOf(job[a].receipt)
             r == Settled(k, s)
             j == IF job[a].project THEN Moved(a, "projecting") ELSE After(a)
  <2>1. row' = [row EXCEPT ![k] = r] /\ job' = [job EXCEPT ![a] = j] /\ job[a].pc = "settling"
    BY <1>5 DEF SettleReceipt
  <2>2. s \in Settlements BY <1>1, <2>1, StatusOfReceipt
  <2>3. /\ r.attempts = row[k].attempts
        /\ row[k].status = "prepared" => r.status = s
        /\ row[k].status # "prepared" => r = row[k]
    BY <1>1, <2>2, SettledRow DEF LedgerInv, Settled
  <2>4. r.status # "prepared"
    BY <2>2, <2>3
  <2>5. r = row[k] \/ (row[k].status = "prepared" /\ r.status \notin {"none", "prepared"}
                       /\ r.attempts = row[k].attempts)
    BY <2>2, <2>3
  <2>6. /\ j.pc \notin {"sending", "settling"}
        /\ a \in Deliveries => j.pc # "idle" /\ j.key = KeyOf[a]
    BY <1>2, <1>3 DEF Moved, After, NoJob
  <2>7. \A n \in Keys : a = Recovery /\ Resending(n) => n = k BY DEF Resending
  <2>8. a \in Deliveries => KeyOf[a] = k BY <1>3
  <2> HIDE DEF k, s, r, j
  <2>9. a = Recovery =>
          /\ j.pc \in {"sending", "settling"} => j = job[a]
          /\ \A n \in Keys : Resending(n) /\ j # job[a] =>
               n = k /\ (r = row[k] => row[k].status # "prepared")
    BY <2>4, <2>6, <2>7
  <2>10. a \in Deliveries =>
          /\ j.pc # "idle" => j.key = KeyOf[a]
          /\ \/ j.pc = job[a].pc
             \/ job[a].pc \in {"projecting", "done"} /\ j.pc # "idle"
             \/ KeyOf[a] = k /\ r.status # "prepared"
    BY <2>4, <2>6, <2>8
  <2>11. todo' \subseteq todo BY <1>4
  <2> QED BY <1>1, <1>4, <2>1, <2>5, <2>9, <2>10, <2>11, RowPaid, ZenonT(60)
<1>6. CASE Project(a)
  <2>1. row' = row /\ job' = [job EXCEPT ![a] = After(a)] /\ job[a].pc = "projecting"
    BY <1>6 DEF Project
  <2>2. row' = [row EXCEPT ![k] = row[k]] BY <1>1, <1>2, <2>1
  <2>3. /\ After(a).pc \in {"idle", "done"}
        /\ a \in Deliveries => After(a).pc = "done" /\ After(a).key = KeyOf[a]
    BY <1>2, <1>3 DEF Moved, After, NoJob
  <2>4. \A n \in Keys : a = Recovery => ~Resending(n) BY <2>1 DEF Resending
  <2> HIDE DEF k
  <2> DEFINE j == After(a)
             r == row[k]
  <2> HIDE DEF j, r
  <2>5. /\ row' = [row EXCEPT ![k] = r]
        /\ r = row[k] \/ (row[k].status = "prepared" /\ r.status \notin {"none", "prepared"}
                           /\ r.attempts = row[k].attempts)
    BY <2>2 DEF r
  <2>6. job' = [job EXCEPT ![a] = j] BY <2>1 DEF j
  <2>7. a \in Deliveries => j.pc # "idle" /\ j.key = KeyOf[a] BY <2>3 DEF j
  <2>8. todo' \subseteq todo BY <1>4
  <2>9. a = Recovery =>
          /\ j.pc \in {"sending", "settling"} => j = job[a]
          /\ \A n \in Keys : Resending(n) /\ j # job[a] =>
               n = k /\ (r = row[k] => row[k].status # "prepared")
    BY <2>3, <2>4 DEF j
  <2>10. a \in Deliveries =>
          /\ j.pc # "idle" => j.key = KeyOf[a]
          /\ \/ j.pc = job[a].pc
             \/ job[a].pc \in {"projecting", "done"} /\ j.pc # "idle"
             \/ KeyOf[a] = k /\ r.status # "prepared"
    BY <2>1, <2>7
  <2> QED BY <1>1, <1>4, <2>5, <2>6, <2>8, <2>9, <2>10, RowPaid, ZenonT(60)
<1> QED BY <1>5, <1>6

LEMMA RecoversPaid ==
  ASSUME SendsInv, LedgerInv, NEW n \in Keys, RecoverOne(n)
  PROVE  SendsInv'
<1>0. /\ Recovery \in Actors /\ Recovery \notin Deliveries
      /\ \A e \in Deliveries : e \in Actors
      /\ job \in [Actors -> Jobs] /\ row \in [Keys -> Rows]
      /\ sends \in [Keys -> Nat] /\ resends \in [Keys -> Nat]
      /\ crashes \in Nat /\ MaxAttempts \in Nat /\ \A k \in Keys : row[k].attempts \in Nat
  BY LedgerFacts
<1>1. /\ job[Recovery].pc = "idle" /\ n \in todo /\ todo' = todo \ {n}
      /\ \A k \in Keys : ~Resending(k)
  BY DEF RecoverOne, RecoverExhausted, RecoverUncertain, ResolverRaises, ContentLost,
         Resend, Treating, Resending
<1>2. ASSUME NEW s \in Settlements, row' = [row EXCEPT ![n] = Settled(n, s)],
             UNCHANGED <<job, crashes, sends, resends>>
      PROVE  SendsInv'
  <2>1. /\ Settled(n, s).attempts = row[n].attempts
        /\ row[n].status = "prepared" => Settled(n, s).status = s
        /\ row[n].status # "prepared" => Settled(n, s) = row[n]
    BY SettledRow DEF LedgerInv, Settled
  <2>2. Settled(n, s) = row[n] \/ (row[n].status = "prepared"
          /\ Settled(n, s).status \notin {"none", "prepared"}
          /\ Settled(n, s).attempts = row[n].attempts)
    BY <2>1
  <2>3. job' = [job EXCEPT ![Recovery] = job[Recovery]] BY <1>0, <1>2
  <2> QED BY <1>0, <1>1, <1>2, <2>2, <2>3, RowPaid
<1>3. CASE RecoverExhausted(n) BY <1>2, <1>3 DEF RecoverExhausted
<1>4. CASE RecoverUncertain(n) BY <1>2, <1>4 DEF RecoverUncertain
<1>5. CASE ContentLost(n) BY <1>2, <1>5 DEF ContentLost
<1>6. CASE ResolverRaises(n)
  <2>1. AllowRetry /\ row' = [row EXCEPT ![n] = Retried(n)]
        /\ UNCHANGED <<job, crashes, sends, resends>>
    BY <1>6 DEF ResolverRaises
  <2>2. /\ Retried(n).status = row[n].status
        /\ Retried(n).attempts \in {row[n].attempts, row[n].attempts + 1}
    BY RetriedRow DEF LedgerInv, Retried
  <2>3. ASSUME NEW k \in Keys PROVE CallsPaid(k)'
    <3>1. CallsPaid(k) BY DEF SendsInv
    <3>2. row'[k].status = row[k].status
          /\ row'[k].attempts \in {row[k].attempts, row[k].attempts + 1}
      BY <1>0, <2>1, <2>2
    <3>3. ~Resending(k) /\ ~Resending(k)' BY <1>1, <2>1 DEF Resending
    <3> QED BY <1>0, <1>1, <2>1, <3>1, <3>2, <3>3 DEF CallsPaid
  <2>4. JobsOwn' BY <2>1 DEF SendsInv, JobsOwn
  <2> QED BY <2>1, <2>3, <2>4 DEF SendsInv
<1>7. CASE Resend(n)
  <2>1. /\ AllowRetry /\ ~Exhausted(n)
        /\ resends' = [resends EXCEPT ![n] = @ + 1]
        /\ row' = row /\ crashes' = crashes
    BY <1>7 DEF Resend
  <2>2. /\ job'[Recovery].pc = "sending" /\ job'[Recovery].key = n
        /\ \A d \in Deliveries : job'[d] = job[d]
    BY <1>0, <1>7 DEF Resend
  <2>3. ASSUME NEW k \in Keys PROVE CallsPaid(k)'
    <3>1. CallsPaid(k) /\ ~Resending(k) BY <1>1 DEF SendsInv
    <3>2. CASE k = n
      <4>1. Resending(k)' BY <2>2, <3>2 DEF Resending
      <4>2. resends'[k] = resends[k] + 1 BY <1>0, <2>1, <3>2
      <4>3. row[k].attempts < MaxAttempts BY <1>0, <2>1, <3>2 DEF Exhausted
      <4>4. resends[k] < row[k].attempts + crashes BY <1>1, <3>1, <3>2 DEF CallsPaid
      <4>5. row[k].status # "none" BY <1>1, <3>2 DEF LedgerInv, RowsHoldText
      <4>6. k \notin todo' BY <1>1, <3>2
      <4> QED BY <1>0, <2>1, <4>1, <4>2, <4>3, <4>4, <4>5, <4>6 DEF CallsPaid
    <3>3. CASE k # n
      <4>1. ~Resending(k)' BY <2>2, <3>3 DEF Resending
      <4>2. resends'[k] = resends[k] BY <1>0, <2>1, <3>3
      <4> QED BY <1>1, <2>1, <3>1, <4>1, <4>2 DEF CallsPaid
    <3> QED BY <3>2, <3>3
  <2>4. JobsOwn' BY <2>2 DEF SendsInv, JobsOwn
  <2> QED BY <2>1, <2>3, <2>4 DEF SendsInv
<1> QED BY <1>3, <1>4, <1>5, <1>6, <1>7 DEF RecoverOne

LEMMA ResendEndsPaid ==
  ASSUME SendsInv, LedgerInv, ResendEnds
  PROVE  SendsInv'
<1> DEFINE n == job[Recovery].key
<1>0. /\ Recovery \in Actors /\ Recovery \notin Deliveries
      /\ \A e \in Deliveries : e \in Actors
      /\ job \in [Actors -> Jobs] /\ row \in [Keys -> Rows]
      /\ sends \in [Keys -> Nat] /\ resends \in [Keys -> Nat]
      /\ crashes \in Nat /\ MaxAttempts \in Nat /\ \A k \in Keys : row[k].attempts \in Nat
  BY LedgerFacts
<1>1. job[Recovery].pc = "sending" /\ UNCHANGED <<todo, crashes, sends, resends>>
  BY DEF ResendEnds, ResendAnswers, ResendRetryable, ResendRaises
<1>2. n \in Keys BY <1>0, <1>1, InFlightJob DEF InFlight
<1>3. \A d \in Deliveries : job'[d] = job[d]
  BY <1>0 DEF ResendEnds, ResendAnswers, Received, ResendRetryable, ResendRaises
<1>4. JobsOwn' BY <1>3 DEF SendsInv, JobsOwn
<1>5. CASE ResendAnswers \/ ResendRaises
  <2>1. row' = row /\ job'[Recovery].pc = "settling" /\ job'[Recovery].key = n
    BY <1>0, <1>5 DEF ResendAnswers, Received, ResendRaises
  <2>2. ASSUME NEW k \in Keys PROVE CallsPaid(k)'
    <3>1. Resending(k)' <=> Resending(k) BY <1>1, <2>1 DEF Resending
    <3> QED BY <1>1, <2>1, <3>1 DEF SendsInv, CallsPaid
  <2>3. ASSUME ~AllowRetry, NEW k \in Keys PROVE SentOnce(k)'
    BY <1>1, <1>3, <2>1, <2>3 DEF SendsInv, SentOnce
  <2> QED BY <1>4, <2>2, <2>3 DEF SendsInv
<1>6. CASE ResendRetryable
  <2>1. row' = [row EXCEPT ![n] = Retried(n)] /\ job'[Recovery].pc = "idle"
    BY <1>0, <1>6 DEF ResendRetryable, NoJob
  <2>2. /\ Retried(n).status = row[n].status
        /\ row[n].status = "prepared" => Retried(n).attempts = row[n].attempts + 1
    BY <1>2, RetriedRow DEF LedgerInv, Retried
  <2>3. ASSUME NEW k \in Keys PROVE CallsPaid(k)'
    <3>1. CallsPaid(k) BY DEF SendsInv
    <3>2. ~Resending(k)' BY <2>1 DEF Resending
    <3>3. CASE k # n
      <4>1. row'[k] = row[k] /\ ~Resending(k) BY <1>0, <2>1, <3>3 DEF Resending
      <4> QED BY <1>1, <3>1, <3>2, <4>1 DEF CallsPaid
    <3>4. CASE k = n
      <4>1. Resending(k) BY <1>1, <3>4 DEF Resending
      <4>2. row'[k].status = row[k].status
            /\ (row[k].status = "prepared" => row'[k].attempts = row[k].attempts + 1)
        BY <1>0, <1>2, <2>1, <2>2, <3>4
      <4> QED BY <1>0, <1>1, <3>1, <3>2, <4>1, <4>2 DEF CallsPaid
    <3> QED BY <3>3, <3>4
  <2>4. ASSUME ~AllowRetry, NEW k \in Keys PROVE SentOnce(k)'
    <3>1. row'[k].status = row[k].status BY <1>0, <1>2, <2>1, <2>2
    <3> QED BY <1>1, <1>3, <2>4, <3>1 DEF SendsInv, SentOnce
  <2> QED BY <1>4, <2>3, <2>4 DEF SendsInv
<1> QED BY <1>5, <1>6 DEF ResendEnds

LEMMA CrashPaid ==
  ASSUME SendsInv, LedgerInv, Crash
  PROVE  SendsInv'
<1>0. /\ Recovery \in Actors /\ Recovery \notin Deliveries
      /\ \A e \in Deliveries : e \in Actors
      /\ resends \in [Keys -> Nat]
      /\ crashes \in Nat /\ MaxAttempts \in Nat /\ \A k \in Keys : row[k].attempts \in Nat
  BY LedgerFacts
<1>1. /\ crashes' = crashes + 1 /\ todo' = {} /\ UNCHANGED <<row, sends, resends>>
      /\ job' = [a \in Actors |-> IF a = Recovery THEN NoJob
                                  ELSE IF InFlight(a) THEN Died(a) ELSE job[a]]
  BY DEF Crash
<1>2. job'[Recovery].pc = "idle" BY <1>0, <1>1 DEF NoJob
<1>3. \A d \in Deliveries :
        /\ job'[d].key = job[d].key
        /\ job'[d].pc = "idle" => job[d].pc = "idle"
        /\ job[d].pc = "idle" => job'[d].pc = "idle"
        /\ job[d].pc \in {"sending", "settling", "dead"} => job'[d].pc = "dead"
  BY <1>0, <1>1 DEF Died, InFlight
<1>4. ASSUME NEW k \in Keys PROVE CallsPaid(k)'
  <2>1. CallsPaid(k) BY DEF SendsInv
  <2>2. ~Resending(k)' BY <1>2 DEF Resending
  <2> QED BY <1>0, <1>1, <2>1, <2>2 DEF CallsPaid
<1>5. JobsOwn' BY <1>3 DEF SendsInv, JobsOwn
<1>6. ASSUME ~AllowRetry, NEW k \in Keys PROVE SentOnce(k)'
  BY <1>1, <1>3, <1>6 DEF SendsInv, SentOnce
<1> QED BY <1>4, <1>5, <1>6 DEF SendsInv

LEMMA SendsInvNext ==
  ASSUME SendsInv, LedgerInv, [LedgerNext]_ledgerVars
  PROVE  SendsInv'
<1>1. ASSUME NEW d \in Deliveries, SenderStep(d) PROVE SendsInv'
  BY <1>1, BeginPaid, SendersPaid DEF SenderStep
<1>2. ASSUME NEW keys \in SUBSET Keys, Scan(keys) PROVE SendsInv'
  <2>1. /\ job[Recovery].pc = "idle" /\ todo' = keys
        /\ \A k \in keys : row[k].status = "prepared"
        /\ UNCHANGED <<row, job, crashes, sends, resends>>
    BY <1>2 DEF Scan, Stale
  <2>2. \A k \in Keys : CallsPaid(k)'
    BY <2>1 DEF SendsInv, CallsPaid, Resending
  <2> QED BY <2>1, <2>2 DEF SendsInv, JobsOwn, SentOnce
<1>3. ASSUME UNCHANGED <<row, job, todo, crashes, sends, resends>> PROVE SendsInv'
  BY <1>3 DEF SendsInv, JobsOwn, SentOnce, CallsPaid, Resending
<1>4. CASE UNCHANGED ledgerVars BY <1>3, <1>4 DEF ledgerVars
<1>5. CASE Attach BY <1>3, <1>5 DEF Attach
<1>6. ASSUME NEW k \in Keys, CloseTurn(k) PROVE SendsInv' BY <1>3, <1>6 DEF CloseTurn
<1> QED BY <1>1, <1>2, <1>4, <1>5, <1>6, SettlesPaid, RecoversPaid, ResendEndsPaid, CrashPaid
        DEF LedgerNext

\* Without an idempotent transport an ambient text goes out at most once; with one, the
\* worker's calls stay below the limit of attempts, but for one a crash can add
\* (list_stale_prepared, note_retry and settle, whatever the senders do meanwhile).
THEOREM SendsAreBounded == LedgerSpec => []SendsBounded
<1>1. LedgerInit => SendsInv BY SendsInvInit
<1>2. LedgerInv /\ SendsInv /\ [LedgerNext]_ledgerVars => SendsInv' BY SendsInvNext
<1>3. SendsInv => SendsBounded
  BY DEF SendsInv, CallsPaid, SentOnce, SendsBounded, AmbientAtMostOnce, ResendsBounded
<1> QED BY <1>1, <1>2, <1>3, LedgerInvariant, PTL DEF LedgerSpec

-----------------------------------------------------------------------------
(* What is accepted is recorded: the events of a key are of its one text,  *)
(* and are never taken back.                                               *)

EventsOfKey ==
  \A d \in Deliveries : \A e \in {log[KeyOf[d]], late[KeyOf[d]]} :
    e # NoEvent => e.content = ContentOf[d]

\* A job that was begun is of the text of its delivery.
JobsOfText ==
  \A d \in Deliveries : job[d].pc # "idle" => job[d].content = ContentOf[d]

RecordInv == EventsOfKey /\ JobsOfText /\ AcceptedIsRecorded

\* How the job of a delivery comes to its end, and what it keeps on the way.
LEMMA EndStep ==
  ASSUME LedgerInv, [LedgerNext]_ledgerVars, NEW d \in Deliveries
  PROVE  /\ job[d].pc # "idle" => job'[d].content = job[d].content
         /\ job[d].pc = "idle" /\ job'[d].pc # "idle" => job'[d].content = ContentOf[d]
         /\ job'[d].pc = "done" /\ job'[d].project => job'[d] = job[d] \/ Project(d)
<1>0. /\ Recovery \in Actors /\ Recovery \notin Deliveries /\ job \in [Actors -> Jobs]
      /\ \A e \in Deliveries : e \in Actors
  BY LedgerFacts
<1> DEFINE Ends == /\ job[d].pc # "idle" => job'[d].content = job[d].content
                   /\ job[d].pc = "idle" /\ job'[d].pc # "idle"
                        => job'[d].content = ContentOf[d]
                   /\ job'[d].pc = "done" /\ job'[d].project
                        => job'[d] = job[d] \/ Project(d)
<1>1. CASE job'[d] = job[d] BY <1>1
<1>2. CASE Begin(d) BY <1>0, <1>2 DEF Begin
<1>3. CASE TransportAnswers(d) BY <1>0, <1>3 DEF TransportAnswers, Received
<1>4. CASE TransportRaises(d)
  <2>1. job'[d].content = job[d].content /\ job'[d].pc # "done" /\ job[d].pc # "idle"
    BY <1>0, <1>4 DEF TransportRaises, Died
  <2> QED BY <2>1
<1>5. CASE CancelSend(d) BY <1>0, <1>5 DEF CancelSend, Died, InFlight
<1>6. CASE SettleReceipt(d)
  <2>1. job'[d] = IF job[d].project THEN Moved(d, "projecting") ELSE Moved(d, "done")
    BY <1>0, <1>6 DEF SettleReceipt, After
  <2>2. job[d].pc = "settling" BY <1>6 DEF SettleReceipt
  <2> QED BY <2>1, <2>2 DEF Moved
<1>7. CASE Project(d)
  <2>1. job'[d] = Moved(d, "done") /\ job[d].pc = "projecting"
    BY <1>0, <1>7 DEF Project, After
  <2> QED BY <1>7, <2>1 DEF Moved
<1>8. CASE Crash
  <2>1. job'[d] = IF InFlight(d) THEN Died(d) ELSE job[d] BY <1>0, <1>8 DEF Crash
  <2> QED BY <2>1 DEF Died, InFlight
<1>9. ASSUME NEW e \in Deliveries, e # d, SenderStep(e) PROVE job'[d] = job[d]
  BY <1>0, <1>9 DEF SenderStep, Begin, TransportAnswers, Received, TransportRaises,
                    CancelSend
<1>10. ASSUME NEW a \in Actors, a # d, SettleReceipt(a) \/ Project(a) PROVE job'[d] = job[d]
  BY <1>0, <1>10 DEF SettleReceipt, Project
<1>11. ASSUME NEW k \in Keys, CloseTurn(k) \/ RecoverOne(k) PROVE job'[d] = job[d]
  BY <1>0, <1>11 DEF CloseTurn, RecoverOne, RecoverExhausted, RecoverUncertain,
                     ResolverRaises, ContentLost, Resend
<1>12. ASSUME ResendEnds PROVE job'[d] = job[d]
  BY <1>0, <1>12 DEF ResendEnds, ResendAnswers, Received, ResendRetryable, ResendRaises
<1>13. ASSUME NEW keys \in SUBSET Keys, Scan(keys) PROVE job'[d] = job[d]
  BY <1>13 DEF Scan
<1>14. ASSUME Attach \/ UNCHANGED ledgerVars PROVE job'[d] = job[d]
  BY <1>14 DEF Attach, ledgerVars
<1> QED BY <1>1, <1>2, <1>3, <1>4, <1>5, <1>6, <1>7, <1>8, <1>9, <1>10, <1>11, <1>12,
           <1>13, <1>14 DEF LedgerNext, SenderStep

\* What a step does to the event log: nothing, or it appends the event of one job.
LEMMA LogStep ==
  ASSUME LedgerInv, [LedgerNext]_ledgerVars
  PROVE  \/ log' = log /\ late' = late
         \/ \E a \in Actors : Project(a)
<1>1. ASSUME NEW d \in Deliveries, SenderStep(d) PROVE log' = log /\ late' = late
  BY <1>1 DEF SenderStep, Begin, TransportAnswers, TransportRaises, CancelSend
<1>2. ASSUME NEW a \in Actors, SettleReceipt(a) PROVE log' = log /\ late' = late
  BY <1>2 DEF SettleReceipt
<1>3. ASSUME NEW k \in Keys, CloseTurn(k) \/ RecoverOne(k) PROVE log' = log /\ late' = late
  BY <1>3 DEF CloseTurn, RecoverOne, RecoverExhausted, RecoverUncertain,
              ResolverRaises, ContentLost, Resend
<1>4. ASSUME ResendEnds \/ Attach \/ Crash \/ UNCHANGED ledgerVars
      PROVE  log' = log /\ late' = late
  BY <1>4 DEF ResendEnds, ResendAnswers, ResendRetryable, ResendRaises, Attach, Crash,
              ledgerVars
<1>5. ASSUME NEW keys \in SUBSET Keys, Scan(keys) PROVE log' = log /\ late' = late
  BY <1>5 DEF Scan
<1> QED BY <1>1, <1>2, <1>3, <1>4, <1>5 DEF LedgerNext

\* An event that is written is of the text of the key, there to stay, and found.
LEMMA ProjectRecords ==
  ASSUME SameText, LedgerInv, TextInv, EventsOfKey, NEW a \in Actors, Project(a)
  PROVE  /\ EventsOfKey'
         /\ \A k \in Keys : /\ log[k] # NoEvent => log'[k] = log[k]
                            /\ late[k] # NoEvent => late'[k] = late[k]
         /\ a \in Deliveries /\ job[a].key = KeyOf[a] =>
              \E e \in {log'[KeyOf[a]], late'[KeyOf[a]]} : e.content = job[a].content
<1> DEFINE n == job[a].key
           ev == EventOf(a)
<1>1. /\ log \in [Keys -> Events] /\ late \in [Keys -> Events]
      /\ \A d \in Deliveries : KeyOf[d] \in Keys
      /\ InFlight(a) /\ n \in Keys /\ job[a].content \in Contents
  <2>1. InFlight(a) BY DEF Project, InFlight
  <2> QED BY <2>1, InFlightJob, LedgerFacts DEF LedgerInv, LedgerTypeOK
<1>2. ev # NoEvent /\ ev.content = job[a].content
  BY <1>1, LedgerAssumption DEF EventOf, NoEvent
<1>3. ASSUME NEW d \in Deliveries, KeyOf[d] = n PROVE job[a].content = ContentOf[d]
  BY <1>1, <1>3 DEF TextInv, JobText, RowText
<1>4. \/ /\ Refused(n, ev) /\ log' = log
         /\ late' = IF late[n] = NoEvent THEN [late EXCEPT ![n] = ev] ELSE late
      \/ /\ ~Refused(n, ev) /\ log' = [log EXCEPT ![n] = ev] /\ late' = late
  BY DEF Project
<1> HIDE DEF n, ev
<1>5. \A k \in Keys : /\ log'[k] = log[k] \/ (k = n /\ log'[k] = ev)
                      /\ late'[k] = late[k] \/ (k = n /\ late'[k] = ev)
  BY <1>1, <1>4
<1>6. \A k \in Keys : /\ log[k] # NoEvent => log'[k] = log[k]
                      /\ late[k] # NoEvent => late'[k] = late[k]
  BY <1>1, <1>4 DEF Refused
<1>7. EventsOfKey'
  <2>1. SUFFICES ASSUME NEW d \in Deliveries, NEW e \in {log'[KeyOf[d]], late'[KeyOf[d]]},
                        e # NoEvent
                 PROVE  e.content = ContentOf[d]
    BY DEF EventsOfKey
  <2>2. CASE KeyOf[d] = n /\ e = ev BY <1>2, <1>3, <2>2
  <2>3. CASE e \in {log[KeyOf[d]], late[KeyOf[d]]} BY <2>1, <2>3 DEF EventsOfKey
  <2> QED BY <1>1, <1>5, <2>1, <2>2, <2>3
<1>8. ASSUME a \in Deliveries, n = KeyOf[a]
      PROVE  \E e \in {log'[KeyOf[a]], late'[KeyOf[a]]} : e.content = job[a].content
  <2>1. CASE log'[n] = ev BY <1>2, <1>8, <2>1
  <2>2. CASE late'[n] = ev BY <1>2, <1>8, <2>2
  <2>3. CASE late'[n] = late[n] /\ late[n] # NoEvent
    <3>1. late[n].content = ContentOf[a] BY <1>8, <2>3 DEF EventsOfKey
    <3>2. job[a].content = ContentOf[a] BY <1>3, <1>8
    <3> QED BY <1>8, <2>3, <3>1, <3>2
  <2> QED BY <1>1, <1>4, <2>1, <2>2, <2>3
<1> QED BY <1>6, <1>7, <1>8 DEF n

LEMMA RecordStep ==
  ASSUME SameText, LedgerInv, TextInv, JobsOwn, RecordInv, [LedgerNext]_ledgerVars
  PROVE  RecordInv'
<1>0. \A d \in Deliveries : KeyOf[d] \in Keys /\ d \in Actors /\ ContentOf[d] \in Contents
  BY LedgerFacts
<1>1. /\ EventsOfKey'
      /\ \A k \in Keys : /\ log[k] # NoEvent => log'[k] = log[k]
                         /\ late[k] # NoEvent => late'[k] = late[k]
  BY LogStep, ProjectRecords DEF RecordInv, EventsOfKey
<1>2. JobsOfText' BY EndStep DEF RecordInv, JobsOfText
<1>3. ASSUME NEW d \in Deliveries, job'[d].pc = "done", job'[d].project
      PROVE  \E e \in {log'[KeyOf[d]], late'[KeyOf[d]]} : e.content = job'[d].content
  <2>1. CASE Project(d)
    <3>1. job[d].pc = "projecting" BY <2>1 DEF Project
    <3>2. job[d].key = KeyOf[d] BY <3>1 DEF JobsOwn
    <3>3. job'[d].content = job[d].content BY <3>1, EndStep
    <3> QED BY <1>0, <2>1, <3>2, <3>3, ProjectRecords DEF RecordInv
  <2>2. CASE job'[d] = job[d]
    <3>1. PICK e \in {log[KeyOf[d]], late[KeyOf[d]]} : e.content = job[d].content
      BY <1>3, <2>2 DEF RecordInv, AcceptedIsRecorded
    <3>2. job[d].content \in Contents
      BY <1>0, <1>3, <2>2 DEF RecordInv, JobsOfText
    <3>3. e # NoEvent BY <3>1, <3>2, LedgerAssumption DEF NoEvent
    <3>4. e \in {log'[KeyOf[d]], late'[KeyOf[d]]} BY <1>0, <1>1, <3>3
    <3> QED BY <2>2, <3>1, <3>4
  <2> QED BY <1>3, <2>1, <2>2, EndStep
<1>4. AcceptedIsRecorded' BY <1>3 DEF AcceptedIsRecorded
<1> QED BY <1>1, <1>2, <1>4 DEF RecordInv

\* If the deliveries of a key carry one text, a sender that came to its end with an
\* accepted text has it in the event log, in its turn or as a late delivery, whoever
\* settled the row and whether the turn was still open (settle_receipt appends after it
\* has settled, and _append_accepted_timeline falls back to a late event).
THEOREM AcceptedAreRecorded == SameText => (LedgerSpec => []AcceptedIsRecorded)
<1> SUFFICES ASSUME SameText PROVE LedgerSpec => []AcceptedIsRecorded
    OBVIOUS
<1>1. LedgerInit => SendsInv /\ TextInv /\ RecordInv
  <2> SUFFICES ASSUME LedgerInit PROVE SendsInv /\ TextInv /\ RecordInv OBVIOUS
  <2>1. \A k \in Keys : row[k].status = "none" /\ log[k] = NoEvent /\ late[k] = NoEvent
    BY DEF LedgerInit, NoRow
  <2>2. \A a \in Actors : job[a].pc = "idle" BY DEF LedgerInit, NoJob
  <2>3. \A d \in Deliveries : KeyOf[d] \in Keys /\ d \in Actors
    BY LedgerAssumption DEF Actors
  <2>4. TextInv
    BY <2>1, <2>2, <2>3 DEF TextInv, RowText, JobText, SentWasAccepted, InFlight
  <2>5. RecordInv
    BY <2>1, <2>2, <2>3 DEF RecordInv, EventsOfKey, JobsOfText, AcceptedIsRecorded
  <2> QED BY <2>4, <2>5, SendsInvInit
<1>2. LedgerInv /\ LedgerInv' /\ SendsInv /\ TextInv /\ RecordInv /\ [LedgerNext]_ledgerVars
        => SendsInv' /\ TextInv' /\ RecordInv'
  BY SendsInvNext, TextStep, RecordStep DEF SendsInv
<1>3. RecordInv => AcceptedIsRecorded BY DEF RecordInv
<1> QED BY <1>1, <1>2, <1>3, LedgerInvariant, PTL DEF LedgerSpec
=============================================================================
