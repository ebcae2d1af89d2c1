-------------------------- MODULE MessagePathProofs --------------------------
(***************************************************************************)
(* Theorems about two components on the way of a message, which share no   *)
(* state: AdmissionOutbox, where an effect is only run for a message that  *)
(* is in the history, and is owed from then on until it has succeeded,     *)
(* whatever fails, is cancelled or crashes; and TurnApproval, for any      *)
(* turns, calls, number of cards and fallback.                             *)
(***************************************************************************)
EXTENDS AdmissionOutbox, TurnApproval, TLAPS

-----------------------------------------------------------------------------
(* The admission outbox.                                                   *)

\* The status st of an effect of message m, when the messages of lg are in the
\* history and fin says whether the effect has succeeded.
RowAllowed(m, st, lg, fin) ==
  \/ m \in lg /\ fin /\ st \in {"succeeded", "none"}
  \/ m \in lg /\ ~fin /\ st \in {"prepared", "ready", "processing"}
  \/ m \notin lg /\ ~fin /\ st \in {"none", "prepared"}

RowsAllowed == \A i \in Items : RowAllowed(i[1], table[i], logged, i \in done)

\* Admission adm of chat c: it is of one message of that chat, which is in the
\* history of lg after the commit point only; until then tb has all its rows
\* as prepared.
AdmissionSound(c, adm, tb, lg) ==
  adm.pc = "idle" \/
  \E m \in OutMessages :
    /\ adm.msg = {m}
    /\ ChatOf[m] = c
    /\ adm.pc = "prepared" => m \notin lg /\ \A i \in Items : i[1] = m => tb[i] = "prepared"
    /\ adm.pc # "prepared" => m \in lg

AdmissionsSound == \A c \in OutChats : AdmissionSound(c, admitting[c], table, logged)

OutboxTyped ==
  /\ table \in [Items -> ItemStatus]
  /\ admitting \in [OutChats ->
       [pc : {"idle", "prepared", "recorded", "passing"},
        msg : SUBSET OutMessages, fresh : BOOLEAN]]
  /\ claims \subseteq Items
  /\ done \subseteq Items

OutboxInv == OutboxTyped /\ RowsAllowed /\ AdmissionsSound

LEMMA ItemMessage == \A i \in Items : i[1] \in OutMessages
  BY DEF Items

LEMMA InitInv == OutboxInit => OutboxInv
  <1> SUFFICES ASSUME OutboxInit PROVE OutboxInv OBVIOUS
  <1>1. OutboxTyped
    BY DEF OutboxInit, OutboxTyped, ItemStatus, NoAdmission
  <1>2. RowsAllowed
    BY DEF OutboxInit, RowsAllowed, RowAllowed
  <1>3. AdmissionsSound
    BY DEF OutboxInit, AdmissionsSound, AdmissionSound, NoAdmission
  <1> QED BY <1>1, <1>2, <1>3 DEF OutboxInv

\* An admission stays sound when it ends or does not change, no message of
\* its chat enters the history, and no row that is prepared for it changes.
LEMMA AdmissionKept ==
  ASSUME NEW c, NEW adm, NEW new, NEW tb, NEW tb2, NEW lg, NEW lg2,
         AdmissionSound(c, adm, tb, lg),
         new = adm \/ new.pc = "idle",
         lg \subseteq lg2,
         adm.pc = "prepared" => \A m \in OutMessages : ChatOf[m] = c => (m \in lg2 => m \in lg),
         adm.pc = "prepared" =>
           \A i \in Items : i[1] \in adm.msg => tb2[i] = tb[i]
  PROVE  AdmissionSound(c, new, tb2, lg2)
  <1>1. CASE new.pc = "idle"
    BY <1>1 DEF AdmissionSound
  <1>2. CASE new = adm /\ adm.pc # "idle"
    <2>1. PICK m \in OutMessages :
            /\ adm.msg = {m}
            /\ ChatOf[m] = c
            /\ adm.pc = "prepared" => m \notin lg /\ \A i \in Items : i[1] = m => tb[i] = "prepared"
            /\ adm.pc # "prepared" => m \in lg
      BY <1>2 DEF AdmissionSound
    <2>2. adm.pc = "prepared" => m \notin lg2 /\ \A i \in Items : i[1] = m => tb2[i] = "prepared"
      BY <2>1
    <2>3. adm.pc # "prepared" => m \in lg2
      BY <2>1
    <2> QED BY <1>2, <2>1, <2>2, <2>3 DEF AdmissionSound
  <1> QED BY <1>1, <1>2

\* What a pass and the statements of the table may do to a row: nothing to one
\* that is prepared for an admission under way.
SpareAdmissions ==
  \A c \in OutChats : admitting[c].pc = "prepared" =>
    \A i \in Items : i[1] \in admitting[c].msg => table'[i] = table[i]

LEMMA AdmissionsKept ==
  ASSUME AdmissionsSound, SpareAdmissions, UNCHANGED logged,
         \A c \in OutChats : admitting'[c] = admitting[c] \/ admitting'[c].pc = "idle"
  PROVE  AdmissionsSound'
  <1> SUFFICES ASSUME NEW c \in OutChats
               PROVE  AdmissionSound(c, admitting'[c], table', logged')
    BY DEF AdmissionsSound
  <1>1. AdmissionSound(c, admitting[c], table, logged)
    BY DEF AdmissionsSound
  <1>2. admitting[c].pc = "prepared" =>
          \A i \in Items : i[1] \in admitting[c].msg => table'[i] = table[i]
    BY DEF SpareAdmissions
  <1> QED BY <1>1, <1>2, AdmissionKept

\* Rows that an admission under way has prepared are prepared.
LEMMA PreparedRows ==
  ASSUME AdmissionsSound
  PROVE  \A c \in OutChats : admitting[c].pc = "prepared" =>
           /\ \A i \in Items : i[1] \in admitting[c].msg =>
                table[i] = "prepared" /\ i[1] \notin logged
           /\ \A m \in admitting[c].msg : InProgress(m)
  BY DEF AdmissionsSound, AdmissionSound, InProgress

\* Statements that change no prepared row spare every admission.
LEMMA PreparedUntouched ==
  ASSUME AdmissionsSound, \A i \in Items : table[i] = "prepared" => table'[i] = table[i]
  PROVE  SpareAdmissions
  BY PreparedRows DEF SpareAdmissions

\* A step that logs no message and settles no effect allows every row when each
\* row that changes moves to a status its message and effect are allowed.
LEMMA RowsKept ==
  ASSUME RowsAllowed, UNCHANGED <<logged, done>>,
         \A i \in Items : table'[i] # table[i] =>
           RowAllowed(i[1], table'[i], logged, i \in done)
  PROVE  RowsAllowed'
  BY DEF RowsAllowed, RowAllowed

\* What a conditional update of some rows does to each row.
LEMMA MovingRow ==
  ASSUME OutboxTyped, NEW items, NEW from, NEW to \in ItemStatus, table' = Moving(items, from, to)
  PROVE  /\ table' \in [Items -> ItemStatus]
         /\ \A i \in Items : table'[i] # table[i] =>
              i \in items /\ table[i] = from /\ table'[i] = to
  BY DEF OutboxTyped, Moving

LEMMA MarkReadyRow ==
  ASSUME OutboxTyped, NEW m, table' = MarkReady(m)
  PROVE  /\ table' \in [Items -> ItemStatus]
         /\ \A i \in Items : table'[i] # table[i] =>
              i[1] = m /\ table[i] = "prepared" /\ table'[i] = "ready"
  <1>1. "ready" \in ItemStatus
    BY DEF ItemStatus
  <1> QED BY <1>1, MovingRow DEF MarkReady, RowsOf

LEMMA CancelRow ==
  ASSUME OutboxTyped, NEW m, table' = CancelRows(m)
  PROVE  /\ table' \in [Items -> ItemStatus]
         /\ \A i \in Items : table'[i] # table[i] => i[1] = m /\ table'[i] = "none"
  BY DEF OutboxTyped, CancelRows, ItemStatus

(***************************************************************************)
(* Admissions.                                                             *)
(***************************************************************************)
LEMMA AdmitMessageStep ==
  ASSUME OutboxInv, NEW c \in OutChats, NEW m \in OutMessages, AdmitMessage(c, m)
  PROVE  OutboxInv'
  <1> USE DEF OutboxInv
  <1>1. table' = Moving(RowsOf(m), "none", "prepared")
    BY DEF AdmitMessage, OutPrepare
  <1>2. /\ table' \in [Items -> ItemStatus]
        /\ \A i \in Items : table'[i] # table[i] =>
             i \in RowsOf(m) /\ table[i] = "none" /\ table'[i] = "prepared"
    BY <1>1, MovingRow DEF ItemStatus
  <1>3. OutboxTyped'
    BY <1>2 DEF OutboxTyped, AdmitMessage, HasRows
  <1>4. RowsAllowed'
    <2>1. \A i \in Items : i[1] = m => RowAllowed(i[1], "prepared", logged, i \in done)
      BY DEF RowsAllowed, RowAllowed, AdmitMessage
    <2>2. UNCHANGED <<logged, done>>
      BY DEF AdmitMessage
    <2> QED BY <1>2, <2>1, <2>2, RowsKept DEF RowsOf
  <1>5. \A i \in Items : i[1] = m => table'[i] = "prepared"
    <2> SUFFICES ASSUME NEW i \in Items, i[1] = m PROVE table'[i] = "prepared"
      OBVIOUS
    <2>1. table[i] \in {"none", "prepared"}
      BY DEF RowsAllowed, RowAllowed, AdmitMessage
    <2> QED BY <1>1, <2>1 DEF Moving, RowsOf
  <1>6. AdmissionsSound'
    <2> SUFFICES ASSUME NEW d \in OutChats
                 PROVE  AdmissionSound(d, admitting'[d], table', logged')
      BY DEF AdmissionsSound
    <2>1. CASE d = c
      <3>1. admitting'[c].pc = "prepared" /\ admitting'[c].msg = {m}
        BY DEF AdmitMessage, OutboxTyped
      <3>2. ChatOf[m] = c /\ m \notin logged'
        BY DEF AdmitMessage
      <3> QED BY <1>5, <2>1, <3>1, <3>2 DEF AdmissionSound
    <2>2. CASE d # c
      <3>1. admitting'[d] = admitting[d] /\ logged' = logged
        BY <2>2 DEF AdmitMessage, OutboxTyped
      <3>2. AdmissionSound(d, admitting[d], table, logged)
        BY DEF AdmissionsSound
      <3>3. admitting[d].pc = "prepared" =>
              \A i \in Items : i[1] \in admitting[d].msg => table'[i] = table[i]
        BY <1>2, PreparedRows
      <3> QED BY <3>1, <3>2, <3>3, AdmissionKept
    <2> QED BY <2>1, <2>2
  <1> QED BY <1>3, <1>4, <1>6

LEMMA RecordStep ==
  ASSUME OutboxInv, NEW c \in OutChats, Record(c)
  PROVE  OutboxInv'
  <1> USE DEF OutboxInv
  <1>1. PICK m \in OutMessages :
          /\ admitting[c].msg = {m} /\ ChatOf[m] = c /\ m \notin logged
          /\ \A i \in Items : i[1] = m => table[i] = "prepared"
    BY DEF Record, AdmissionsSound, AdmissionSound
  <1>2. logged' = logged \cup {m} /\ UNCHANGED <<table, claims, done>>
    BY <1>1 DEF Record
  <1>3. /\ admitting'[c].pc = "recorded" /\ admitting'[c].msg = {m}
        /\ \A d \in OutChats : d # c => admitting'[d] = admitting[d]
        /\ admitting' \in [OutChats ->
             [pc : {"idle", "prepared", "recorded", "passing"},
              msg : SUBSET OutMessages, fresh : BOOLEAN]]
    BY <1>1 DEF Record, OutboxTyped
  <1>4. OutboxTyped'
    BY <1>2, <1>3 DEF OutboxTyped
  <1>5. RowsAllowed'
    <2> SUFFICES ASSUME NEW i \in Items
                 PROVE  RowAllowed(i[1], table'[i], logged', i \in done')
      BY DEF RowsAllowed
    <2>1. RowAllowed(i[1], table[i], logged, i \in done)
      BY DEF RowsAllowed
    <2>2. CASE i[1] = m
      BY <1>1, <1>2, <2>1, <2>2 DEF RowAllowed
    <2>3. CASE i[1] # m
      BY <1>2, <2>1, <2>3 DEF RowAllowed
    <2> QED BY <2>2, <2>3
  <1>6. AdmissionsSound'
    <2> SUFFICES ASSUME NEW d \in OutChats
                 PROVE  AdmissionSound(d, admitting'[d], table', logged')
      BY DEF AdmissionsSound
    <2>1. CASE d = c
      BY <1>1, <1>2, <1>3, <2>1 DEF AdmissionSound
    <2>2. CASE d # c
      <3>1. AdmissionSound(d, admitting[d], table, logged)
        BY DEF AdmissionsSound
      <3>2. \A n \in OutMessages : ChatOf[n] = d => (n \in logged' => n \in logged)
        BY <1>1, <1>2, <2>2
      <3> QED BY <1>2, <1>3, <2>2, <3>1, <3>2, AdmissionKept
    <2> QED BY <2>1, <2>2
  <1> QED BY <1>4, <1>5, <1>6

LEMMA FailsBeforeStep ==
  ASSUME OutboxInv, NEW c \in OutChats, FailsBefore(c)
  PROVE  OutboxInv'
  <1> USE DEF OutboxInv
  <1>1. PICK m \in OutMessages : admitting[c].msg = {m} /\ ChatOf[m] = c /\ m \notin logged
    BY DEF FailsBefore, AdmissionsSound, AdmissionSound
  <1>2. table' = CancelRows(m) \/ table' = table
    BY <1>1 DEF FailsBefore
  <1>3. /\ table' \in [Items -> ItemStatus]
        /\ \A i \in Items : table'[i] # table[i] => i[1] = m /\ table'[i] = "none"
    BY <1>2, CancelRow DEF OutboxTyped
  <1>4. /\ UNCHANGED <<logged, claims, done>>
        /\ admitting'[c].pc = "idle"
        /\ \A d \in OutChats : d # c => admitting'[d] = admitting[d]
        /\ admitting' \in [OutChats ->
             [pc : {"idle", "prepared", "recorded", "passing"},
              msg : SUBSET OutMessages, fresh : BOOLEAN]]
    BY DEF FailsBefore, OutboxTyped, NoAdmission
  <1>5. OutboxTyped'
    BY <1>3, <1>4 DEF OutboxTyped
  <1>6. RowsAllowed'
    <2>1. \A i \in Items : i[1] = m => RowAllowed(i[1], "none", logged, i \in done)
      BY <1>1 DEF RowsAllowed, RowAllowed
    <2> QED BY <1>3, <1>4, <2>1, RowsKept
  <1>7. AdmissionsSound'
    <2> SUFFICES ASSUME NEW d \in OutChats
                 PROVE  AdmissionSound(d, admitting'[d], table', logged')
      BY DEF AdmissionsSound
    <2>1. CASE d = c
      BY <1>4, <2>1 DEF AdmissionSound
    <2>2. CASE d # c
      <3>1. AdmissionSound(d, admitting[d], table, logged)
        BY DEF AdmissionsSound
      <3>2. admitting[d].pc = "prepared" =>
              \A i \in Items : i[1] \in admitting[d].msg => table'[i] = table[i]
        BY <1>1, <1>3, <2>2, <3>1 DEF AdmissionSound
      <3> QED BY <1>4, <2>2, <3>1, <3>2, AdmissionKept
    <2> QED BY <2>1, <2>2
  <1> QED BY <1>5, <1>6, <1>7

LEMMA FailsAfterStep ==
  ASSUME OutboxInv, NEW c \in OutChats, FailsAfter(c)
  PROVE  OutboxInv'
  <1> USE DEF OutboxInv
  <1>1. /\ UNCHANGED <<table, logged, claims, done>>
        /\ \A d \in OutChats : admitting'[d] = admitting[d] \/ admitting'[d].pc = "idle"
    BY DEF FailsAfter, OutboxTyped, NoAdmission
  <1>2. OutboxTyped'
    BY <1>1 DEF OutboxTyped, FailsAfter, NoAdmission
  <1>3. RowsAllowed'
    BY <1>1 DEF RowsAllowed
  <1>4. SpareAdmissions
    BY <1>1 DEF SpareAdmissions
  <1> QED BY <1>1, <1>2, <1>3, <1>4, AdmissionsKept

LEMMA AdmittedStep ==
  ASSUME OutboxInv, NEW c \in OutChats, Admitted(c)
  PROVE  OutboxInv'
  <1> USE DEF OutboxInv
  <1>1. PICK m \in OutMessages : admitting[c].msg = {m} /\ ChatOf[m] = c /\ m \in logged
    BY DEF Admitted, AdmissionsSound, AdmissionSound
  <1>2. table' = MarkReady(m)
    BY <1>1 DEF Admitted
  <1>3. /\ table' \in [Items -> ItemStatus]
        /\ \A i \in Items : table'[i] # table[i] =>
             i[1] = m /\ table[i] = "prepared" /\ table'[i] = "ready"
    BY <1>2, MarkReadyRow
  <1>4. UNCHANGED <<logged, claims, done>>
    BY DEF Admitted
  <1>5. \/ admitting' = [admitting EXCEPT ![c] = NoAdmission]
        \/ admitting' = [admitting EXCEPT ![c].pc = "passing"]
    BY <1>1 DEF Admitted
  <1>6. /\ admitting'[c].pc # "idle" => admitting'[c].pc = "passing" /\ admitting'[c].msg = {m}
        /\ \A d \in OutChats : d # c => admitting'[d] = admitting[d]
        /\ admitting' \in [OutChats ->
             [pc : {"idle", "prepared", "recorded", "passing"},
              msg : SUBSET OutMessages, fresh : BOOLEAN]]
    <2> DEFINE AdmissionType ==
          [pc : {"idle", "prepared", "recorded", "passing"},
           msg : SUBSET OutMessages, fresh : BOOLEAN]
    <2>0. admitting \in [OutChats -> AdmissionType] /\ NoAdmission \in AdmissionType
      BY DEF OutboxTyped, NoAdmission
    <2>1. CASE admitting' = [admitting EXCEPT ![c] = NoAdmission]
      <3>1. NoAdmission.pc = "idle"
        BY DEF NoAdmission
      <3> HIDE DEF AdmissionType
      <3>2. admitting' \in [OutChats -> AdmissionType]
        BY <2>0, <2>1
      <3>3. admitting'[c].pc = "idle" /\ \A d \in OutChats : d # c => admitting'[d] = admitting[d]
        BY <2>0, <2>1, <3>1
      <3> QED BY <3>2, <3>3 DEF AdmissionType
    <2>2. CASE admitting' = [admitting EXCEPT ![c].pc = "passing"]
      <3>1. /\ [admitting[c] EXCEPT !.pc = "passing"] \in AdmissionType
            /\ [admitting[c] EXCEPT !.pc = "passing"].pc = "passing"
            /\ [admitting[c] EXCEPT !.pc = "passing"].msg = {m}
        BY <1>1, <2>0
      <3> HIDE DEF AdmissionType
      <3>2. admitting' = [admitting EXCEPT ![c] = [admitting[c] EXCEPT !.pc = "passing"]]
        BY <2>2
      <3>3. admitting'[c] = [admitting[c] EXCEPT !.pc = "passing"]
        BY <2>0, <3>2
      <3>4. admitting' \in [OutChats -> AdmissionType]
        BY <2>0, <3>1, <3>2
      <3>5. \A d \in OutChats : d # c => admitting'[d] = admitting[d]
        BY <2>0, <3>2
      <3> QED BY <3>1, <3>3, <3>4, <3>5 DEF AdmissionType
    <2> QED BY <1>5, <2>1, <2>2
  <1>7. OutboxTyped'
    BY <1>3, <1>4, <1>6 DEF OutboxTyped
  <1>8. RowsAllowed'
    <2>1. \A i \in Items : i[1] = m /\ table[i] = "prepared" =>
            RowAllowed(i[1], "ready", logged, i \in done)
      BY <1>1 DEF RowsAllowed, RowAllowed
    <2> QED BY <1>3, <1>4, <2>1, RowsKept
  <1>9. AdmissionsSound'
    <2> SUFFICES ASSUME NEW d \in OutChats
                 PROVE  AdmissionSound(d, admitting'[d], table', logged')
      BY DEF AdmissionsSound
    <2>1. CASE d = c
      BY <1>1, <1>4, <1>6, <2>1 DEF AdmissionSound
    <2>2. CASE d # c
      <3>1. AdmissionSound(d, admitting[d], table, logged)
        BY DEF AdmissionsSound
      <3>2. admitting[d].pc = "prepared" =>
              \A i \in Items : i[1] \in admitting[d].msg => table'[i] = table[i]
        BY <1>1, <1>3, <2>2, <3>1 DEF AdmissionSound
      <3> QED BY <1>4, <1>6, <2>2, <3>1, <3>2, AdmissionKept
    <2> QED BY <2>1, <2>2
  <1> QED BY <1>7, <1>8, <1>9

(***************************************************************************)
(* Passes.  They leave admissions as they are or end them, and what they   *)
(* change in the table is allowed and spares the admissions under way.     *)
(***************************************************************************)
LEMMA PassKeeps ==
  ASSUME OutboxInv, UNCHANGED <<logged, done>>,
         table' \in [Items -> ItemStatus], claims' \subseteq Items,
         \A i \in Items : table'[i] # table[i] =>
           /\ RowAllowed(i[1], table'[i], logged, i \in done)
           /\ ~InProgress(i[1]) \/ table[i] # "prepared",
         admitting' = admitting \/
           \E r \in Runners : admitting' = [c \in OutChats |->
                                IF c = r THEN NoAdmission ELSE admitting[c]]
  PROVE  OutboxInv'
  <1> USE DEF OutboxInv
  <1>1. /\ admitting' \in [OutChats ->
             [pc : {"idle", "prepared", "recorded", "passing"},
              msg : SUBSET OutMessages, fresh : BOOLEAN]]
        /\ \A c \in OutChats : admitting'[c] = admitting[c] \/ admitting'[c].pc = "idle"
    <2> DEFINE AdmissionType ==
          [pc : {"idle", "prepared", "recorded", "passing"},
           msg : SUBSET OutMessages, fresh : BOOLEAN]
    <2>1. /\ admitting \in [OutChats -> AdmissionType]
          /\ NoAdmission \in AdmissionType /\ NoAdmission.pc = "idle"
      BY DEF OutboxTyped, NoAdmission
    <2> HIDE DEF AdmissionType
    <2>2. /\ admitting' \in [OutChats -> AdmissionType]
          /\ \A c \in OutChats : admitting'[c] = admitting[c] \/ admitting'[c] = NoAdmission
      BY <2>1
    <2> QED BY <2>1, <2>2 DEF AdmissionType
  <1>2. OutboxTyped'
    BY <1>1 DEF OutboxTyped
  <1>3. RowsAllowed'
    BY RowsKept
  <1>4. SpareAdmissions
    BY PreparedRows DEF SpareAdmissions
  <1> QED BY <1>1, <1>2, <1>3, <1>4, AdmissionsKept

LEMMA RecoverPreparedStep ==
  ASSUME OutboxInv, NEW r \in Runners, NEW m \in OutMessages, RecoverPrepared(r, m)
  PROVE  OutboxInv'
  <1>1. /\ table' = RecoverRow(m)
        /\ UNCHANGED <<logged, done, claims, admitting>>
    BY DEF RecoverPrepared
  <1>2. CASE InProgress(m)
    BY <1>1, <1>2, PassKeeps DEF RecoverRow, OutboxInv, OutboxTyped
  <1>3. CASE ~InProgress(m) /\ m \in logged
    <2>1. table' = MarkReady(m)
      BY <1>1, <1>3 DEF RecoverRow
    <2>2. /\ table' \in [Items -> ItemStatus]
          /\ \A i \in Items : table'[i] # table[i] =>
               i[1] = m /\ table[i] = "prepared" /\ table'[i] = "ready"
      BY <2>1, MarkReadyRow DEF OutboxInv
    <2>3. \A i \in Items : i[1] = m /\ table[i] = "prepared" =>
            RowAllowed(i[1], "ready", logged, i \in done)
      BY <1>3 DEF OutboxInv, RowsAllowed, RowAllowed
    <2> QED BY <1>1, <1>3, <2>2, <2>3, PassKeeps DEF OutboxInv, OutboxTyped
  <1>4. CASE ~InProgress(m) /\ m \notin logged
    <2>1. table' = CancelRows(m)
      BY <1>1, <1>4 DEF RecoverRow
    <2>2. /\ table' \in [Items -> ItemStatus]
          /\ \A i \in Items : table'[i] # table[i] => i[1] = m /\ table'[i] = "none"
      BY <2>1, CancelRow DEF OutboxInv
    <2>3. \A i \in Items : i[1] = m => RowAllowed(i[1], "none", logged, i \in done)
      BY <1>4 DEF OutboxInv, RowsAllowed, RowAllowed
    <2> QED BY <1>1, <1>4, <2>2, <2>3, PassKeeps DEF OutboxInv, OutboxTyped
  <1> QED BY <1>2, <1>3, <1>4

LEMMA ClaimReadyStep ==
  ASSUME OutboxInv, NEW r \in Runners, NEW batch \in SUBSET Items, ClaimReady(r, batch)
  PROVE  OutboxInv'
  <1>1. \A i \in batch : table[i] \in {"ready", "processing"}
    <2>1. PICK expired \in SUBSET InStatus("processing") :
            batch \in Batches(InStatus("ready") \cup expired)
      BY DEF ClaimReady
    <2> QED BY <2>1 DEF Batches, InStatus
  <1>2. /\ table' = [i \in Items |-> IF i \in batch THEN "processing" ELSE table[i]]
        /\ claims' = batch
        /\ UNCHANGED <<logged, done, admitting>>
    BY DEF ClaimReady
  <1>3. table' \in [Items -> ItemStatus]
    BY <1>2 DEF OutboxInv, OutboxTyped, ItemStatus
  <1>4. \A i \in Items : table'[i] # table[i] =>
          /\ table[i] # "prepared"
          /\ RowAllowed(i[1], table'[i], logged, i \in done)
    BY <1>1, <1>2 DEF OutboxInv, RowsAllowed, RowAllowed
  <1> QED BY <1>2, <1>3, <1>4, PassKeeps

LEMMA HandlerSucceedsStep ==
  ASSUME OutboxInv, NEW r \in Runners, NEW i \in Items, HandlerSucceeds(r, i)
  PROVE  OutboxInv'
  <1>1. table' = Moving({i}, "processing", "succeeded") /\ done' = done \cup {i}
        /\ UNCHANGED <<logged, admitting, claims>>
    BY DEF HandlerSucceeds, CompleteRows
  <1>2. table[i] = "processing"
    BY DEF HandlerSucceeds, NextClaim
  <1>3. /\ table' \in [Items -> ItemStatus]
        /\ \A j \in Items : table'[j] # table[j] => j = i
    BY <1>1, MovingRow DEF ItemStatus, OutboxInv
  <1>4. table'[i] = "succeeded"
    BY <1>1, <1>2 DEF Moving
  <1>5. OutboxTyped'
    BY <1>1, <1>3 DEF OutboxInv, OutboxTyped
  <1>6. RowsAllowed'
    <2> SUFFICES ASSUME NEW j \in Items
                 PROVE  RowAllowed(j[1], table'[j], logged', j \in done')
      BY DEF RowsAllowed
    <2>1. RowAllowed(j[1], table[j], logged, j \in done)
      BY DEF OutboxInv, RowsAllowed
    <2>2. CASE j = i
      BY <1>1, <1>2, <1>4, <2>1, <2>2 DEF RowAllowed
    <2>3. CASE j # i
      BY <1>1, <1>3, <2>1, <2>3 DEF RowAllowed
    <2> QED BY <2>2, <2>3
  <1>7. SpareAdmissions
    BY <1>2, <1>3, PreparedUntouched DEF OutboxInv
  <1> QED BY <1>1, <1>5, <1>6, <1>7, AdmissionsKept DEF OutboxInv

\* An effect whose handler is not done is still owed.
LEMMA BackToReady ==
  ASSUME OutboxInv, NEW items, table' = Moving(items, "processing", "ready")
  PROVE  /\ table' \in [Items -> ItemStatus]
         /\ \A i \in Items : table'[i] # table[i] =>
              /\ table[i] # "prepared"
              /\ RowAllowed(i[1], table'[i], logged, i \in done)
  <1>1. /\ table' \in [Items -> ItemStatus]
        /\ \A i \in Items : table'[i] # table[i] =>
             table[i] = "processing" /\ table'[i] = "ready"
    BY MovingRow DEF OutboxInv, ItemStatus
  <1> QED BY <1>1 DEF OutboxInv, RowsAllowed, RowAllowed

LEMMA HandlerFailsStep ==
  ASSUME OutboxInv, NEW r \in Runners, NEW i \in Items, HandlerFails(r, i)
  PROVE  OutboxInv'
  <1>1. table' = Moving({i}, "processing", "ready") /\ UNCHANGED <<logged, done, admitting>>
    BY DEF HandlerFails, CompleteRows
  <1>2. claims' \subseteq Items
    BY DEF HandlerFails, OutboxInv, OutboxTyped
  <1> QED BY <1>1, <1>2, BackToReady, PassKeeps

LEMMA FinishPassStep ==
  ASSUME OutboxInv, NEW r \in Runners, FinishPass(r)
  PROVE  OutboxInv'
  <1>1. PICK old \in SUBSET InStatus("succeeded") : table' = Moving(old, "succeeded", "none")
    BY DEF FinishPass
  <1>2. /\ table' \in [Items -> ItemStatus]
        /\ \A i \in Items : table'[i] # table[i] =>
             table[i] = "succeeded" /\ table'[i] = "none"
    BY <1>1, MovingRow DEF OutboxInv, ItemStatus
  <1>3. \A i \in Items : table'[i] # table[i] =>
          /\ table[i] # "prepared"
          /\ RowAllowed(i[1], table'[i], logged, i \in done)
    BY <1>2 DEF OutboxInv, RowsAllowed, RowAllowed
  <1>4. /\ UNCHANGED <<logged, done>> /\ claims' \subseteq Items
        /\ admitting' = [c \in OutChats |-> IF c = r THEN NoAdmission ELSE admitting[c]]
    BY DEF FinishPass, PassOver, OutboxInv, OutboxTyped
  <1> QED BY <1>2, <1>3, <1>4, PassKeeps

LEMMA CancelPassStep ==
  ASSUME OutboxInv, NEW r \in Runners, CancelPass(r)
  PROVE  OutboxInv'
  <1>1. \/ table' = Moving(claims, "processing", "ready")
        \/ table' = table
    BY DEF CancelPass, CompleteRows
  <1>2. /\ table' \in [Items -> ItemStatus]
        /\ \A i \in Items : table'[i] # table[i] =>
             /\ table[i] # "prepared"
             /\ RowAllowed(i[1], table'[i], logged, i \in done)
    BY <1>1, BackToReady DEF OutboxInv, OutboxTyped
  <1>3. /\ UNCHANGED <<logged, done>> /\ claims' \subseteq Items
        /\ admitting' = [c \in OutChats |-> IF c = r THEN NoAdmission ELSE admitting[c]]
    BY DEF CancelPass, PassOver, OutboxInv, OutboxTyped
  <1> QED BY <1>2, <1>3, PassKeeps

LEMMA OutCrashStep == OutboxInv /\ OutCrash => OutboxInv'
  <1> SUFFICES ASSUME OutboxInv, OutCrash PROVE OutboxInv'
    OBVIOUS
  <1> USE DEF OutboxInv
  <1>1. /\ UNCHANGED <<table, logged, done>> /\ claims' = {}
        /\ admitting' = [c \in OutChats |-> NoAdmission]
    BY DEF OutCrash
  <1>2. OutboxTyped'
    BY <1>1 DEF OutboxTyped, NoAdmission
  <1>3. RowsAllowed'
    BY <1>1 DEF RowsAllowed
  <1>4. AdmissionsSound'
    BY <1>1 DEF AdmissionsSound, AdmissionSound, NoAdmission
  <1> QED BY <1>2, <1>3, <1>4

LEMMA OtherSteps ==
  ASSUME OutboxInv,
         \/ \E c \in OutChats, m \in OutMessages : AdmitAgain(c, m)
         \/ WorkerWakes
         \/ UNCHANGED outboxVars
  PROVE  OutboxInv'
  <1>1. UNCHANGED <<table, admitting, claims, logged, done>>
    BY DEF AdmitAgain, WorkerWakes, outboxVars
  <1> QED BY <1>1 DEF OutboxInv, OutboxTyped, RowsAllowed, AdmissionsSound

(***************************************************************************)
(* The theorems.                                                           *)
(***************************************************************************)
\* The rows agree with the history and with the admissions under way.
THEOREM OutboxInvariant == OutboxSpec => []OutboxInv
  <1>1. OutboxInit => OutboxInv
    BY InitInv
  <1>2. OutboxInv /\ [OutboxNext]_outboxVars => OutboxInv'
    <2> SUFFICES ASSUME OutboxInv, [OutboxNext]_outboxVars PROVE OutboxInv'
      OBVIOUS
    <2>1. CASE \E c \in OutChats, m \in OutMessages : AdmitMessage(c, m)
      BY <2>1, AdmitMessageStep
    <2>2. CASE \E c \in OutChats : Record(c) \/ FailsBefore(c) \/ FailsAfter(c) \/ Admitted(c)
      BY <2>2, RecordStep, FailsBeforeStep, FailsAfterStep, AdmittedStep
    <2>3. CASE \E r \in Runners, m \in OutMessages : RecoverPrepared(r, m)
      BY <2>3, RecoverPreparedStep
    <2>4. CASE \E r \in Runners, batch \in SUBSET Items : ClaimReady(r, batch)
      BY <2>4, ClaimReadyStep
    <2>5. CASE \E r \in Runners : FinishPass(r) \/ CancelPass(r)
      BY <2>5, FinishPassStep, CancelPassStep
    <2>6. CASE \E r \in Runners, i \in Items : HandlerSucceeds(r, i) \/ HandlerFails(r, i)
      BY <2>6, HandlerSucceedsStep, HandlerFailsStep
    <2>7. CASE OutCrash
      BY <2>7, OutCrashStep
    <2>8. CASE \/ \E c \in OutChats, m \in OutMessages : AdmitAgain(c, m)
               \/ WorkerWakes
               \/ UNCHANGED outboxVars
      BY <2>8, OtherSteps
    <2> QED BY <2>1, <2>2, <2>3, <2>4, <2>5, <2>6, <2>7, <2>8 DEF OutboxNext
  <1> QED BY <1>1, <1>2, PTL DEF OutboxSpec

\* An effect is run only for a message that is in the history, for any number
\* of chats, messages and faults.
THEOREM EffectsFollow == OutboxSpec => []EffectsFollowAdmission
  <1>1. OutboxInv => EffectsFollowAdmission
    BY DEF OutboxInv, RowsAllowed, RowAllowed, EffectsFollowAdmission
  <1> QED BY <1>1, OutboxInvariant, PTL

\* The effects of a message in the history are owed until they succeeded.
THEOREM EffectsOwed == OutboxSpec => []AdmittedEffectsOwed
  <1>1. OutboxInv => AdmittedEffectsOwed
    BY DEF OutboxInv, RowsAllowed, RowAllowed, AdmittedEffectsOwed, RowsOf
  <1> QED BY <1>1, OutboxInvariant, PTL

-----------------------------------------------------------------------------
(* Approvals.                                                              *)

UnderWay(c) == request[c].pc \in {"sending", "waiting", "decided"}

\* The record of a turn in memory says where the turn is, unless a message of
\* the chat claimed it while the turn waits.
RecordsFollow ==
  \A t \in Turns :
    /\ phase[t] \notin {"none", "waiting"} => record[t].phase = phase[t]
    /\ phase[t] = "waiting" => record[t].phase \in {"waiting", "cancelled"}
    /\ phase[t] = "none" => record[t].phase \in Terminal \cup {"none", "waiting"}

\* A turn that awaits an approval has one call under way; what is still listed
\* of a call that is over belongs to a closed turn.
CallsInTurns ==
  /\ \A c \in Calls : UnderWay(c) => phase[TurnOf[c]] = "approving"
  /\ \A c, e \in Calls : UnderWay(c) /\ UnderWay(e) /\ TurnOf[c] = TurnOf[e] => c = e
  /\ \A c \in listed : request[c].pc = "over" =>
       /\ phase[TurnOf[c]] \in Terminal \cup {"none"}
       /\ record[TurnOf[c]].phase \in Terminal

\* Where a request can be found, by what it has reached.
BookOf(c) ==
  /\ c \in awaited => \/ request[c].pc \in {"sending", "waiting"}
                      \/ request[c].pc = "over" /\ c \in cut
  /\ c \in recovered => request[c].pc = "over" /\ c \notin awaited
  /\ c \in armed => request[c].pc = "waiting"
  /\ c \in cut => request[c].pc = "over"
  /\ request[c].pc = "waiting" /\ c \in awaited => c \in armed
  /\ request[c].pc \in {"sending", "waiting"} => c \in awaited \/ answer[c] # "none"
  /\ listed = filed
  /\ c \in listed <=> c \in awaited \/ c \in recovered

\* An open request has no answer, and a verdict is the answer of a request
\* somebody was asked.
AnswerOf(c) ==
  /\ c \in awaited => answer[c] = "none" /\ told[c] = {} /\ request[c].verdict = "none"
  /\ told[c] # {} => told[c] = {answer[c]}
  /\ request[c].pc = "idle" => answer[c] = "none" /\ told[c] = {} /\ ~request[c].sent
  /\ request[c].pc \in {"idle", "sending", "waiting"} => request[c].verdict = "none"
  /\ request[c].verdict # "none" /\ request[c].sent => request[c].verdict = answer[c]

CallsInv == \A c \in Calls : BookOf(c) /\ AnswerOf(c)

ApprovalInv == ApprovalTypeOK /\ RecordsFollow /\ CallsInTurns /\ CallsInv

USE DEF approvalVars, books, rest

RecordType == [phase : TurnPhases \cup {"none"}, marked : BOOLEAN,
               evidence : BOOLEAN, waits : 0 .. MaxWaits]
RequestType == [pc : {"idle", "sending", "waiting", "decided", "over"},
                left : 0 .. CardTargets, sent : BOOLEAN, verdict : Answers \cup {"none"}]

LEMMA Entries ==
  ASSUME ApprovalTypeOK
  PROVE  /\ \A t \in Turns : /\ record[t] \in RecordType
                             /\ phase[t] \in TurnPhases \cup {"none"}
         /\ \A c \in Calls : /\ request[c] \in RequestType /\ TurnOf[c] \in Turns
                             /\ answer[c] \in Answers \cup {"none"}
                             /\ told[c] \subseteq Answers
BY ApprovalAssumption DEF ApprovalTypeOK, RecordType, RequestType

(***************************************************************************)
(* Turns.                                                                  *)
(***************************************************************************)
LEMMA MovesTurn ==
  ASSUME ApprovalTypeOK, RecordsFollow, NEW t \in Turns, NEW from, NEW to \in TurnPhases,
         to = "waiting" => record[t].waits < MaxWaits, Moves(t, from, to)
  PROVE  /\ phase[t] \in from
         /\ phase' \in [Turns -> TurnPhases \cup {"none"}]
         /\ record' \in [Turns -> RecordType]
         /\ \A u \in Turns :
              /\ phase'[u] = IF u = t THEN to ELSE phase[u]
              /\ record'[u].phase = IF u = t THEN to ELSE record[u].phase
         /\ RecordsFollow'
<1> DEFINE next == [phase |-> to, marked |-> FALSE, evidence |-> FALSE,
                    waits |-> IF to = "waiting" THEN record[t].waits + 1 ELSE record[t].waits]
<1>1. record[t] \in RecordType /\ MaxWaits \in Nat BY Entries, ApprovalAssumption
<1>2. next \in RecordType BY <1>1 DEF RecordType
<1>3. record' = [record EXCEPT ![t] = next] BY DEF Moves, Put
<1>4. next.phase = to OBVIOUS
<1> HIDE DEF next
<1>5. /\ record' \in [Turns -> RecordType]
      /\ \A u \in Turns : record'[u] = IF u = t THEN next ELSE record[u]
  BY <1>2, <1>3 DEF ApprovalTypeOK, RecordType
<1>6. /\ phase[t] \in from
      /\ phase' \in [Turns -> TurnPhases \cup {"none"}]
      /\ \A u \in Turns : phase'[u] = IF u = t THEN to ELSE phase[u]
  BY DEF Moves, ApprovalTypeOK
<1>7. \A u \in Turns : record'[u].phase = IF u = t THEN to ELSE record[u].phase
  BY <1>4, <1>5
<1>8. RecordsFollow'
  <2> SUFFICES ASSUME NEW u \in Turns
               PROVE  /\ phase'[u] \notin {"none", "waiting"} => record'[u].phase = phase'[u]
                      /\ phase'[u] = "waiting" => record'[u].phase \in {"waiting", "cancelled"}
                      /\ phase'[u] = "none" => record'[u].phase \in Terminal \cup {"none", "waiting"}
    BY DEF RecordsFollow
  <2>1. CASE u = t BY <2>1, <1>6, <1>7 DEF TurnPhases
  <2>2. CASE u # t BY <2>2, <1>6, <1>7 DEF RecordsFollow
  <2> QED BY <2>1, <2>2
<1> QED BY <1>5, <1>6, <1>7, <1>8

\* A step of one turn that does not await an approval leaves the calls alone.
LEMMA TurnAlone ==
  ASSUME ApprovalInv, NEW t \in Turns, phase[t] # "approving",
         phase' \in [Turns -> TurnPhases \cup {"none"}],
         record' \in [Turns -> RecordType],
         delivered' \subseteq Turns,
         RecordsFollow',
         \A u \in Turns \ {t} : phase'[u] = phase[u] /\ record'[u].phase = record[u].phase,
         phase[t] \in Terminal \cup {"none"} /\ record[t].phase \in Terminal =>
           phase'[t] \in Terminal \cup {"none"} /\ record'[t].phase \in Terminal,
         UNCHANGED <<request, awaited, answer, listed, filed, recovered, armed, told,
                     ran, restarts, cut>>
  PROVE  ApprovalInv'
<1>1. ApprovalTypeOK' BY DEF ApprovalInv, ApprovalTypeOK, RecordType
<1>2. CallsInTurns'
  <2>1. \A c \in Calls : UnderWay(c)' <=> UnderWay(c) BY DEF UnderWay
  <2>2. \A c \in Calls : TurnOf[c] \in Turns BY Entries DEF ApprovalInv
  <2>3. \A c \in Calls : UnderWay(c) => TurnOf[c] # t /\ phase[TurnOf[c]] = "approving"
    BY DEF ApprovalInv, CallsInTurns
  <2>4. \A c \in Calls : UnderWay(c)' => phase'[TurnOf[c]] = "approving"
    BY <2>1, <2>2, <2>3
  <2>5. \A c, e \in Calls : UnderWay(c)' /\ UnderWay(e)' /\ TurnOf[c] = TurnOf[e] => c = e
    BY <2>1 DEF ApprovalInv, CallsInTurns
  <2>6. ASSUME NEW c \in listed, request[c].pc = "over"
        PROVE  /\ phase'[TurnOf[c]] \in Terminal \cup {"none"}
               /\ record'[TurnOf[c]].phase \in Terminal
    <3>1. c \in Calls /\ TurnOf[c] \in Turns
      BY <2>2 DEF ApprovalInv, ApprovalTypeOK
    <3>2. /\ phase[TurnOf[c]] \in Terminal \cup {"none"}
          /\ record[TurnOf[c]].phase \in Terminal
      BY <2>6 DEF ApprovalInv, CallsInTurns
    <3> QED BY <3>1, <3>2
  <2> QED BY <2>4, <2>5, <2>6 DEF CallsInTurns
<1>3. CallsInv' BY DEF ApprovalInv, CallsInv, BookOf, AnswerOf
<1> QED BY <1>1, <1>2, <1>3 DEF ApprovalInv

LEMMA TurnMovesKeep ==
  ASSUME ApprovalInv, NEW t \in Turns,
         \/ StartsTurn(t) \/ WaitsTurn(t) \/ ResumesTurn(t) \/ FinishesTurn(t)
  PROVE  ApprovalInv'
<1>1. PICK from \in {{"none"}, {"active"}, {"waiting"}, {"finalizing"}},
           to \in TurnPhases \ {"approving", "cancelled"} :
        /\ Moves(t, from, to)
        /\ to = "waiting" => record[t].waits < MaxWaits
        /\ from = {"none"} => record[t].phase = "none"
  BY DEF StartsTurn, WaitsTurn, ResumesTurn, FinishesTurn, TurnPhases
<1>2. /\ phase[t] \in from
      /\ phase' \in [Turns -> TurnPhases \cup {"none"}]
      /\ record' \in [Turns -> RecordType]
      /\ \A u \in Turns :
           /\ phase'[u] = IF u = t THEN to ELSE phase[u]
           /\ record'[u].phase = IF u = t THEN to ELSE record[u].phase
      /\ RecordsFollow'
  BY <1>1, MovesTurn DEF ApprovalInv
<1>3. /\ phase[t] # "approving"
      /\ ~(phase[t] \in Terminal \cup {"none"} /\ record[t].phase \in Terminal)
  BY <1>1, <1>2 DEF Terminal
<1>4. UNCHANGED <<request, books, ran, rest>>
  BY DEF StartsTurn, WaitsTurn, ResumesTurn, FinishesTurn
<1>5. delivered' \subseteq Turns BY <1>4 DEF ApprovalInv, ApprovalTypeOK
<1> QED BY <1>2, <1>3, <1>4, <1>5, TurnAlone

\* The record of a turn changes with no step of the turn: a delivery is noted,
\* or a message claims the hint of a wait.
LEMMA RecordKeeps ==
  ASSUME ApprovalInv, NEW t \in Turns, RecordDelivery(t) \/ ClaimWaitingRecoveries(t) \/ DropsTurn(t)
  PROVE  ApprovalInv'
<1>1. /\ record[t] \in RecordType /\ record \in [Turns -> RecordType]
      /\ phase \in [Turns -> TurnPhases \cup {"none"}] /\ delivered \subseteq Turns
  BY Entries DEF ApprovalInv, ApprovalTypeOK, RecordType
<1>2. CASE RecordDelivery(t)
  <2> DEFINE next == [record[t] EXCEPT !.evidence = TRUE]
  <2>1. next \in RecordType /\ next.phase = record[t].phase BY <1>1 DEF RecordType
  <2>2. record' = [record EXCEPT ![t] = next] BY <1>2 DEF RecordDelivery
  <2> HIDE DEF next
  <2>3. /\ record' \in [Turns -> RecordType]
        /\ \A u \in Turns : record'[u].phase = record[u].phase
    BY <1>1, <2>1, <2>2
  <2>4. /\ phase' = phase /\ delivered' \subseteq Turns /\ phase[t] # "approving"
        /\ UNCHANGED <<request, books, ran, restarts, cut>>
    BY <1>1, <1>2 DEF RecordDelivery
  <2>5. RecordsFollow' BY <2>3, <2>4 DEF ApprovalInv, RecordsFollow
  <2> QED BY <1>1, <2>3, <2>4, <2>5, TurnAlone
<1>3. CASE ClaimWaitingRecoveries(t)
  <2> DEFINE next == [record[t] EXCEPT !.phase = "cancelled", !.marked = TRUE]
  <2>1. next \in RecordType /\ next.phase = "cancelled" BY <1>1 DEF RecordType, TurnPhases
  <2>2. record' = [record EXCEPT ![t] = next] BY <1>3 DEF ClaimWaitingRecoveries
  <2> HIDE DEF next
  <2>3. /\ record' \in [Turns -> RecordType]
        /\ \A u \in Turns : record'[u].phase = IF u = t THEN "cancelled" ELSE record[u].phase
    BY <1>1, <2>1, <2>2
  <2>4. /\ phase' = phase /\ record[t].phase = "waiting"
        /\ UNCHANGED <<request, books, ran, rest>>
    BY <1>3 DEF ClaimWaitingRecoveries
  <2>5. phase[t] \in {"none", "waiting"}
    BY <2>4 DEF ApprovalInv, RecordsFollow
  <2>6. RecordsFollow' BY <2>3, <2>4, <2>5 DEF ApprovalInv, RecordsFollow, Terminal
  <2>7. delivered' \subseteq Turns BY <1>1, <2>4
  <2>8. record[t].phase \notin Terminal BY <2>4 DEF Terminal
  <2> QED BY <1>1, <2>3, <2>4, <2>5, <2>6, <2>7, <2>8, TurnAlone
<1>4. CASE DropsTurn(t)
  <2>1. /\ phase[t] \in Terminal /\ phase' = [phase EXCEPT ![t] = "none"]
        /\ UNCHANGED <<record, request, books, ran, rest>>
    BY <1>4 DEF DropsTurn
  <2>2. /\ phase' \in [Turns -> TurnPhases \cup {"none"}]
        /\ \A u \in Turns : phase'[u] = IF u = t THEN "none" ELSE phase[u]
    BY <1>1, <2>1
  <2>3. record[t].phase = phase[t] /\ phase[t] # "approving"
    BY <2>1 DEF ApprovalInv, RecordsFollow, Terminal
  <2>4. RecordsFollow' BY <2>1, <2>2, <2>3 DEF ApprovalInv, RecordsFollow
  <2>5. delivered' \subseteq Turns BY <1>1, <2>1
  <2> QED BY <1>1, <2>1, <2>2, <2>3, <2>4, <2>5, TurnAlone
<1> QED BY <1>2, <1>3, <1>4

(***************************************************************************)
(* Calls.                                                                  *)
(***************************************************************************)
\* A step of one call concerns its own entries in the books.
LEMMA CallAlone ==
  ASSUME ApprovalInv, NEW c \in Calls, NEW next \in RequestType,
         request' = [request EXCEPT ![c] = next],
         awaited' \subseteq Calls, listed' \subseteq Calls, filed' = listed',
         recovered' \subseteq Calls, armed' \subseteq Calls, ran' \subseteq Calls,
         answer' \in [Calls -> Answers \cup {"none"}], told' \in [Calls -> SUBSET Answers],
         \A e \in Calls \ {c} :
           /\ e \in awaited' <=> e \in awaited
           /\ e \in listed' <=> e \in listed
           /\ e \in recovered' <=> e \in recovered
           /\ e \in armed' <=> e \in armed
           /\ answer'[e] = answer[e] /\ told'[e] = told[e],
         BookOf(c)', AnswerOf(c)',
         UNCHANGED <<restarts, cut, delivered>>,
         phase' \in [Turns -> TurnPhases \cup {"none"}], record' \in [Turns -> RecordType],
         RecordsFollow', CallsInTurns'
  PROVE  ApprovalInv'
<1>1. /\ request' \in [Calls -> RequestType]
      /\ \A e \in Calls \ {c} : request'[e] = request[e]
  BY DEF ApprovalInv, ApprovalTypeOK, RequestType
<1>2. ApprovalTypeOK' BY <1>1 DEF ApprovalInv, ApprovalTypeOK, RecordType, RequestType
<1>3. ASSUME NEW e \in Calls \ {c} PROVE BookOf(e)' /\ AnswerOf(e)'
  <2>1. BookOf(e) /\ AnswerOf(e) BY DEF ApprovalInv, CallsInv
  <2>2. BookOf(e)' BY <1>1, <2>1 DEF BookOf
  <2>3. AnswerOf(e)' BY <1>1, <2>1 DEF AnswerOf
  <2> QED BY <2>2, <2>3
<1>4. CallsInv' BY <1>3 DEF CallsInv
<1> QED BY <1>2, <1>4 DEF ApprovalInv

\* While the turns stand still, a call that goes on or leaves the list keeps
\* to its turn.
LEMMA TurnsStand ==
  ASSUME ApprovalInv, NEW c \in Calls, NEW next \in RequestType,
         request' = [request EXCEPT ![c] = next],
         next.pc \in {"sending", "waiting", "decided"} => UnderWay(c),
         next.pc = "over" => request[c].pc = "over",
         listed' \subseteq listed,
         UNCHANGED <<phase, record>>
  PROVE  /\ CallsInTurns' /\ RecordsFollow'
         /\ phase' \in [Turns -> TurnPhases \cup {"none"}]
         /\ record' \in [Turns -> RecordType]
<1>1. /\ \A e \in Calls : request'[e] = IF e = c THEN next ELSE request[e]
      /\ listed \subseteq Calls
  BY DEF ApprovalInv, ApprovalTypeOK
<1>2. \A e \in Calls : UnderWay(e)' => UnderWay(e) BY <1>1 DEF UnderWay
<1>3. \A e \in Calls : request'[e].pc = "over" => request[e].pc = "over" BY <1>1
<1>4. CallsInTurns' BY <1>1, <1>2, <1>3 DEF ApprovalInv, CallsInTurns
<1>5. RecordsFollow' BY DEF ApprovalInv, RecordsFollow
<1> QED BY <1>4, <1>5 DEF ApprovalInv, ApprovalTypeOK, RecordType

LEMMA SendCardKeeps ==
  ASSUME ApprovalInv, NEW c \in Calls, NEW accepted \in BOOLEAN, SendCard(c, accepted)
  PROVE  ApprovalInv'
<1> DEFINE sent == request[c].sent \/ accepted
           another == [request[c] EXCEPT !.left = @ - 1, !.sent = sent]
           waits == [request[c] EXCEPT !.left = 0, !.sent = TRUE, !.pc = "waiting"]
           unreached == [request[c] EXCEPT !.left = 0, !.pc = "decided", !.verdict = Fallback]
<1>0. 0 \in 0 .. CardTargets BY ApprovalAssumption
<1>1. /\ request[c] \in RequestType /\ request[c].pc = "sending" /\ UnderWay(c)
      /\ sent \in BOOLEAN /\ CardTargets \in Nat /\ Fallback \in Answers
      /\ BookOf(c) /\ AnswerOf(c)
      /\ UNCHANGED <<phase, record, ran, rest>>
  BY Entries, ApprovalAssumption
     DEF SendCard, UnderWay, RequestType, ApprovalInv, CallsInv, Answers
<1>2. CASE request[c].left > 1 /\ request' = [request EXCEPT ![c] = another] /\ UNCHANGED books
  <2>1. another \in RequestType /\ another.pc = "sending" /\ another.verdict = request[c].verdict
    <3>1. request[c].left - 1 \in 0 .. CardTargets BY <1>1, <1>2 DEF RequestType
    <3> HIDE DEF sent
    <3> QED BY <1>1, <3>1 DEF RequestType
  <2> HIDE DEF another
  <2>2. request'[c] = another BY <1>2 DEF ApprovalInv, ApprovalTypeOK
  <2>3. BookOf(c)' /\ AnswerOf(c)' BY <1>1, <1>2, <2>1, <2>2 DEF BookOf, AnswerOf
  <2>4. /\ CallsInTurns' /\ RecordsFollow'
        /\ phase' \in [Turns -> TurnPhases \cup {"none"}] /\ record' \in [Turns -> RecordType]
    BY <1>1, <1>2, <2>1, TurnsStand
  <2>5. /\ awaited \subseteq Calls /\ listed \subseteq Calls /\ filed = listed
        /\ recovered \subseteq Calls /\ armed \subseteq Calls /\ ran \subseteq Calls
        /\ answer \in [Calls -> Answers \cup {"none"}] /\ told \in [Calls -> SUBSET Answers]
    BY <1>1 DEF ApprovalInv, ApprovalTypeOK, BookOf
  <2> QED BY <1>1, <1>2, <2>1, <2>3, <2>4, <2>5, CallAlone
<1>3. CASE /\ sent /\ request' = [request EXCEPT ![c] = waits]
           /\ armed' = armed \cup {c}
           /\ UNCHANGED <<awaited, answer, listed, filed, recovered, told>>
  <2>1. /\ waits \in RequestType /\ waits.pc = "waiting" /\ waits.verdict = request[c].verdict
        /\ waits.sent
    BY <1>0, <1>1 DEF RequestType
  <2> HIDE DEF waits
  <2>2. request'[c] = waits BY <1>3 DEF ApprovalInv, ApprovalTypeOK
  <2>3. BookOf(c)' /\ AnswerOf(c)' BY <1>1, <1>3, <2>1, <2>2 DEF BookOf, AnswerOf
  <2>4. /\ CallsInTurns' /\ RecordsFollow'
        /\ phase' \in [Turns -> TurnPhases \cup {"none"}] /\ record' \in [Turns -> RecordType]
    BY <1>1, <1>3, <2>1, TurnsStand
  <2>5. /\ awaited \subseteq Calls /\ listed \subseteq Calls /\ filed = listed
        /\ recovered \subseteq Calls /\ armed' \subseteq Calls /\ ran \subseteq Calls
        /\ answer \in [Calls -> Answers \cup {"none"}] /\ told \in [Calls -> SUBSET Answers]
    BY <1>1, <1>3 DEF ApprovalInv, ApprovalTypeOK, BookOf
  <2> QED BY <1>1, <1>3, <2>1, <2>3, <2>4, <2>5, CallAlone
<1>4. CASE /\ ~sent /\ request' = [request EXCEPT ![c] = unreached]
           /\ awaited' = awaited \ {c} /\ Unfiles(c)
           /\ UNCHANGED <<answer, recovered, armed, told>>
  <2>1. /\ unreached \in RequestType /\ unreached.pc = "decided"
        /\ unreached.verdict = Fallback /\ ~unreached.sent
    BY <1>0, <1>1, <1>4 DEF RequestType
  <2> HIDE DEF unreached
  <2>2. request'[c] = unreached BY <1>4 DEF ApprovalInv, ApprovalTypeOK
  <2>3. BookOf(c)' /\ AnswerOf(c)'
    BY <1>1, <1>4, <2>1, <2>2 DEF BookOf, AnswerOf, Unfiles
  <2>4. /\ CallsInTurns' /\ RecordsFollow'
        /\ phase' \in [Turns -> TurnPhases \cup {"none"}] /\ record' \in [Turns -> RecordType]
    BY <1>1, <1>4, <2>1, TurnsStand DEF Unfiles
  <2>5. /\ awaited' \subseteq Calls /\ listed' \subseteq Calls /\ filed' = listed'
        /\ recovered \subseteq Calls /\ armed \subseteq Calls /\ ran \subseteq Calls
        /\ answer \in [Calls -> Answers \cup {"none"}] /\ told \in [Calls -> SUBSET Answers]
    BY <1>1, <1>4 DEF ApprovalInv, ApprovalTypeOK, BookOf, Unfiles
  <2> QED BY <1>1, <1>4, <2>1, <2>3, <2>4, <2>5, CallAlone DEF Unfiles
<1> QED BY <1>2, <1>3, <1>4 DEF SendCard

\* An answer, a timeout, and the requester that resumes.
LEMMA AnswerKeeps ==
  ASSUME ApprovalInv, NEW c \in Calls, (\E d \in Answers : Resolve(c, d)) \/ OnTimeout(c)
  PROVE  ApprovalInv'
<1>1. /\ request[c] \in RequestType /\ Fallback \in Answers
      /\ BookOf(c) /\ AnswerOf(c)
      /\ UNCHANGED <<phase, record, request, ran, rest>>
  BY Entries, ApprovalAssumption
     DEF Resolve, OnTimeout, ApprovalInv, CallsInv, Answers
<1>2. request' = [request EXCEPT ![c] = request[c]]
  BY <1>1 DEF ApprovalInv, ApprovalTypeOK
<1>3. listed' = listed \ {c} /\ filed' = filed \ {c}
  BY DEF Resolve, AnswersLive, AnswersRecovered, OnTimeout, Expires, Unfiles
<1>4. /\ CallsInTurns' /\ RecordsFollow'
      /\ phase' \in [Turns -> TurnPhases \cup {"none"}] /\ record' \in [Turns -> RecordType]
  BY <1>1, <1>2, <1>3, TurnsStand DEF UnderWay
<1>5. /\ awaited \subseteq Calls /\ listed' \subseteq Calls /\ filed' = listed'
      /\ recovered \subseteq Calls /\ armed \subseteq Calls /\ ran' \subseteq Calls
      /\ answer \in [Calls -> Answers \cup {"none"}] /\ told \in [Calls -> SUBSET Answers]
  BY <1>1, <1>3 DEF ApprovalInv, ApprovalTypeOK, BookOf
<1>6. CASE \E d \in Answers : AnswersLive(c, d)
  <2>1. PICK d \in Answers :
          /\ c \in awaited /\ awaited' = awaited \ {c}
          /\ answer' = [answer EXCEPT ![c] = d]
          /\ told' = [told EXCEPT ![c] = told[c] \cup {d}]
          /\ UNCHANGED <<recovered, armed>>
    BY <1>6 DEF AnswersLive
  <2>2. /\ answer' \in [Calls -> Answers \cup {"none"}] /\ told' \in [Calls -> SUBSET Answers]
        /\ answer'[c] = d /\ told'[c] = {d} /\ d # "none"
        /\ \A e \in Calls \ {c} : answer'[e] = answer[e] /\ told'[e] = told[e]
    BY <1>1, <1>5, <2>1 DEF AnswerOf, Answers
  <2>3. BookOf(c)' BY <1>1, <1>3, <2>1, <2>2 DEF BookOf
  <2>4. AnswerOf(c)' BY <1>1, <2>1, <2>2 DEF AnswerOf, BookOf
  <2> QED BY <1>1, <1>2, <1>3, <1>4, <1>5, <2>1, <2>2, <2>3, <2>4, CallAlone
<1>7. CASE \E d \in Answers : AnswersRecovered(c, d)
  <2>1. c \in recovered /\ recovered' = recovered \ {c}
        /\ UNCHANGED <<awaited, answer, armed, told>>
    BY <1>7 DEF AnswersRecovered
  <2>2. BookOf(c)' BY <1>1, <1>3, <2>1 DEF BookOf
  <2>3. AnswerOf(c)' BY <1>1, <2>1 DEF AnswerOf
  <2> QED BY <1>1, <1>2, <1>3, <1>4, <1>5, <2>1, <2>2, <2>3, CallAlone
<1>8. CASE OnTimeout(c)
  <2>1. /\ c \in armed /\ armed' = armed \ {c} /\ awaited' = awaited \ {c}
        /\ answer' = [answer EXCEPT ![c] = IF c \in awaited THEN Fallback ELSE answer[c]]
        /\ UNCHANGED <<recovered, told>>
    BY <1>8 DEF OnTimeout, Expires
  <2>2. /\ answer' \in [Calls -> Answers \cup {"none"}]
        /\ answer'[c] = IF c \in awaited THEN Fallback ELSE answer[c]
        /\ \A e \in Calls \ {c} : answer'[e] = answer[e]
    BY <1>1, <1>5, <2>1
  <2>3. BookOf(c)' BY <1>1, <1>3, <2>1, <2>2 DEF BookOf, Answers
  <2>4. AnswerOf(c)' BY <1>1, <2>1, <2>2 DEF AnswerOf, BookOf
  <2> QED BY <1>1, <1>2, <1>3, <1>4, <1>5, <2>1, <2>2, <2>3, <2>4, CallAlone
<1> QED BY <1>6, <1>7, <1>8 DEF Resolve

LEMMA DecideKeeps ==
  ASSUME ApprovalInv, NEW c \in Calls, Decide(c)
  PROVE  ApprovalInv'
<1> DEFINE next == [request[c] EXCEPT !.pc = "decided", !.verdict = answer[c]]
<1>1. /\ request[c] \in RequestType /\ request[c].pc = "waiting" /\ UnderWay(c)
      /\ answer[c] \in Answers /\ BookOf(c) /\ AnswerOf(c)
  BY Entries DEF Decide, UnderWay, ApprovalInv, CallsInv
<1>2. next \in RequestType /\ next.pc = "decided" /\ next.verdict = answer[c]
  BY <1>1 DEF RequestType
<1>3. /\ request' = [request EXCEPT ![c] = next]
      /\ armed' = armed \ {c} /\ awaited' = awaited \ {c} /\ recovered' = recovered \ {c}
      /\ listed' = listed \ {c} /\ filed' = filed \ {c}
      /\ UNCHANGED <<phase, record, answer, ran, told, rest>>
  BY DEF Decide, Unfiles
<1> HIDE DEF next
<1>4. request'[c] = next BY <1>3 DEF ApprovalInv, ApprovalTypeOK
<1>5. BookOf(c)' /\ AnswerOf(c)' BY <1>1, <1>2, <1>3, <1>4 DEF BookOf, AnswerOf
<1>6. /\ CallsInTurns' /\ RecordsFollow'
      /\ phase' \in [Turns -> TurnPhases \cup {"none"}] /\ record' \in [Turns -> RecordType]
  BY <1>1, <1>2, <1>3, TurnsStand
<1>7. /\ awaited' \subseteq Calls /\ listed' \subseteq Calls /\ filed' = listed'
      /\ recovered' \subseteq Calls /\ armed' \subseteq Calls /\ ran \subseteq Calls
      /\ answer \in [Calls -> Answers \cup {"none"}] /\ told \in [Calls -> SUBSET Answers]
  BY <1>1, <1>3 DEF ApprovalInv, ApprovalTypeOK, BookOf
<1> QED BY <1>2, <1>3, <1>5, <1>6, <1>7, CallAlone

(***************************************************************************)
(* The steps of a call together with its turn.                             *)
(***************************************************************************)
LEMMA RequestKeeps ==
  ASSUME ApprovalInv, NEW c \in Calls, RequestApproval(c)
  PROVE  ApprovalInv'
<1> DEFINE t == TurnOf[c]
<1>1. /\ request[c] \in RequestType /\ request[c].pc = "idle" /\ t \in Turns
      /\ \A e \in Calls : TurnOf[e] \in Turns
      /\ ~CallUnderWay(t) /\ Moves(t, {"active"}, "approving")
      /\ BookOf(c) /\ AnswerOf(c) /\ ran' = ran /\ UNCHANGED rest
  BY Entries DEF RequestApproval, ApprovalInv, CallsInv
<1>2. /\ phase[t] = "active"
      /\ phase' \in [Turns -> TurnPhases \cup {"none"}]
      /\ record' \in [Turns -> RecordType]
      /\ \A u \in Turns :
           /\ phase'[u] = IF u = t THEN "approving" ELSE phase[u]
           /\ record'[u].phase = IF u = t THEN "approving" ELSE record[u].phase
      /\ RecordsFollow'
  BY <1>1, MovesTurn DEF ApprovalInv, TurnPhases
<1>3. PICK next \in RequestType :
        /\ request' = [request EXCEPT ![c] = next]
        /\ \/ next.pc = "sending" /\ next.verdict = "none" /\ Registers(c)
           \/ next.pc = "decided" /\ RegisterFails(c)
        /\ ~next.sent
  <2>1. CASE Registers(c)
    <3> DEFINE next == [request[c] EXCEPT !.pc = "sending"]
    <3>1. /\ next \in RequestType /\ next.pc = "sending" /\ next.sent = request[c].sent
          /\ next.verdict = request[c].verdict
      BY <1>1 DEF RequestType
    <3>2. request' = [request EXCEPT ![c] = next] BY <2>1 DEF Registers
    <3> HIDE DEF next
    <3> QED BY <1>1, <2>1, <3>1, <3>2 DEF AnswerOf
  <2>2. CASE RegisterFails(c)
    <3> DEFINE next == [request[c] EXCEPT !.pc = "decided", !.verdict = "deny"]
    <3>1. next \in RequestType /\ next.pc = "decided" /\ next.sent = request[c].sent
      BY <1>1 DEF RequestType, Answers
    <3>2. request' = [request EXCEPT ![c] = next] BY <2>2 DEF RegisterFails
    <3> HIDE DEF next
    <3> QED BY <1>1, <2>2, <3>1, <3>2 DEF AnswerOf
  <2> QED BY <2>1, <2>2 DEF RequestApproval
<1>4. \A e \in Calls : request'[e] = IF e = c THEN next ELSE request[e]
  BY <1>3 DEF ApprovalInv, ApprovalTypeOK
<1>5. /\ awaited' \subseteq Calls /\ listed' \subseteq Calls /\ filed' = listed'
      /\ recovered' \subseteq Calls /\ armed' \subseteq Calls /\ ran' \subseteq Calls
      /\ answer' \in [Calls -> Answers \cup {"none"}] /\ told' \in [Calls -> SUBSET Answers]
      /\ UNCHANGED <<answer, recovered, armed, told, cut>>
  BY <1>1, <1>3 DEF ApprovalInv, ApprovalTypeOK, BookOf, Registers, RegisterFails
<1>6. \A e \in Calls \ {c} : /\ e \in awaited' <=> e \in awaited
                             /\ e \in listed' <=> e \in listed
  BY <1>3 DEF Registers, RegisterFails
<1>7. BookOf(c)' /\ AnswerOf(c)'
  <2>0. request'[c] = next /\ ~next.sent BY <1>3, <1>4
  <2>1. CASE next.pc = "sending" /\ next.verdict = "none" /\ Registers(c)
    <3>1. /\ awaited' = awaited \cup {c} /\ listed' = listed \cup {c} /\ filed' = filed \cup {c}
          /\ UNCHANGED <<answer, recovered, armed, told, cut>>
      BY <1>5, <2>1 DEF Registers
    <3>2. BookOf(c)' BY <1>1, <2>0, <2>1, <3>1 DEF BookOf
    <3>3. AnswerOf(c)' BY <1>1, <2>0, <2>1, <3>1 DEF AnswerOf, BookOf
    <3> QED BY <3>2, <3>3
  <2>2. CASE next.pc = "decided" /\ RegisterFails(c)
    <3>1. UNCHANGED <<awaited, answer, listed, filed, recovered, armed, told, cut>>
      BY <1>5, <2>2 DEF RegisterFails
    <3>2. BookOf(c)' BY <1>1, <2>0, <2>2, <3>1 DEF BookOf
    <3>3. AnswerOf(c)' BY <1>1, <2>0, <2>2, <3>1 DEF AnswerOf, BookOf
    <3> QED BY <3>2, <3>3
  <2> QED BY <2>1, <2>2, <1>3
<1>8. CallsInTurns'
  <2>1. \A e \in Calls : UnderWay(e) => TurnOf[e] # t
    BY <1>1 DEF CallUnderWay, UnderWay
  <2>2. \A e \in Calls : UnderWay(e)' => e = c \/ UnderWay(e) BY <1>4 DEF UnderWay
  <2>3. \A e \in Calls : UnderWay(e)' => phase'[TurnOf[e]] = "approving"
    BY <1>1, <1>2, <2>1, <2>2 DEF ApprovalInv, CallsInTurns
  <2>4. \A e, g \in Calls : UnderWay(e)' /\ UnderWay(g)' /\ TurnOf[e] = TurnOf[g] => e = g
    BY <2>1, <2>2 DEF ApprovalInv, CallsInTurns
  <2>5. ASSUME NEW e \in listed', request'[e].pc = "over"
        PROVE  /\ phase'[TurnOf[e]] \in Terminal \cup {"none"}
               /\ record'[TurnOf[e]].phase \in Terminal
    <3>1. e \in Calls /\ e # c /\ e \in listed /\ request[e].pc = "over"
      BY <1>3, <1>4, <1>5, <1>6, <2>5
    <3>2. /\ phase[TurnOf[e]] \in Terminal \cup {"none"}
          /\ record[TurnOf[e]].phase \in Terminal
      BY <3>1 DEF ApprovalInv, CallsInTurns
    <3>3. TurnOf[e] # t BY <1>2, <3>2 DEF Terminal
    <3> QED BY <1>1, <1>2, <3>1, <3>2, <3>3
  <2> QED BY <2>3, <2>4, <2>5 DEF CallsInTurns
<1> HIDE DEF t
<1> QED BY <1>1, <1>2, <1>3, <1>5, <1>6, <1>7, <1>8, CallAlone

LEMMA ProceedsKeeps ==
  ASSUME ApprovalInv, NEW c \in Calls, Proceeds(c)
  PROVE  ApprovalInv'
<1> DEFINE t == TurnOf[c]
           next == [request[c] EXCEPT !.pc = "over"]
<1>1. /\ request[c] \in RequestType /\ request[c].pc = "decided" /\ t \in Turns /\ UnderWay(c)
      /\ \A e \in Calls : TurnOf[e] \in Turns
      /\ Moves(t, {"approving"}, "active") /\ request' = [request EXCEPT ![c] = next]
      /\ BookOf(c) /\ AnswerOf(c) /\ ran' \subseteq ran \cup {c} /\ UNCHANGED <<books, rest>>
  BY Entries DEF Proceeds, ApprovalInv, CallsInv, UnderWay
<1>2. /\ phase[t] = "approving"
      /\ phase' \in [Turns -> TurnPhases \cup {"none"}]
      /\ record' \in [Turns -> RecordType]
      /\ \A u \in Turns :
           /\ phase'[u] = IF u = t THEN "active" ELSE phase[u]
           /\ record'[u].phase = IF u = t THEN "active" ELSE record[u].phase
      /\ RecordsFollow'
  BY <1>1, MovesTurn DEF ApprovalInv, TurnPhases
<1>3. /\ next \in RequestType /\ next.pc = "over" /\ next.sent = request[c].sent
      /\ next.verdict = request[c].verdict
  BY <1>1 DEF RequestType
<1> HIDE DEF next
<1>4. \A e \in Calls : request'[e] = IF e = c THEN next ELSE request[e]
  BY <1>1 DEF ApprovalInv, ApprovalTypeOK
<1>5. c \notin listed BY <1>1 DEF BookOf
<1>6. BookOf(c)' /\ AnswerOf(c)' BY <1>1, <1>3, <1>4 DEF BookOf, AnswerOf
<1>7. /\ awaited \subseteq Calls /\ listed \subseteq Calls /\ filed = listed
      /\ recovered \subseteq Calls /\ armed \subseteq Calls /\ ran' \subseteq Calls
      /\ answer \in [Calls -> Answers \cup {"none"}] /\ told \in [Calls -> SUBSET Answers]
  BY <1>1 DEF ApprovalInv, ApprovalTypeOK, BookOf
<1>8. CallsInTurns'
  <2>1. \A e \in Calls : UnderWay(e)' => UnderWay(e) /\ e # c BY <1>3, <1>4 DEF UnderWay
  <2>2. \A e \in Calls : UnderWay(e)' => phase[TurnOf[e]] = "approving" /\ TurnOf[e] # t
    BY <1>1, <2>1 DEF ApprovalInv, CallsInTurns
  <2>3. \A e \in Calls : UnderWay(e)' => phase'[TurnOf[e]] = "approving"
    BY <1>1, <1>2, <2>2
  <2>4. \A e, g \in Calls : UnderWay(e)' /\ UnderWay(g)' /\ TurnOf[e] = TurnOf[g] => e = g
    BY <2>1 DEF ApprovalInv, CallsInTurns
  <2>5. ASSUME NEW e \in listed', request'[e].pc = "over"
        PROVE  /\ phase'[TurnOf[e]] \in Terminal \cup {"none"}
               /\ record'[TurnOf[e]].phase \in Terminal
    <3>1. e \in Calls /\ e # c /\ e \in listed /\ request[e].pc = "over"
      BY <1>1, <1>4, <1>5, <1>7, <2>5
    <3>2. /\ phase[TurnOf[e]] \in Terminal \cup {"none"}
          /\ record[TurnOf[e]].phase \in Terminal
      BY <3>1 DEF ApprovalInv, CallsInTurns
    <3>3. TurnOf[e] # t BY <1>2, <3>2 DEF Terminal
    <3> QED BY <1>1, <1>2, <3>1, <3>2, <3>3
  <2> QED BY <2>3, <2>4, <2>5 DEF CallsInTurns
<1> HIDE DEF t
<1> QED BY <1>1, <1>2, <1>3, <1>6, <1>7, <1>8, CallAlone

\* A turn that is cancelled takes its call with it; a request whose cards were
\* being sent stays open.
LEMMA CancelKeeps ==
  ASSUME ApprovalInv, NEW t \in Turns, CancelTurn(t)
  PROVE  ApprovalInv'
<1> DEFINE calls == {c \in Calls : TurnOf[c] = t /\ UnderWay(c)}
           waiting == {c \in calls : request[c].pc = "waiting"}
           sending == {c \in calls : request[c].pc = "sending"}
<1>1. /\ Moves(t, TurnPhases \ Terminal, "cancelled")
      /\ request' = [c \in Calls |-> IF c \in calls THEN [request[c] EXCEPT !.pc = "over"]
                                     ELSE request[c]]
      /\ awaited' = awaited \ waiting /\ listed' = listed \ waiting /\ filed' = filed \ waiting
      /\ armed' = armed \ waiting
      /\ cut' = cut \cup sending
      /\ UNCHANGED <<answer, recovered, ran, restarts, told, delivered>>
  BY DEF CancelTurn, UnderWay
<1>2. /\ phase[t] \in TurnPhases \ Terminal
      /\ phase' \in [Turns -> TurnPhases \cup {"none"}]
      /\ record' \in [Turns -> RecordType]
      /\ \A u \in Turns :
           /\ phase'[u] = IF u = t THEN "cancelled" ELSE phase[u]
           /\ record'[u].phase = IF u = t THEN "cancelled" ELSE record[u].phase
      /\ RecordsFollow'
  BY <1>1, MovesTurn DEF ApprovalInv, TurnPhases
<1>3. \A c \in Calls : request[c] \in RequestType /\ TurnOf[c] \in Turns
  BY Entries DEF ApprovalInv
<1>4. \A c \in Calls :
        /\ request'[c] \in RequestType
        /\ request'[c].pc = IF c \in calls THEN "over" ELSE request[c].pc
        /\ request'[c].sent = request[c].sent /\ request'[c].verdict = request[c].verdict
  BY <1>1, <1>3 DEF RequestType
<1>5. request' \in [Calls -> RequestType] BY <1>1, <1>4
<1>6. ApprovalTypeOK'
  BY <1>1, <1>2, <1>5 DEF ApprovalInv, ApprovalTypeOK, RecordType, RequestType
<1>7. \A c \in Calls : c \in calls <=> TurnOf[c] = t /\ UnderWay(c) OBVIOUS
<1>8. CallsInTurns'
  <2>1. \A c \in Calls : UnderWay(c)' => UnderWay(c) /\ TurnOf[c] # t
    BY <1>4, <1>7 DEF UnderWay
  <2>2. \A c \in Calls : UnderWay(c)' => phase'[TurnOf[c]] = "approving"
    BY <1>2, <1>3, <2>1 DEF ApprovalInv, CallsInTurns
  <2>3. \A c, e \in Calls : UnderWay(c)' /\ UnderWay(e)' /\ TurnOf[c] = TurnOf[e] => c = e
    BY <2>1 DEF ApprovalInv, CallsInTurns
  <2>4. ASSUME NEW c \in listed', request'[c].pc = "over"
        PROVE  /\ phase'[TurnOf[c]] \in Terminal \cup {"none"}
               /\ record'[TurnOf[c]].phase \in Terminal
    <3>1. c \in Calls /\ c \in listed BY <1>1 DEF ApprovalInv, ApprovalTypeOK
    <3>2. CASE TurnOf[c] = t BY <1>2, <3>2 DEF Terminal
    <3>3. CASE TurnOf[c] # t
      <4>1. request[c].pc = "over" BY <1>4, <1>7, <2>4, <3>1, <3>3
      <4>2. /\ phase[TurnOf[c]] \in Terminal \cup {"none"}
            /\ record[TurnOf[c]].phase \in Terminal
        BY <3>1, <4>1 DEF ApprovalInv, CallsInTurns
      <4> QED BY <1>2, <1>3, <3>1, <3>3, <4>2
    <3> QED BY <3>2, <3>3
  <2> QED BY <2>2, <2>3, <2>4 DEF CallsInTurns
<1>9. ASSUME NEW c \in Calls PROVE BookOf(c)' /\ AnswerOf(c)'
  <2>1. BookOf(c) /\ AnswerOf(c) BY DEF ApprovalInv, CallsInv
  <2>2. /\ c \in waiting <=> c \in calls /\ request[c].pc = "waiting"
        /\ c \in sending <=> c \in calls /\ request[c].pc = "sending"
        /\ c \in calls => request[c].pc \in {"sending", "waiting", "decided"}
    BY DEF UnderWay
  <2> HIDE DEF calls, waiting, sending
  <2>3. BookOf(c)' BY <1>1, <1>4, <2>1, <2>2 DEF BookOf
  <2>4. AnswerOf(c)' BY <1>1, <1>4, <2>1, <2>2 DEF AnswerOf
  <2> QED BY <2>3, <2>4
<1> QED BY <1>2, <1>6, <1>8, <1>9 DEF ApprovalInv, CallsInv

\* A restart closes the records of the turns it ended, and brings back only
\* requests that nobody had answered.
LEMMA RestartKeeps ==
  ASSUME ApprovalInv, ApprovalRestart
  PROVE  ApprovalInv'
<1>1. PICK expired \in SUBSET {t \in Turns : record[t].phase = "waiting"} :
        record' = [t \in Turns |->
          IF t \in Interrupted
          THEN [record[t] EXCEPT !.phase = "cancelled", !.marked = TRUE]
          ELSE IF t \in expired THEN [record[t] EXCEPT !.phase = "cancelled"]
          ELSE record[t]]
  BY DEF ApprovalRestart
<1>2. \A t \in Turns : record[t] \in RecordType /\ phase[t] \in TurnPhases \cup {"none"}
  BY Entries DEF ApprovalInv
<1>3. \A t \in Turns :
        /\ record'[t] \in RecordType
        /\ record'[t].phase = IF \/ record[t].phase \in {"active", "approving", "finalizing"}
                                 \/ t \in expired
                              THEN "cancelled" ELSE record[t].phase
  BY <1>1, <1>2 DEF RecordType, Interrupted, TurnPhases
<1>4. /\ record' \in [Turns -> RecordType] /\ phase' = [t \in Turns |-> "none"]
  BY <1>1, <1>3 DEF ApprovalRestart
<1>5. RecordsFollow'
  BY <1>2, <1>3, <1>4 DEF RecordsFollow, RecordType, TurnPhases, Terminal
<1>6. \A c \in Calls : request[c] \in RequestType /\ TurnOf[c] \in Turns
  BY Entries DEF ApprovalInv
<1>7. \A c \in Calls :
        /\ request'[c] \in RequestType
        /\ request'[c].pc = IF UnderWay(c) THEN "over" ELSE request[c].pc
        /\ request'[c].sent = request[c].sent /\ request'[c].verdict = request[c].verdict
  BY <1>6 DEF ApprovalRestart, RequestType, UnderWay
<1>8. request' \in [Calls -> RequestType] BY <1>7 DEF ApprovalRestart
<1>9. /\ awaited' = {} /\ armed' = {} /\ UNCHANGED <<answer, ran, told, cut, delivered>>
      /\ recovered' = listed' /\ filed' = listed' /\ listed' \subseteq filed
      /\ restarts' \in 0 .. MaxRestarts
  <2>1. restarts' \in 0 .. MaxRestarts
    <3>1. restarts < MaxRestarts /\ restarts' = restarts + 1 BY DEF ApprovalRestart
    <3>2. restarts \in 0 .. MaxRestarts BY DEF ApprovalInv, ApprovalTypeOK
    <3> QED BY <3>1, <3>2, ApprovalAssumption
  <2> QED BY <2>1 DEF ApprovalRestart
<1>10. ApprovalTypeOK'
  BY <1>4, <1>8, <1>9 DEF ApprovalInv, ApprovalTypeOK, RecordType, RequestType
<1>11. \A c \in listed' : /\ c \in Calls /\ c \in listed
                          /\ request[c].pc \in {"sending", "waiting", "over"}
  BY <1>9 DEF ApprovalInv, ApprovalTypeOK, CallsInv, BookOf
<1>12. CallsInTurns'
  <2>1. \A c \in Calls : ~UnderWay(c)' BY <1>6, <1>7 DEF UnderWay
  <2>2. ASSUME NEW c \in listed'
        PROVE  /\ phase'[TurnOf[c]] \in Terminal \cup {"none"}
               /\ record'[TurnOf[c]].phase \in Terminal
    <3>1. c \in Calls /\ c \in listed /\ TurnOf[c] \in Turns BY <1>6, <1>11
    <3>2. phase'[TurnOf[c]] = "none" BY <1>4, <3>1
    <3>3. CASE request[c].pc = "over"
      <4>1. record[TurnOf[c]].phase \in Terminal
        BY <3>1, <3>3 DEF ApprovalInv, CallsInTurns
      <4> QED BY <1>3, <3>1, <3>2, <4>1 DEF Terminal
    <3>4. CASE request[c].pc \in {"sending", "waiting"}
      <4>1. phase[TurnOf[c]] = "approving"
        BY <3>1, <3>4 DEF ApprovalInv, CallsInTurns, UnderWay
      <4>2. record[TurnOf[c]].phase = "approving"
        BY <3>1, <4>1 DEF ApprovalInv, RecordsFollow
      <4> QED BY <1>3, <3>1, <3>2, <4>2 DEF Terminal
    <3> QED BY <1>11, <3>3, <3>4
  <2> QED BY <2>1, <2>2 DEF CallsInTurns
<1>13. ASSUME NEW c \in Calls PROVE BookOf(c)' /\ AnswerOf(c)'
  <2>1. BookOf(c) /\ AnswerOf(c) BY DEF ApprovalInv, CallsInv
  <2>2. request'[c].pc \in {"idle", "over"}
        /\ (request'[c].pc = "idle" <=> request[c].pc = "idle")
    BY <1>6, <1>7 DEF UnderWay, RequestType
  <2>3. BookOf(c)' BY <1>9, <1>11, <2>1, <2>2 DEF BookOf
  <2>4. AnswerOf(c)' BY <1>7, <1>9, <2>1, <2>2 DEF AnswerOf
  <2> QED BY <2>3, <2>4
<1> QED BY <1>5, <1>10, <1>12, <1>13 DEF ApprovalInv, CallsInv

(***************************************************************************)
(* The theorems.                                                           *)
(***************************************************************************)
LEMMA ApprovalStart == ApprovalInit => ApprovalInv
<1> SUFFICES ASSUME ApprovalInit PROVE ApprovalInv
  OBVIOUS
<1>0. /\ MaxWaits \in Nat /\ MaxRestarts \in Nat /\ CardTargets \in Nat
      /\ 0 \in 0 .. MaxWaits /\ 0 \in 0 .. MaxRestarts
      /\ CardTargets \in 0 .. CardTargets
  BY ApprovalAssumption
<1>1. NoRecord \in RecordType /\ NoRequest \in RequestType
  BY <1>0 DEF NoRecord, NoRequest, RecordType, RequestType
<1>2. ApprovalTypeOK
  <2>1. record \in [Turns -> RecordType] /\ request \in [Calls -> RequestType]
    BY <1>1 DEF ApprovalInit
  <2> QED BY <1>0, <2>1 DEF ApprovalInit, ApprovalTypeOK, RecordType, RequestType
<1>3. RecordsFollow BY DEF ApprovalInit, RecordsFollow, NoRecord
<1>4. CallsInTurns BY DEF ApprovalInit, CallsInTurns, UnderWay, NoRequest
<1>5. CallsInv BY DEF ApprovalInit, CallsInv, BookOf, AnswerOf, NoRequest
<1> QED BY <1>2, <1>3, <1>4, <1>5 DEF ApprovalInv

LEMMA ApprovalStep == ApprovalInv /\ [ApprovalNext]_approvalVars => ApprovalInv'
<1> SUFFICES ASSUME ApprovalInv, [ApprovalNext]_approvalVars PROVE ApprovalInv'
  OBVIOUS
<1>1. CASE \E t \in Turns : TurnMoves(t)
  BY <1>1, TurnMovesKeep, RecordKeeps, CancelKeeps DEF TurnMoves
<1>2. CASE \E c \in Calls : CallMoves(c)
  BY <1>2, RequestKeeps, DecideKeeps, ProceedsKeeps, AnswerKeeps, SendCardKeeps
     DEF CallMoves
<1>3. CASE ApprovalRestart BY <1>3, RestartKeeps
<1>4. CASE UNCHANGED approvalVars
  <2>1. ApprovalTypeOK' BY <1>4 DEF ApprovalInv, ApprovalTypeOK, approvalVars
  <2>2. RecordsFollow' BY <1>4 DEF ApprovalInv, RecordsFollow, approvalVars
  <2>3. CallsInTurns' BY <1>4 DEF ApprovalInv, CallsInTurns, UnderWay, approvalVars
  <2>4. CallsInv' BY <1>4 DEF ApprovalInv, CallsInv, BookOf, AnswerOf, approvalVars
  <2> QED BY <2>1, <2>2, <2>3, <2>4 DEF ApprovalInv
<1> QED BY <1>1, <1>2, <1>3, <1>4 DEF ApprovalNext

\* The whole invariant: every record follows its turn, an approving turn has
\* one call under way, and each request is where its books say.
THEOREM ApprovalInvariant == ApprovalSpec => []ApprovalInv
<1> QED BY ApprovalStart, ApprovalStep, PTL DEF ApprovalSpec

\* The approval manager, its store and the records keep to their types.
THEOREM ApprovalTyped == ApprovalSpec => []ApprovalTypeOK
<1>1. ApprovalInv => ApprovalTypeOK BY DEF ApprovalInv
<1> QED BY <1>1, ApprovalInvariant, PTL

\* An administrator who was told that an answer took effect decided the call,
\* once a card was confirmed as sent.
THEOREM ToldIsDecided == ApprovalSpec => []AnswerDecides
<1>1. ApprovalInv => AnswerDecides
  BY DEF ApprovalInv, CallsInv, AnswerOf, AnswerDecides
<1> QED BY <1>1, ApprovalInvariant, PTL

\* No cancellation, timeout or restart leaves a request that nobody waits for
\* or a record of a turn that only seems to wait.
THEOREM NothingIsLeftOver == ApprovalSpec => []NothingLeftOver
<1>1. ASSUME ApprovalInv PROVE OpenIsAwaited
  <2>1. awaited \subseteq Calls /\ recovered \subseteq Calls
    BY <1>1 DEF ApprovalInv, ApprovalTypeOK
  <2>2. ASSUME NEW c \in awaited \ cut
        PROVE  request[c].pc \in {"sending", "waiting"} /\ phase[TurnOf[c]] = "approving"
    BY <1>1, <2>1, <2>2 DEF ApprovalInv, CallsInv, BookOf, CallsInTurns, UnderWay
  <2>3. ASSUME NEW c \in recovered
        PROVE  record[TurnOf[c]].phase \in Terminal /\ c \notin awaited
    BY <1>1, <2>1, <2>3 DEF ApprovalInv, CallsInv, BookOf, CallsInTurns
  <2> QED BY <2>2, <2>3 DEF OpenIsAwaited
<1>2. ASSUME ApprovalInv, Calls # {} PROVE BooksAgree
  BY <1>2 DEF ApprovalInv, ApprovalTypeOK, CallsInv, BookOf, BooksAgree
<1>3. ASSUME ApprovalInv, Calls = {} PROVE BooksAgree
  BY <1>3 DEF ApprovalInv, ApprovalTypeOK, BooksAgree
<1>4. ASSUME ApprovalInv PROVE NoOrphanRecord
  BY <1>4 DEF ApprovalInv, RecordsFollow, NoOrphanRecord
<1>5. ApprovalInv => NothingLeftOver BY <1>1, <1>2, <1>3, <1>4 DEF NothingLeftOver
<1> QED BY <1>5, ApprovalInvariant, PTL
=============================================================================
