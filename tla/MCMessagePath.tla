---------------------------- MODULE MCMessagePath ----------------------------
(***************************************************************************)
(* TLC instance of the components on the path of a message that share no   *)
(* state with each other: the session inbox, the admission outbox, the     *)
(* approvals of a turn, the delivery ledger, the last also with a          *)
(* transport that may be called again, and the live view of a session.  A  *)
(* behaviour is one of the part it starts with; the others stay in their   *)
(* initial states.                                                         *)
(***************************************************************************)
EXTENDS SessionInbox, AdmissionOutbox, TurnApproval, DeliveryLedger, LiveView

CONSTANTS Parts,    \* the components the run explores
          MCSecond  \* the text of the second ambient delivery

VARIABLE part

\* The ledger over a transport that is idempotent; the second of its ambient
\* texts is silent.
Resending == INSTANCE DeliveryLedger WITH
  AllowRetry <- TRUE, MaxAttempts <- 3, Deliveries <- {"a1", "a2", "x1"},
  ContentOf <- [d \in {"a1", "a2", "x1"} |-> IF d = "a2" THEN "quiet" ELSE "c1"],
  KeyOf <- [d \in {"a1", "a2", "x1"} |-> IF d = "x1" THEN "external" ELSE "ambient"]

\* The gateway of two turns while nobody looks.
Gateway == INSTANCE LiveView WITH
  ViewTurns <- {"t1", "t2"}, MaxHub <- 2, MaxSent <- 6, MaxViews <- 0, MaxServers <- 1

pathVars == <<part, inboxVars, outboxVars, approvalVars, ledgerVars, liveVars>>

PathInit == /\ part \in Parts
            /\ InboxInit /\ OutboxInit /\ ApprovalInit
            /\ IF part = "gateway" THEN Gateway!LiveInit ELSE LiveInit
            /\ IF part = "resending" THEN Resending!LedgerInit ELSE LedgerInit

InboxMoves == /\ part = "inbox" /\ InboxNext
              /\ UNCHANGED <<outboxVars, approvalVars, ledgerVars, liveVars>>
OutboxMoves == /\ part = "outbox" /\ OutboxNext
               /\ UNCHANGED <<inboxVars, approvalVars, ledgerVars, liveVars>>
ApprovalMoves == /\ part = "approval" /\ ApprovalNext
                 /\ UNCHANGED <<inboxVars, outboxVars, ledgerVars, liveVars>>
LedgerMoves == /\ \/ part = "ledger" /\ LedgerNext
                  \/ part = "resending" /\ Resending!LedgerNext
               /\ UNCHANGED <<inboxVars, outboxVars, approvalVars, liveVars>>
ViewMoves == /\ \/ part = "view" /\ LiveNext
                \/ part = "gateway" /\ Gateway!LiveNext
             /\ UNCHANGED <<inboxVars, outboxVars, approvalVars, ledgerVars>>

PathNext == UNCHANGED part /\ (InboxMoves \/ OutboxMoves \/ ApprovalMoves
                                  \/ LedgerMoves \/ ViewMoves)

PathSpec == PathInit /\ [][PathNext]_pathVars

\* Every component's variables keep their types.
PathTypeOK ==
  /\ InboxTypeOK /\ OutboxTypeOK /\ ApprovalTypeOK
  /\ IF part = "gateway" THEN Gateway!LiveTypeOK ELSE LiveTypeOK
  /\ IF part = "resending" THEN Resending!LedgerTypeOK ELSE LedgerTypeOK

\* DeliveryLedger!AcceptedIsRecorded and SendsBounded, with either transport:
\* what is sent is sent as often as it may be and told in the history.
SendsAreAccounted ==
  IF part = "resending" THEN Resending!AcceptedIsRecorded /\ Resending!SendsBounded
  ELSE AcceptedIsRecorded /\ SendsBounded

\* One user sends every message.
MCSender == [m \in Messages |-> "u1"]

\* One chat; the first of its messages has two effects.
MCChatOf == [m \in OutMessages |-> "chat"]
MCEffectsOf == [m \in OutMessages |->
                  IF m = 1 THEN {"hindsight", "learner"} ELSE {"hindsight"}]

\* Every call is of one turn.
MCTurnOf == [c \in Calls |-> "turn"]

\* Ambient deliveries of one key, external ones of one key.
MCKeyOf == [d \in Deliveries |-> CASE d \in {"a1", "a2"} -> "ambient"
                                   [] d \in {"x1", "x2"} -> "external"]
MCKind == [k \in Keys |-> k]
MCContentOf == [d \in Deliveries |-> IF d = "a2" THEN MCSecond ELSE "c1"]
=============================================================================
