------------------------------- MODULE MCLive -------------------------------
(***************************************************************************)
(* TLC instance of the specifications with fairness: the scheduler of a    *)
(* chat, the admission outbox, the approvals of a turn, the ledger with    *)
(* retries and recovery and the wakes of a session; and of a work plan     *)
(* whose turns outlive their leases, for which only safety is checked.  A  *)
(* behaviour is one of the component it starts with, under the fairness of *)
(* that component.                                                         *)
(***************************************************************************)
EXTENDS ConversationScheduler, AdmissionOutbox, TurnApproval, DeliveryLedger,
        Wakes, WorkPlans

CONSTANT Parts  \* the components the run explores

VARIABLE part

liveVars == <<part, schedVars, outboxVars, approvalVars, ledgerVars, wakesVars, plansVars>>

LiveInit == part \in Parts /\ SchedInit /\ OutboxInit /\ ApprovalInit /\ LedgerInit
                           /\ WakesInit /\ PlansInit

SchedMoves == /\ part = "sched" /\ SchedNext
              /\ UNCHANGED <<outboxVars, approvalVars, ledgerVars, wakesVars, plansVars>>
OutboxMoves == /\ part = "outbox" /\ OutboxNext
               /\ UNCHANGED <<schedVars, approvalVars, ledgerVars, wakesVars, plansVars>>
ApprovalMoves == /\ part = "approval" /\ ApprovalNext
                 /\ UNCHANGED <<schedVars, outboxVars, ledgerVars, wakesVars, plansVars>>
LedgerMoves == /\ part = "ledger" /\ LedgerNext
               /\ UNCHANGED <<schedVars, outboxVars, approvalVars, wakesVars, plansVars>>
WakesMoves == /\ part = "wakes" /\ WakesNext
              /\ UNCHANGED <<schedVars, outboxVars, approvalVars, ledgerVars, plansVars>>
PlansMoves == /\ part = "plans" /\ PlansNext
              /\ UNCHANGED <<schedVars, outboxVars, approvalVars, ledgerVars, wakesVars>>

LiveNext == UNCHANGED part /\ (SchedMoves \/ OutboxMoves \/ ApprovalMoves
                               \/ LedgerMoves \/ WakesMoves \/ PlansMoves)

LiveFairness == \/ part = "sched" /\ SchedFairness
                \/ part = "outbox" /\ OutboxFairness
                \/ part = "approval" /\ ApprovalFairness
                \/ part = "ledger" /\ RecoveryFairness
                \/ part = "wakes" /\ WakesFairness

LiveSpec == LiveInit /\ [][LiveNext]_liveVars /\ LiveFairness

\* One user sends every message.
MCSlots == Tokens \X LeaseKinds
MCSender == [m \in Messages |-> "u1"]

\* One message with two effects.
MCChatOf == [m \in OutMessages |-> "chat"]
MCEffectsOf == [m \in OutMessages |-> {"hindsight", "learner"}]

MCTurnOf == [c \in Calls |-> "turn"]

\* Two ambient deliveries of one key, the second silent, and a reply.
MCKeyOf == [d \in Deliveries |-> IF d = "r1" THEN "reply" ELSE "ambient"]
MCKind == [k \in Keys |-> k]
MCContentOf == [d \in Deliveries |-> IF d = "a2" THEN "quiet" ELSE "c1"]

\* Requests named for their sources, of one priority.
MCWakeSource == [r \in WakeRequests |-> r]
MCWakePriority == [r \in WakeRequests |-> 2]
MCEventContext == [e \in SysEvents |-> e]

MCStepDeps == [s \in Steps |-> {}]
MCTaskKinds == {[parallel |-> FALSE, required |-> FALSE]}
=============================================================================
