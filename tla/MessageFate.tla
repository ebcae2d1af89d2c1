---------------------------- MODULE MessageFate ----------------------------
(***************************************************************************)
(* What a chat's inbox promises about each message, with queue, leases and *)
(* consumers abstracted away: a message that was refused or failed may be  *)
(* sent again, an accepted one is settled once, and only an expendable one *)
(* may be given up to make room.  An admitted message is admitted for good.*)
(***************************************************************************)
CONSTANTS
  Messages,
  Expendable  \* the messages that may be dropped after they were accepted

VARIABLE fate

FateInit == fate = [m \in Messages |-> "none"]

Unheld(m) == fate[m] \in {"none", "dropped", "failed"}

Accept(m) ==
  /\ Unheld(m)
  /\ \/ fate' = [fate EXCEPT ![m] = "accepted"]
     \/ \E victim \in Expendable :
          /\ fate[victim] = "accepted"
          /\ fate' = [fate EXCEPT ![m] = "accepted", ![victim] = "dropped"]

Refuse(m) == Unheld(m) /\ fate' = [fate EXCEPT ![m] = "dropped"]

SettleAs(m, how) ==
  /\ fate[m] = "accepted"
  /\ fate' = [fate EXCEPT ![m] = how]

FateNext ==
  \E m \in Messages : \/ Accept(m)
                      \/ Refuse(m)
                      \/ \E how \in {"admitted", "failed"} : SettleAs(m, how)

FateSpec == FateInit /\ [][FateNext]_fate
=============================================================================
