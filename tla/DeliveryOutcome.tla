--------------------------- MODULE DeliveryOutcome ---------------------------
(***************************************************************************)
(* What the delivery ledger promises about each delivery key, whoever      *)
(* sends, recovers or crashes: it is prepared or suppressed once, and once *)
(* it has an outcome that outcome is final.                                *)
(***************************************************************************)
CONSTANTS Keys

VARIABLE outcome

Settlements == {"sent", "failed", "unknown", "partial"}
Outcomes == {"none", "prepared", "suppressed"} \cup Settlements

OutcomeInit == outcome = [k \in Keys |-> "none"]

Decide(k, how) ==
  /\ outcome[k] = "none"
  /\ outcome' = [outcome EXCEPT ![k] = how]

Conclude(k, how) ==
  /\ outcome[k] = "prepared"
  /\ outcome' = [outcome EXCEPT ![k] = how]

OutcomeNext ==
  \E k \in Keys : \/ \E how \in {"prepared", "suppressed"} : Decide(k, how)
                  \/ \E how \in Settlements : Conclude(k, how)

OutcomeSpec == OutcomeInit /\ [][OutcomeNext]_outcome
=============================================================================
