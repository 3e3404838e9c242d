--------------------------- MODULE SpoolContract ---------------------------
(***************************************************************************)
(* What the spool promises to the hooks, without files, tables or runs: a  *)
(* delivered record stays visible as pending until it is settled, it is    *)
(* settled as ingested only when the backend holds it, and an ingested     *)
(* record is never taken back.  A rejected record may still be ingested    *)
(* later, when its event is delivered again.                               *)
(***************************************************************************)
CONSTANT Record

VARIABLES
  disposition,  \* what the spool directories say of each record
  stored        \* records the backend holds

contractVars == <<disposition, stored>>

Disposition == {"unseen", "pending", "rejected", "ingested"}

ContractTypeOK ==
  /\ disposition \in [Record -> Disposition]
  /\ stored \subseteq Record

ContractInit ==
  /\ disposition = [r \in Record |-> "unseen"]
  /\ stored = {}

\* The hook captures a new event, or the legacy spool is taken over.
Deliver(r) ==
  /\ disposition[r] = "unseen"
  /\ disposition' = [disposition EXCEPT ![r] = "pending"]
  /\ UNCHANGED stored

\* The backend is given a record the spool knows of.
Accept(r) ==
  /\ disposition[r] # "unseen"
  /\ stored' = stored \cup {r}
  /\ UNCHANGED disposition

Ingest(r) ==
  /\ disposition[r] \in {"pending", "rejected"}
  /\ r \in stored
  /\ disposition' = [disposition EXCEPT ![r] = "ingested"]
  /\ UNCHANGED stored

Reject(r) ==
  /\ disposition[r] = "pending"
  /\ disposition' = [disposition EXCEPT ![r] = "rejected"]
  /\ UNCHANGED stored

ContractNext ==
  \E r \in Record : Deliver(r) \/ Accept(r) \/ Ingest(r) \/ Reject(r)

ContractSpec == ContractInit /\ [][ContractNext]_contractVars
=============================================================================
