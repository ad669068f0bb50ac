----------------------------- MODULE JobRunnerMC -----------------------------
(* A member of a batch with an optional and a required output, and one input  *)
(* by reference that only the second node in the network has.                 *)
EXTENDS JobRunner

MCPeers == <<"custodian", "other">>
MCHolds == [p \in {"custodian", "other"} |-> IF p = "other" THEN Input ELSE {}]
=============================================================================
