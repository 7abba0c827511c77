--------------------------- MODULE MCOpsIngress -----------------------------
(* Instances of OpsIngress for TLC. *)
EXTENDS OpsIngress

=============================================================================
