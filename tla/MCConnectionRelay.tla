------------------------- MODULE MCConnectionRelay --------------------------
(* Instances of ConnectionRelay for TLC. *)
EXTENDS ConnectionRelay

=============================================================================
