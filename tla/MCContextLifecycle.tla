------------------------ MODULE MCContextLifecycle -------------------------
(* Instances of ContextLifecycle for TLC: a context that contains two others, *)
(* one of which depends on the other.                                         *)
EXTENDS ContextLifecycle, TLC

CONSTANTS root, base, feature, rule, test

TreeChildren == root :> {base, feature} @@ base :> {} @@ feature :> {}
TreeDepends == root :> {} @@ base :> {} @@ feature :> {base}
TreeRequires == root :> {} @@ base :> {rule} @@ feature :> {test}
============================================================================
