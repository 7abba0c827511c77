-------------------------- MODULE MCBuildExecutor ---------------------------
(* Instances of BuildExecutor for TLC: the dependency graphs of two and of     *)
(* three rules, one of each shape, and a circular one.                         *)
EXTENDS BuildExecutor, TLC

CONSTANTS r1, r2, r3

ThreeRules ==
  LET Deps(d2, d3) == r1 :> {} @@ r2 :> d2 @@ r3 :> d3 IN
  { Deps({}, {}), Deps({r1}, {}),
    Deps({r1}, {r2}), Deps({r1}, {r1}), Deps({}, {r1, r2}), Deps({r1}, {r1, r2}),
    Deps({r3}, {r2}) }
Interchangeable == Permutations(Builds)
=============================================================================
