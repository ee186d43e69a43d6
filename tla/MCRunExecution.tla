--------------------------- MODULE MCRunExecution ---------------------------
(***************************************************************************)
(* Instances of RunExecution for TLC: two processes that can execute the   *)
(* run, and callers of its control operations.                             *)
(***************************************************************************)
EXTENDS RunExecution, TLC

CONSTANTS r1, r2, c1, noRunner

OneRunner == {r1}
TwoRunners == {r1, r2}
NoClient == {}
OneClient == {c1}
RunnerSymmetry == Permutations({r1, r2})
=============================================================================
