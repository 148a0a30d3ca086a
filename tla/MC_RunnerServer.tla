---------------------------- MODULE MC_RunnerServer ----------------------------
(***************************************************************************)
(* RunnerServer for TLC.                                                   *)
(***************************************************************************)
EXTENDS RunnerServer, TLC

CONSTANTS r1, r2, r3

\* Two callers compete for the limiter of /run, one has /run/python's.
MCRequests == {r1, r2, r3}
MCPath     == [r \in MCRequests |-> IF r = r3 THEN "run_python" ELSE "run"]
MCPair     == {r1, r2}
MCOnePath  == [r \in MCPair |-> "run"]

\* One outcome per path of execute and executeBatch: a run's own failure and
\* the runner's, a batch with results, one that never compiled and one that
\* was aborted before its first input, and a rejected request.
MCOutcomes ==
  {[shape |-> "single", status |-> "success", results |-> << >>],
   [shape |-> "single", status |-> "internal_error", results |-> << >>],
   [shape |-> "batch", status |-> "ok", results |-> <<"success", "timeout">>],
   [shape |-> "batch", status |-> "compile_error", results |-> << >>],
   [shape |-> "batch", status |-> "ok", results |-> << >>],
   [shape |-> "single", status |-> "rejected", results |-> << >>]}

\* One single run, one batch: enough for the orders of a drain.
MCFewOutcomes ==
  {[shape |-> "single", status |-> "internal_error", results |-> << >>],
   [shape |-> "batch", status |-> "ok", results |-> <<"success", "timeout">>]}

Symmetry == Permutations({r1, r2})
================================================================================
