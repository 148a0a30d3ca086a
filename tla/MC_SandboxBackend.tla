--------------------------- MODULE MC_SandboxBackend ---------------------------
(***************************************************************************)
(* SandboxBackend for TLC: no token, one, a rotation, a token written      *)
(* twice, one past the cap of two, and short ones alone, beside and past.  *)
(***************************************************************************)
EXTENDS SandboxBackend

CONSTANTS r1, r2, s1, s2, s3, w

MCRun == {r1, r2}
MCStrong == {s1, s2, s3}
MCWeak == {w}
MCServiceEnv == {<<>>, <<s1>>, <<s1, s1, s2>>, <<s1, s2, s3>>, <<s1, s2, w>>, <<w>>, <<s1, w>>}
MCMetricsEnv == {<<>>, <<s3>>, <<w>>}
Runs == Permutations(MCRun)
================================================================================
