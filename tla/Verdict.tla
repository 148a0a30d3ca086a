-------------------------------- MODULE Verdict --------------------------------
(***************************************************************************)
(* How the runtimes classify a finished process: the seven switch          *)
(* statements of interpreted.go and compiled.go, each as the list of its   *)
(* cases in source order.                                                  *)
(*                                                                         *)
(* The evidence e is what a runtime holds when cmd.Run has returned:       *)
(*   e.cause     what cancelled the context first, "none" if nothing did   *)
(*   e.failed    runErr # nil                                              *)
(*   e.oom       acct # nil and acct.OOMKilled()                           *)
(*   e.memErr    strings.Contains(res.Stderr, spec.memErrSubstr)           *)
(*   e.code      res.ExitCode, by what the test command makes of it        *)
(*   e.produced  a non-empty report was read back                          *)
(*   e.buildFail strings.Contains(report, buildFailMarker)                 *)
(*   e.artifact  what os.Stat says of the artifact                         *)
(***************************************************************************)
EXTENDS Naturals, Sequences

Cause    == {"none", "deadline", "flood", "caller"}
ExitCode == {"zero", "failed", "sentinel", "other", "signal"}
File     == {"absent", "fits", "over"}

Evidence == [cause : Cause, failed : BOOLEAN, oom : BOOLEAN, memErr : BOOLEAN,
             code : ExitCode, produced : BOOLEAN, buildFail : BOOLEAN,
             artifact : File]

When(guard, status) == [guard |-> guard, status |-> status]

\* A switch takes its first case that holds.
Switch(cases) ==
  LET taken == CHOOSE i \in DOMAIN cases :
                 cases[i].guard /\ \A j \in 1 .. i - 1 : ~cases[j].guard
  IN cases[taken].status

\* errors.Is(ctx.Err(), DeadlineExceeded); errors.Is(Cause(ctx), errOutputLimit)
Deadline(e) == When(e.cause = "deadline", "timeout")
OOM(e)      == When(e.oom, "memory_exceeded")
MemErr(e)   == When(e.memErr, "memory_exceeded")
Flood(e)    == When(e.cause = "flood", "output_limit_exceeded")
Clean(e)    == When(~e.failed, "success")
Default(status) == When(TRUE, status)

\* Slip: the OOM event before the clean exit.
RunVerdict_oom_first(e) ==
  Switch(<<Deadline(e), OOM(e), Clean(e), MemErr(e), Flood(e), Default("runtime_error")>>)

\* interpretedRuntime.execute, compiledRuntime.execute
RunVerdict(e) ==
  Switch(<<Deadline(e), Clean(e), OOM(e), MemErr(e), Flood(e), Default("runtime_error")>>)

\* interpretedRuntime.executeTrace
InterpretedTraceVerdict(e) ==
  Switch(<<Deadline(e), OOM(e), MemErr(e), Flood(e), Clean(e), Default("runtime_error")>>)

\* Slip: cmd.Run's error thrown away, as a test run does.
CompiledTraceVerdict_deaf(e) ==
  Switch(<<Deadline(e), OOM(e), Flood(e), Default("success")>>)

\* compiledRuntime.executeTrace
CompiledTraceVerdict(e) ==
  Switch(<<Deadline(e), OOM(e), Flood(e), When(e.failed, "runtime_error"), Default("success")>>)

\* Slip: the exit code alone.
Passed_by_exit(e) == When(e.code = "zero", "success")

\* classifyTestExit: a verdict of the suite needs a completed report.
Passed(e)      == When(e.code = "zero" /\ e.produced, "success")
TestsFailed(e) == When(e.code = "failed" /\ e.produced, "tests_failed")

\* interpretedRuntime.executeTest
InterpretedTestVerdict(e) ==
  Switch(<<Deadline(e), OOM(e), Flood(e), Passed(e), TestsFailed(e),
           Default("runtime_error")>>)

\* compiledRuntime.executeTest
CompiledTestVerdict(e) ==
  Switch(<<Deadline(e), OOM(e), Flood(e),
           When(e.code = "sentinel", "compile_error"),
           When(e.buildFail, "compile_error"),
           Passed(e), TestsFailed(e), Default("runtime_error")>>)

\* compiledRuntime.compile; "compiled" is its (RunResult{}, true).
CompileVerdict(e) ==
  Switch(<<When(e.cause = "deadline", "compile_error"),
           When(e.failed, "compile_error"),
           When(e.artifact # "fits", "internal_error"),
           Default("compiled")>>)
================================================================================
