------------------------------- MODULE Execution -------------------------------
(***************************************************************************)
(* A request in the hands of its runtime, from the clamped limits to the   *)
(* result: Run, runTest, runTrace and RunBatch of both runtimes.  A        *)
(* workdir is made and filled, a compiled program is built in a jail of    *)
(* its own and its artifact looked at, the program runs in one jail per    *)
(* input, and the workdir is removed.  Between the inputs of a batch the   *)
(* loop looks at the budget and at the caller.                             *)
(*                                                                         *)
(* Time is counted in whole units from the first statement.  It passes     *)
(* while a jail is at work, and each jail stays within its timeout         *)
(* (JailRun!RunReturns); what the runner itself does between takes none.   *)
(* A jail on netns may never return: then the request stays in it, and of  *)
(* its clock only the part up to the deadline is modelled.                 *)
(***************************************************************************)
EXTENDS Limits, Sequences

CONSTANTS Inputs,    \* len(stdins) of a batch
          Backends   \* the sandbox backends: nsjail, netns

ASSUME ExecutionAssumption == Inputs \in Nat \ {0} /\ Backends \subseteq {"nsjail", "netns"}

VARIABLES config,    \* the loaded configuration
          grace,     \* the ShutdownGraceMs Load derived from it
          asked,     \* the request
          backend,   \* the sandbox of this process
          pc,        \* where the goroutine stands
          now,       \* time.Since(start)
          began,     \* when the jail at work was started
          gone,      \* ctx.Err() # nil: the caller hung up
          workDir,   \* absent, present, removed, left
          artifact,  \* none, validated, or replaced since
          dirty,     \* somebody but the build has written to the workdir
          locked,    \* it holds a directory the runner may not empty
          survivor,  \* what may be alive of the jails that have returned
          at,        \* the input batchLoop's range has come to
          results,   \* the results so far
          status,    \* the status of the result, ok when a program ran
          aborted    \* BatchResult.Aborted

setup == <<config, grace, asked, backend>>
disk == <<workDir, artifact, dirty, locked, survivor>>
answer == <<at, results, status, aborted>>
vars == <<setup, pc, now, began, gone, disk, answer>>

NumInputs == IF asked.batch THEN Inputs ELSE 1
TwoPhase == asked.compiled /\ asked.mode # "test"     \* a test compiles in the jail it runs in
Budget == config.maxBatchTotal

\* A result: the input it answers, and what its jail was given.
Result == [input : Nat, artifact : {"none", "validated", "replaced"}, dirty : BOOLEAN]

Init == /\ config \in Config /\ grace = shutdownGraceMs(config)
        /\ asked \in Request /\ Admitted(asked)
        /\ backend \in Backends
        /\ pc = "prepare" /\ now = 0 /\ began = 0 /\ gone = FALSE
        /\ workDir = "absent" /\ artifact = "none"
        /\ dirty = FALSE /\ locked = FALSE /\ survivor = "none"
        /\ at = 1 /\ results = << >> /\ status = "none" /\ aborted = FALSE

Return(how, early) == /\ pc' = "returning"
                      /\ status' = how
                      /\ aborted' = early
                      /\ UNCHANGED <<at, results>>

\* Slip: the run jail gets its workdir writable as the compile jail does.
Writable_always == TRUE

\* Spec.Writable of the jail the program runs in: for a report, not for a run.
\* (A suite that reports on stdout has a read-only one; it counts as writable.)
Writable == asked.mode \in {"test", "trace"}

\* What may be alive of a jail when its run returns, and whether it can still
\* write to the workdir.  An nsjail that exits by itself leaves nobody, one that
\* was killed leaves processes that are dying (JailRun!NothingOutlivesTheJail)
\* and may be inside a last system call; netns has no read-only workdir, and
\* there a process that left the group lives on.
JailEnds(byItself, writable) ==
  survivor' \in {"none"} \union
    (IF byItself /\ backend = "nsjail" THEN {}
     ELSE {IF writable \/ backend = "netns" THEN "writer" ELSE "reader"})

-------------------------------------------------------------------------------
\* MkdirTemp, the harness of an interpreted trace, and plan or one of the
\* prepare functions succeed (Submission).
Prepare ==
  /\ pc = "prepare"
  /\ pc' = IF TwoPhase THEN "compiling" ELSE "next"
  /\ workDir' = "present"
  /\ UNCHANGED <<setup, now, began, gone, artifact, dirty, locked, survivor, answer>>

\* Slip: the removal is deferred only once the workdir has been filled.
PrepareFails_early ==
  /\ pc = "prepare"
  /\ workDir' \in {"absent", "present"}
  /\ pc' = "returned" /\ status' = "internal_error"
  /\ UNCHANGED <<setup, now, began, gone, artifact, dirty, locked, survivor, at, results, aborted>>

\* MkdirTemp fails, or what follows does once the directory is there.
PrepareFails ==
  /\ pc = "prepare"
  /\ workDir' \in {"absent", "present"}
  /\ Return("internal_error", FALSE)
  /\ UNCHANGED <<setup, now, began, gone, artifact, dirty, locked, survivor>>

\* A jail is at work: time passes, up to its timeout.
TimePasses ==
  /\ \/ pc = "compiling" /\ now - began < CompileTimeout(config, asked)
     \/ pc = "running" /\ now - began < RunTimeout(config, asked)
  /\ now' = now + 1
  /\ UNCHANGED <<setup, pc, began, gone, disk, answer>>

\* compile returns (zero, true): the compiler exits zero in time, and an
\* artifact of a fit size is there.
CompileEnds ==
  /\ pc = "compiling"
  /\ artifact' = "validated"
  /\ pc' = IF asked.mode = "trace" THEN "driver" ELSE "next"
  /\ JailEnds(TRUE, TRUE)
  /\ UNCHANGED <<setup, now, began, gone, workDir, dirty, locked, answer>>

\* compile returns (result, false): no jail, a failing or late compiler, the
\* caller's leaving, or an artifact that is missing, empty or too large.
CompileFails ==
  /\ pc = "compiling"
  /\ \E how \in {"compile_error", "internal_error"} : Return(how, FALSE)
  /\ JailEnds(FALSE, TRUE)
  /\ UNCHANGED <<setup, now, began, gone, workDir, artifact, dirty, locked>>

\* A compiled trace: the driver is written beside the artifact.
WriteDriver ==
  /\ pc = "driver"
  /\ pc' = "next"
  /\ UNCHANGED <<setup, now, began, gone, disk, answer>>

DriverFails ==
  /\ pc = "driver"
  /\ Return("internal_error", FALSE)
  /\ UNCHANGED <<setup, now, began, gone, disk>>

-------------------------------------------------------------------------------
(***************************************************************************)
(* The inputs: one jail each; batchLoop when there is a batch.             *)
(***************************************************************************)
LoopEnds ==
  /\ pc = "next" /\ at > NumInputs
  /\ Return("ok", FALSE)
  /\ UNCHANGED <<setup, now, began, gone, disk>>

\* A single run looks at neither budget nor caller.
StartSingle ==
  /\ pc = "next" /\ ~asked.batch /\ at = 1
  /\ pc' = "running" /\ began' = now
  /\ UNCHANGED <<setup, now, gone, disk, answer>>

\* Slip: the budget is looked at once, before the loop.
WithinBudget_once ==
  /\ pc = "next" /\ asked.batch /\ at <= NumInputs
  /\ pc' = "context"
  /\ UNCHANGED <<setup, now, began, gone, disk, answer>>

\* Slip: one input too many.
WithinBudget_past_end ==
  /\ pc = "next" /\ asked.batch /\ at <= NumInputs + 1
  /\ Budget = 0 \/ now < Budget
  /\ pc' = "context"
  /\ UNCHANGED <<setup, now, began, gone, disk, answer>>

\* time.Since(start) against the budget, before each input.
WithinBudget ==
  /\ pc = "next" /\ asked.batch /\ at <= NumInputs
  /\ Budget = 0 \/ now < Budget
  /\ pc' = "context"
  /\ UNCHANGED <<setup, now, began, gone, disk, answer>>

\* Slip: the budget is looked at after an input, the last one too.
OverBudget_at_end ==
  /\ pc = "next" /\ asked.batch /\ at <= NumInputs + 1
  /\ Budget > 0 /\ now >= Budget
  /\ Return("ok", TRUE)
  /\ UNCHANGED <<setup, now, began, gone, disk>>

OverBudget ==
  /\ pc = "next" /\ asked.batch /\ at <= NumInputs
  /\ Budget > 0 /\ now >= Budget
  /\ Return("ok", TRUE)
  /\ UNCHANGED <<setup, now, began, gone, disk>>

\* ctx.Err(), before each input.
StartInput ==
  /\ pc = "context" /\ ~gone
  /\ pc' = "running" /\ began' = now
  /\ UNCHANGED <<setup, now, gone, disk, answer>>

CallerGone ==
  /\ pc = "context" /\ gone
  /\ Return("ok", TRUE)
  /\ UNCHANGED <<setup, now, began, gone, disk>>

TheResult == [input |-> at, artifact |-> artifact, dirty |-> dirty]

RunReturns(longer, next) ==
  /\ pc = "running" /\ pc' = "next"
  /\ results' = longer /\ at' = next
  /\ JailEnds(FALSE, Writable)
  /\ UNCHANGED <<setup, now, began, gone, workDir, artifact, dirty, locked, status, aborted>>

\* Slip: an input whose jail failed is passed over with a continue.
RunEnds_skips == RunReturns(results, at + 1) \/ RunReturns(Append(results, TheResult), at + 1)

\* Slip: a failing input is retried for ever.
RunEnds_retried == RunReturns(results, at)

\* execute, executeTest or executeTrace returns, whatever became of the
\* program, the jail itself included: a failed input does not stop a batch.
RunEnds == RunReturns(Append(results, TheResult), at + 1)

-------------------------------------------------------------------------------
\* A jail writes to the workdir, if it may: the compiler does, a program in a
\* jail for a report or on netns can, and so can what is left of such a jail.
\* Whatever a program makes there it can also take the permissions from.
Write ==
  /\ workDir = "present"
  /\ \/ pc = "compiling"
     \/ pc = "running" /\ (Writable \/ backend = "netns")
     \/ survivor = "writer"
  /\ dirty' = (dirty \/ pc # "compiling")
  /\ locked' \in {locked, TRUE}
  /\ artifact' \in {artifact, IF artifact = "validated" THEN "replaced" ELSE artifact}
  /\ UNCHANGED <<setup, pc, now, began, gone, workDir, survivor, answer>>

\* defer os.RemoveAll(workDir), by an unprivileged runner and its error
\* ignored: a directory it may not read stays, and with it the workdir; a
\* process that still writes may have it fail.
RemoveAll ==
  /\ pc = "returning"
  /\ pc' = "returned"
  /\ workDir' \in CASE workDir = "absent" -> {"absent"}
                    [] workDir # "absent" /\ locked -> {"left"}
                    [] workDir # "absent" /\ ~locked ->
                         IF survivor = "writer" THEN {"removed", "left"} ELSE {"removed"}
  /\ UNCHANGED <<setup, now, began, gone, artifact, dirty, locked, survivor, answer>>

CallerLeaves ==
  /\ ~gone /\ pc \notin {"returning", "returned"}
  /\ gone' = TRUE
  /\ UNCHANGED <<setup, pc, now, began, disk, answer>>

Returned == pc = "returned" /\ UNCHANGED vars

Goroutine == \/ Prepare \/ PrepareFails \/ WriteDriver \/ DriverFails
             \/ LoopEnds \/ StartSingle \/ WithinBudget \/ OverBudget
             \/ StartInput \/ CallerGone \/ RemoveAll

JailReturns == CompileEnds \/ CompileFails \/ RunEnds

Next == Goroutine \/ JailReturns \/ TimePasses \/ Write \/ CallerLeaves \/ Returned

Spec == Init /\ [][Next]_vars

\* The runtime's goroutine is scheduled, and an nsjail returns whatever is in it
\* (JailRun!RunReturns under nsjail); a netns jail need not.
FairSpec == /\ Spec
            /\ WF_vars(Goroutine)
            /\ WF_vars(backend = "nsjail" /\ JailReturns)

-------------------------------------------------------------------------------
(***************************************************************************)
(* Properties.                                                             *)
(***************************************************************************)
\* The types of the state (RunResult, BatchResult, batchLoop's variables).
TypeOK ==
  /\ config \in Config /\ grace = shutdownGraceMs(config)
  /\ asked \in Request /\ Admitted(asked) /\ backend \in Backends
  /\ pc \in {"prepare", "compiling", "driver", "next", "context", "running",
             "returning", "returned"}
  /\ now \in Nat /\ began \in 0 .. now /\ gone \in BOOLEAN
  /\ workDir \in {"absent", "present", "removed", "left"}
  /\ artifact \in {"none", "validated", "replaced"}
  /\ dirty \in BOOLEAN /\ locked \in BOOLEAN /\ survivor \in {"none", "reader", "writer"}
  /\ at \in 1 .. NumInputs + 1
  /\ results \in Seq(Result) /\ Len(results) <= NumInputs
  /\ status \in {"none", "ok", "compile_error", "internal_error"}
  /\ aborted \in BOOLEAN

Phase == IF pc \in {"prepare", "compiling"} THEN "open"
         ELSE IF pc \in {"returning", "returned"} THEN "closed" ELSE "built"
Told == IF status = "none" THEN "none"
        ELSE IF status # "ok" THEN "nothing"
        ELSE IF aborted THEN "partial" ELSE "whole"

\* results[i] answers stdins[i], whatever became of an input, and an answer that
\* is not flagged as partial has one result per input: the loop's position and
\* the list it appends to never part (batchLoop, BatchResult.Results).
Aligned == /\ \A i \in DOMAIN results : results[i].input = i
           /\ Told = "whole" => Len(results) = NumInputs

\* Every runtime in every mode keeps the promise of Judging: no input before
\* the build, none twice, a failed build answers once for all, and the caller
\* can tell a partial answer from a whole one (compiledRuntime.Run, RunBatch,
\* BatchResult.Aborted).
Judged == INSTANCE Judging WITH inputs <- NumInputs, phase <- Phase,
                                tried <- at - 1, told <- Told

ImplementsJudging == Judged!Spec

\* Under nsjail no input sees what another did: each runs the artifact the
\* runtime validated, in a workdir no input has written to, though the whole
\* batch shares one (compiled.go:777 "nothing carries between inputs except the
\* read-only artifact").
InputsSeeTheBuild ==
  backend = "nsjail" =>
    \A i \in DOMAIN results : asked.mode = "run" =>
      /\ ~results[i].dirty
      /\ asked.compiled => results[i].artifact = "validated"

\* However a request ends, its workdir goes with it, the student's source in it,
\* unless a jail that could write to it has left something there: never after a
\* failed preparation, nor, under nsjail, after the plain run of an interpreted
\* program (the deferred os.RemoveAll of every entry of both runtimes).
NothingLeft ==
  pc = "returned" /\ workDir \notin {"absent", "removed"} =>
    /\ locked \/ survivor = "writer"
    /\ backend = "netns" \/ Writable \/ TwoPhase

\* How long one request can hold its slot inside its own deadlines: its
\* compile and its run, or, in a batch, less than one run past the budget
\* unless the compile alone is longer (batchLoop, clampLimits).
CompilePhase == IF TwoPhase THEN CompileTimeout(config, asked) ELSE 0
Hold == IF asked.batch THEN Larger(CompilePhase, Budget + RunTimeout(config, asked))
        ELSE CompilePhase + RunTimeout(config, asked)

HoldBounded == now <= Hold

\* A request that the drain was sized for is over before the grace is, with
\* the slack to spare, whatever it asked for and whatever the operator
\* configured: every request but the trace of a compiled language
\* (shutdownGraceMs, clampLimits).
CompiledTrace == asked.mode = "trace" /\ asked.compiled

GraceCoversHold == ~CompiledTrace => now + Slack <= grace

\* config.go:89 the grace "MUST be >= the longest a single request can
\* legitimately occupy the server".
GraceCoversEveryHold == now <= grace

\* A language's floor lifts a request that would be too short for its runtime
\* to start, and never past the operator's ceiling: no jail outlives it
\* (raiseToFloor, clampLimits).
FloorRespected ==
  LET max == Envelope(config, asked)[2]
  IN /\ RunTimeout(config, asked) >= asked.floor \/ RunTimeout(config, asked) = max
     /\ pc = "running" => now - began <= max
     /\ pc = "compiling" => now - began <= config.maxCompile

\* Every request returns under nsjail; on netns it returns or sits in one jail
\* for good, and is never held up anywhere else (Run, runTest, runTrace,
\* RunBatch).
RequestReturns ==
  <>[](\/ pc = "returned"
       \/ backend = "netns" /\ pc \in {"compiling", "running"})
================================================================================
