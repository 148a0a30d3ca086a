# dalivim-runner in TLA+

The runner is a Go service that executes students' programs: an HTTP server
takes a submission, a runtime puts it into a jail (nsjail, or a bare network
namespace in development), and the answer is a verdict with the captured
streams. These modules model the parts where orders, limits and failures
decide the answer. TLC checks them on small instances; TLAPS proves every safety
property of them for every value of the constants.

Paths below are relative to `src/` of the repository.

## The system

### Components, their state and their operations

| component | source | state | operations | what makes it correct |
|---|---|---|---|---|
| HTTP gate | `internal/transport/httpapi/middleware.go`, `server.go` | a `slots` channel per limited path | `RequireTokens`, `LimitConcurrency` | a slot per run in flight, no leak on any return, none without a token, shed only when full |
| Handlers | `httpapi/handlers.go` | none of their own | `run`, `runPythonCompat`, `decode`, `execute`, `executeBatch`, `ready` | exactly one answer, metrics that match the answers |
| Server life cycle | `httpapi/server.go`, `cmd/runner/main.go` | serving, draining, exit status | `ListenAndServe`, `Shutdown`, exits of `main` | SIGTERM ends the process; status 0 means drained |
| Metrics | `internal/metrics/metrics.go` | counters, the in-flight gauge, histograms | `ObserveRun`, `Overload`, `IncInflight`, `DecInflight` | nothing counted twice or forgotten |
| Configuration | `internal/config/config.go` | the loaded `Config` | `Load`, `shutdownGraceMs`, `tokenSet` | the derived grace covers every request; production is gated and fails closed |
| Service | `internal/executor/executor.go` | the registry of runtimes | `Run`, `RunBatch`, `clampLimits`, `normalize`, `validateMode`, `Catalog` | no limit over its ceiling |
| Interpreted runtime | `executor/interpreted.go` | a workdir per request | `Run`, `RunBatch`, `execute`, `executeTest`, `executeTrace` | the verdict fits what happened in the jail |
| Compiled runtime | `executor/compiled.go` | a workdir, one artifact | the same, after `plan` and `compile` | only a valid artifact runs |
| Batch loop | `executor/batch.go` | the results so far, an epoch | `batchLoop` | results aligned with inputs, early end flagged, time bounded |
| Captured streams | `executor/buffer.go` | kept bytes, `truncated` | `Write`, `markTruncated` | a prefix and an exact flag |
| Test and trace recipes | `executor/testmode.go`, `tracemode.go` | none | `classifyTestExit`, `readTestReport` | a suite's verdict needs its report |
| Submission shape | `executor/filepolicy.go`, `materialize.go` | the tree in the workdir | `validatePaths`, `resolveEntrypoint`, `MaterializeFiles` | what is accepted can be written, inside the workdir |
| Sandbox | `internal/sandbox/sandbox_linux.go`, `nsjail.go` | the chosen backend, the sticky `cgroupFailed` | `Configure`, `Command`, `CancelCmd`, `Ready` | `require` never falls back |
| Cgroup | `sandbox/cgroup_linux.go` | a leaf per run | `begin`, `OOMKilled`, `Close` | no leaf left behind by an orderly run |
| Harnesses | `executor/trace_harness.py`, `trace_driver_gdb.py` | run in the jail | stepping, report writing | (not trusted by the runner) |

### Interaction

A request is one goroutine from `RequireTokens` to the encoded answer. It
shares the slots of its path, the metrics and the server's life with every
other request. `Service` clamps its limits and hands it to a runtime; the
runtime asks the sandbox for a command and gives it to `os/exec`, which adds a
context watcher and a copy goroutine per stream. A copy that overflows its
buffer cancels the run's context, the deadline and the caller's connection
cancel it too, and the watcher answers any cancellation by killing the process
group. The verdict is computed when `Wait` has joined all of them.

### What is hard here

* early returns, shedding and shutdown interleave with runs that hold a slot;
* exit, deadline, flood, OOM kill and caller race to decide a verdict, and five
  switch statements order the outcomes differently;
* a descendant may outlive the process the runner waits for, and keep a pipe;
* a batch stops between inputs, shares one workdir and one artifact between
  them, and its overshoot decides the drain grace;
* a submission is judged three times, by the handler, by the service and again
  by whoever writes it to disk, from tables kept in five files;
* the jail, the cgroup or the capability of the host may be missing at boot or
  vanish for one run, under dials that must or must not fall back;
* exact limits: bytes at the cap, milliseconds at a ceiling, the last slot.

PROJECT.json lists each of these hazards at its line with the properties that
cover it.

## Modules

| module | models | source |
|---|---|---|
| `Admission` | what a path's gate promises, and nothing of how | (abstract) |
| `RunnerServer` | gate, handlers, metrics and drain | `httpapi/*.go`, `metrics.go`, `main.go` |
| `Verdict` | the switches, as lists of cases in source order | `interpreted.go`, `compiled.go`, `testmode.go` |
| `JailRun` | one command in one jail, from `Command` to the result | both runtimes, `buffer.go`, `sandbox_linux.go`, `cgroup_linux.go`, `os/exec` |
| `Judging` | what a runtime promises about a program and its inputs, and nothing of how | (abstract) |
| `Execution` | one request in the hands of a runtime: workdir, compile, inputs, removal | `Run`, `RunBatch`, `runTest`, `runTrace` of both runtimes, `batch.go` |
| `Limits` | clamped limits, the derived grace, nsjail's caps, as operators | `executor.go`, `config.go`, `nsjail.go` |
| `Submission` | a request from the wire to the tree in the workdir | `handlers.go`, `executor.go`, `filepolicy.go`, `materialize.go`, the registries |
| `SandboxBackend` | `Load`, `Configure` and `New` at boot, `Command` per run, `/readyz` | `config.go`, `sandbox_linux.go`, `server.go`, `handlers.go` |

`MC_*` modules give the constants their values for TLC; `*_proofs` modules hold
theorems and proofs. Operators named `X_slip`, such as `Shed_early`, are slips
a programmer could make in `X`; no specification uses them, and replacing `X`
by its slip makes the property named for it fail in the run that checks it.

### RunnerServer

`pc[r]` is where the goroutine of request `r` stands: `connected`, `received`
(in `RequireTokens`), `limiting` (at the `select` of `LimitConcurrency`),
`admitted`, `decoding`, `executing`, `observing`, `releasing` and `uncounting`
(the two statements of the deferred function), `replied`, `done`. Every
action is one statement that other goroutines can see the effect of. `New`
calls `gate` once per route, so `slots` is a function of the path. What the
executor returns is any member of `Outcomes`. `server` goes from `serving` to
`polling` and `waiting` (the loop of `http.Server.Shutdown`) to `exit_0` or
`exit_1`; after an exit no goroutine moves. `Decode` and `DecodeFails` read the
body from the client and `Encode` and `Flush` write to it; the server sets no
read or write timeout, so these steps may be a client's to withhold
(`AwaitsClient`). A connection that has been accepted
but has not spoken may still deliver its request after SIGTERM.

`ImplementsAdmission` is the refinement: `Standing` maps `pc` and `reply` to
where a caller stands for `Admission`, once per path, on that path's callers.

### JailRun and Verdict

Five kinds of actors: the runtime's goroutine (`pc`), the watcher, a copier per
stream, the processes (`leader`, `program`, `straggler`), and clock and caller
(`cause`, the first to cancel the context). A job record says which phase of
which runtime this is, on which backend, and what its language's recipe has:
an out-of-memory substring, a report file, the `exit 42` convention of the
java test jail, the build-failure marker of go. A stream is a count of bytes;
`mark` is the position at which a telling substring is complete, so "the buffer
contains it" is a comparison. Files the host reads back are absent (or empty),
within the reader's cap, or over it.

`os/exec` is modelled from Go's source as the code in `src/` relies on it:
`Start` fails on a context that is done; `Wait` reaps, tells the watcher to
stop or learns that it struck, and waits for the copies without a limit, since
`WaitDelay` is never set. Under nsjail the payload is in a PID namespace that
dies with its first process and is killed when nsjail is; on netns a descendant
in a session of its own survives the group kill.

`Verdict` keeps each switch as a list of cases in source order, so the
differences between them can be read side by side.

### Execution, Judging and Limits

`Execution` composes what one request does: it draws any configuration `Load`
can produce and any admitted request, clamps its limits with the operators of
`Limits`, and goes through `prepare`, `compiling`, `driver` (a compiled trace
writes its gdb driver between the two jails), then `next`, `context` and
`running` once per input, `returning` (the deferred `RemoveAll`) and
`returned`. A single run is a batch of one without the budget check. Time is in
whole units from the first statement; it passes only while a jail is at work,
which is where the code spends it. A jail that returns does so within its own
timeout; a netns jail need not return (`JailRun_survivor`). `at` is the index of
`batchLoop`, kept apart from `results` so that a skipped or repeated append
shows. `workDir`, `artifact` and `dirty` are the disk as the inputs see it:
`Write` is the program, or the compiler, writing to `/sandbox` where the mount
is read-write: in a compile, a test or a trace, and everywhere on netns. It may
leave a directory that the runner, which is not root, cannot empty (`locked`).
What outlives a jail (`survivor`) is a `reader`, a dying process of an nsjail
that could not write, or a `writer`; a writer may go on between inputs. The
deferred `RemoveAll` drops its error: what is locked stays, and what a writer
still fills may stay. Each result remembers what its jail was given, which is
what `InputsSeeTheBuild` is about.

`ImplementsJudging` is the refinement: `pc`, `results` and the answer's flags map
to `Judging`, which says that there is one build or a refusal, that inputs are
tried once each and in order after it, and that the answer says truthfully
whether all were.

The numbers meet here too: `HoldBounded` is how long a request can hold its
slot, `GraceCoversHold` compares that with the grace derived from the same
configuration. Both speak of requests whose jails return inside their deadlines:
on netns a held pipe makes that an assumption.

### Submission

A path is the sequence of its components and a file its path and size; what the
regular expressions and `path.Ext` say of a name are parameters. The tables of
`filepolicy.go`, the registered languages, the modes they have and the
recipes they have are kept as the tables they are, since two of the divergences
below are between tables. The actions are the handler's decode, the service's
`normalize` and dispatch, then the runtime's preparation: workdir, second
validation, one file after the other with its directories, the recipe's own
files (`go.mod`, a java class directory), and the hand-over to `Execution`. The
tree says of every path whether it is a directory, the student's or the
runner's. The host may fail at each step, and a build that ended well may have
left no artifact, an empty one or one over its cap (`ArtifactUnfit`, the checks
at the end of `compile`); `fault` remembers which, which is how the properties
tell the host's errors from the submission's.

### SandboxBackend

The environment and the host's capabilities are arbitrary at boot, so that all
combinations are one run. A dial may be unset, which means `auto` for the sandbox
and the network in production too, `require` for the cgroup in production and
the strict setting for readiness (`Setting`, `normalizePolicy`). `Load` parses
tokens and dials or stops the boot,
`Configure` chooses the backend or stops it, `New` fixes who passes the gates of
`/run` and `/metrics`. Then runs come and may find their cgroup missing, and
`/readyz` is asked at any time.

## Runs

| run | checks | expected |
|---|---|---|
| `RunnerServer` | types; slots, gauge and counters accounted for; no slot without a token; clean exit; load bound; one answer; refinement of `Admission` | holds |
| `RunnerServer_live` | requests are answered unless their run hangs or their client stalls; SIGTERM ends the process | holds |
| `JailRun` | types; exact capture; nothing lost; three soundness properties of verdicts and one of completeness; no survivor; no leaked leaf without a kill | holds |
| `JailRun_live` | a run returns under nsjail | holds |
| `Execution` | types; alignment; refinement of `Judging`; inputs see the build alone; the workdir goes unless a jail that could write to it prevents that; time bound; the grace covers all but compiled traces; floors stay under ceilings; a request returns, or on netns is held up in a jail | holds |
| `Submission` | order of files is irrelevant; the tree is the submission; the entrypoint is on it; no manifest at any depth; a 503 has a known reason | holds |
| `SandboxBackend` | production is gated by strong tokens; a rotation goes through; `require` fails closed; `auto` takes the best; a misspelt dial stops the boot, an omitted one weakens no production run unless the cgroup dial was relaxed; a refusal is sticky | holds |
| `RunnerServer_limit` | "LimitConcurrency bounds how many executions run at once" | violated |
| `JailRun_base64` | the encoding concerns the wire only | violated |
| `JailRun_survivor` | a run returns on the netns backend | violated |
| `Execution_trace` | the grace covers every request | violated |
| `Submission_internal` | `internal_error` is a failure of the runner's own | violated |

### Bounds

* `RunnerServer`: one slot per path, two callers on one path and one on the
  other. Two callers meet at the last slot, one is shed or not; the third shows
  that the other path's limiter does not count. Two valid tokens (or one) and a
  wrong one. Outcomes: one of each kind the handlers tell apart, among them a
  batch with two results and one with none. The two callers of a path are
  symmetric.
* `JailRun`: a cap of 1 byte, pipes of 2 and 2 bytes written per stream: a read
  can end at the cap, across it, or begin after it; `CaptureIsExact` covers the
  rest. One
  descendant. The jobs are one of each shape the registry produces.
  `MaxWritten` is the only bound on behaviour.
* `Execution`: two inputs, defaults of 1, ceilings of 1 and 3, requests below
  (absent) and above any of them, floors of none and of 2 (above one ceiling, below
  the other), a budget of 1 and 3, both backends. The budget may be exhausted by
  the compile, inside the first run, at its end, or never; an input may write
  before the next; the orders between settings matter, not their sizes.
* `Submission`: families of requests rather than one product. *Shapes* and
  *wires* vary language (registered or not, with and without a policy), mode,
  sizes at and past every cap, batches, encodings; *sizes* vary what up to two
  files hold; *pairs* and *triples* put up to three files at any of sixteen
  paths (nested in each other, in `vendor`, too deep, with `..`, manifests, the
  runner's `go.mod` and something under it) in five languages and three modes.
* `SandboxBackend`: two runs, so that one can fail while the other does not;
  three strong tokens, a weak one and a cap of two: none, one, a rotation, a
  repetition, one past the cap, weak ones before and after it.

The theorems lift these bounds for the properties they state.

### Fairness

`RunnerServer`: weak fairness of each handler's own steps (the Go scheduler
runs what can run; not the reading of a body nor the writing of an answer, which
wait for the client), of closing a silent connection, and of Shutdown's poll;
strong fairness of `GraceExpires`, because once the grace has expired Go's
`select` finds it ready in every round beside the timer and chooses at random.
None for a run's return, for clients or for SIGTERM. `JailRun`: weak fairness
of the runtime's goroutine, the watcher, the copiers, the deadline's timer and
the delivery of a parent's death signal; none for the program.
`Execution`: weak fairness of the runtime's goroutine outside a jail, and of the
return of a jail under nsjail, which is `JailRun_live` seen from above; none for
a netns jail, for the caller or for what a program writes.

### Divergences the runs show

1. **Two limiters** (`server.go:113`). `POST /run` and `POST /run/python` have a
   limiter each: `RUNNER_MAX_CONCURRENT_RUNS` is exceeded by a factor of two.
   `LoadBounded` is what does hold.
2. **Verdict from the encoded stream** (`interpreted.go:271`, `compiled.go:1050`).
   With base64 the out-of-memory fallback never matches.
3. **A run that never returns** (`sandbox_linux.go:371`). netns only: a `setsid`
   descendant with a pipe holds `Wait`, the request and its slot for ever.
4. **Grace too short for compiled traces** (`config.go:287`). Their hold is
   compile + test timeout, a shape the formula has no term for.
5. **Accepted, then a 503** (`compiled.go:846`, `materialize.go:65`,
   `compiled_multifile.go:96`). rust has a file policy and no multi-file recipe; a
   file may be another's directory; a directory may stand where the go recipe
   writes `go.mod`. Each is a retryable `internal_error` that no retry can
   help. `FailuresExplained` shows that before the jails there is no fourth
   reason; after them `compile` may still find the artifact unfit, which is
   answered in the same way.

### Divergences met while modelling, visible in the modules, not run

* `interpreted.go:258` "a clean exit is success regardless of anything else",
  but the deadline is asked first (`Verdict!RunVerdict`).
* `handlers.go:221` promises `internal_error` when the jail cannot be stood up;
  a failing `Start` or an nsjail that dies early is the default case,
  `runtime_error` (`JailRun!StartFails`, `JailFails`).
* `interpreted.go:584` "exactly like run mode", but a trace asks for OOM and the
  substring before the clean exit (`Verdict!InterpretedTraceVerdict`).
* `compiled.go:1412`: `output_limit_exceeded` of a compiled trace is about gdb's
  stream while the flags are about the program's files (`JailRun!Cut`).
* `testmode.go:231`: the tested program can exit with the sentinel code itself
  (`JailRun!TheEvidence`).
* `compiled.go:777` "nothing carries between inputs": not on netns, where the
  workdir stays writable (`Execution!Writable`; `InputsSeeTheBuild` asks nsjail).
* `batch.go:19` "the worst overshoot is one per-run timeout": a compile longer
  than the budget overshoots it by more (`Execution!Hold` has both cases).
* `handlers.go:263`: a batch aborted before its first input is counted under
  the status `ok`, which is not one of a run's (`RunnerServer!Series`).
* `interpreted.go:432`: a report on stdout that the output limit cut is not
  flagged, though `contract.go:150` calls the flag authoritative and the
  compiled runtime sets it (`JailRun!ReportCut` has both).
* `handlers.go:88` "nor a full multi-file payload is cut off at the transport":
  the body cap counts raw bytes, and JSON escapes or base64 can exceed it
  (`Submission!Decodes` has the wire size apart).
* `executor.go:332` "policyForMode cannot miss": sql and odin are registered
  without a policy and their `files[]` answer `unsupported_language`
  (`Submission!WellShaped`).
* `README.md:331` "`0` disables the limit": `envInt` ignores 0 and keeps the
  default, so the limiter is always there (`RunnerServer!ServerAssumption`).
* `contract.go:208` gives the budget as the reason for `aborted`; a caller that
  leaves is another (`Execution!CallerGone`).
* `compiled.go:942` "it is our failure, not the code's": an artifact over its
  size cap, or none because java's entry class, which `filepolicy.go:413` does not
  look up, is not among those compiled, is the submission's doing and answered
  503 (`Submission!ArtifactUnfit`, `Execution!CompileFails`).
* `defer os.RemoveAll(workDir)` in every path of both runtimes ignores its error.
  A directory without permissions or a process still dying leaves the workdir
  on disk (`Execution!RemoveAll`; `NothingLeft` says when it cannot happen).
* `server.go:133`: `ReadHeaderTimeout` is the only timeout. A client that stalls
  inside its body keeps a handler and a slot that the run's own timeout does not
  bound (`RunnerServer!AwaitsClient`).
* `RUNNER_SANDBOX` and `RUNNER_NETWORK_ISOLATION` left unset mean `auto` in
  production, which falls back; the cgroup dial's default is what keeps such a
  runner from weak runs (`SandboxBackend!OmissionFailsClosed`). A misspelt
  `RUNNER_STATIC_SECCOMP` degrades to the denylist (`main.go:136`), which is not
  modelled.

## Proofs

`tlapm` checks all proof modules without a gap. The only assumptions are the
named ones on the constants (`ServerAssumption`, `JailAssumption`,
`LimitsAssumption`, `ExecutionAssumption`, `BackendAssumption`,
`SubmissionAssumption`), each stated in the module that declares the constants.
Each inductive invariant was first checked with TLC on the run of its module.
Every invariant and every action property that a passing run checks is a
theorem; what is left to TLC is listed below.

* **RunnerServer_proofs.** The inductive invariant `IInv` is types, the two
  accounting equations, `Passed` (whoever is past `RequireTokens` was
  authorized), `RepliesFit` (which answer goes with which place) and
  `CleanExit`. The equations count sets of requests, so each step is an instance
  of one lemma about cardinalities (`Regroup`): moving one request in or out of
  a set changes its size by one. `Moved` says it for slots and gauge together,
  `RequestStep` applies it action by action. `CleanExit` needs the equations:
  with no active request both sets are empty. `LoadIsBounded` adds up the two
  disjoint sets of holders. `MetricsAreExact` rests on a second invariant,
  `MInv`: a counter is the number of `ObserveRun` calls made with its status
  (`CallsCounted`), and a request has made one call per result exactly when its
  answer is decided (`CallsMade`). Between two calls of one batch the counters
  and the answers disagree, so `MetricsMatchAnswers` is not inductive by itself.
  For the refinement, `Journey` lists the changes of standing a step can make
  and `GateStep` shows each to be a step of `Admission` or a stutter, for either
  path.
* **Verdict_proofs.** `Verdict` keeps a Go switch as a list of cases, and takes
  the first that holds by `CHOOSE`. `SwitchTakes` says what that is, and one
  lemma per switch (`RunVerdictIs`, `CompiledTraceVerdictIs`, ...) gives the
  guards under which each status comes out, for every evidence.
* **JailRun_proofs.** `IInv` is types, `CaptureExact`, `Order` (runtime and
  leader), `Streams` (a copier ends with an empty pipe nobody can write to),
  `Dying` (in an nsjail a live descendant needs a live leader, a doomed one a
  killed leader), `Exits` (an exit of the submission's own choosing needs its
  body; a leader that never was left nothing), `Failure` (what the error of
  `cmd.Run` says of exit and watcher) and `Floods` (a flood is the cause only
  where `onLimit` is set, and after a cut). `CopyExact` is the arithmetic of
  `limitedBuffer.Write` for a read of any size. `NothingLost` alone is not
  inductive: it needs `Streams` from the moment the copiers start. The four
  theorems about verdicts go through `Settled`: a result that has been given
  still is what the present state would give, because nothing the verdict was
  read off moves after it (`VerdictStands`, itself a theorem). Then each follows
  from the lemma on the phase's switch, `Failure` (a run that did not fail
  exited zero) and `Floods` (a cut stream is behind every flood).
* **Execution_proofs.** `ClampBounds`, `FloorBounds` and `Clamped` bound what
  `clampLimits` returns. On top of the properties themselves `IInv` has
  `Progress` (the loop's index is one past the results, wherever it stands),
  `Clock` (how far time may be there: an input is begun only inside the budget),
  `Clean` (under nsjail a plain run neither dirties the workdir nor leaves a
  writer, and the artifact is the validated one from the compile to the last
  input) and `Survival` (a locked directory or a writer takes a jail that had the
  workdir read-write). `Aligned` is not inductive without `Progress`, nor
  `HoldBounded` without `Clock`, `InputsSeeTheBuild` without `Clean`, `NothingLeft`
  without `Survival`.
  `GraceCovers` then compares the shapes of a hold with the terms of the
  grace, and the refinement of `Judging` is one case per action under `IInv`.
  `CapsOutlastDeadlines` is about the rounding of nsjail's caps alone.
* **SubmissionOrder_proofs.** What `Submission`'s operators do. Paths: `Src \o p`
  is injective, keeps the last component, and `Above` becomes "is a parent of"
  under it. Order: a sorted copy exists (`OrderExists`: every file goes to the
  place after as many files as come before it, which with distinct paths is a
  permutation, by cardinalities and so without induction), it holds the same
  files once each (`SortedWorks`), and it depends on how many files there are
  and which, not on how they are listed (`SortedOfSet`). `Total`, `validatePaths`
  and `resolveEntrypoint` are the same for every permutation, so `OrderSame`:
  every order of an accepted request is accepted, for the same canonical
  request.
* **Submission_proofs.** `IInv` is `Arrived` (the request is what normalize made
  of one that `Accepts` let through), `Quiet` (no answer, no fault and nothing on
  disk outside the runtime), `Stages` and `Refusals` (each answer with its reason). The heart is
  `Grown`, for the tree while it is being written: parents are there and are
  directories, the only directories are `src` and parents of the student's
  files, the only other file is the harness; and `Writing`: what is written and
  what is still to be written make up the submission, disjointly.
  `TreeIsSubmission` speaks of the finished tree only. From `Grown`, a file that
  cannot be created meets a file of the student's above or beneath it
  (`BlockedIsNested`), and a directory at `go.mod` was made for a file beneath
  it (`PrepBlocked`): with `Stages`, which keeps all three from a prepared tree,
  that is `FailuresAreExplained`, the unfit artifact being the one reason that
  needs a tree without them. `Tables` reads off the
  policies that none forbids `src` and that go's forbid `go.mod`, without which
  `prep` could overwrite a file. `SecondValidationAgrees` is the claim of
  `materialize.go:117`.
* **SandboxBackend_proofs.** `IInv` has `Loaded` (what a boot past `Load`
  knows of dials and tokens), `Configured` (what `Configure` guarantees once it
  is up), `Runs` (what each run's state implies about flag and dials) and
  `Answered` (what the last `/readyz` was based on). `TokensTaken` bounds what
  `tokenSet` keeps of any list of tokens, and `RotationsGoThrough` follows.

Only model-checked: liveness (`EveryRequestAnswered`, `ShutdownTerminates`,
`RunReturns`, `RequestReturns`), which is out of the prover's reach as is
everything that speaks of ENABLED. `Total` and `tokenSet` are stated in closed
form, as the size of a set and as a set, and not as the code's loops: that the
loops compute them takes an induction over the data, which the prover cannot do.
`Batch` is still a recursive sum; the proofs need no more of it than that it
does not look at the files.

## Not modelled

* `/health`, the text of `/metrics`, `/languages`: read-only.
* JSON, headers, request ids, logging, histograms, the language label.
* The argv, environment and version tables of the languages: configuration
  without state. What the tables imply for a verdict is in JailRun's job record,
  what they imply for acceptance in Submission.
* The seccomp policy, mounts and sizes of the rlimits in nsjail's argument list
  beyond their effect on who dies when and who may write where.
* Process ids: `Kill(-pid)` is taken to reach the group it was meant for.
* The trace harnesses: they run in the jail beside the submission, and the
  runner trusts nothing they write.

## Plan

Modelled: `RunnerServer`/`Admission`, `JailRun`/`Verdict`,
`Execution`/`Judging`/`Limits`, `Submission`, `SandboxBackend`, each with its
theorems. What is left:

1. `RunnerServer` over `Execution`: the outcomes of a request given by
   `Judging` in place of a choice, so that the caller's disconnect and the
   drain reach the jails.
2. An abstract specification of a submission (a request is refused, or all of it
   is on disk at once, or nothing is) with `Submission` shown to refine it, step
   by step, as for `Admission` and `Judging`.
3. The hazards without a property, where a model of a second start of the
   process (what an expired grace leaves behind) would be needed.
