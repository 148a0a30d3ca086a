-------------------------------- MODULE JailRun --------------------------------
(***************************************************************************)
(* One command in one jail, from Sandbox.Command to the RunResult: what    *)
(* every execute, executeTest, executeTrace and compile of the runtimes    *)
(* does.  Five kinds of actors move:                                       *)
(*   - the runtime's goroutine: Command, Start, Wait, classify, Close;     *)
(*   - the context watcher of os/exec, which kills the process group;      *)
(*   - a copier per stream, from the pipe to a limitedBuffer;              *)
(*   - the processes: nsjail or sh (the leader), the program it becomes or *)
(*     contains, and a descendant that may outlive it (the straggler);     *)
(*   - the clock and the caller, who cancel the context.                   *)
(***************************************************************************)
EXTENDS Verdict, FiniteSets

CONSTANTS Jobs,         \* the jobs a behaviour may run
          OutputLimit,  \* effectiveOutputLimit: bytes kept of a stream
          ReportLimit,  \* maxReportBytes
          PipeSize,     \* capacity of a pipe
          MaxWritten    \* bound: bytes ever written to a stream

Job == [runtime         : {"interpreted", "compiled"},
        phase           : {"compile", "run", "test", "trace"},
        isolation       : {"nsjail", "netns"},
        cgroup          : {"off", "auto", "require"},
        encoding        : {"utf8", "base64"},
        memErrSubstr    : BOOLEAN,   \* the language has one
        reportFile      : BOOLEAN,   \* report in a file, else on stdout
        compileFailExit : BOOLEAN,   \* the test command has one (java)
        buildFailMarker : BOOLEAN]   \* the test command has one (go)

ASSUME JailAssumption ==
  /\ Jobs \subseteq Job
  /\ OutputLimit \in Nat \ {0} /\ ReportLimit \in Nat \ {0}
  /\ PipeSize \in Nat \ {0} /\ MaxWritten \in Nat

VARIABLES job,
          pc,         \* the runtime's goroutine
          leader,     \* the process cmd.Process names
          program,    \* how far the submission got: never, prelude, body
          exit,       \* the leader's exit
          straggler,  \* a descendant: none, group, session, doomed
          grips,      \* it holds the write ends of the pipes
          pipe,       \* bytes in each pipe
          copied,     \* bytes handed to each limitedBuffer
          kept,       \* l.buf.Len()
          truncated,  \* l.truncated
          copier,     \* the copy goroutines
          mark,       \* where a telling substring ends in a stream, 0 if nowhere
          files,      \* what the program left in the writable /sandbox
          cause,      \* context.Cause
          watcher,    \* the goroutine of cmd.watchCtx
          failed,     \* cmd.Run returned an error
          oom,        \* oom_kill of memory.events
          leaf,       \* the run's cgroup
          result      \* the RunResult

process == <<leader, program, exit, straggler, grips>>
capture == <<pipe, copied, kept, truncated, copier, mark>>
vars == <<job, pc, process, capture, files, cause, watcher, failed, oom, leaf, result>>

Stream   == {"out", "err"}
HandBack == {"report", "artifact", "out", "err"}
Status   == {"success", "runtime_error", "timeout", "memory_exceeded", "compile_error",
             "internal_error", "output_limit_exceeded", "tests_failed", "compiled"}
NoResult == [status |-> "none", code |-> "zero", cut |-> [s \in Stream |-> FALSE],
             produced |-> FALSE, reportCut |-> FALSE]

Limit(s) == IF job.runtime = "compiled" /\ job.phase = "test" /\ s = "out"
              THEN ReportLimit ELSE OutputLimit

Alive     == leader \in {"launching", "running"}
Lingering == straggler # "none"
Writable(s) == Alive \/ (Lingering /\ grips)      \* somebody may write to s yet

Init == /\ job \in Jobs
        /\ pc = "command"
        /\ leader = "unborn" /\ program = "never" /\ exit = "none"
        /\ straggler = "none" /\ grips = FALSE
        /\ pipe = [s \in Stream |-> 0]
        /\ copied = [s \in Stream |-> 0]
        /\ kept = [s \in Stream |-> 0]
        /\ truncated = [s \in Stream |-> FALSE]
        /\ copier = [s \in Stream |-> "off"]
        /\ mark = [s \in Stream |-> 0]
        /\ files = [f \in HandBack |-> "absent"]
        /\ cause = "none" /\ watcher = "off" /\ failed = FALSE
        /\ oom = FALSE /\ leaf = "none"
        /\ result = NoResult

-------------------------------------------------------------------------------
(***************************************************************************)
(* Sandbox.Command: a cgroup leaf first, when the backend has a manager.   *)
(***************************************************************************)
UsesCgroup == job.isolation = "nsjail" /\ job.cgroup # "off"

CommandBegins ==   \* cg.begin succeeds, or there is no manager
  /\ pc = "command"
  /\ pc' = "start"
  /\ leaf' = IF UsesCgroup THEN "held" ELSE "none"
  /\ UNCHANGED <<job, process, capture, files, cause, watcher, failed, oom, result>>

\* cg.begin fails: auto goes on without a cgroup, require refuses the run.
CgroupFails ==
  /\ pc = "command" /\ UsesCgroup
  /\ IF job.cgroup = "require"
       THEN /\ pc' = "returned"
            /\ result' = [NoResult EXCEPT !.status = "internal_error"]
       ELSE /\ pc' = "start"
            /\ UNCHANGED result
  /\ UNCHANGED <<job, process, capture, files, cause, watcher, failed, oom, leaf>>

-------------------------------------------------------------------------------
(***************************************************************************)
(* cmd.Run: Start, the watcher, Wait (os/exec, Go 1.26).                   *)
(***************************************************************************)
Start ==
  /\ pc = "start" /\ cause = "none"
  /\ pc' = "wait"
  /\ leader' = "launching"
  /\ watcher' = "armed"
  /\ copier' = [s \in Stream |-> "copying"]
  /\ UNCHANGED <<job, program, exit, straggler, grips, pipe, copied, kept, truncated,
                 mark, files, cause, failed, oom, leaf, result>>

\* The context is already done, or fork, clone (CLONE_INTO_CGROUP, the
\* namespaces) or exec is refused: ProcessState stays nil.
StartFails ==
  /\ pc = "start"
  /\ pc' = "verdict"
  /\ failed' = TRUE
  /\ UNCHANGED <<job, process, capture, files, cause, watcher, oom, leaf, result>>

\* Slip: no Setpgid, the group to kill does not exist.
KillGroup_misses == UNCHANGED process

\* CancelCmd: SIGKILL to the group.  Under nsjail the payload is outside the
\* group; it dies of its parent's death, a moment later.
KillGroup ==
  /\ leader' = IF Alive THEN "zombie" ELSE leader
  /\ exit' = IF Alive THEN "signal" ELSE exit
  /\ IF job.isolation = "nsjail"
       THEN IF Alive THEN straggler' = "doomed" /\ grips' \in BOOLEAN
                     ELSE UNCHANGED <<straggler, grips>>
       ELSE /\ straggler' = IF straggler = "group" THEN "none" ELSE straggler
            /\ UNCHANGED grips
  /\ UNCHANGED program

WatcherKills ==
  /\ watcher = "armed" /\ cause # "none"
  /\ watcher' = "killed"
  /\ KillGroup
  /\ UNCHANGED <<job, pc, capture, files, cause, failed, oom, leaf, result>>

\* c.Process.Wait reaps the leader.
WaitProcess ==
  /\ pc = "wait" /\ leader = "zombie"
  /\ pc' = "ctxresult"
  /\ leader' = "reaped"
  /\ failed' = (exit # "zero")
  /\ UNCHANGED <<job, program, exit, straggler, grips, capture, files, cause, watcher,
                 oom, leaf, result>>

\* <-c.ctxResult: the watcher is told to stop, or has struck and says so.
CtxResult ==
  /\ pc = "ctxresult"
  /\ pc' = "copying"
  /\ \/ watcher = "armed" /\ watcher' = "dismissed" /\ UNCHANGED failed
     \/ watcher = "killed" /\ failed' = TRUE /\ UNCHANGED watcher
  /\ UNCHANGED <<job, process, capture, files, cause, oom, leaf, result>>

\* Slip: the buffers are read without waiting for the copies.
AwaitCopies_not ==
  /\ pc = "copying"
  /\ pc' = "verdict"
  /\ UNCHANGED <<job, process, capture, files, cause, watcher, failed, oom, leaf, result>>

\* awaitGoroutines; WaitDelay is 0, so the wait has no end of its own.
AwaitCopies ==
  /\ pc = "copying" /\ \A s \in Stream : copier[s] = "done"
  /\ pc' = "verdict"
  /\ UNCHANGED <<job, process, capture, files, cause, watcher, failed, oom, leaf, result>>

-------------------------------------------------------------------------------
(***************************************************************************)
(* The copy goroutines and limitedBuffer.Write.  Only run, test and trace  *)
(* set onLimit; a compiler's flood is cut and the compiler left alone.     *)
(***************************************************************************)
\* Slip: everything is buffered, the limit only raises the flag.
Copy_uncapped(s) ==
  /\ copier[s] = "copying"
  /\ \E n \in 1 .. pipe[s] :
       LET over == n > Limit(s) - kept[s]
       IN /\ pipe' = [pipe EXCEPT ![s] = @ - n]
          /\ copied' = [copied EXCEPT ![s] = @ + n]
          /\ kept' = [kept EXCEPT ![s] = @ + n]
          /\ truncated' = [truncated EXCEPT ![s] = @ \/ over]
          /\ cause' = IF over /\ ~truncated[s] /\ job.phase # "compile" /\ cause = "none"
                        THEN "flood" ELSE cause
  /\ UNCHANGED <<job, pc, process, copier, mark, files, watcher, failed, oom, leaf, result>>

\* Slip: >= for >, a stream of exactly Limit bytes counts as cut.
Copy_eager(s) ==
  /\ copier[s] = "copying"
  /\ \E n \in 1 .. pipe[s] :
       LET remaining == Limit(s) - kept[s]
           over      == n >= remaining
       IN /\ pipe' = [pipe EXCEPT ![s] = @ - n]
          /\ copied' = [copied EXCEPT ![s] = @ + n]
          /\ kept' = [kept EXCEPT ![s] = IF over THEN Limit(s) ELSE @ + n]
          /\ truncated' = [truncated EXCEPT ![s] = @ \/ over]
          /\ cause' = IF over /\ ~truncated[s] /\ job.phase # "compile" /\ cause = "none"
                        THEN "flood" ELSE cause
  /\ UNCHANGED <<job, pc, process, copier, mark, files, watcher, failed, oom, leaf, result>>

Copy(s) ==
  /\ copier[s] = "copying"
  /\ \E n \in 1 .. pipe[s] :
       LET remaining == Limit(s) - kept[s]
           over      == n > remaining
       IN /\ pipe' = [pipe EXCEPT ![s] = @ - n]
          /\ copied' = [copied EXCEPT ![s] = @ + n]
          /\ kept' = [kept EXCEPT ![s] = IF over THEN Limit(s) ELSE @ + n]
          /\ truncated' = [truncated EXCEPT ![s] = @ \/ over]
          /\ cause' = IF over /\ ~truncated[s] /\ job.phase # "compile" /\ cause = "none"
                        THEN "flood" ELSE cause
  /\ UNCHANGED <<job, pc, process, copier, mark, files, watcher, failed, oom, leaf, result>>

EndOfFile(s) ==
  /\ copier[s] = "copying" /\ pipe[s] = 0 /\ ~Writable(s)
  /\ copier' = [copier EXCEPT ![s] = "done"]
  /\ UNCHANGED <<job, pc, process, pipe, copied, kept, truncated, mark, files, cause,
                 watcher, failed, oom, leaf, result>>

-------------------------------------------------------------------------------
(***************************************************************************)
(* The processes.                                                          *)
(***************************************************************************)
\* Slip: a jail without a PID namespace of its own.
Dies_alone(how) ==
  /\ leader' = "zombie"
  /\ exit' = how
  /\ UNCHANGED <<program, straggler, grips>>

Dies(how) ==   \* the leader exits; a PID namespace goes with its first process
  /\ leader' = "zombie"
  /\ exit' = how
  /\ straggler' = IF job.isolation = "nsjail" THEN "none" ELSE straggler
  /\ UNCHANGED <<program, grips>>

\* nsjail has built the jail and execs, or the shell execs the command; a
\* java test jail runs javac before the tests.
JailStands ==
  /\ leader = "launching"
  /\ leader' = "running"
  /\ program' = IF job.compileFailExit THEN "prelude" ELSE "body"
  /\ UNCHANGED <<job, pc, exit, straggler, grips, capture, files, cause, watcher,
                 failed, oom, leaf, result>>

\* nsjail cannot build the jail (mount, seccomp, clone), the shell cannot exec.
JailFails ==
  /\ leader = "launching"
  /\ Dies("other")
  /\ UNCHANGED <<job, pc, capture, files, cause, watcher, failed, oom, leaf, result>>

PreludePasses ==
  /\ leader = "running" /\ program = "prelude"
  /\ program' = "body"
  /\ UNCHANGED <<job, pc, leader, exit, straggler, grips, capture, files, cause, watcher,
                 failed, oom, leaf, result>>

PreludeFails ==   \* javac ... || exit 42
  /\ leader = "running" /\ program = "prelude"
  /\ Dies("sentinel")
  /\ UNCHANGED <<job, pc, capture, files, cause, watcher, failed, oom, leaf, result>>

\* The program ends as it likes, or a signal or a limit ends it; nsjail turns
\* a death by signal into an exit code.
ProgramExits ==
  /\ leader = "running" /\ program = "body"
  /\ \E how \in {"zero", "failed", "sentinel", "other", "signal"} :
       /\ how = "signal" => job.isolation = "netns"
       /\ Dies(how)
  /\ UNCHANGED <<job, pc, capture, files, cause, watcher, failed, oom, leaf, result>>

\* The kernel kills a process of the cgroup: a descendant, the program, or
\* nsjail itself.
OOMKill ==
  /\ leaf = "held" /\ leader = "running"
  /\ oom' = TRUE
  /\ \/ UNCHANGED process
     \/ Dies("other")
     \/ KillGroup
  /\ UNCHANGED <<job, pc, capture, files, cause, watcher, failed, leaf, result>>

\* The program leaves a descendant behind, in its process group or (setsid)
\* in a session of its own, with or without the inherited pipes.
Forks ==
  /\ leader = "running" /\ program = "body" /\ ~Lingering
  /\ straggler' \in {"group", "session"}
  /\ grips' \in BOOLEAN
  /\ UNCHANGED <<job, pc, leader, program, exit, capture, files, cause, watcher,
                 failed, oom, leaf, result>>

StragglerEnds ==
  /\ Lingering
  /\ straggler' = "none"
  /\ UNCHANGED <<job, pc, leader, program, exit, grips, capture, files, cause, watcher,
                 failed, oom, leaf, result>>

\* A byte goes into a pipe; the byte may complete the substring a verdict
\* looks for (an out-of-memory error on stderr, a build failure on stdout).
Write(s) ==
  /\ Writable(s) /\ program # "never"
  /\ s = "err" => job.phase # "compile"       \* stderr is the same buffer
  /\ pipe[s] < PipeSize /\ pipe[s] + copied[s] < MaxWritten
  /\ pipe' = [pipe EXCEPT ![s] = @ + 1]
  /\ \/ UNCHANGED mark
     \/ /\ mark[s] = 0
        /\ \/ s = "err" /\ job.memErrSubstr
           \/ s = "out" /\ job.buildFailMarker
        /\ mark' = [mark EXCEPT ![s] = pipe[s] + copied[s] + 1]
  /\ UNCHANGED <<job, pc, process, copied, kept, truncated, copier, files, cause,
                 watcher, failed, oom, leaf, result>>

\* A file of the writable /sandbox the host will read back, within the
\* reader's cap or over it, or taken away again.
Files == CASE job.phase = "compile" -> {"artifact"}
           [] job.phase = "trace" /\ job.runtime = "compiled" -> {"report", "out", "err"}
           [] job.phase \in {"test", "trace"} /\ job.reportFile -> {"report"}
           [] OTHER -> {}

WriteFile ==
  /\ program = "body" /\ Alive
  /\ \E f \in Files, size \in File : files' = [files EXCEPT ![f] = size]
  /\ UNCHANGED <<job, pc, process, capture, cause, watcher, failed, oom, leaf, result>>

-------------------------------------------------------------------------------
(***************************************************************************)
(* The clock and the caller: the first to cancel the context wins.         *)
(***************************************************************************)
Cancel(why) ==
  /\ cause = "none" /\ pc \notin {"closing", "returned"}
  /\ cause' = why
  /\ UNCHANGED <<job, pc, process, capture, files, watcher, failed, oom, leaf, result>>

DeadlinePasses == Cancel("deadline")
CallerLeaves   == Cancel("caller")

-------------------------------------------------------------------------------
(***************************************************************************)
(* After cmd.Run: read back, classify, and the deferred Close.             *)
(***************************************************************************)
\* Slip: the substring is looked for in all that was written.
Seen_anywhere(s) == mark[s] > 0

Seen(s) == mark[s] \in 1 .. kept[s]        \* the substring is in the buffer
ProcessCode == IF exit = "none" THEN "zero" ELSE exit    \* nil ProcessState: 0

CompiledTrace == job.phase = "trace" /\ job.runtime = "compiled"

Produced  == IF job.reportFile THEN files["report"] # "absent" ELSE kept["out"] > 0
ReportCut == IF job.reportFile
               THEN files["report"] = "over"
               ELSE \/ kept["out"] > ReportLimit
                    \/ job.runtime = "compiled" /\ truncated["out"]

\* StdoutTruncated and StderrTruncated: a compiled trace reports its files',
\* with gdb's stderr instead of a program's that is missing.
Cut(s) == IF CompiledTrace /\ ~(s = "err" /\ files["err"] = "absent" /\ failed)
            THEN files[s] = "over" ELSE truncated[s]

TheEvidence ==
  [cause |-> cause, failed |-> failed, oom |-> oom,
   memErr |-> job.memErrSubstr /\ job.encoding = "utf8" /\ Seen("err"),
   code |-> IF ProcessCode = "sentinel" /\ ~job.compileFailExit THEN "other"
                                                                ELSE ProcessCode,
   produced |-> Produced,
   buildFail |-> job.buildFailMarker /\ Seen("out"),
   artifact |-> files["artifact"]]

TheVerdict ==
  CASE job.phase = "compile" -> CompileVerdict(TheEvidence)
    [] job.phase = "run"     -> RunVerdict(TheEvidence)
    [] job.phase = "test"  /\ job.runtime = "interpreted" -> InterpretedTestVerdict(TheEvidence)
    [] job.phase = "test"  /\ job.runtime = "compiled"    -> CompiledTestVerdict(TheEvidence)
    [] job.phase = "trace" /\ job.runtime = "interpreted" -> InterpretedTraceVerdict(TheEvidence)
    [] job.phase = "trace" /\ job.runtime = "compiled"    -> CompiledTraceVerdict(TheEvidence)

Classify ==
  /\ pc = "verdict"
  /\ pc' = "closing"
  /\ result' = [status |-> TheVerdict, code |-> ProcessCode,
                cut |-> [s \in Stream |-> Cut(s)],
                produced |-> Produced, reportCut |-> ReportCut]
  /\ UNCHANGED <<job, process, capture, files, cause, watcher, failed, oom, leaf>>

\* acct.Close: rmdir fails while a process is left in the leaf; after twenty
\* tries, 5 ms apart, the leaf is left behind.
Close ==
  /\ pc = "closing"
  /\ pc' = "returned"
  /\ \/ leaf = "held" /\ ~Lingering /\ leaf' = "removed"
     \/ leaf = "held" /\ Lingering /\ leaf' = "leaked"
     \/ leaf = "none" /\ UNCHANGED leaf
  /\ UNCHANGED <<job, process, capture, files, cause, watcher, failed, oom, result>>

\* The runtime has its RunResult; only a straggler may still move.
Returned == pc = "returned" /\ UNCHANGED vars

-------------------------------------------------------------------------------
Runtime == CommandBegins \/ CgroupFails \/ Start \/ StartFails \/ WaitProcess
           \/ CtxResult \/ AwaitCopies \/ Classify \/ Close

Processes == JailStands \/ JailFails \/ PreludePasses \/ PreludeFails \/ ProgramExits
             \/ OOMKill \/ Forks \/ StragglerEnds \/ WriteFile
             \/ \E s \in Stream : Write(s)

Next == \/ Runtime \/ Processes \/ WatcherKills
        \/ \E s \in Stream : Copy(s) \/ EndOfFile(s)
        \/ DeadlinePasses \/ CallerLeaves \/ Returned

Spec == Init /\ [][Next]_vars

\* The runner's goroutines are scheduled, its timer fires, and the kernel
\* delivers a parent's death signal; the program owes nothing.
FairSpec == /\ Spec
            /\ WF_vars(Runtime) /\ WF_vars(WatcherKills) /\ WF_vars(DeadlinePasses)
            /\ \A s \in Stream : WF_vars(Copy(s)) /\ WF_vars(EndOfFile(s))
            /\ WF_vars(straggler = "doomed" /\ StragglerEnds)
-------------------------------------------------------------------------------
(***************************************************************************)
(* Properties.                                                             *)
(***************************************************************************)
\* The types of the state (a run of execute, executeTest, executeTrace or
\* compile).
TypeOK ==
  /\ job \in Jobs
  /\ pc \in {"command", "start", "wait", "ctxresult", "copying", "verdict",
             "closing", "returned"}
  /\ leader \in {"unborn", "launching", "running", "zombie", "reaped"}
  /\ program \in {"never", "prelude", "body"}
  /\ exit \in ExitCode \union {"none"}
  /\ straggler \in {"none", "group", "session", "doomed"}
  /\ grips \in BOOLEAN
  /\ pipe \in [Stream -> 0 .. PipeSize]
  /\ copied \in [Stream -> Nat]
  /\ kept \in [Stream -> Nat] /\ \A s \in Stream : kept[s] <= Limit(s)
  /\ truncated \in [Stream -> BOOLEAN]
  /\ copier \in [Stream -> {"off", "copying", "done"}]
  /\ mark \in [Stream -> Nat]
  /\ files \in [HandBack -> File]
  /\ cause \in Cause
  /\ watcher \in {"off", "armed", "killed", "dismissed"}
  /\ failed \in BOOLEAN /\ oom \in BOOLEAN
  /\ leaf \in {"none", "held", "removed", "leaked"}
  /\ result \in [status : Status \union {"none"}, code : ExitCode,
                 cut : [Stream -> BOOLEAN], produced : BOOLEAN, reportCut : BOOLEAN]

Done == pc = "returned" /\ result.status # "none"

\* Each buffer holds exactly the first Limit bytes of its stream and the flag
\* tells exactly whether there were more, however the bytes were split into
\* reads (limitedBuffer.Write; RunResult.StdoutTruncated).
CaptureExact ==
  \A s \in Stream : /\ kept[s] = IF copied[s] > Limit(s) THEN Limit(s) ELSE copied[s]
                    /\ truncated[s] <=> copied[s] > Limit(s)

\* A verdict is read off complete streams: every byte any process of the run
\* wrote has gone through the buffers, and no process can write another
\* (cmd.Wait returns after the copies, though a watcher, a kill and an exit
\* may come in any order before).
NothingLost ==
  pc \in {"verdict", "closing", "returned"} =>
     \A s \in Stream : pipe[s] = 0 /\ ~Writable(s)

\* A process is blamed for a limit only if it met one: for its output only
\* when a stream really went past the cap, and then the streams that are handed
\* back say so; for its memory only when the kernel killed in its cgroup or
\* what was kept of its stderr says so (execute, executeTest, executeTrace;
\* gdb's streams stand in for the program's in a compiled trace).
LimitVerdictSound ==
  Done =>
    /\ result.status = "output_limit_exceeded" =>
          /\ job.phase # "compile"
          /\ \E s \in Stream : copied[s] > Limit(s) /\ (CompiledTrace \/ result.cut[s])
    /\ result.status = "memory_exceeded" =>
          oom \/ (mark["err"] > 0 /\ mark["err"] <= OutputLimit)

\* A success, and an artifact fit to be run, come only of the submission's own
\* clean exit: never of a jail that did not stand, a prelude that failed, a
\* process that was killed (the switches of all four phases).
SuccessSound ==
  Done =>
    /\ result.status \in {"success", "compiled"} => exit = "zero" /\ program = "body"
    /\ result.status = "compiled" => files["artifact"] = "fits"

\* A verdict of the test suite, good or bad, needs a suite that ran to its own
\* exit and something handed back where the report is looked for: submitted
\* code that ends the process early and writes nothing there passes nothing
\* (classifyTestExit).  The tested program can write there too, and the runner
\* does not read what it hands on.
SuiteVerdictSound ==
  Done /\ job.phase = "test" /\ result.status \in {"success", "tests_failed"} =>
    program = "body" /\ exit \in {"zero", "failed"} /\ result.produced

\* A program nobody disturbed gets the verdict of its own exit: with no
\* cancellation, no OOM kill and no failed start a run succeeds exactly when
\* it exits zero, and is never blamed on time or output (execute).
VerdictComplete ==
  Done /\ job.phase = "run" /\ program = "body" /\ cause = "none" =>
    /\ (result.status = "success") = (exit = "zero")
    /\ result.status \in {"success", "runtime_error", "memory_exceeded"}

\* Whatever a program leaves running, nothing of it outlives a jail of nsjail
\* but what is already dying (its PID namespace and CancelCmd's group kill).
NoSurvivor ==
  Done /\ job.isolation = "nsjail" => straggler \in {"none", "doomed"}

\* A cgroup leaf is left behind only by a run whose nsjail was itself killed:
\* an orderly exit empties the leaf before Close looks (runCgroup.Close).
LeakNeedsKill == leaf = "leaked" => exit = "signal"

\* What a run leaves on the host when it has returned, of processes and of
\* cgroups (nsjailArgs, CancelCmd, runCgroup.Close).
NothingOutlivesTheJail == NoSurvivor /\ LeakNeedsKill

\* A run returns, whatever the program does: the deadline kills the jail, the
\* pipes close, the copies end (execute and its siblings).
RunReturns == <>(pc = "returned")

\* contract.go:69 Encoding is "the wire encoding of the binary data streams":
\* the verdict is that of the same run under utf8.
EncodingIsWireOnly ==
  Done /\ job.phase = "run" /\ job.memErrSubstr /\ Seen("err") =>
     result.status # "runtime_error"
================================================================================
