----------------------------- MODULE JailRun_proofs -----------------------------
(***************************************************************************)
(* Theorems about JailRun, for every job, every limit and pipe size and    *)
(* any amount of output: what the buffers hold is exact, a verdict is read *)
(* off complete streams and says what happened, and nothing but what is    *)
(* dying outlives a jail.                                                  *)
(*                                                                         *)
(* The inductive invariant says, beside the types, where the five actors   *)
(* can stand together: Order for the runtime and the leader, Streams for   *)
(* the copiers and whoever may still write, Dying for the descendants,     *)
(* Exits, Failure and Floods for what a verdict is read off.  A second     *)
(* induction on top of it, Settled, ties a result that was given to the    *)
(* state it is read in.                                                    *)
(***************************************************************************)
EXTENDS JailRun, Verdict_proofs

\* The leader lives between Start and Wait, and only a reaped one, or one that
\* never was, is past Wait.
Order ==
  /\ pc \in {"command", "start"} => leader = "unborn"
  /\ pc = "wait" => leader # "unborn"
  /\ pc \in {"ctxresult", "copying"} => leader = "reaped"
  /\ pc \in {"verdict", "closing", "returned"} => leader \in {"unborn", "reaped"}
  /\ leader = "unborn" => straggler = "none" /\ watcher = "off"

\* A copier ends with an empty pipe nobody can write to any more, and the
\* verdict waits for both copiers (awaitGoroutines).
Streams ==
  /\ \A s \in Stream :
       /\ leader = "unborn" <=> copier[s] = "off"
       /\ copier[s] = "off" => pipe[s] = 0
       /\ copier[s] = "done" => pipe[s] = 0 /\ ~Writable(s)
       /\ pc \in {"verdict", "closing", "returned"} => copier[s] # "copying"

\* In a jail of nsjail a descendant is alive with the leader or dying of its
\* kill, and only a run in such a jail has a cgroup leaf.
Dying ==
  /\ job.isolation = "nsjail" /\ straggler \in {"group", "session"} => leader = "running"
  /\ straggler = "doomed" => exit = "signal" /\ ~Alive
  /\ leaf # "none" => job.isolation = "nsjail"
  /\ leaf = "leaked" => exit = "signal" /\ pc = "returned"

\* The leader has an exit once it is dead; an exit of the submission's own
\* choosing needs its body; and a leader that never was has left nothing, though
\* the missing ProcessState reads as exit code 0.
Exits ==
  /\ exit = "none" <=> leader \in {"unborn", "launching", "running"}
  /\ exit \in {"zero", "failed"} => program = "body"
  /\ leader \in {"unborn", "launching"} => program = "never"
  /\ leader = "unborn" => /\ files = [f \in HandBack |-> "absent"]
                          /\ \A s \in Stream : copied[s] = 0

\* What cmd.Run's error says: the exit was not zero, the start failed, or the
\* watcher had struck for a cause; and the watcher is gone after <-c.ctxResult.
Failure ==
  /\ leader = "reaped" /\ ~failed => exit = "zero"
  /\ leader = "reaped" /\ failed => exit # "zero" \/ watcher = "killed"
  /\ pc = "verdict" /\ leader = "unborn" => failed
  /\ watcher = "killed" => cause # "none"
  /\ pc \in {"copying", "verdict", "closing", "returned"} => watcher # "armed"

\* errOutputLimit is the cause only where onLimit is set, and after a cut.
Floods == cause = "flood" => job.phase # "compile" /\ \E s \in Stream : truncated[s]

IInv == TypeOK /\ CaptureExact /\ Order /\ Streams /\ Dying /\ Exits /\ Failure /\ Floods

\* The type of a RunResult (contract.go).
ResultType == [status : Status \union {"none"}, code : ExitCode, cut : [Stream -> BOOLEAN],
               produced : BOOLEAN, reportCut : BOOLEAN]

\* A stream's limit is a positive number and the job's alone.
LEMMA LimitPositive == \A s \in Stream : Limit(s) \in Nat \ {0}
BY JailAssumption DEF Limit

\* What the runtimes hold when cmd.Run has returned is evidence for a verdict.
LEMMA EvidenceTyped ==
  ASSUME TypeOK
  PROVE  TheEvidence \in Evidence /\ Produced \in BOOLEAN /\ ReportCut \in BOOLEAN
<1>1. job \in Job  BY JailAssumption DEF TypeOK
<1>2. Produced \in BOOLEAN /\ ReportCut \in BOOLEAN
  <2>1. CASE job.reportFile   BY <2>1, Zenon DEF Produced, ReportCut
  <2>2. CASE ~job.reportFile
    <3>1. /\ Produced = (kept["out"] > 0)
          /\ ReportCut = (kept["out"] > ReportLimit \/ (job.runtime = "compiled" /\ truncated["out"]))
      BY <2>2 DEF Produced, ReportCut
    <3> QED  BY <3>1
  <2> QED  BY <2>1, <2>2
<1>3. /\ cause \in Cause /\ failed \in BOOLEAN /\ oom \in BOOLEAN /\ files["artifact"] \in File
      /\ ProcessCode \in ExitCode
  BY DEF TypeOK, ProcessCode, ExitCode, HandBack
<1>4. /\ (job.memErrSubstr /\ job.encoding = "utf8" /\ Seen("err")) \in BOOLEAN
      /\ (job.buildFailMarker /\ Seen("out")) \in BOOLEAN
  BY <1>1 DEF Job, Seen
<1> QED  BY <1>2, <1>3, <1>4 DEF TheEvidence, Evidence, ExitCode

\* The phase and the runtime choose the switch (execute, executeTest,
\* executeTrace, compile).
LEMMA VerdictOf ==
  ASSUME TypeOK
  PROVE  \/ job.phase = "compile" /\ TheVerdict = CompileVerdict(TheEvidence)
         \/ job.phase = "run" /\ TheVerdict = RunVerdict(TheEvidence)
         \/ /\ job.phase = "test" /\ job.runtime = "interpreted"
            /\ TheVerdict = InterpretedTestVerdict(TheEvidence)
         \/ /\ job.phase = "test" /\ job.runtime = "compiled"
            /\ TheVerdict = CompiledTestVerdict(TheEvidence)
         \/ /\ job.phase = "trace" /\ job.runtime = "interpreted"
            /\ TheVerdict = InterpretedTraceVerdict(TheEvidence)
         \/ /\ job.phase = "trace" /\ job.runtime = "compiled"
            /\ TheVerdict = CompiledTraceVerdict(TheEvidence)
<1>1. job \in Job  BY JailAssumption DEF TypeOK
<1>2. job.phase \in {"compile", "run", "test", "trace"} /\ job.runtime \in {"interpreted", "compiled"}
  BY <1>1 DEF Job
<1> QED  BY <1>2 DEF TheVerdict

\* Every switch ends in a status of the contract.
LEMMA VerdictTyped == ASSUME TypeOK PROVE TheVerdict \in Status
<1>1. TheEvidence \in Evidence  BY EvidenceTyped
<1> HIDE DEF TheEvidence
<1>2. /\ CompileVerdict(TheEvidence) \in Status
      /\ RunVerdict(TheEvidence) \in Status
  BY <1>1, CompileVerdictIs, RunVerdictIs DEF Status
<1>3. /\ InterpretedTestVerdict(TheEvidence) \in Status
      /\ CompiledTestVerdict(TheEvidence) \in Status
  BY <1>1, InterpretedTestVerdictIs, CompiledTestVerdictIs DEF Status
<1>4. /\ InterpretedTraceVerdict(TheEvidence) \in Status
      /\ CompiledTraceVerdict(TheEvidence) \in Status
  BY <1>1, InterpretedTraceVerdictIs, CompiledTraceVerdictIs DEF Status
<1> QED  BY <1>2, <1>3, <1>4, VerdictOf

\* Nothing has been started.
LEMMA InitIInv == Init => IInv
<1> SUFFICES ASSUME Init PROVE IInv  OBVIOUS
<1> USE DEF Init
<1>1. TypeOK
  <2>1. NoResult \in ResultType  BY DEF ResultType, NoResult, ExitCode
  <2>2. \A s \in Stream : 0 \in 0 .. PipeSize /\ 0 <= Limit(s)
    BY JailAssumption, LimitPositive
  <2>3. kept \in [Stream -> Nat] /\ \A s \in Stream : kept[s] <= Limit(s)
    BY <2>2
  <2>4. /\ pipe \in [Stream -> 0 .. PipeSize] /\ copied \in [Stream -> Nat]
        /\ mark \in [Stream -> Nat]
    BY <2>2
  <2> QED  BY <2>1, <2>3, <2>4 DEF TypeOK, ResultType, File, Cause
<1>2. CaptureExact  BY LimitPositive DEF CaptureExact
<1>3. Order /\ Streams /\ Dying
  BY DEF Order, Streams, Dying, Writable, Alive, Lingering
<1>4. Exits /\ Failure /\ Floods
  BY DEF Exits, Failure, Floods
<1> QED  BY <1>1, <1>2, <1>3, <1>4 DEF IInv

\* However a read is cut out of a stream, limitedBuffer.Write keeps the prefix
\* and raises the flag with the first byte that does not fit.
LEMMA CopyExact ==
  ASSUME TypeOK, CaptureExact, NEW s \in Stream, Copy(s)
  PROVE  CaptureExact'
<1>1. PICK n \in 1 .. pipe[s] :
        /\ copied' = [copied EXCEPT ![s] = @ + n]
        /\ kept' = [kept EXCEPT ![s] = IF n > Limit(s) - kept[s] THEN Limit(s) ELSE @ + n]
        /\ truncated' = [truncated EXCEPT ![s] = @ \/ n > Limit(s) - kept[s]]
  BY DEF Copy
<1>2. n \in Nat \ {0} /\ copied[s] \in Nat /\ kept[s] \in Nat /\ truncated[s] \in BOOLEAN
  BY DEF TypeOK
<1>3. \A x : Limit(x)' = Limit(x)
  BY DEF Copy, Limit
<1>4. ASSUME NEW x \in Stream, x # s
      PROVE  copied'[x] = copied[x] /\ kept'[x] = kept[x] /\ truncated'[x] = truncated[x]
  BY <1>1, <1>4 DEF TypeOK
<1>5. /\ copied'[s] = copied[s] + n
      /\ kept'[s] = IF n > Limit(s) - kept[s] THEN Limit(s) ELSE kept[s] + n
      /\ truncated'[s] <=> truncated[s] \/ n > Limit(s) - kept[s]
  BY <1>1 DEF TypeOK
<1>6. /\ kept'[s] = IF copied'[s] > Limit(s) THEN Limit(s) ELSE copied'[s]
      /\ truncated'[s] <=> copied'[s] > Limit(s)
  <2>1. /\ kept[s] = IF copied[s] > Limit(s) THEN Limit(s) ELSE copied[s]
        /\ truncated[s] <=> copied[s] > Limit(s)
    BY DEF CaptureExact
  <2>2. Limit(s) \in Nat \ {0}  BY LimitPositive
  <2> QED  BY <1>2, <1>5, <2>1, <2>2
<1> QED  BY <1>3, <1>4, <1>6 DEF CaptureExact

\* Every action of every actor keeps the invariant.
LEMMA NextIInv == IInv /\ [Next]_vars => IInv'
<1> SUFFICES ASSUME IInv, [Next]_vars PROVE IInv'  OBVIOUS
<1> USE DEF IInv
<1>1. CASE CommandBegins
  <2>1. TypeOK'
    BY <1>1 DEF CommandBegins, UsesCgroup, TypeOK, Limit, ExitCode, File, Cause, process, capture
  <2>2. CaptureExact'
    BY <1>1 DEF CommandBegins, UsesCgroup, CaptureExact, Limit, capture
  <2>3. Order'
    BY <1>1 DEF CommandBegins, UsesCgroup, TypeOK, Order, Alive, process, capture
  <2>4. Streams'
    BY <1>1 DEF CommandBegins, UsesCgroup, TypeOK, Order, Streams, Writable, Alive, Lingering, process, capture
  <2>5. Dying'
    BY <1>1 DEF CommandBegins, UsesCgroup, TypeOK, Order, Dying, Alive, Lingering, process, capture
  <2>6. Exits'
    BY <1>1 DEF CommandBegins, UsesCgroup, TypeOK, Order, Streams, Exits, Alive, process, capture
  <2>7. Failure'
    BY <1>1 DEF CommandBegins, UsesCgroup, TypeOK, Order, Exits, Failure, Alive, process
  <2>8. Floods'
    BY <1>1 DEF CommandBegins, UsesCgroup, TypeOK, Floods, process, capture
  <2> QED  BY <2>1, <2>2, <2>3, <2>4, <2>5, <2>6, <2>7, <2>8
<1>2. CASE CgroupFails
  <2>1. TypeOK'
    <3>1. result' \in ResultType
      <4>1. [NoResult EXCEPT !.status = "internal_error"] \in ResultType
        BY DEF ResultType, NoResult, Status, ExitCode
      <4>2. result' \in {result, [NoResult EXCEPT !.status = "internal_error"]}
        BY <1>2 DEF CgroupFails
      <4> QED  BY <4>1, <4>2 DEF TypeOK, ResultType
    <3> QED  BY <1>2, <3>1 DEF CgroupFails, TypeOK, ResultType, Limit, process, capture
  <2>2. CaptureExact'
    BY <1>2 DEF CgroupFails, UsesCgroup, CaptureExact, Limit, capture
  <2>3. Order'
    BY <1>2 DEF CgroupFails, UsesCgroup, TypeOK, Order, Alive, process, capture
  <2>4. Streams'
    BY <1>2 DEF CgroupFails, UsesCgroup, TypeOK, Order, Streams, Writable, Alive, Lingering, process, capture
  <2>5. Dying'
    BY <1>2 DEF CgroupFails, UsesCgroup, TypeOK, Order, Dying, Alive, Lingering, process, capture
  <2>6. Exits'
    BY <1>2 DEF CgroupFails, UsesCgroup, TypeOK, Order, Streams, Exits, Alive, process, capture
  <2>7. Failure'
    BY <1>2 DEF CgroupFails, UsesCgroup, TypeOK, Order, Exits, Failure, Alive, process
  <2>8. Floods'
    BY <1>2 DEF CgroupFails, UsesCgroup, TypeOK, Floods, process, capture
  <2> QED  BY <2>1, <2>2, <2>3, <2>4, <2>5, <2>6, <2>7, <2>8
<1>3. CASE Start
  <2>1. TypeOK'
    BY <1>3 DEF Start, TypeOK, Limit, ExitCode, File, Cause, process, capture
  <2>2. CaptureExact'
    BY <1>3 DEF Start, CaptureExact, Limit, capture
  <2>3. Order'
    BY <1>3 DEF Start, TypeOK, Order, Alive, process, capture
  <2>4. Streams'
    BY <1>3 DEF Start, TypeOK, Order, Streams, Writable, Alive, Lingering, process, capture
  <2>5. Dying'
    BY <1>3 DEF Start, TypeOK, Order, Dying, Alive, Lingering, process, capture
  <2>6. Exits'
    BY <1>3 DEF Start, TypeOK, Order, Streams, Exits, Alive, process, capture
  <2>7. Failure'
    BY <1>3 DEF Start, TypeOK, Order, Exits, Failure, Alive, process
  <2>8. Floods'
    BY <1>3 DEF Start, TypeOK, Floods, process, capture
  <2> QED  BY <2>1, <2>2, <2>3, <2>4, <2>5, <2>6, <2>7, <2>8
<1>4. CASE StartFails
  <2>1. TypeOK'
    BY <1>4 DEF StartFails, TypeOK, Limit, ExitCode, File, Cause, process, capture
  <2>2. CaptureExact'
    BY <1>4 DEF StartFails, CaptureExact, Limit, capture
  <2>3. Order'
    BY <1>4 DEF StartFails, TypeOK, Order, Alive, process, capture
  <2>4. Streams'
    BY <1>4 DEF StartFails, TypeOK, Order, Streams, Writable, Alive, Lingering, process, capture
  <2>5. Dying'
    BY <1>4 DEF StartFails, TypeOK, Order, Dying, Alive, Lingering, process, capture
  <2>6. Exits'
    BY <1>4 DEF StartFails, TypeOK, Order, Streams, Exits, Alive, process, capture
  <2>7. Failure'
    BY <1>4 DEF StartFails, TypeOK, Order, Exits, Failure, Alive, process
  <2>8. Floods'
    BY <1>4 DEF StartFails, TypeOK, Floods, process, capture
  <2> QED  BY <2>1, <2>2, <2>3, <2>4, <2>5, <2>6, <2>7, <2>8
<1>5. CASE WaitProcess
  <2>1. TypeOK'
    BY <1>5 DEF WaitProcess, TypeOK, Limit, ExitCode, File, Cause, process, capture
  <2>2. CaptureExact'
    BY <1>5 DEF WaitProcess, CaptureExact, Limit, capture
  <2>3. Order'
    BY <1>5 DEF WaitProcess, TypeOK, Order, Alive, process, capture
  <2>4. Streams'
    BY <1>5 DEF WaitProcess, TypeOK, Order, Streams, Writable, Alive, Lingering, process, capture
  <2>5. Dying'
    BY <1>5 DEF WaitProcess, TypeOK, Order, Dying, Alive, Lingering, process, capture
  <2>6. Exits'
    BY <1>5 DEF WaitProcess, TypeOK, Order, Streams, Exits, Alive, process, capture
  <2>7. Failure'
    BY <1>5 DEF WaitProcess, TypeOK, Order, Exits, Failure, Alive, process
  <2>8. Floods'
    BY <1>5 DEF WaitProcess, TypeOK, Floods, process, capture
  <2> QED  BY <2>1, <2>2, <2>3, <2>4, <2>5, <2>6, <2>7, <2>8
<1>6. CASE CtxResult
  <2>1. TypeOK'
    <3>1. failed' \in BOOLEAN /\ watcher' \in {"armed", "killed", "dismissed"}
      <4>1. CASE watcher = "armed" /\ watcher' = "dismissed" /\ UNCHANGED failed
        BY <4>1 DEF TypeOK
      <4>2. CASE watcher = "killed" /\ failed' = TRUE /\ UNCHANGED watcher
        BY <4>2
      <4> QED  BY <1>6, <4>1, <4>2 DEF CtxResult
    <3> QED  BY <1>6, <3>1 DEF CtxResult, TypeOK, Limit, process, capture
  <2>2. CaptureExact'
    BY <1>6 DEF CtxResult, CaptureExact, Limit, capture
  <2>3. Order'
    BY <1>6 DEF CtxResult, TypeOK, Order, Alive, process, capture
  <2>4. Streams'
    BY <1>6 DEF CtxResult, TypeOK, Order, Streams, Writable, Alive, Lingering, process, capture
  <2>5. Dying'
    BY <1>6 DEF CtxResult, TypeOK, Order, Dying, Alive, Lingering, process, capture
  <2>6. Exits'
    BY <1>6 DEF CtxResult, TypeOK, Order, Streams, Exits, Alive, process, capture
  <2>7. Failure'
    BY <1>6 DEF CtxResult, TypeOK, Order, Exits, Failure, Alive, process
  <2>8. Floods'
    BY <1>6 DEF CtxResult, TypeOK, Floods, process, capture
  <2> QED  BY <2>1, <2>2, <2>3, <2>4, <2>5, <2>6, <2>7, <2>8
<1>7. CASE AwaitCopies
  <2>1. TypeOK'
    BY <1>7 DEF AwaitCopies, TypeOK, Limit, ExitCode, File, Cause, process, capture
  <2>2. CaptureExact'
    BY <1>7 DEF AwaitCopies, CaptureExact, Limit, capture
  <2>3. Order'
    BY <1>7 DEF AwaitCopies, TypeOK, Order, Alive, process, capture
  <2>4. Streams'
    BY <1>7 DEF AwaitCopies, TypeOK, Order, Streams, Writable, Alive, Lingering, process, capture
  <2>5. Dying'
    BY <1>7 DEF AwaitCopies, TypeOK, Order, Dying, Alive, Lingering, process, capture
  <2>6. Exits'
    BY <1>7 DEF AwaitCopies, TypeOK, Order, Streams, Exits, Alive, process, capture
  <2>7. Failure'
    BY <1>7 DEF AwaitCopies, TypeOK, Order, Exits, Failure, Alive, process
  <2>8. Floods'
    BY <1>7 DEF AwaitCopies, TypeOK, Floods, process, capture
  <2> QED  BY <2>1, <2>2, <2>3, <2>4, <2>5, <2>6, <2>7, <2>8
<1>8. CASE Classify
  <2>1. TypeOK'
    <3>1. /\ TheVerdict \in Status /\ ProcessCode \in ExitCode
          /\ Produced \in BOOLEAN /\ ReportCut \in BOOLEAN /\ \A x \in Stream : Cut(x) \in BOOLEAN
      BY EvidenceTyped, VerdictTyped DEF TypeOK, ProcessCode, ExitCode, Cut
    <3>2. result' = [status |-> TheVerdict, code |-> ProcessCode,
                     cut |-> [x \in Stream |-> Cut(x)],
                     produced |-> Produced, reportCut |-> ReportCut]
      BY <1>8 DEF Classify
    <3>3. result' \in ResultType
      <4> HIDE DEF TheVerdict, ProcessCode, Produced, ReportCut, Cut, IInv
      <4> QED  BY <3>1, <3>2 DEF ResultType
    <3> QED  BY <1>8, <3>3 DEF Classify, TypeOK, ResultType, Limit, process, capture
  <2>2. CaptureExact'
    BY <1>8 DEF Classify, CaptureExact, Limit, capture
  <2>3. Order'
    BY <1>8 DEF Classify, TypeOK, Order, Alive, process, capture
  <2>4. Streams'
    BY <1>8 DEF Classify, TypeOK, Order, Streams, Writable, Alive, Lingering, process, capture
  <2>5. Dying'
    BY <1>8 DEF Classify, TypeOK, Order, Dying, Alive, Lingering, process, capture
  <2>6. Exits'
    BY <1>8 DEF Classify, TypeOK, Order, Streams, Exits, Alive, process, capture
  <2>7. Failure'
    BY <1>8 DEF Classify, TypeOK, Order, Exits, Failure, Alive, process
  <2>8. Floods'
    BY <1>8 DEF Classify, TypeOK, Floods, process, capture
  <2> QED  BY <2>1, <2>2, <2>3, <2>4, <2>5, <2>6, <2>7, <2>8
<1>9. CASE Close
  <2>1. TypeOK'
    BY <1>9 DEF Close, TypeOK, Limit, ExitCode, File, Cause, process, capture
  <2>2. CaptureExact'
    BY <1>9 DEF Close, CaptureExact, Limit, capture
  <2>3. Order'
    BY <1>9 DEF Close, TypeOK, Order, Alive, process, capture
  <2>4. Streams'
    BY <1>9 DEF Close, TypeOK, Order, Streams, Writable, Alive, Lingering, process, capture
  <2>5. Dying'
    BY <1>9 DEF Close, TypeOK, Order, Dying, Alive, Lingering, process, capture
  <2>6. Exits'
    BY <1>9 DEF Close, TypeOK, Order, Streams, Exits, Alive, process, capture
  <2>7. Failure'
    BY <1>9 DEF Close, TypeOK, Order, Exits, Failure, Alive, process
  <2>8. Floods'
    BY <1>9 DEF Close, TypeOK, Floods, process, capture
  <2> QED  BY <2>1, <2>2, <2>3, <2>4, <2>5, <2>6, <2>7, <2>8
<1>10. CASE JailStands
  <2>1. TypeOK'
    BY <1>10 DEF JailStands, TypeOK, Limit, ExitCode, File, Cause, process, capture
  <2>2. CaptureExact'
    BY <1>10 DEF JailStands, CaptureExact, Limit, capture
  <2>3. Order'
    BY <1>10 DEF JailStands, TypeOK, Order, Alive, process, capture
  <2>4. Streams'
    BY <1>10 DEF JailStands, TypeOK, Order, Streams, Writable, Alive, Lingering, process, capture
  <2>5. Dying'
    BY <1>10 DEF JailStands, TypeOK, Order, Dying, Alive, Lingering, process, capture
  <2>6. Exits'
    BY <1>10 DEF JailStands, TypeOK, Order, Streams, Exits, Alive, process, capture
  <2>7. Failure'
    BY <1>10 DEF JailStands, TypeOK, Order, Exits, Failure, Alive, process
  <2>8. Floods'
    BY <1>10 DEF JailStands, TypeOK, Floods, process, capture
  <2> QED  BY <2>1, <2>2, <2>3, <2>4, <2>5, <2>6, <2>7, <2>8
<1>11. CASE JailFails
  <2>1. TypeOK'
    BY <1>11 DEF JailFails, Dies, TypeOK, Limit, ExitCode, File, Cause, process, capture
  <2>2. CaptureExact'
    BY <1>11 DEF JailFails, Dies, CaptureExact, Limit, capture
  <2>3. Order'
    BY <1>11 DEF JailFails, Dies, TypeOK, Order, Alive, process, capture
  <2>4. Streams'
    BY <1>11 DEF JailFails, Dies, TypeOK, Order, Streams, Writable, Alive, Lingering, process, capture
  <2>5. Dying'
    BY <1>11 DEF JailFails, Dies, TypeOK, Order, Dying, Alive, Lingering, process, capture
  <2>6. Exits'
    BY <1>11 DEF JailFails, Dies, TypeOK, Order, Streams, Exits, Alive, process, capture
  <2>7. Failure'
    BY <1>11 DEF JailFails, Dies, TypeOK, Order, Exits, Failure, Alive, process
  <2>8. Floods'
    BY <1>11 DEF JailFails, Dies, TypeOK, Floods, process, capture
  <2> QED  BY <2>1, <2>2, <2>3, <2>4, <2>5, <2>6, <2>7, <2>8
<1>12. CASE PreludePasses
  <2>1. TypeOK'
    BY <1>12 DEF PreludePasses, TypeOK, Limit, ExitCode, File, Cause, process, capture
  <2>2. CaptureExact'
    BY <1>12 DEF PreludePasses, CaptureExact, Limit, capture
  <2>3. Order'
    BY <1>12 DEF PreludePasses, TypeOK, Order, Alive, process, capture
  <2>4. Streams'
    BY <1>12 DEF PreludePasses, TypeOK, Order, Streams, Writable, Alive, Lingering, process, capture
  <2>5. Dying'
    BY <1>12 DEF PreludePasses, TypeOK, Order, Dying, Alive, Lingering, process, capture
  <2>6. Exits'
    BY <1>12 DEF PreludePasses, TypeOK, Order, Streams, Exits, Alive, process, capture
  <2>7. Failure'
    BY <1>12 DEF PreludePasses, TypeOK, Order, Exits, Failure, Alive, process
  <2>8. Floods'
    BY <1>12 DEF PreludePasses, TypeOK, Floods, process, capture
  <2> QED  BY <2>1, <2>2, <2>3, <2>4, <2>5, <2>6, <2>7, <2>8
<1>13. CASE PreludeFails
  <2>1. TypeOK'
    BY <1>13 DEF PreludeFails, Dies, TypeOK, Limit, ExitCode, File, Cause, process, capture
  <2>2. CaptureExact'
    BY <1>13 DEF PreludeFails, Dies, CaptureExact, Limit, capture
  <2>3. Order'
    BY <1>13 DEF PreludeFails, Dies, TypeOK, Order, Alive, process, capture
  <2>4. Streams'
    BY <1>13 DEF PreludeFails, Dies, TypeOK, Order, Streams, Writable, Alive, Lingering, process, capture
  <2>5. Dying'
    BY <1>13 DEF PreludeFails, Dies, TypeOK, Order, Dying, Alive, Lingering, process, capture
  <2>6. Exits'
    BY <1>13 DEF PreludeFails, Dies, TypeOK, Order, Streams, Exits, Alive, process, capture
  <2>7. Failure'
    BY <1>13 DEF PreludeFails, Dies, TypeOK, Order, Exits, Failure, Alive, process
  <2>8. Floods'
    BY <1>13 DEF PreludeFails, Dies, TypeOK, Floods, process, capture
  <2> QED  BY <2>1, <2>2, <2>3, <2>4, <2>5, <2>6, <2>7, <2>8
<1>14. CASE ProgramExits
  <2>1. TypeOK'
    BY <1>14 DEF ProgramExits, Dies, TypeOK, Limit, ExitCode, File, Cause, process, capture
  <2>2. CaptureExact'
    BY <1>14 DEF ProgramExits, Dies, CaptureExact, Limit, capture
  <2>3. Order'
    BY <1>14 DEF ProgramExits, Dies, TypeOK, Order, Alive, process, capture
  <2>4. Streams'
    BY <1>14 DEF ProgramExits, Dies, TypeOK, Order, Streams, Writable, Alive, Lingering, process, capture
  <2>5. Dying'
    BY <1>14 DEF ProgramExits, Dies, TypeOK, Order, Dying, Alive, Lingering, process, capture
  <2>6. Exits'
    BY <1>14 DEF ProgramExits, Dies, TypeOK, Order, Streams, Exits, Alive, process, capture
  <2>7. Failure'
    BY <1>14 DEF ProgramExits, Dies, TypeOK, Order, Exits, Failure, Alive, process
  <2>8. Floods'
    BY <1>14 DEF ProgramExits, Dies, TypeOK, Floods, process, capture
  <2> QED  BY <2>1, <2>2, <2>3, <2>4, <2>5, <2>6, <2>7, <2>8
<1>15. CASE OOMKill
  <2>1. TypeOK'
    BY <1>15 DEF OOMKill, Dies, KillGroup, TypeOK, Limit, ExitCode, File, Cause, process, capture
  <2>2. CaptureExact'
    BY <1>15 DEF OOMKill, Dies, KillGroup, CaptureExact, Limit, capture
  <2>3. Order'
    BY <1>15 DEF OOMKill, Dies, KillGroup, TypeOK, Order, Alive, process, capture
  <2>4. Streams'
    BY <1>15 DEF OOMKill, Dies, KillGroup, TypeOK, Order, Streams, Writable, Alive, Lingering, process, capture
  <2>5. Dying'
    BY <1>15 DEF OOMKill, Dies, KillGroup, TypeOK, Order, Dying, Alive, Lingering, process, capture
  <2>6. Exits'
    BY <1>15 DEF OOMKill, Dies, KillGroup, TypeOK, Order, Streams, Exits, Alive, process, capture
  <2>7. Failure'
    BY <1>15 DEF OOMKill, Dies, KillGroup, TypeOK, Order, Exits, Failure, Alive, process
  <2>8. Floods'
    BY <1>15 DEF OOMKill, Dies, KillGroup, TypeOK, Floods, process, capture
  <2> QED  BY <2>1, <2>2, <2>3, <2>4, <2>5, <2>6, <2>7, <2>8
<1>16. CASE Forks
  <2>1. TypeOK'
    BY <1>16 DEF Forks, TypeOK, Limit, ExitCode, File, Cause, process, capture
  <2>2. CaptureExact'
    BY <1>16 DEF Forks, CaptureExact, Limit, capture
  <2>3. Order'
    BY <1>16 DEF Forks, TypeOK, Order, Alive, process, capture
  <2>4. Streams'
    BY <1>16 DEF Forks, TypeOK, Order, Streams, Writable, Alive, Lingering, process, capture
  <2>5. Dying'
    BY <1>16 DEF Forks, TypeOK, Order, Dying, Alive, Lingering, process, capture
  <2>6. Exits'
    BY <1>16 DEF Forks, TypeOK, Order, Streams, Exits, Alive, process, capture
  <2>7. Failure'
    BY <1>16 DEF Forks, TypeOK, Order, Exits, Failure, Alive, process
  <2>8. Floods'
    BY <1>16 DEF Forks, TypeOK, Floods, process, capture
  <2> QED  BY <2>1, <2>2, <2>3, <2>4, <2>5, <2>6, <2>7, <2>8
<1>17. CASE StragglerEnds
  <2>1. TypeOK'
    BY <1>17 DEF StragglerEnds, TypeOK, Limit, ExitCode, File, Cause, process, capture
  <2>2. CaptureExact'
    BY <1>17 DEF StragglerEnds, CaptureExact, Limit, capture
  <2>3. Order'
    BY <1>17 DEF StragglerEnds, TypeOK, Order, Alive, process, capture
  <2>4. Streams'
    BY <1>17 DEF StragglerEnds, TypeOK, Order, Streams, Writable, Alive, Lingering, process, capture
  <2>5. Dying'
    BY <1>17 DEF StragglerEnds, TypeOK, Order, Dying, Alive, Lingering, process, capture
  <2>6. Exits'
    BY <1>17 DEF StragglerEnds, TypeOK, Order, Streams, Exits, Alive, process, capture
  <2>7. Failure'
    BY <1>17 DEF StragglerEnds, TypeOK, Order, Exits, Failure, Alive, process
  <2>8. Floods'
    BY <1>17 DEF StragglerEnds, TypeOK, Floods, process, capture
  <2> QED  BY <2>1, <2>2, <2>3, <2>4, <2>5, <2>6, <2>7, <2>8
<1>18. CASE WriteFile
  <2>1. TypeOK'
    <3>1. files' \in [HandBack -> File]
      BY <1>18 DEF WriteFile, TypeOK
    <3> QED  BY <1>18, <3>1 DEF WriteFile, TypeOK, Limit, process, capture
  <2>2. CaptureExact'
    BY <1>18 DEF WriteFile, CaptureExact, Limit, capture
  <2>3. Order'
    BY <1>18 DEF WriteFile, TypeOK, Order, Alive, process, capture
  <2>4. Streams'
    BY <1>18 DEF WriteFile, TypeOK, Order, Streams, Writable, Alive, Lingering, process, capture
  <2>5. Dying'
    BY <1>18 DEF WriteFile, TypeOK, Order, Dying, Alive, Lingering, process, capture
  <2>6. Exits'
    BY <1>18 DEF WriteFile, TypeOK, Order, Streams, Exits, Alive, process, capture
  <2>7. Failure'
    BY <1>18 DEF WriteFile, TypeOK, Order, Exits, Failure, Alive, process
  <2>8. Floods'
    BY <1>18 DEF WriteFile, TypeOK, Floods, process, capture
  <2> QED  BY <2>1, <2>2, <2>3, <2>4, <2>5, <2>6, <2>7, <2>8
<1>19. ASSUME NEW s \in Stream, Write(s) PROVE IInv'
  <2>1. TypeOK'
    <3>1. pipe' \in [Stream -> 0 .. PipeSize]
      <4>1. pipe[s] \in 0 .. PipeSize /\ pipe[s] < PipeSize /\ pipe' = [pipe EXCEPT ![s] = @ + 1]
        BY <1>19 DEF Write, TypeOK
      <4>2. pipe[s] + 1 \in 0 .. PipeSize  BY <4>1, JailAssumption
      <4> QED  BY <4>1, <4>2 DEF TypeOK
    <3>2. mark' \in [Stream -> Nat]
      <4>1. pipe[s] + copied[s] + 1 \in Nat  BY <1>19 DEF TypeOK
      <4>2. mark' = mark \/ mark' = [mark EXCEPT ![s] = pipe[s] + copied[s] + 1]
        BY <1>19 DEF Write
      <4> QED  BY <4>1, <4>2 DEF TypeOK
    <3> QED  BY <1>19, <3>1, <3>2 DEF Write, TypeOK, Limit, process
  <2>2. CaptureExact'
    BY <1>19 DEF Write, CaptureExact, Limit, capture
  <2>3. Order'
    BY <1>19 DEF Write, TypeOK, Order, Alive, process, capture
  <2>4. Streams'
    BY <1>19 DEF Write, TypeOK, Order, Streams, Writable, Alive, Lingering, process, capture
  <2>5. Dying'
    BY <1>19 DEF Write, TypeOK, Order, Dying, Alive, Lingering, process, capture
  <2>6. Exits'
    BY <1>19 DEF Write, TypeOK, Order, Streams, Exits, Alive, process, capture
  <2>7. Failure'
    BY <1>19 DEF Write, TypeOK, Order, Exits, Failure, Alive, process
  <2>8. Floods'
    BY <1>19 DEF Write, TypeOK, Floods, process, capture
  <2> QED  BY <2>1, <2>2, <2>3, <2>4, <2>5, <2>6, <2>7, <2>8
<1>20. CASE WatcherKills
  <2>1. TypeOK'
    BY <1>20 DEF WatcherKills, KillGroup, TypeOK, Limit, ExitCode, File, Cause, process, capture
  <2>2. CaptureExact'
    BY <1>20 DEF WatcherKills, KillGroup, CaptureExact, Limit, capture
  <2>3. Order'
    BY <1>20 DEF WatcherKills, KillGroup, TypeOK, Order, Alive, process, capture
  <2>4. Streams'
    BY <1>20 DEF WatcherKills, KillGroup, TypeOK, Order, Streams, Writable, Alive, Lingering, process, capture
  <2>5. Dying'
    BY <1>20 DEF WatcherKills, KillGroup, TypeOK, Order, Dying, Alive, Lingering, process, capture
  <2>6. Exits'
    BY <1>20 DEF WatcherKills, KillGroup, TypeOK, Order, Streams, Exits, Alive, process, capture
  <2>7. Failure'
    BY <1>20 DEF WatcherKills, KillGroup, TypeOK, Order, Exits, Failure, Alive, process
  <2>8. Floods'
    BY <1>20 DEF WatcherKills, KillGroup, TypeOK, Floods, process, capture
  <2> QED  BY <2>1, <2>2, <2>3, <2>4, <2>5, <2>6, <2>7, <2>8
<1>21. ASSUME NEW s \in Stream, Copy(s) PROVE IInv'
  <2>1. TypeOK'
    <3>1. PICK m \in 1 .. pipe[s] :
            /\ pipe' = [pipe EXCEPT ![s] = @ - m]
            /\ copied' = [copied EXCEPT ![s] = @ + m]
            /\ kept' = [kept EXCEPT ![s] = IF m > Limit(s) - kept[s] THEN Limit(s) ELSE @ + m]
            /\ truncated' = [truncated EXCEPT ![s] = @ \/ m > Limit(s) - kept[s]]
            /\ cause' \in {"flood", cause}
      BY <1>21 DEF Copy
    <3>2. m \in Nat \ {0} /\ m <= pipe[s] /\ Limit(s) \in Nat /\ pipe[s] \in 0 .. PipeSize
      BY <1>21, LimitPositive DEF TypeOK
    <3>3. pipe' \in [Stream -> 0 .. PipeSize]
      <4>1. pipe[s] - m \in 0 .. PipeSize  BY <3>2, JailAssumption
      <4> QED  BY <3>1, <4>1 DEF TypeOK
    <3>4. copied' \in [Stream -> Nat]
      BY <3>1, <3>2 DEF TypeOK
    <3>5. kept' \in [Stream -> Nat]
      BY <3>1, <3>2 DEF TypeOK
    <3>6. truncated' \in [Stream -> BOOLEAN]
      BY <3>1 DEF TypeOK
    <3>7. \A x \in Stream : kept'[x] <= Limit(x)'
      <4>1. CaptureExact'  BY <1>21, CopyExact
      <4>2. \A x \in Stream : Limit(x)' = Limit(x)  BY <1>21 DEF Copy, Limit
      <4> QED  BY <3>4, <4>1, <4>2, LimitPositive DEF CaptureExact
    <3> QED  BY <1>21, <3>1, <3>3, <3>4, <3>5, <3>6, <3>7 DEF Copy, TypeOK, Cause, process
  <2>2. CaptureExact'
    BY <1>21, CopyExact
  <2>3. Order'
    BY <1>21 DEF Copy, TypeOK, Order, Alive, process, capture
  <2>4. Streams'
    BY <1>21 DEF Copy, TypeOK, Order, Streams, Writable, Alive, Lingering, process, capture
  <2>5. Dying'
    BY <1>21 DEF Copy, TypeOK, Order, Dying, Alive, Lingering, process, capture
  <2>6. Exits'
    BY <1>21 DEF Copy, TypeOK, Order, Streams, Exits, Alive, process, capture
  <2>7. Failure'
    BY <1>21 DEF Copy, TypeOK, Order, Exits, Failure, Alive, process
  <2>8. Floods'
    <3>1. PICK m \in 1 .. pipe[s] :
            /\ truncated' = [truncated EXCEPT ![s] = @ \/ m > Limit(s) - kept[s]]
            /\ cause' = cause \/ (m > Limit(s) - kept[s] /\ job.phase # "compile")
      BY <1>21 DEF Copy
    <3>2. \A x \in Stream : truncated[x] => truncated'[x]
      BY <1>21, <3>1 DEF TypeOK
    <3>3. m > Limit(s) - kept[s] => truncated'[s]
      BY <1>21, <3>1 DEF TypeOK
    <3> QED  BY <1>21, <3>1, <3>2, <3>3 DEF Copy, Floods
  <2> QED  BY <2>1, <2>2, <2>3, <2>4, <2>5, <2>6, <2>7, <2>8
<1>22. ASSUME NEW s \in Stream, EndOfFile(s) PROVE IInv'
  <2>1. TypeOK'
    BY <1>22 DEF EndOfFile, TypeOK, Limit, ExitCode, File, Cause, process, capture
  <2>2. CaptureExact'
    BY <1>22 DEF EndOfFile, CaptureExact, Limit, capture
  <2>3. Order'
    BY <1>22 DEF EndOfFile, TypeOK, Order, Alive, process, capture
  <2>4. Streams'
    BY <1>22 DEF EndOfFile, TypeOK, Order, Streams, Writable, Alive, Lingering, process, capture
  <2>5. Dying'
    BY <1>22 DEF EndOfFile, TypeOK, Order, Dying, Alive, Lingering, process, capture
  <2>6. Exits'
    BY <1>22 DEF EndOfFile, TypeOK, Order, Streams, Exits, Alive, process, capture
  <2>7. Failure'
    BY <1>22 DEF EndOfFile, TypeOK, Order, Exits, Failure, Alive, process
  <2>8. Floods'
    BY <1>22 DEF EndOfFile, TypeOK, Floods, process, capture
  <2> QED  BY <2>1, <2>2, <2>3, <2>4, <2>5, <2>6, <2>7, <2>8
<1>23. CASE DeadlinePasses
  <2>1. TypeOK'
    BY <1>23 DEF DeadlinePasses, Cancel, TypeOK, Limit, ExitCode, File, Cause, process, capture
  <2>2. CaptureExact'
    BY <1>23 DEF DeadlinePasses, Cancel, CaptureExact, Limit, capture
  <2>3. Order'
    BY <1>23 DEF DeadlinePasses, Cancel, TypeOK, Order, Alive, process, capture
  <2>4. Streams'
    BY <1>23 DEF DeadlinePasses, Cancel, TypeOK, Order, Streams, Writable, Alive, Lingering, process, capture
  <2>5. Dying'
    BY <1>23 DEF DeadlinePasses, Cancel, TypeOK, Order, Dying, Alive, Lingering, process, capture
  <2>6. Exits'
    BY <1>23 DEF DeadlinePasses, Cancel, TypeOK, Order, Streams, Exits, Alive, process, capture
  <2>7. Failure'
    BY <1>23 DEF DeadlinePasses, Cancel, TypeOK, Order, Exits, Failure, Alive, process
  <2>8. Floods'
    BY <1>23 DEF DeadlinePasses, Cancel, TypeOK, Floods, process, capture
  <2> QED  BY <2>1, <2>2, <2>3, <2>4, <2>5, <2>6, <2>7, <2>8
<1>24. CASE CallerLeaves
  <2>1. TypeOK'
    BY <1>24 DEF CallerLeaves, Cancel, TypeOK, Limit, ExitCode, File, Cause, process, capture
  <2>2. CaptureExact'
    BY <1>24 DEF CallerLeaves, Cancel, CaptureExact, Limit, capture
  <2>3. Order'
    BY <1>24 DEF CallerLeaves, Cancel, TypeOK, Order, Alive, process, capture
  <2>4. Streams'
    BY <1>24 DEF CallerLeaves, Cancel, TypeOK, Order, Streams, Writable, Alive, Lingering, process, capture
  <2>5. Dying'
    BY <1>24 DEF CallerLeaves, Cancel, TypeOK, Order, Dying, Alive, Lingering, process, capture
  <2>6. Exits'
    BY <1>24 DEF CallerLeaves, Cancel, TypeOK, Order, Streams, Exits, Alive, process, capture
  <2>7. Failure'
    BY <1>24 DEF CallerLeaves, Cancel, TypeOK, Order, Exits, Failure, Alive, process
  <2>8. Floods'
    BY <1>24 DEF CallerLeaves, Cancel, TypeOK, Floods, process, capture
  <2> QED  BY <2>1, <2>2, <2>3, <2>4, <2>5, <2>6, <2>7, <2>8
<1>25. CASE UNCHANGED vars
  BY <1>25 DEF vars, process, capture, TypeOK, CaptureExact, Limit, Order, Streams, Dying,
              Exits, Failure, Floods, Writable, Alive, Lingering
<1> QED
  BY <1>1, <1>2, <1>3, <1>4, <1>5, <1>6, <1>7, <1>8, <1>9, <1>10, <1>11,
     <1>12, <1>13, <1>14, <1>15, <1>16, <1>17, <1>18, <1>19, <1>20,
     <1>21, <1>22, <1>23, <1>24, <1>25
  DEF Next, Runtime, Processes, Returned

\* Every run keeps the invariant.
THEOREM Invariance == Spec => []IInv
BY InitIInv, NextIInv, PTL DEF Spec

-------------------------------------------------------------------------------
\* Each buffer holds exactly the first Limit bytes of its stream and the flag
\* tells exactly whether there were more (limitedBuffer.Write).
THEOREM CaptureIsExact == Spec => []CaptureExact
<1>1. IInv => CaptureExact  BY DEF IInv
<1> QED  BY <1>1, Invariance, PTL

\* A verdict is read off complete streams (cmd.Wait and the copiers).
THEOREM NothingIsLost == Spec => []NothingLost
<1>1. IInv => NothingLost
  BY DEF IInv, TypeOK, Order, Streams, NothingLost, Writable, Alive, Lingering
<1> QED  BY <1>1, Invariance, PTL

\* Under nsjail nothing but what is already dying outlives a run (the PID
\* namespace and CancelCmd).
THEOREM NothingSurvives == Spec => []NoSurvivor
<1>1. IInv => NoSurvivor
  BY DEF IInv, TypeOK, Order, Dying, NoSurvivor, Done
<1> QED  BY <1>1, Invariance, PTL

\* A cgroup leaf is left behind only by a run whose nsjail was itself killed
\* (runCgroup.Close).
THEOREM LeaksNeedAKill == Spec => []LeakNeedsKill
<1>1. IInv => LeakNeedsKill  BY DEF IInv, Dying, LeakNeedsKill
<1> QED  BY <1>1, Invariance, PTL

\* Of a run in an nsjail nothing stays on the host that is not already dying,
\* but for the leaf of a jail that was itself killed (nsjailArgs, CancelCmd,
\* runCgroup.Close).
THEOREM JailLeavesNothing == Spec => []NothingOutlivesTheJail
<1>1. NoSurvivor /\ LeakNeedsKill => NothingOutlivesTheJail  BY DEF NothingOutlivesTheJail
<1> QED  BY <1>1, NothingSurvives, LeaksNeedAKill, PTL

-------------------------------------------------------------------------------
(***************************************************************************)
(* What a result says.                                                     *)
(***************************************************************************)
\* The record Classify fills in, read off the state it was filled in from.
Rendered == result = [status |-> TheVerdict, code |-> ProcessCode,
                      cut |-> [s \in Stream |-> Cut(s)],
                      produced |-> Produced, reportCut |-> ReportCut]

\* A result that is given still is what the state says: nothing the verdict
\* was read off moves after it.
Settled ==
  pc \in {"closing", "returned"} =>
    \/ leader = "unborn" /\ result = [NoResult EXCEPT !.status = "internal_error"]
    \/ (leader = "unborn" => failed) /\ Rendered

\* The state keeps its types, whatever the actors do (execute and its siblings).
THEOREM TypeCorrect == Spec => []TypeOK
<1>1. IInv => TypeOK  BY DEF IInv
<1> QED  BY <1>1, Invariance, PTL

\* What a verdict is read off: all that Classify looks at.
evidenceVars == <<job, leader, program, exit, copied, kept, truncated, mark, files, cause,
                  failed, oom>>

\* After the verdict nothing it was read off moves: the clock, the watcher, the
\* copiers and the processes are all behind it, but for a straggler's end.
LEMMA Stands ==
  ASSUME IInv, [Next]_vars, pc \in {"closing", "returned"}
  PROVE  UNCHANGED <<evidenceVars, result>> /\ pc' \in {"closing", "returned"}
<1> USE DEF IInv, evidenceVars
<1>1. /\ ~Alive /\ leader # "zombie" /\ watcher # "armed"
      /\ \A s \in Stream : ~Writable(s) /\ copier[s] # "copying"
  BY DEF TypeOK, Order, Streams, Failure, Writable, Alive, Lingering
<1>2. CASE Runtime
  BY <1>1, <1>2 DEF Runtime, CommandBegins, CgroupFails, Start, StartFails, WaitProcess,
                    CtxResult, AwaitCopies, Classify, Close, process, capture
<1>3. CASE Processes
  <2>1. CASE StragglerEnds  BY <2>1 DEF StragglerEnds, capture
  <2>2. CASE \E s \in Stream : Write(s)  BY <1>1, <2>2 DEF Write
  <2> QED
    BY <1>1, <1>3, <2>1, <2>2
    DEF Processes, JailStands, JailFails, PreludePasses, PreludeFails, ProgramExits,
        OOMKill, Forks, WriteFile, Alive
<1>4. CASE WatcherKills  BY <1>1, <1>4 DEF WatcherKills
<1>5. CASE \E s \in Stream : Copy(s) \/ EndOfFile(s)  BY <1>1, <1>5 DEF Copy, EndOfFile
<1>6. CASE DeadlinePasses \/ CallerLeaves  BY <1>6 DEF DeadlinePasses, CallerLeaves, Cancel
<1>7. CASE UNCHANGED vars  BY <1>7 DEF vars, process, capture
<1> QED  BY <1>2, <1>3, <1>4, <1>5, <1>6, <1>7 DEF Next, Returned

\* Everything Classify computes is computed from those variables alone.
LEMMA StillEvidence ==
  ASSUME UNCHANGED evidenceVars
  PROVE  /\ TheVerdict' = TheVerdict /\ ProcessCode' = ProcessCode
         /\ [s \in Stream |-> Cut(s)]' = [s \in Stream |-> Cut(s)]
         /\ Produced' = Produced /\ ReportCut' = ReportCut
<1> USE DEF evidenceVars
<1>1. ProcessCode' = ProcessCode /\ Produced' = Produced /\ ReportCut' = ReportCut
  BY DEF ProcessCode, Produced, ReportCut
<1>2. [s \in Stream |-> Cut(s)]' = [s \in Stream |-> Cut(s)]
  BY DEF Cut, CompiledTrace
<1>3. TheEvidence' = TheEvidence
  BY <1>1 DEF TheEvidence, Seen, ProcessCode
<1>4. TheVerdict' = TheVerdict
  BY <1>3 DEF TheVerdict
<1> QED  BY <1>1, <1>2, <1>4

\* The result of a run is the verdict on the state it is read in, or the
\* refusal of a run that was never started.
LEMMA SettledAlways == Spec => []Settled
<1>1. Init => Settled  BY DEF Init, Settled
<1>2. IInv /\ Settled /\ [Next]_vars => Settled'
  <2> SUFFICES ASSUME IInv, Settled, [Next]_vars, pc' \in {"closing", "returned"}
               PROVE  \/ leader' = "unborn" /\ result' = [NoResult EXCEPT !.status = "internal_error"]
                      \/ (leader' = "unborn" => failed') /\ Rendered'
    BY DEF Settled, NoResult
  <2>1. CASE pc \in {"closing", "returned"}
    <3>1. UNCHANGED evidenceVars /\ result' = result /\ leader' = leader /\ failed' = failed
      BY <2>1, Stands DEF evidenceVars
    <3>2. Rendered => Rendered'
      BY <3>1, StillEvidence DEF Rendered
    <3> QED  BY <2>1, <3>1, <3>2 DEF Settled
  <2>2. CASE pc \notin {"closing", "returned"}
    <3>1. Classify \/ CgroupFails
      BY <2>2
      DEF Next, Runtime, CommandBegins, Start, StartFails, WaitProcess, CtxResult, AwaitCopies,
          Close, Processes, JailStands, JailFails, PreludePasses, PreludeFails, ProgramExits,
          OOMKill, Forks, StragglerEnds, WriteFile, Write, WatcherKills, Copy, EndOfFile,
          DeadlinePasses, CallerLeaves, Cancel, Returned, vars
    <3>2. CASE CgroupFails
      BY <2>2, <3>2 DEF CgroupFails, IInv, Order, process
    <3>3. CASE Classify
      <4>1. /\ pc = "verdict" /\ UNCHANGED evidenceVars
            /\ result' = [status |-> TheVerdict, code |-> ProcessCode,
                          cut |-> [s \in Stream |-> Cut(s)],
                          produced |-> Produced, reportCut |-> ReportCut]
        BY <3>3 DEF Classify, evidenceVars, process, capture
      <4>2. Rendered'
        BY <4>1, StillEvidence DEF Rendered
      <4> QED  BY <4>1, <4>2 DEF IInv, Failure, evidenceVars
    <3> QED  BY <3>1, <3>2, <3>3
  <2> QED  BY <2>1, <2>2
<1> QED  BY <1>1, <1>2, Invariance, PTL DEF Spec

\* What a verdict says of the evidence, whichever switch gave it.
LEMMA VerdictMeans ==
  ASSUME TypeOK, NEW e, e = TheEvidence
  PROVE  /\ TheVerdict = "output_limit_exceeded" => e.cause = "flood"
         /\ TheVerdict = "memory_exceeded" => e.oom \/ e.memErr
         /\ TheVerdict = "compiled" => ~e.failed /\ e.artifact = "fits"
         /\ TheVerdict = "success" /\ job.phase # "test" => ~e.failed
         /\ TheVerdict \in {"success", "tests_failed"} /\ job.phase = "test" =>
              e.produced /\ e.code = IF TheVerdict = "success" THEN "zero" ELSE "failed"
<1>1. e \in Evidence  BY EvidenceTyped
<1>2. CASE job.phase = "compile"
  BY <1>1, <1>2, VerdictOf, CompileVerdictIs
<1>3. CASE job.phase = "run"
  BY <1>1, <1>3, VerdictOf, RunVerdictIs
<1>4. CASE job.phase = "test" /\ job.runtime = "interpreted"
  BY <1>1, <1>4, VerdictOf, InterpretedTestVerdictIs
<1>5. CASE job.phase = "test" /\ job.runtime = "compiled"
  BY <1>1, <1>5, VerdictOf, CompiledTestVerdictIs
<1>6. CASE job.phase = "trace" /\ job.runtime = "interpreted"
  BY <1>1, <1>6, VerdictOf, InterpretedTraceVerdictIs
<1>7. CASE job.phase = "trace" /\ job.runtime = "compiled"
  BY <1>1, <1>7, VerdictOf, CompiledTraceVerdictIs
<1> QED  BY <1>2, <1>3, <1>4, <1>5, <1>6, <1>7, VerdictOf

\* A returned result is the internal error of a run that never started, or the
\* record Classify read off the present state.
LEMMA ReturnedResult ==
  ASSUME IInv, Settled, Done, result.status # "internal_error"
  PROVE  /\ leader = "unborn" => failed
         /\ result.status = TheVerdict /\ result.produced = Produced
         /\ \A s \in Stream : result.cut[s] = Cut(s)
         /\ leader \in {"unborn", "reaped"}
<1>1. pc = "returned"  BY DEF Done
<1>2. leader \in {"unborn", "reaped"}  BY <1>1 DEF IInv, Order
<1>3. (leader = "unborn" => failed) /\ Rendered  BY <1>1 DEF Settled, NoResult
<1> QED  BY <1>2, <1>3 DEF Rendered

\* A process is blamed for a limit only if it met one (execute, executeTest,
\* executeTrace and compile; limitedBuffer's onLimit, runCgroup.OOMKilled).
THEOREM LimitVerdictsAreSound == Spec => []LimitVerdictSound
<1>1. IInv /\ Settled => LimitVerdictSound
  <2> SUFFICES ASSUME IInv, Settled, Done PROVE LimitVerdictSound
    BY DEF LimitVerdictSound
  <2>1. ASSUME result.status = "output_limit_exceeded"
        PROVE  /\ job.phase # "compile"
               /\ \E s \in Stream : copied[s] > Limit(s) /\ (CompiledTrace \/ result.cut[s])
    <3>1. TheVerdict = "output_limit_exceeded" /\ \A s \in Stream : result.cut[s] = Cut(s)
      BY <2>1, ReturnedResult
    <3>2. cause = "flood"
      <4>1. TheEvidence.cause = "flood"  BY <3>1, VerdictMeans DEF IInv
      <4> QED  BY <4>1 DEF TheEvidence
    <3>3. PICK s \in Stream : truncated[s]
      BY <3>2 DEF IInv, Floods
    <3>4. copied[s] > Limit(s) /\ job.phase # "compile"
      BY <3>2, <3>3 DEF IInv, CaptureExact, Floods
    <3> QED  BY <3>1, <3>3, <3>4 DEF Cut
  <2>2. ASSUME result.status = "memory_exceeded"
        PROVE  oom \/ (mark["err"] > 0 /\ mark["err"] <= OutputLimit)
    <3>1. TheVerdict = "memory_exceeded"  BY <2>2, ReturnedResult
    <3>2. oom \/ Seen("err")
      <4>1. TheEvidence.oom \/ TheEvidence.memErr  BY <3>1, VerdictMeans DEF IInv
      <4> QED  BY <4>1 DEF TheEvidence
    <3>3. ASSUME Seen("err") PROVE mark["err"] > 0 /\ mark["err"] <= OutputLimit
      <4>1. "err" \in Stream /\ Limit("err") = OutputLimit  BY DEF Stream, Limit
      <4>2. kept["err"] \in Nat /\ mark["err"] \in Nat /\ kept["err"] <= OutputLimit
        BY <4>1 DEF IInv, TypeOK
      <4> QED  BY <3>3, <4>2, JailAssumption DEF Seen
    <3> QED  BY <3>2, <3>3
  <2> QED  BY <2>1, <2>2 DEF LimitVerdictSound
<1> QED  BY <1>1, Invariance, SettledAlways, PTL

\* A leader that never was hands nothing back, though its exit code reads 0.
LEMMA UnbornProducesNothing ==
  ASSUME IInv, leader = "unborn"
  PROVE  ~Produced
<1>1. files["report"] = "absent"  BY DEF IInv, Exits, HandBack
<1>2. "out" \in Stream /\ copied["out"] = 0  BY DEF IInv, Exits, Stream
<1>3. kept["out"] = 0
  BY <1>2, LimitPositive DEF IInv, CaptureExact, TypeOK
<1> QED  BY <1>1, <1>3 DEF Produced

\* A suite's verdict, a success or failing tests, is that of a suite that ran
\* to its own exit and handed its report back (classifyTestExit).
THEOREM SuiteVerdictsAreSound == Spec => []SuiteVerdictSound
<1>1. IInv /\ Settled => SuiteVerdictSound
  <2> SUFFICES ASSUME IInv, Settled, Done, job.phase = "test",
                      result.status \in {"success", "tests_failed"}
               PROVE  program = "body" /\ exit \in {"zero", "failed"} /\ result.produced
    BY DEF SuiteVerdictSound
  <2>1. /\ TheVerdict = result.status /\ result.produced = Produced
        /\ leader \in {"unborn", "reaped"}
    BY ReturnedResult
  <2>2. TheEvidence.produced /\ TheEvidence.code \in {"zero", "failed"}
    BY <2>1, VerdictMeans DEF IInv
  <2>3. Produced /\ leader = "reaped"
    BY <2>1, <2>2, UnbornProducesNothing DEF TheEvidence
  <2>4. exit \in {"zero", "failed"}
    BY <2>2, <2>3 DEF TheEvidence, ProcessCode, IInv, Exits
  <2> QED  BY <2>1, <2>3, <2>4 DEF IInv, Exits
<1> QED  BY <1>1, Invariance, SettledAlways, PTL

\* A success, and an artifact fit to be run, come only of the submission's own
\* clean exit (the switches of execute, executeTest, executeTrace, compile).
THEOREM SuccessesAreSound == Spec => []SuccessSound
<1>1. IInv /\ Settled => SuccessSound
  <2> SUFFICES ASSUME IInv, Settled, Done, result.status \in {"success", "compiled"}
               PROVE  /\ exit = "zero" /\ program = "body"
                      /\ result.status = "compiled" => files["artifact"] = "fits"
    BY DEF SuccessSound
  <2>1. /\ TheVerdict = result.status /\ leader \in {"unborn", "reaped"}
        /\ leader = "unborn" => failed
    BY ReturnedResult
  <2>2. CASE job.phase = "test" /\ result.status = "success"
    <3>1. TheEvidence.produced /\ TheEvidence.code = "zero"
      BY <2>1, <2>2, VerdictMeans DEF IInv
    <3>2. leader = "reaped"
      BY <2>1, <3>1, UnbornProducesNothing DEF TheEvidence
    <3> QED  BY <2>2, <3>1, <3>2 DEF TheEvidence, ProcessCode, IInv, Exits
  <2>3. CASE job.phase # "test" \/ result.status = "compiled"
    <3>1. ~failed /\ (TheVerdict = "compiled" => files["artifact"] = "fits")
      <4>1. ~TheEvidence.failed /\ (TheVerdict = "compiled" => TheEvidence.artifact = "fits")
        BY <2>1, <2>3, VerdictMeans DEF IInv
      <4> QED  BY <4>1 DEF TheEvidence
    <3> QED  BY <2>1, <3>1 DEF IInv, Exits, Failure
  <2> QED  BY <2>2, <2>3
<1> QED  BY <1>1, Invariance, SettledAlways, PTL

\* A program nobody disturbed gets the verdict of its own exit (execute).
THEOREM VerdictsAreComplete == Spec => []VerdictComplete
<1>1. IInv /\ Settled => VerdictComplete
  <2> SUFFICES ASSUME IInv, Settled, Done, job.phase = "run", program = "body", cause = "none"
               PROVE  /\ (result.status = "success") = (exit = "zero")
                      /\ result.status \in {"success", "runtime_error", "memory_exceeded"}
    BY DEF VerdictComplete
  <2>1. leader = "reaped" /\ Rendered
    BY DEF IInv, Exits, Order, Settled, Done
  <2>2. result.status = RunVerdict(TheEvidence)
    BY <2>1, VerdictOf DEF Rendered, IInv
  <2>3. TheEvidence \in Evidence /\ TheEvidence.cause = "none" /\ TheEvidence.failed = failed
    BY EvidenceTyped DEF IInv, TheEvidence
  <2>4. ~failed <=> exit = "zero"
    BY <2>1 DEF IInv, Failure
  <2> QED  BY <2>2, <2>3, <2>4, RunVerdictIs
<1> QED  BY <1>1, Invariance, SettledAlways, PTL

\* A verdict stands: once it is given no step changes the result or anything it
\* was read off (the context's cause, the buffers, the exit), for all that a
\* deadline, a watcher or a descendant may still try (the end of execute).
THEOREM VerdictStands ==
  Spec => [][(pc \in {"closing", "returned"}) => UNCHANGED <<evidenceVars, result>>]_vars
<1>1. IInv /\ [Next]_vars => [(pc \in {"closing", "returned"}) => UNCHANGED <<evidenceVars, result>>]_vars
  BY Stands
<1> QED  BY <1>1, Invariance, PTL DEF Spec
================================================================================
