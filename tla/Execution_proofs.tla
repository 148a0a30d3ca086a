---------------------------- MODULE Execution_proofs ----------------------------
(***************************************************************************)
(* Theorems about Execution, for every configuration envInt can load,      *)
(* every request, any number of inputs and both backends.  What a request  *)
(* answers, how long it holds its slot and what its inputs see follow from *)
(* one inductive invariant that says where the runtime stands: how many    *)
(* inputs are behind it, how far the clock may have gone, and what may     *)
(* have become of the workdir.  The invariant also carries the refinement  *)
(* of Judging.                                                             *)
(***************************************************************************)
EXTENDS Execution, TLAPS

(***************************************************************************)
(* The limit policy.                                                       *)
(***************************************************************************)
\* clamp stays within the ceiling, and within the default or the wish below it
\* (Service.clampLimits).
LEMMA ClampBounds ==
  ASSUME NEW v \in Int, NEW def \in Nat \ {0}, NEW max \in Nat \ {0}
  PROVE  clamp(v, def, max) \in 1 .. max
BY DEF clamp

\* raiseToFloor lifts a positive limit to the floor or to the ceiling, and
\* never over it.
LEMMA FloorBounds ==
  ASSUME NEW v \in Nat \ {0}, NEW floor \in Nat, NEW max \in Nat \ {0}
  PROVE  /\ raiseToFloor(v, floor, max) \in 1 .. max
         /\ raiseToFloor(v, floor, max) >= floor \/ raiseToFloor(v, floor, max) = max
BY DEF raiseToFloor

\* What clampLimits makes of any request.
LEMMA Clamped ==
  ASSUME NEW c \in Config, NEW q \in Request
  PROVE  /\ Envelope(c, q)[2] \in Nat \ {0}
         /\ RunTimeout(c, q) \in 1 .. Envelope(c, q)[2]
         /\ RunTimeout(c, q) >= q.floor \/ RunTimeout(c, q) = Envelope(c, q)[2]
         /\ CompileTimeout(c, q) \in 1 .. c.maxCompile
         /\ c.maxCompile \in Nat \ {0} /\ c.maxBatchTotal \in Nat \ {0}
<1> DEFINE def == Envelope(c, q)[1]
           max == Envelope(c, q)[2]
<1>1. /\ c.timeout \in Nat \ {0} /\ c.testTimeout \in Nat \ {0} /\ c.compile \in Nat \ {0}
      /\ c.maxTimeout \in Nat \ {0} /\ c.maxTestTimeout \in Nat \ {0}
      /\ c.maxCompile \in Nat \ {0} /\ c.maxBatchTotal \in Nat \ {0}
      /\ q.timeout \in Int /\ q.compile \in Int /\ q.floor \in Nat
  BY LimitsAssumption DEF Config, Request
<1>2. def \in Nat \ {0} /\ max \in Nat \ {0}
  BY <1>1 DEF Envelope
<1>3. clamp(q.timeout, def, max) \in Nat \ {0}
  <2> HIDE DEF def, max
  <2>1. clamp(q.timeout, def, max) \in 1 .. max  BY <1>1, <1>2, ClampBounds
  <2> QED  BY <1>2, <2>1
<1>4. RunTimeout(c, q) = raiseToFloor(clamp(q.timeout, def, max), q.floor, max)
  BY DEF RunTimeout
<1>5. CompileTimeout(c, q) \in 1 .. c.maxCompile
  BY <1>1, ClampBounds DEF CompileTimeout
<1> HIDE DEF def, max
<1>6. /\ RunTimeout(c, q) \in 1 .. max
      /\ RunTimeout(c, q) >= q.floor \/ RunTimeout(c, q) = max
  <2> DEFINE v == clamp(q.timeout, def, max)
  <2>1. v \in Nat \ {0} /\ RunTimeout(c, q) = raiseToFloor(v, q.floor, max)  BY <1>3, <1>4
  <2> HIDE DEF v
  <2>2. /\ raiseToFloor(v, q.floor, max) \in 1 .. max
        /\ raiseToFloor(v, q.floor, max) >= q.floor \/ raiseToFloor(v, q.floor, max) = max
    BY <1>1, <1>2, <2>1, FloorBounds
  <2> QED  BY <2>1, <2>2
<1> QED  BY <1>1, <1>2, <1>5, <1>6 DEF max

\* The kernel's own limits are in whole seconds; rounding never puts them before
\* the deadline the runner enforces in milliseconds, nor the wall limit more
\* than a second past it, and a program on one core meets its deadline before
\* its CPU limit (cpuCapSeconds, wallCapSeconds).
THEOREM CapsOutlastDeadlines ==
  ASSUME NEW ms \in Nat \ {0}
  PROVE  /\ 1000 * wallCapSeconds(ms) \in ms .. (ms + 999)
         /\ 1000 * cpuCapSeconds(ms) >= ms + 1000
<1>1. (ms + 999) \div 1000 \in Nat /\ 1000 * ((ms + 999) \div 1000) \in ms .. (ms + 999)
  OBVIOUS
<1> QED  BY <1>1 DEF wallCapSeconds, cpuCapSeconds, Larger

-------------------------------------------------------------------------------
(***************************************************************************)
(* The inductive invariant.                                                *)
(***************************************************************************)
\* The loop has come to the input after the last result.  Before the inputs
\* there is neither a result nor a verdict; at work on an input there is one
\* more to answer.
Progress ==
  /\ at = Len(results) + 1
  /\ pc \in {"prepare", "compiling", "driver"} => results = << >>
  /\ pc \in {"context", "running"} => Len(results) < NumInputs
  /\ pc = "context" => asked.batch
  /\ pc \notin {"returning", "returned"} => status = "none" /\ ~aborted

Compiling == CompileTimeout(config, asked)
Running == RunTimeout(config, asked)

\* The clock stands at the epoch until the first jail, runs no longer than the
\* compile timeout in the compiler's and than the run timeout in an input's; a
\* single run begins right after the compile, an input of a batch within the
\* budget.
Clock ==
  /\ pc = "prepare" => now = 0 /\ began = 0
  /\ pc = "compiling" => TwoPhase /\ began = 0
  /\ pc \in {"compiling", "driver"} => now <= CompilePhase
  /\ pc = "next" /\ results = << >> => now <= CompilePhase
  /\ pc = "context" => now < Budget
  /\ pc = "running" => now <= began + Running
  /\ pc = "running" /\ asked.batch => began < Budget
  /\ pc = "running" /\ ~asked.batch => began <= CompilePhase

\* Under nsjail a plain run never dirties the workdir, what is left of its jails
\* cannot either, and once the compile is over the artifact is the one it
\* validated.
Clean ==
  backend = "nsjail" /\ asked.mode = "run" /\ pc \notin {"returning", "returned"} =>
    /\ ~dirty /\ survivor # "writer"
    /\ asked.compiled /\ pc \in {"driver", "next", "context", "running"}
         => artifact = "validated"

\* A workdir can be kept only where some jail of the request could write to it.
Exposed == backend = "netns" \/ Writable \/ TwoPhase
Survival == (locked \/ survivor = "writer" => Exposed) /\ NothingLeft

IInv == /\ TypeOK /\ Aligned /\ InputsSeeTheBuild /\ HoldBounded
        /\ Progress /\ Clock /\ Clean /\ Survival

\* The limits and the budget, as numbers, whatever the state.
LEMMA LimitTypes ==
  ASSUME TypeOK
  PROVE  /\ Compiling \in Nat \ {0} /\ Running \in Nat \ {0} /\ Budget \in Nat \ {0}
         /\ CompilePhase \in Nat /\ Hold \in Nat /\ NumInputs \in Nat \ {0}
         /\ CompilePhase <= Hold
         /\ asked.batch => Budget + Running <= Hold
         /\ ~asked.batch => CompilePhase + Running = Hold
<1>1. config \in Config /\ asked \in Request  BY DEF TypeOK
<1>2. Running \in Nat \ {0} /\ Compiling \in Nat \ {0} /\ config.maxBatchTotal \in Nat \ {0}
  <2>1. /\ Envelope(config, asked)[2] \in Nat \ {0} /\ config.maxCompile \in Nat \ {0}
        /\ RunTimeout(config, asked) \in 1 .. Envelope(config, asked)[2]
        /\ CompileTimeout(config, asked) \in 1 .. config.maxCompile
        /\ config.maxBatchTotal \in Nat \ {0}
    BY <1>1, Clamped
  <2> QED  BY <2>1 DEF Running, Compiling
<1>3. Inputs \in Nat \ {0}  BY ExecutionAssumption
<1>4. CompilePhase = IF TwoPhase THEN Compiling ELSE 0  BY DEF CompilePhase, Compiling
<1>5. Hold = IF asked.batch THEN Larger(CompilePhase, Budget + Running)
             ELSE CompilePhase + Running
  BY DEF Hold, Running
<1> HIDE DEF Running, Compiling
<1> QED  BY <1>2, <1>3, <1>4, <1>5 DEF Budget, Larger, NumInputs

\* They do not change while the request is at work.
LEMMA LimitsStay ==
  ASSUME UNCHANGED setup
  PROVE  /\ Running' = Running /\ CompilePhase' = CompilePhase /\ Hold' = Hold
         /\ Budget' = Budget /\ NumInputs' = NumInputs /\ TwoPhase' = TwoPhase
BY DEF setup, Running, CompilePhase, Hold, Budget, NumInputs, TwoPhase

\* A request starts with nothing done and no time spent.
LEMMA InitIInv == Init => IInv
<1> SUFFICES ASSUME Init PROVE IInv  OBVIOUS
<1>1. TypeOK
  <2>1. results \in Seq(Result) /\ Len(results) = 0  BY DEF Init
  <2>2. NumInputs \in Nat  BY ExecutionAssumption DEF NumInputs
  <2>3. Len(results) <= NumInputs  BY <2>1, <2>2
  <2>4. now \in Nat /\ began \in 0 .. now  BY DEF Init
  <2>5. at \in 1 .. NumInputs + 1  BY <2>2 DEF Init
  <2>6. dirty \in BOOLEAN /\ locked \in BOOLEAN /\ gone \in BOOLEAN /\ aborted \in BOOLEAN
    BY Zenon DEF Init
  <2> QED  BY <2>1, <2>3, <2>4, <2>5, <2>6 DEF TypeOK, Init
<1>2. HoldBounded /\ Clock
  BY <1>1, LimitTypes DEF Init, HoldBounded, Clock
<1>3. Aligned /\ InputsSeeTheBuild /\ Progress
  BY DEF Init, Aligned, Told, InputsSeeTheBuild, Progress
<1>4. Clean /\ Survival
  BY DEF Init, Clean, Survival, NothingLeft
<1> QED  BY <1>1, <1>2, <1>3, <1>4 DEF IInv

\* What the runtime answers changes nothing else: the steps that return keep the
\* invariant, whatever they say (the return statements of Run and RunBatch).
LEMMA ReturnKeeps ==
  ASSUME IInv, NEW how \in {"ok", "compile_error", "internal_error"}, NEW early \in BOOLEAN,
         Return(how, early), UNCHANGED <<setup, now, began, gone, artifact, dirty, locked>>,
         workDir' \in {"absent", "present", "removed", "left"},
         survivor' \in {"none", "reader", "writer"}, survivor' = "writer" => Exposed,
         how = "ok" /\ ~early => Len(results) = NumInputs
  PROVE  IInv'
<1> USE DEF IInv, Return, setup
<1>1. TypeOK'  BY DEF TypeOK, NumInputs
<1>2. Aligned' /\ InputsSeeTheBuild'
  BY DEF Aligned, Told, InputsSeeTheBuild, Told, NumInputs
<1>3. HoldBounded'  BY LimitsStay DEF HoldBounded
<1>4. Progress' /\ Clock' /\ Clean' /\ Survival'
  BY DEF Progress, Clock, Clean, Survival, NothingLeft, Exposed, Writable, TwoPhase
<1> QED  BY <1>1, <1>2, <1>3, <1>4

\* Appending the answer to the next input keeps the results a prefix of the
\* inputs, and what they saw the build (batchLoop's append).
LEMMA AppendsNext ==
  ASSUME IInv, pc = "running", NEW longer, longer = Append(results, TheResult)
  PROVE  /\ longer \in Seq(Result) /\ Len(longer) = Len(results) + 1
         /\ \A i \in DOMAIN longer : longer[i].input = i
         /\ backend = "nsjail" =>
              \A i \in DOMAIN longer : asked.mode = "run" =>
                /\ ~longer[i].dirty
                /\ asked.compiled => longer[i].artifact = "validated"
<1>1. results \in Seq(Result) /\ Len(results) \in Nat  BY DEF IInv, TypeOK
<1>2. /\ TheResult \in Result /\ TheResult.input = Len(results) + 1
      /\ TheResult.dirty = dirty /\ TheResult.artifact = artifact
  BY <1>1 DEF IInv, TypeOK, TheResult, Result, Progress
<1>3. /\ longer \in Seq(Result) /\ Len(longer) = Len(results) + 1
      /\ \A i \in 1 .. Len(results) : longer[i] = results[i]
      /\ longer[Len(results) + 1] = TheResult
      /\ DOMAIN longer = 1 .. Len(results) + 1
  BY <1>1, <1>2
<1>4. /\ \A i \in 1 .. Len(results) : results[i].input = i
      /\ backend = "nsjail" =>
           \A i \in 1 .. Len(results) : asked.mode = "run" =>
             /\ ~results[i].dirty
             /\ asked.compiled => results[i].artifact = "validated"
  BY <1>1 DEF IInv, Aligned, InputsSeeTheBuild
<1>5. backend = "nsjail" /\ asked.mode = "run" =>
        ~dirty /\ (asked.compiled => artifact = "validated")
  BY DEF IInv, Clean
<1> QED  BY <1>1, <1>2, <1>3, <1>4, <1>5

\* The invariant is inductive.
LEMMA NextIInv == IInv /\ [Next]_vars => IInv'
<1> SUFFICES ASSUME IInv, [Next]_vars PROVE IInv'  OBVIOUS
<1>t. TypeOK  BY DEF IInv
<1>l. /\ Compiling \in Nat /\ Running \in Nat /\ Budget \in Nat \ {0}
      /\ CompilePhase \in Nat /\ Hold \in Nat /\ NumInputs \in Nat \ {0}
      /\ CompilePhase <= Hold
      /\ asked.batch => Budget + Running <= Hold
      /\ ~asked.batch => CompilePhase + Running = Hold
  BY <1>t, LimitTypes
<1>s. UNCHANGED setup =>
        /\ Running' = Running /\ CompilePhase' = CompilePhase /\ Hold' = Hold
        /\ Budget' = Budget /\ NumInputs' = NumInputs /\ TwoPhase' = TwoPhase
  BY LimitsStay
<1>n. now \in Nat /\ began \in 0 .. now /\ Len(results) \in Nat /\ asked.batch \in BOOLEAN
  BY <1>t DEF TypeOK, Request
<1>v. survivor = "writer" => Exposed  BY DEF IInv, Survival
<1>a. at = Len(results) + 1  BY DEF IInv, Progress
<1>w. UNCHANGED setup => (Writable' <=> Writable) /\ (Exposed' <=> Exposed)
  BY DEF setup, Writable, Exposed, TwoPhase
<1>z. Len(results) = 0 => results = << >>  BY <1>t DEF TypeOK
<1>1. CASE Prepare
  <2> USE <1>1 DEF IInv, Prepare, setup, answer
  <2>1. TypeOK'  BY <1>s DEF TypeOK
  <2>2. Aligned' /\ InputsSeeTheBuild' /\ Progress'
    BY <1>s DEF Aligned, Told, InputsSeeTheBuild, Progress
  <2>3. HoldBounded' /\ Clock'  BY <1>l, <1>s DEF HoldBounded, Clock
  <2>4. Clean'  BY DEF Clean, TwoPhase
  <2>9. Survival'  BY <1>w, <1>s DEF Survival, NothingLeft
  <2> QED  BY <2>9, <2>1, <2>2, <2>3, <2>4
<1>2. CASE PrepareFails
  BY <1>2, ReturnKeeps, <1>t, <1>v DEF PrepareFails, TypeOK, setup
<1>3. CASE TimePasses
  <2> USE <1>3 DEF IInv, TimePasses, setup, disk, answer
  <2>1. TypeOK'  BY <1>n, <1>s DEF TypeOK
  <2>2. Aligned' /\ InputsSeeTheBuild' /\ Progress' /\ Clean'
    BY <1>s DEF Aligned, Told, InputsSeeTheBuild, Progress, Clean
  <2>9. Survival'  BY <1>w, <1>s DEF Survival, NothingLeft
  <2>3. CASE pc = "compiling"
    <3>1. TwoPhase /\ began = 0 /\ now < CompilePhase
      BY <2>3, <1>n DEF Clock, CompilePhase
    <3>2. HoldBounded'  BY <3>1, <1>n, <1>l, <1>s DEF HoldBounded
    <3>3. Clock'  BY <2>3, <3>1, <1>n, <1>l, <1>s DEF Clock
    <3> QED  BY <2>9, <2>1, <2>2, <3>2, <3>3
  <2>4. CASE pc = "running"
    <3>1. now < began + Running  BY <2>4, <1>n, <1>l DEF Running
    <3>2. HoldBounded'  BY <2>4, <3>1, <1>n, <1>l, <1>s DEF HoldBounded, Clock
    <3>3. Clock'  BY <2>4, <3>1, <1>n, <1>l, <1>s DEF Clock
    <3> QED  BY <2>9, <2>1, <2>2, <3>2, <3>3
  <2> QED  BY <2>3, <2>4
<1>4. CASE CompileEnds
  <2> USE <1>4 DEF IInv, CompileEnds, JailEnds, setup, answer
  <2>1. TypeOK'  BY <1>s DEF TypeOK
  <2>2. Aligned' /\ InputsSeeTheBuild' /\ Progress' /\ Clean'
    BY <1>s DEF Aligned, Told, InputsSeeTheBuild, Progress, Clean
  <2>3. HoldBounded' /\ Clock'  BY <1>s DEF HoldBounded, Clock
  <2>4. TwoPhase  BY DEF Clock
  <2>9. Survival'  BY <2>4, <1>w, <1>s DEF Survival, NothingLeft, Exposed
  <2> QED  BY <2>9, <2>1, <2>2, <2>3
<1>5. CASE CompileFails
  <2>1. PICK how \in {"compile_error", "internal_error"} : Return(how, FALSE)
    BY <1>5 DEF CompileFails
  <2>2. TwoPhase  BY <1>5 DEF CompileFails, IInv, Clock
  <2>3. survivor' \in {"none", "reader", "writer"} /\ (survivor' = "writer" => Exposed)
    BY <1>5, <2>2 DEF CompileFails, JailEnds, Exposed
  <2> QED  BY <1>5, <2>1, <2>3, ReturnKeeps, <1>t, <1>v DEF CompileFails, TypeOK, setup
<1>6. CASE WriteDriver
  <2> USE <1>6 DEF IInv, WriteDriver, setup, disk, answer
  <2>1. TypeOK'  BY <1>s DEF TypeOK
  <2>2. Aligned' /\ InputsSeeTheBuild' /\ Progress' /\ Clean'
    BY <1>s DEF Aligned, Told, InputsSeeTheBuild, Progress, Clean
  <2>3. HoldBounded' /\ Clock'  BY <1>s DEF HoldBounded, Clock
  <2>9. Survival'  BY <1>w, <1>s DEF Survival, NothingLeft
  <2> QED  BY <2>9, <2>1, <2>2, <2>3
<1>7. CASE DriverFails
  BY <1>7, ReturnKeeps, <1>t, <1>v DEF DriverFails, TypeOK, setup, disk
<1>8. CASE LoopEnds
  <2>1. Len(results) = NumInputs  BY <1>8, <1>a, <1>n, <1>l, <1>t DEF LoopEnds, TypeOK
  <2> QED  BY <1>8, <2>1, ReturnKeeps, <1>t, <1>v DEF LoopEnds, TypeOK, setup, disk
<1>9. CASE StartSingle
  <2> USE <1>9 DEF IInv, StartSingle, setup, disk, answer
  <2>1. TypeOK'  BY <1>n, <1>s DEF TypeOK
  <2>2. Len(results) = 0  BY <1>n, <1>a
  <2>3. results = << >>  BY <2>2, <1>z
  <2>4. Aligned' /\ InputsSeeTheBuild' /\ Clean'
    BY <1>s DEF Aligned, Told, InputsSeeTheBuild, Clean
  <2>5. Progress'  BY <2>2, <1>l, <1>s DEF Progress
  <2>6. HoldBounded' /\ Clock'  BY <2>3, <1>l, <1>n, <1>s DEF HoldBounded, Clock
  <2>9. Survival'  BY <1>w, <1>s DEF Survival, NothingLeft
  <2> QED  BY <2>9, <2>1, <2>4, <2>5, <2>6
<1>10. CASE WithinBudget
  <2> USE <1>10 DEF IInv, WithinBudget, setup, disk, answer
  <2>1. TypeOK'  BY <1>n, <1>s DEF TypeOK
  <2>2. Aligned' /\ InputsSeeTheBuild' /\ Clean'
    BY <1>s DEF Aligned, Told, InputsSeeTheBuild, Clean
  <2>3. Progress'  BY <1>l, <1>n, <1>s DEF Progress
  <2>4. HoldBounded' /\ Clock'  BY <1>l, <1>n, <1>s DEF HoldBounded, Clock
  <2>9. Survival'  BY <1>w, <1>s DEF Survival, NothingLeft
  <2> QED  BY <2>9, <2>1, <2>2, <2>3, <2>4
<1>11. CASE OverBudget
  BY <1>11, ReturnKeeps, <1>t, <1>v DEF OverBudget, TypeOK, setup, disk
<1>12. CASE StartInput
  <2> USE <1>12 DEF IInv, StartInput, setup, disk, answer
  <2>1. TypeOK'  BY <1>n, <1>s DEF TypeOK
  <2>2. Aligned' /\ InputsSeeTheBuild' /\ Clean'
    BY <1>s DEF Aligned, Told, InputsSeeTheBuild, Clean
  <2>3. Progress'  BY <1>s DEF Progress
  <2>4. HoldBounded' /\ Clock'  BY <1>l, <1>n, <1>s DEF HoldBounded, Clock, Progress
  <2>9. Survival'  BY <1>w, <1>s DEF Survival, NothingLeft
  <2> QED  BY <2>9, <2>1, <2>2, <2>3, <2>4
<1>13. CASE CallerGone
  BY <1>13, ReturnKeeps, <1>t, <1>v DEF CallerGone, TypeOK, setup, disk
<1>14. CASE RunEnds
  <2>1. pc = "running" /\ results' = Append(results, TheResult) /\ UNCHANGED setup
    BY <1>14 DEF RunEnds, RunReturns
  <2>2. /\ results' \in Seq(Result) /\ Len(results') = Len(results) + 1
        /\ \A i \in DOMAIN results' : results'[i].input = i
        /\ backend = "nsjail" =>
              \A i \in DOMAIN results' : asked.mode = "run" =>
                /\ ~results'[i].dirty
                /\ asked.compiled => results'[i].artifact = "validated"
    BY <2>1, AppendsNext
  <2> USE <1>14 DEF IInv, RunEnds, RunReturns, JailEnds, setup
  <2>3. Len(results) < NumInputs  BY DEF Progress
  <2>4. TypeOK'
    <3>1. Len(results') <= NumInputs'  BY <2>1, <2>2, <2>3, <1>n, <1>l, <1>s
    <3>2. results' \in Seq(Result)  BY <2>2
    <3>3. survivor' \in {"none", "reader", "writer"}  OBVIOUS
    <3>4. at' \in 1 .. NumInputs' + 1  BY <1>a, <1>n, <1>l, <1>s, <2>3
    <3> HIDE DEF JailEnds
    <3> QED  BY <3>1, <3>2, <3>3, <3>4 DEF TypeOK
  <2>5. Aligned' /\ InputsSeeTheBuild'
    <3>1. Told' = "none"  BY DEF Progress, Told
    <3> QED  BY <2>2, <3>1 DEF Aligned, InputsSeeTheBuild
  <2>6. results' # << >>  BY <2>2, <1>n
  <2>7. HoldBounded' /\ Clock'  BY <2>6, <1>s DEF HoldBounded, Clock
  <2>8. Progress' /\ Clean'
    <3>1. Progress'  BY <1>a, <2>2 DEF Progress
    <3>2. Clean'  BY DEF Clean, Writable
    <3> QED  BY <3>1, <3>2
  <2>9. Survival'
    <3>1. survivor' = "writer" => Exposed  BY DEF Exposed
    <3> QED  BY <3>1, <1>w, <1>s DEF Survival, NothingLeft
  <2> QED  BY <2>9, <2>4, <2>5, <2>7, <2>8
<1>15. CASE RemoveAll
  <2> USE <1>15 DEF IInv, RemoveAll, setup, answer
  <2>1. TypeOK'  BY <1>s DEF TypeOK
  <2>2. Aligned' /\ InputsSeeTheBuild' /\ Progress' /\ Clean'
    <3>1. Aligned'  BY <1>s DEF Aligned, Told
    <3>2. InputsSeeTheBuild' /\ Progress'  BY <1>s DEF InputsSeeTheBuild, Progress
    <3>3. Clean'  BY DEF Clean
    <3> QED  BY <3>1, <3>2, <3>3
  <2>3. HoldBounded' /\ Clock'  BY <1>s DEF HoldBounded, Clock
  <2>9. Survival'
    <3>1. workDir' \notin {"absent", "removed"} => locked \/ survivor = "writer"  OBVIOUS
    <3> QED  BY <3>1, <1>w, <1>s DEF Survival, NothingLeft, Exposed
  <2> QED  BY <2>9, <2>1, <2>2, <2>3
<1>16. CASE Write
  <2> USE <1>16 DEF IInv, Write, setup, answer
  <2>1. TypeOK'
    <3>1. dirty' \in BOOLEAN /\ locked' \in BOOLEAN  BY Zenon DEF TypeOK
    <3>2. artifact' \in {"none", "validated", "replaced"}  BY DEF TypeOK
    <3> QED  BY <3>1, <3>2, <1>s DEF TypeOK
  <2>2. Aligned' /\ InputsSeeTheBuild' /\ Progress'
    BY <1>s DEF Aligned, Told, InputsSeeTheBuild, Progress
  <2>3. Clean'  BY DEF Clean, Writable
  <2>4. HoldBounded' /\ Clock'  BY <1>s DEF HoldBounded, Clock
  <2>9. Survival'
    <3>1. Exposed  BY DEF Exposed, Clock, Survival
    <3> QED  BY <3>1, <1>w, <1>s DEF Survival, NothingLeft, Exposed
  <2> QED  BY <2>9, <2>1, <2>2, <2>3, <2>4
<1>17. CASE CallerLeaves
  <2> USE <1>17 DEF IInv, CallerLeaves, setup, disk, answer
  <2>1. TypeOK'  BY <1>s DEF TypeOK
  <2>2. Aligned' /\ InputsSeeTheBuild' /\ Progress' /\ Clean'
    BY <1>s DEF Aligned, Told, InputsSeeTheBuild, Progress, Clean
  <2>3. HoldBounded' /\ Clock'  BY <1>s DEF HoldBounded, Clock
  <2>9. Survival'  BY <1>w, <1>s DEF Survival, NothingLeft
  <2> QED  BY <2>9, <2>1, <2>2, <2>3
<1>18. CASE UNCHANGED vars
  <2> USE <1>18 DEF IInv, vars, setup, disk, answer
  <2>1. TypeOK'  BY <1>s DEF TypeOK
  <2>2. Aligned' /\ InputsSeeTheBuild' /\ Progress' /\ Clean'
    BY <1>s DEF Aligned, Told, InputsSeeTheBuild, Progress, Clean
  <2>3. HoldBounded' /\ Clock'  BY <1>s DEF HoldBounded, Clock
  <2>9. Survival'  BY <1>w, <1>s DEF Survival, NothingLeft
  <2> QED  BY <2>9, <2>1, <2>2, <2>3
<1> QED
  BY <1>1, <1>2, <1>3, <1>4, <1>5, <1>6, <1>7, <1>8, <1>9, <1>10, <1>11, <1>12,
     <1>13, <1>14, <1>15, <1>16, <1>17, <1>18
  DEF Next, Goroutine, JailReturns, Returned

\* Every request keeps the invariant.
THEOREM Invariance == Spec => []IInv
BY InitIInv, NextIInv, PTL DEF Spec

-------------------------------------------------------------------------------
(***************************************************************************)
(* The theorems.                                                           *)
(***************************************************************************)
\* The state keeps its types, one result per input at most (RunResult,
\* BatchResult, batchLoop).
THEOREM TypeCorrect == Spec => []TypeOK
<1>1. IInv => TypeOK  BY DEF IInv
<1> QED  BY <1>1, Invariance, PTL

\* results[i] answers stdins[i], however the batch stops, and nothing is missing
\* from an answer that is not flagged (batchLoop).
THEOREM ResultsAreAligned == Spec => []Aligned
<1>1. IInv => Aligned  BY DEF IInv
<1> QED  BY <1>1, Invariance, PTL

\* Under nsjail every input of a plain run gets the artifact the compile
\* validated and a workdir no input has touched, in a batch of any length
\* (compiledRuntime.RunBatch, runSpec).
THEOREM NothingCarriesOver == Spec => []InputsSeeTheBuild
<1>1. IInv => InputsSeeTheBuild  BY DEF IInv
<1> QED  BY <1>1, Invariance, PTL

\* On no path out of a request is its workdir kept, unless a jail that could
\* write to it made it unremovable or still writes: not after a failed
\* preparation, and under nsjail not after the plain run of an interpreted
\* program (the deferred os.RemoveAll).
THEOREM WorkdirIsRemoved == Spec => []NothingLeft
<1>1. IInv => NothingLeft  BY DEF IInv, Survival
<1> QED  BY <1>1, Invariance, PTL

\* A request holds its slot for its compile and its run, and a batch for less
\* than one run past its budget: what shutdownGraceMs counts on, for any number
\* of inputs (batchLoop, clampLimits).
THEOREM HoldIsBounded == Spec => []HoldBounded
<1>1. IInv => HoldBounded  BY DEF IInv
<1> QED  BY <1>1, Invariance, PTL

\* No request the drain was sized for holds its slot past the derived grace
\* less its slack (shutdownGraceMs).
LEMMA HoldFitsGrace ==
  ASSUME TypeOK, ~CompiledTrace
  PROVE  Hold + Slack <= grace /\ grace \in Nat
<1>1. config \in Config /\ asked \in Request /\ Admitted(asked) /\ grace = shutdownGraceMs(config)
  BY DEF TypeOK
<1>2. /\ config.maxTimeout \in Nat /\ config.maxTestTimeout \in Nat
      /\ config.maxCompile \in Nat /\ config.maxBatchTotal \in Nat
      /\ config.grace \in Nat /\ Slack \in Nat
  BY <1>1, LimitsAssumption DEF Config
<1>3. /\ config.maxCompile + config.maxTimeout + Slack <= grace
      /\ config.maxBatchTotal + config.maxTimeout + Slack <= grace
      /\ config.maxTestTimeout + Slack <= grace
      /\ grace \in Nat
  BY <1>1, <1>2 DEF shutdownGraceMs, Larger
<1>4. /\ Running \in 1 .. Envelope(config, asked)[2] /\ Compiling \in 1 .. config.maxCompile
  BY <1>1, Clamped DEF Running, Compiling
<1>5. CompilePhase = (IF TwoPhase THEN Compiling ELSE 0)  BY DEF CompilePhase, Compiling
<1>6. Hold = IF asked.batch THEN Larger(CompilePhase, config.maxBatchTotal + Running)
             ELSE CompilePhase + Running
  BY DEF Hold, Running, Budget
<1>7. CASE asked.mode = "run"
  <2>1. Running \in 1 .. config.maxTimeout  BY <1>4, <1>7 DEF Envelope
  <2>2. CompilePhase \in 0 .. config.maxCompile  BY <1>2, <1>4, <1>5
  <2> QED  BY <1>2, <1>3, <1>6, <2>1, <2>2 DEF Larger
<1>8. CASE asked.mode # "run"
  <2>1. Running \in 1 .. config.maxTestTimeout  BY <1>4, <1>8 DEF Envelope
  <2>2. ~asked.batch /\ ~TwoPhase
    BY <1>1, <1>8 DEF Admitted, CompiledTrace, TwoPhase, Request, Mode
  <2> QED  BY <1>2, <1>3, <1>5, <1>6, <2>1, <2>2
<1> QED  BY <1>3, <1>7, <1>8

\* A SIGTERM never cuts short a request that ends inside its own deadlines,
\* unless it is the trace of a compiled language (shutdownGraceMs, clampLimits).
THEOREM GraceCovers == Spec => []GraceCoversHold
<1>1. IInv => GraceCoversHold
  <2> SUFFICES ASSUME IInv, ~CompiledTrace PROVE now + Slack <= grace
    BY DEF GraceCoversHold
  <2>1. TypeOK /\ now <= Hold  BY DEF IInv, HoldBounded
  <2>2. Hold + Slack <= grace /\ grace \in Nat  BY <2>1, HoldFitsGrace
  <2>3. now \in Nat /\ Hold \in Nat /\ Slack \in Nat
    BY <2>1, LimitTypes, LimitsAssumption DEF TypeOK
  <2> QED  BY <2>1, <2>2, <2>3
<1> QED  BY <1>1, Invariance, PTL

\* A floor lifts, and never past the operator's ceiling; no jail outlives its
\* ceiling (raiseToFloor, clampLimits).
THEOREM FloorsRespectCeilings == Spec => []FloorRespected
<1>1. IInv => FloorRespected
  <2> SUFFICES ASSUME IInv PROVE FloorRespected  OBVIOUS
  <2> DEFINE max == Envelope(config, asked)[2]
  <2>1. config \in Config /\ asked \in Request /\ now \in Nat /\ began \in 0 .. now
    BY DEF IInv, TypeOK
  <2>2. /\ max \in Nat /\ Running \in 1 .. max
        /\ Running >= asked.floor \/ Running = max
        /\ Compiling \in 1 .. config.maxCompile /\ config.maxCompile \in Nat
    BY <2>1, Clamped DEF Running, Compiling
  <2> HIDE DEF max
  <2>3. pc = "running" => now - began <= max
    <3>1. pc = "running" => now <= began + Running  BY DEF IInv, Clock
    <3> QED  BY <2>1, <2>2, <3>1
  <2>4. pc = "compiling" => now - began <= config.maxCompile
    <3>1. pc = "compiling" => began = 0 /\ now <= Compiling
      BY DEF IInv, Clock, CompilePhase, Compiling
    <3> QED  BY <2>1, <2>2, <3>1
  <2> QED  BY <2>2, <2>3, <2>4 DEF FloorRespected, Running, max
<1> QED  BY <1>1, Invariance, PTL

-------------------------------------------------------------------------------
(***************************************************************************)
(* Execution implements Judging.                                           *)
(***************************************************************************)
\* A step that moves neither the phase nor the results nor the verdict is no
\* step of Judging.
LEMMA Stutters ==
  ASSUME UNCHANGED setup, Phase' = Phase, UNCHANGED <<at, status, aborted>>
  PROVE  UNCHANGED Judged!vars
BY DEF Judged!vars, Told, NumInputs, setup

\* Every step of a runtime is one of Judging's, or none.
LEMMA Simulates == IInv /\ [Next]_vars => [Judged!Next]_Judged!vars
<1> SUFFICES ASSUME IInv, [Next]_vars PROVE Judged!Next \/ UNCHANGED Judged!vars
  BY DEF IInv
<1> USE DEF setup, disk, answer
<1>t. /\ TypeOK /\ Progress /\ Len(results) \in Nat /\ Len(results) <= NumInputs
      /\ NumInputs \in Nat \ {0} /\ at = Len(results) + 1
  BY LimitTypes DEF IInv, TypeOK, Progress
<1>e. results = << >> => Len(results) = 0  OBVIOUS
<1>n. UNCHANGED setup => NumInputs' = NumInputs  BY DEF NumInputs
\* The four ways a step shows.
<1>b. ASSUME UNCHANGED setup, Phase = "open", Phase' = "built",
             UNCHANGED <<at, status, aborted>>
      PROVE  Judged!Next
  BY <1>b, <1>n DEF Judged!Next, Judged!Build, Told
<1>r. ASSUME NEW how \in {"compile_error", "internal_error"}, Return(how, FALSE),
             UNCHANGED setup, pc \in {"prepare", "compiling", "driver"}
      PROVE  Judged!Next
  <2>1. Len(results) = 0  BY <1>r, <1>t, <1>e DEF Progress
  <2>2. Phase \in {"open", "built"} /\ Phase' = "closed" /\ Told' = "nothing"
    BY <1>r DEF Return, Phase, Told
  <2>3. UNCHANGED at /\ at - 1 = 0  BY <1>r, <1>t, <2>1 DEF Return
  <2> QED  BY <1>r, <1>n, <2>2, <2>3 DEF Judged!Next, Judged!Refuse
<1>c. ASSUME NEW early \in BOOLEAN, Return("ok", early), UNCHANGED setup,
             pc \in {"next", "context"}, early <=> Len(results) # NumInputs
      PROVE  Judged!Next
  <2>1. Phase = "built" /\ Phase' = "closed"
    BY <1>c DEF Return, Phase
  <2>2. Told' = IF Len(results) = NumInputs THEN "whole" ELSE "partial"
    BY <1>c DEF Return, Told
  <2>3. UNCHANGED at /\ at - 1 = Len(results)  BY <1>c, <1>t DEF Return
  <2> QED  BY <1>c, <1>n, <2>1, <2>2, <2>3 DEF Judged!Next, Judged!Close
<1>1. CASE Prepare
  <2>1. CASE TwoPhase
    BY <1>1, <2>1, Stutters DEF Prepare, Phase
  <2>2. CASE ~TwoPhase
    BY <1>1, <2>2, <1>b DEF Prepare, Phase
  <2> QED  BY <2>1, <2>2
<1>2. CASE PrepareFails
  BY <1>2, <1>r DEF PrepareFails
<1>3. CASE TimePasses
  BY <1>3, Stutters DEF TimePasses, Phase
<1>4. CASE CompileEnds
  BY <1>4, <1>b DEF CompileEnds, Phase
<1>5. CASE CompileFails
  BY <1>5, <1>r DEF CompileFails
<1>6. CASE WriteDriver
  BY <1>6, Stutters DEF WriteDriver, Phase
<1>7. CASE DriverFails
  BY <1>7, <1>r DEF DriverFails
<1>8. CASE LoopEnds
  <2>1. Len(results) = NumInputs  BY <1>8, <1>t DEF LoopEnds
  <2> QED  BY <1>8, <2>1, <1>c DEF LoopEnds
<1>9. CASE StartSingle
  BY <1>9, Stutters DEF StartSingle, Phase
<1>10. CASE WithinBudget
  BY <1>10, Stutters DEF WithinBudget, Phase
<1>11. CASE OverBudget
  <2>1. Len(results) # NumInputs  BY <1>11, <1>t DEF OverBudget
  <2> QED  BY <1>11, <2>1, <1>c DEF OverBudget
<1>12. CASE StartInput
  BY <1>12, Stutters DEF StartInput, Phase
<1>13. CASE CallerGone
  <2>1. Len(results) # NumInputs  BY <1>13, <1>t DEF CallerGone, Progress
  <2> QED  BY <1>13, <2>1, <1>c DEF CallerGone
<1>14. CASE RunEnds
  <2>1. pc = "running" /\ at' = at + 1  BY <1>14 DEF RunEnds, RunReturns
  <2>2. at' - 1 = (at - 1) + 1 /\ at - 1 = Len(results)  BY <2>1, <1>t
  <2>3. Len(results) < NumInputs  BY <2>1, <1>t DEF Progress
  <2>4. Phase = "built" /\ UNCHANGED <<Phase, Told, NumInputs>>
    BY <1>14, <1>n DEF RunEnds, RunReturns, Phase, Told
  <2> QED  BY <2>2, <2>3, <2>4 DEF Judged!Next, Judged!Try
<1>15. CASE RemoveAll
  BY <1>15, Stutters DEF RemoveAll, Phase
<1>16. CASE Write
  BY <1>16, Stutters DEF Write, Phase
<1>17. CASE CallerLeaves
  BY <1>17, Stutters DEF CallerLeaves, Phase
<1>18. CASE UNCHANGED vars
  BY <1>18, Stutters DEF vars, Phase
<1> QED
  BY <1>1, <1>2, <1>3, <1>4, <1>5, <1>6, <1>7, <1>8, <1>9, <1>10, <1>11, <1>12,
     <1>13, <1>14, <1>15, <1>16, <1>17, <1>18
  DEF Next, Goroutine, JailReturns, Returned

\* Every runtime, in every mode, keeps the promise of Judging, for any number of
\* inputs (compiledRuntime, interpretedRuntime, batchLoop).
THEOREM Implements == Spec => ImplementsJudging
<1>1. Init => Judged!Init
  BY ExecutionAssumption DEF Init, Judged!Init, Phase, Told, NumInputs
<1> QED  BY <1>1, Invariance, Simulates, PTL DEF Spec, ImplementsJudging, Judged!Spec
================================================================================
