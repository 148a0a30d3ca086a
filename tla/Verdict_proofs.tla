---------------------------- MODULE Verdict_proofs ----------------------------
(***************************************************************************)
(* What the switch statements of Verdict decide, for every evidence: each  *)
(* one as the chain of its guards, and the facts the callers rely on.      *)
(***************************************************************************)
EXTENDS Verdict, TLAPS

\* A switch takes the case whose guard holds after all the earlier ones have
\* failed; there is only one such case.
LEMMA SwitchTakes ==
  ASSUME NEW cases, NEW n \in Nat, DOMAIN cases = 1 .. n,
         NEW i \in 1 .. n, cases[i].guard, \A j \in 1 .. i - 1 : ~cases[j].guard
  PROVE  Switch(cases) = cases[i].status
<1> DEFINE First(k) == cases[k].guard /\ \A j \in 1 .. k - 1 : ~cases[j].guard
<1>1. ASSUME NEW k \in DOMAIN cases, First(k) PROVE k = i
  <2>1. k \in Nat /\ i \in Nat /\ k >= 1 /\ i >= 1  OBVIOUS
  <2>2. ~(k < i)
    <3>1. SUFFICES ASSUME k < i PROVE FALSE  OBVIOUS
    <3>2. k \in 1 .. i - 1  BY <2>1, <3>1
    <3> QED  BY <1>1, <3>2
  <2>3. ~(i < k)
    <3>1. SUFFICES ASSUME i < k PROVE FALSE  OBVIOUS
    <3>2. i \in 1 .. k - 1  BY <2>1, <3>1
    <3> QED  BY <1>1, <3>2
  <2> QED  BY <2>1, <2>2, <2>3
<1>2. First(i)  OBVIOUS
<1> HIDE DEF First
<1>3. (CHOOSE k \in DOMAIN cases : First(k)) = i  BY <1>1, <1>2
<1> QED  BY <1>3 DEF Switch, First

\* The switch of interpretedRuntime.execute and compiledRuntime.execute, as the
\* chain of its guards.
LEMMA RunVerdictIs ==
  ASSUME NEW e \in Evidence
  PROVE  RunVerdict(e) = IF e.cause = "deadline" THEN "timeout"
           ELSE IF ~e.failed THEN "success"
           ELSE IF e.oom THEN "memory_exceeded"
           ELSE IF e.memErr THEN "memory_exceeded"
           ELSE IF e.cause = "flood" THEN "output_limit_exceeded"
           ELSE "runtime_error"
<1> DEFINE c == <<Deadline(e), Clean(e), OOM(e), MemErr(e), Flood(e), Default("runtime_error")>>
<1>1. DOMAIN c = 1 .. 6 /\ 6 \in Nat /\ RunVerdict(e) = Switch(c)
  BY DEF RunVerdict
<1>2. /\ c[1].guard = (e.cause = "deadline") /\ c[1].status = "timeout"
      /\ c[2].guard = (~e.failed) /\ c[2].status = "success"
      /\ c[3].guard = (e.oom) /\ c[3].status = "memory_exceeded"
      /\ c[4].guard = (e.memErr) /\ c[4].status = "memory_exceeded"
      /\ c[5].guard = (e.cause = "flood") /\ c[5].status = "output_limit_exceeded"
      /\ c[6].guard = (TRUE) /\ c[6].status = "runtime_error"
  BY DEF Deadline, OOM, MemErr, Flood, Clean, Passed, TestsFailed, Default, When
<1> HIDE DEF c
<1>3. ASSUME NEW i \in 1 .. 6, c[i].guard, \A j \in 1 .. i - 1 : ~c[j].guard
      PROVE  Switch(c) = c[i].status
  BY <1>1, <1>3, SwitchTakes
<1>4. e.oom \in BOOLEAN /\ e.failed \in BOOLEAN /\ e.memErr \in BOOLEAN
      /\ e.produced \in BOOLEAN /\ e.buildFail \in BOOLEAN
  BY DEF Evidence
<1>5. CASE c[1].guard
  <2>1. 1 \in 1 .. 6 /\ \A j \in 1 .. 1 - 1 : ~c[j].guard  BY <1>5
  <2>2. Switch(c) = c[1].status  BY <1>3, <1>5, <2>1
  <2>3. RunVerdict(e) = "timeout"  BY <1>1, <1>2, <2>2
  <2> QED  BY <1>2, <1>4, <1>5, <2>3
<1>6. CASE ~c[1].guard /\ c[2].guard
  <2>1. 2 \in 1 .. 6 /\ \A j \in 1 .. 2 - 1 : ~c[j].guard  BY <1>6
  <2>2. Switch(c) = c[2].status  BY <1>3, <1>6, <2>1
  <2>3. RunVerdict(e) = "success"  BY <1>1, <1>2, <2>2
  <2> QED  BY <1>2, <1>4, <1>6, <2>3
<1>7. CASE ~c[1].guard /\ ~c[2].guard /\ c[3].guard
  <2>1. 3 \in 1 .. 6 /\ \A j \in 1 .. 3 - 1 : ~c[j].guard  BY <1>7
  <2>2. Switch(c) = c[3].status  BY <1>3, <1>7, <2>1
  <2>3. RunVerdict(e) = "memory_exceeded"  BY <1>1, <1>2, <2>2
  <2> QED  BY <1>2, <1>4, <1>7, <2>3
<1>8. CASE ~c[1].guard /\ ~c[2].guard /\ ~c[3].guard /\ c[4].guard
  <2>1. 4 \in 1 .. 6 /\ \A j \in 1 .. 4 - 1 : ~c[j].guard  BY <1>8
  <2>2. Switch(c) = c[4].status  BY <1>3, <1>8, <2>1
  <2>3. RunVerdict(e) = "memory_exceeded"  BY <1>1, <1>2, <2>2
  <2> QED  BY <1>2, <1>4, <1>8, <2>3
<1>9. CASE ~c[1].guard /\ ~c[2].guard /\ ~c[3].guard /\ ~c[4].guard /\ c[5].guard
  <2>1. 5 \in 1 .. 6 /\ \A j \in 1 .. 5 - 1 : ~c[j].guard  BY <1>9
  <2>2. Switch(c) = c[5].status  BY <1>3, <1>9, <2>1
  <2>3. RunVerdict(e) = "output_limit_exceeded"  BY <1>1, <1>2, <2>2
  <2> QED  BY <1>2, <1>4, <1>9, <2>3
<1>10. CASE ~c[1].guard /\ ~c[2].guard /\ ~c[3].guard /\ ~c[4].guard /\ ~c[5].guard /\ c[6].guard
  <2>1. 6 \in 1 .. 6 /\ \A j \in 1 .. 6 - 1 : ~c[j].guard  BY <1>10
  <2>2. Switch(c) = c[6].status  BY <1>3, <1>10, <2>1
  <2>3. RunVerdict(e) = "runtime_error"  BY <1>1, <1>2, <2>2
  <2> QED  BY <1>2, <1>4, <1>10, <2>3
<1> QED  BY <1>2, <1>5, <1>6, <1>7, <1>8, <1>9, <1>10

\* The switch of interpretedRuntime.executeTrace, as the chain of its guards.
LEMMA InterpretedTraceVerdictIs ==
  ASSUME NEW e \in Evidence
  PROVE  InterpretedTraceVerdict(e) = IF e.cause = "deadline" THEN "timeout"
           ELSE IF e.oom THEN "memory_exceeded"
           ELSE IF e.memErr THEN "memory_exceeded"
           ELSE IF e.cause = "flood" THEN "output_limit_exceeded"
           ELSE IF ~e.failed THEN "success"
           ELSE "runtime_error"
<1> DEFINE c == <<Deadline(e), OOM(e), MemErr(e), Flood(e), Clean(e), Default("runtime_error")>>
<1>1. DOMAIN c = 1 .. 6 /\ 6 \in Nat /\ InterpretedTraceVerdict(e) = Switch(c)
  BY DEF InterpretedTraceVerdict
<1>2. /\ c[1].guard = (e.cause = "deadline") /\ c[1].status = "timeout"
      /\ c[2].guard = (e.oom) /\ c[2].status = "memory_exceeded"
      /\ c[3].guard = (e.memErr) /\ c[3].status = "memory_exceeded"
      /\ c[4].guard = (e.cause = "flood") /\ c[4].status = "output_limit_exceeded"
      /\ c[5].guard = (~e.failed) /\ c[5].status = "success"
      /\ c[6].guard = (TRUE) /\ c[6].status = "runtime_error"
  BY DEF Deadline, OOM, MemErr, Flood, Clean, Passed, TestsFailed, Default, When
<1> HIDE DEF c
<1>3. ASSUME NEW i \in 1 .. 6, c[i].guard, \A j \in 1 .. i - 1 : ~c[j].guard
      PROVE  Switch(c) = c[i].status
  BY <1>1, <1>3, SwitchTakes
<1>4. e.oom \in BOOLEAN /\ e.failed \in BOOLEAN /\ e.memErr \in BOOLEAN
      /\ e.produced \in BOOLEAN /\ e.buildFail \in BOOLEAN
  BY DEF Evidence
<1>5. CASE c[1].guard
  <2>1. 1 \in 1 .. 6 /\ \A j \in 1 .. 1 - 1 : ~c[j].guard  BY <1>5
  <2>2. Switch(c) = c[1].status  BY <1>3, <1>5, <2>1
  <2>3. InterpretedTraceVerdict(e) = "timeout"  BY <1>1, <1>2, <2>2
  <2> QED  BY <1>2, <1>4, <1>5, <2>3
<1>6. CASE ~c[1].guard /\ c[2].guard
  <2>1. 2 \in 1 .. 6 /\ \A j \in 1 .. 2 - 1 : ~c[j].guard  BY <1>6
  <2>2. Switch(c) = c[2].status  BY <1>3, <1>6, <2>1
  <2>3. InterpretedTraceVerdict(e) = "memory_exceeded"  BY <1>1, <1>2, <2>2
  <2> QED  BY <1>2, <1>4, <1>6, <2>3
<1>7. CASE ~c[1].guard /\ ~c[2].guard /\ c[3].guard
  <2>1. 3 \in 1 .. 6 /\ \A j \in 1 .. 3 - 1 : ~c[j].guard  BY <1>7
  <2>2. Switch(c) = c[3].status  BY <1>3, <1>7, <2>1
  <2>3. InterpretedTraceVerdict(e) = "memory_exceeded"  BY <1>1, <1>2, <2>2
  <2> QED  BY <1>2, <1>4, <1>7, <2>3
<1>8. CASE ~c[1].guard /\ ~c[2].guard /\ ~c[3].guard /\ c[4].guard
  <2>1. 4 \in 1 .. 6 /\ \A j \in 1 .. 4 - 1 : ~c[j].guard  BY <1>8
  <2>2. Switch(c) = c[4].status  BY <1>3, <1>8, <2>1
  <2>3. InterpretedTraceVerdict(e) = "output_limit_exceeded"  BY <1>1, <1>2, <2>2
  <2> QED  BY <1>2, <1>4, <1>8, <2>3
<1>9. CASE ~c[1].guard /\ ~c[2].guard /\ ~c[3].guard /\ ~c[4].guard /\ c[5].guard
  <2>1. 5 \in 1 .. 6 /\ \A j \in 1 .. 5 - 1 : ~c[j].guard  BY <1>9
  <2>2. Switch(c) = c[5].status  BY <1>3, <1>9, <2>1
  <2>3. InterpretedTraceVerdict(e) = "success"  BY <1>1, <1>2, <2>2
  <2> QED  BY <1>2, <1>4, <1>9, <2>3
<1>10. CASE ~c[1].guard /\ ~c[2].guard /\ ~c[3].guard /\ ~c[4].guard /\ ~c[5].guard /\ c[6].guard
  <2>1. 6 \in 1 .. 6 /\ \A j \in 1 .. 6 - 1 : ~c[j].guard  BY <1>10
  <2>2. Switch(c) = c[6].status  BY <1>3, <1>10, <2>1
  <2>3. InterpretedTraceVerdict(e) = "runtime_error"  BY <1>1, <1>2, <2>2
  <2> QED  BY <1>2, <1>4, <1>10, <2>3
<1> QED  BY <1>2, <1>5, <1>6, <1>7, <1>8, <1>9, <1>10

\* The switch of compiledRuntime.executeTrace, as the chain of its guards.
LEMMA CompiledTraceVerdictIs ==
  ASSUME NEW e \in Evidence
  PROVE  CompiledTraceVerdict(e) = IF e.cause = "deadline" THEN "timeout"
           ELSE IF e.oom THEN "memory_exceeded"
           ELSE IF e.cause = "flood" THEN "output_limit_exceeded"
           ELSE IF e.failed THEN "runtime_error"
           ELSE "success"
<1> DEFINE c == <<Deadline(e), OOM(e), Flood(e),
                When(e.failed, "runtime_error"), Default("success")>>
<1>1. DOMAIN c = 1 .. 5 /\ 5 \in Nat /\ CompiledTraceVerdict(e) = Switch(c)
  BY DEF CompiledTraceVerdict
<1>2. /\ c[1].guard = (e.cause = "deadline") /\ c[1].status = "timeout"
      /\ c[2].guard = (e.oom) /\ c[2].status = "memory_exceeded"
      /\ c[3].guard = (e.cause = "flood") /\ c[3].status = "output_limit_exceeded"
      /\ c[4].guard = (e.failed) /\ c[4].status = "runtime_error"
      /\ c[5].guard = (TRUE) /\ c[5].status = "success"
  BY DEF Deadline, OOM, MemErr, Flood, Clean, Passed, TestsFailed, Default, When
<1> HIDE DEF c
<1>3. ASSUME NEW i \in 1 .. 5, c[i].guard, \A j \in 1 .. i - 1 : ~c[j].guard
      PROVE  Switch(c) = c[i].status
  BY <1>1, <1>3, SwitchTakes
<1>4. e.oom \in BOOLEAN /\ e.failed \in BOOLEAN /\ e.memErr \in BOOLEAN
      /\ e.produced \in BOOLEAN /\ e.buildFail \in BOOLEAN
  BY DEF Evidence
<1>5. CASE c[1].guard
  <2>1. 1 \in 1 .. 5 /\ \A j \in 1 .. 1 - 1 : ~c[j].guard  BY <1>5
  <2>2. Switch(c) = c[1].status  BY <1>3, <1>5, <2>1
  <2>3. CompiledTraceVerdict(e) = "timeout"  BY <1>1, <1>2, <2>2
  <2> QED  BY <1>2, <1>4, <1>5, <2>3
<1>6. CASE ~c[1].guard /\ c[2].guard
  <2>1. 2 \in 1 .. 5 /\ \A j \in 1 .. 2 - 1 : ~c[j].guard  BY <1>6
  <2>2. Switch(c) = c[2].status  BY <1>3, <1>6, <2>1
  <2>3. CompiledTraceVerdict(e) = "memory_exceeded"  BY <1>1, <1>2, <2>2
  <2> QED  BY <1>2, <1>4, <1>6, <2>3
<1>7. CASE ~c[1].guard /\ ~c[2].guard /\ c[3].guard
  <2>1. 3 \in 1 .. 5 /\ \A j \in 1 .. 3 - 1 : ~c[j].guard  BY <1>7
  <2>2. Switch(c) = c[3].status  BY <1>3, <1>7, <2>1
  <2>3. CompiledTraceVerdict(e) = "output_limit_exceeded"  BY <1>1, <1>2, <2>2
  <2> QED  BY <1>2, <1>4, <1>7, <2>3
<1>8. CASE ~c[1].guard /\ ~c[2].guard /\ ~c[3].guard /\ c[4].guard
  <2>1. 4 \in 1 .. 5 /\ \A j \in 1 .. 4 - 1 : ~c[j].guard  BY <1>8
  <2>2. Switch(c) = c[4].status  BY <1>3, <1>8, <2>1
  <2>3. CompiledTraceVerdict(e) = "runtime_error"  BY <1>1, <1>2, <2>2
  <2> QED  BY <1>2, <1>4, <1>8, <2>3
<1>9. CASE ~c[1].guard /\ ~c[2].guard /\ ~c[3].guard /\ ~c[4].guard /\ c[5].guard
  <2>1. 5 \in 1 .. 5 /\ \A j \in 1 .. 5 - 1 : ~c[j].guard  BY <1>9
  <2>2. Switch(c) = c[5].status  BY <1>3, <1>9, <2>1
  <2>3. CompiledTraceVerdict(e) = "success"  BY <1>1, <1>2, <2>2
  <2> QED  BY <1>2, <1>4, <1>9, <2>3
<1> QED  BY <1>2, <1>5, <1>6, <1>7, <1>8, <1>9

\* The switch of interpretedRuntime.executeTest, as the chain of its guards.
LEMMA InterpretedTestVerdictIs ==
  ASSUME NEW e \in Evidence
  PROVE  InterpretedTestVerdict(e) = IF e.cause = "deadline" THEN "timeout"
           ELSE IF e.oom THEN "memory_exceeded"
           ELSE IF e.cause = "flood" THEN "output_limit_exceeded"
           ELSE IF e.code = "zero" /\ e.produced THEN "success"
           ELSE IF e.code = "failed" /\ e.produced THEN "tests_failed"
           ELSE "runtime_error"
<1> DEFINE c == <<Deadline(e), OOM(e), Flood(e), Passed(e),
                TestsFailed(e), Default("runtime_error")>>
<1>1. DOMAIN c = 1 .. 6 /\ 6 \in Nat /\ InterpretedTestVerdict(e) = Switch(c)
  BY DEF InterpretedTestVerdict
<1>2. /\ c[1].guard = (e.cause = "deadline") /\ c[1].status = "timeout"
      /\ c[2].guard = (e.oom) /\ c[2].status = "memory_exceeded"
      /\ c[3].guard = (e.cause = "flood") /\ c[3].status = "output_limit_exceeded"
      /\ c[4].guard = (e.code = "zero" /\ e.produced) /\ c[4].status = "success"
      /\ c[5].guard = (e.code = "failed" /\ e.produced) /\ c[5].status = "tests_failed"
      /\ c[6].guard = (TRUE) /\ c[6].status = "runtime_error"
  BY DEF Deadline, OOM, MemErr, Flood, Clean, Passed, TestsFailed, Default, When
<1> HIDE DEF c
<1>3. ASSUME NEW i \in 1 .. 6, c[i].guard, \A j \in 1 .. i - 1 : ~c[j].guard
      PROVE  Switch(c) = c[i].status
  BY <1>1, <1>3, SwitchTakes
<1>4. e.oom \in BOOLEAN /\ e.failed \in BOOLEAN /\ e.memErr \in BOOLEAN
      /\ e.produced \in BOOLEAN /\ e.buildFail \in BOOLEAN
  BY DEF Evidence
<1>5. CASE c[1].guard
  <2>1. 1 \in 1 .. 6 /\ \A j \in 1 .. 1 - 1 : ~c[j].guard  BY <1>5
  <2>2. Switch(c) = c[1].status  BY <1>3, <1>5, <2>1
  <2>3. InterpretedTestVerdict(e) = "timeout"  BY <1>1, <1>2, <2>2
  <2> QED  BY <1>2, <1>4, <1>5, <2>3
<1>6. CASE ~c[1].guard /\ c[2].guard
  <2>1. 2 \in 1 .. 6 /\ \A j \in 1 .. 2 - 1 : ~c[j].guard  BY <1>6
  <2>2. Switch(c) = c[2].status  BY <1>3, <1>6, <2>1
  <2>3. InterpretedTestVerdict(e) = "memory_exceeded"  BY <1>1, <1>2, <2>2
  <2> QED  BY <1>2, <1>4, <1>6, <2>3
<1>7. CASE ~c[1].guard /\ ~c[2].guard /\ c[3].guard
  <2>1. 3 \in 1 .. 6 /\ \A j \in 1 .. 3 - 1 : ~c[j].guard  BY <1>7
  <2>2. Switch(c) = c[3].status  BY <1>3, <1>7, <2>1
  <2>3. InterpretedTestVerdict(e) = "output_limit_exceeded"  BY <1>1, <1>2, <2>2
  <2> QED  BY <1>2, <1>4, <1>7, <2>3
<1>8. CASE ~c[1].guard /\ ~c[2].guard /\ ~c[3].guard /\ c[4].guard
  <2>1. 4 \in 1 .. 6 /\ \A j \in 1 .. 4 - 1 : ~c[j].guard  BY <1>8
  <2>2. Switch(c) = c[4].status  BY <1>3, <1>8, <2>1
  <2>3. InterpretedTestVerdict(e) = "success"  BY <1>1, <1>2, <2>2
  <2> QED  BY <1>2, <1>4, <1>8, <2>3
<1>9. CASE ~c[1].guard /\ ~c[2].guard /\ ~c[3].guard /\ ~c[4].guard /\ c[5].guard
  <2>1. 5 \in 1 .. 6 /\ \A j \in 1 .. 5 - 1 : ~c[j].guard  BY <1>9
  <2>2. Switch(c) = c[5].status  BY <1>3, <1>9, <2>1
  <2>3. InterpretedTestVerdict(e) = "tests_failed"  BY <1>1, <1>2, <2>2
  <2> QED  BY <1>2, <1>4, <1>9, <2>3
<1>10. CASE ~c[1].guard /\ ~c[2].guard /\ ~c[3].guard /\ ~c[4].guard /\ ~c[5].guard /\ c[6].guard
  <2>1. 6 \in 1 .. 6 /\ \A j \in 1 .. 6 - 1 : ~c[j].guard  BY <1>10
  <2>2. Switch(c) = c[6].status  BY <1>3, <1>10, <2>1
  <2>3. InterpretedTestVerdict(e) = "runtime_error"  BY <1>1, <1>2, <2>2
  <2> QED  BY <1>2, <1>4, <1>10, <2>3
<1> QED  BY <1>2, <1>5, <1>6, <1>7, <1>8, <1>9, <1>10

\* The switch of compiledRuntime.executeTest, as the chain of its guards.
LEMMA CompiledTestVerdictIs ==
  ASSUME NEW e \in Evidence
  PROVE  CompiledTestVerdict(e) = IF e.cause = "deadline" THEN "timeout"
           ELSE IF e.oom THEN "memory_exceeded"
           ELSE IF e.cause = "flood" THEN "output_limit_exceeded"
           ELSE IF e.code = "sentinel" THEN "compile_error"
           ELSE IF e.buildFail THEN "compile_error"
           ELSE IF e.code = "zero" /\ e.produced THEN "success"
           ELSE IF e.code = "failed" /\ e.produced THEN "tests_failed"
           ELSE "runtime_error"
<1> DEFINE c == <<Deadline(e), OOM(e), Flood(e), When(e.code = "sentinel", "compile_error"), When(e.buildFail, "compile_error"),
                Passed(e), TestsFailed(e), Default("runtime_error")>>
<1>1. DOMAIN c = 1 .. 8 /\ 8 \in Nat /\ CompiledTestVerdict(e) = Switch(c)
  BY DEF CompiledTestVerdict
<1>2. /\ c[1].guard = (e.cause = "deadline") /\ c[1].status = "timeout"
      /\ c[2].guard = (e.oom) /\ c[2].status = "memory_exceeded"
      /\ c[3].guard = (e.cause = "flood") /\ c[3].status = "output_limit_exceeded"
      /\ c[4].guard = (e.code = "sentinel") /\ c[4].status = "compile_error"
      /\ c[5].guard = (e.buildFail) /\ c[5].status = "compile_error"
      /\ c[6].guard = (e.code = "zero" /\ e.produced) /\ c[6].status = "success"
      /\ c[7].guard = (e.code = "failed" /\ e.produced) /\ c[7].status = "tests_failed"
      /\ c[8].guard = (TRUE) /\ c[8].status = "runtime_error"
  BY DEF Deadline, OOM, MemErr, Flood, Clean, Passed, TestsFailed, Default, When
<1> HIDE DEF c
<1>3. ASSUME NEW i \in 1 .. 8, c[i].guard, \A j \in 1 .. i - 1 : ~c[j].guard
      PROVE  Switch(c) = c[i].status
  BY <1>1, <1>3, SwitchTakes
<1>4. e.oom \in BOOLEAN /\ e.failed \in BOOLEAN /\ e.memErr \in BOOLEAN
      /\ e.produced \in BOOLEAN /\ e.buildFail \in BOOLEAN
  BY DEF Evidence
<1>5. CASE c[1].guard
  <2>1. 1 \in 1 .. 8 /\ \A j \in 1 .. 1 - 1 : ~c[j].guard  BY <1>5
  <2>2. Switch(c) = c[1].status  BY <1>3, <1>5, <2>1
  <2>3. CompiledTestVerdict(e) = "timeout"  BY <1>1, <1>2, <2>2
  <2> QED  BY <1>2, <1>4, <1>5, <2>3
<1>6. CASE ~c[1].guard /\ c[2].guard
  <2>1. 2 \in 1 .. 8 /\ \A j \in 1 .. 2 - 1 : ~c[j].guard  BY <1>6
  <2>2. Switch(c) = c[2].status  BY <1>3, <1>6, <2>1
  <2>3. CompiledTestVerdict(e) = "memory_exceeded"  BY <1>1, <1>2, <2>2
  <2> QED  BY <1>2, <1>4, <1>6, <2>3
<1>7. CASE ~c[1].guard /\ ~c[2].guard /\ c[3].guard
  <2>1. 3 \in 1 .. 8 /\ \A j \in 1 .. 3 - 1 : ~c[j].guard  BY <1>7
  <2>2. Switch(c) = c[3].status  BY <1>3, <1>7, <2>1
  <2>3. CompiledTestVerdict(e) = "output_limit_exceeded"  BY <1>1, <1>2, <2>2
  <2> QED  BY <1>2, <1>4, <1>7, <2>3
<1>8. CASE ~c[1].guard /\ ~c[2].guard /\ ~c[3].guard /\ c[4].guard
  <2>1. 4 \in 1 .. 8 /\ \A j \in 1 .. 4 - 1 : ~c[j].guard  BY <1>8
  <2>2. Switch(c) = c[4].status  BY <1>3, <1>8, <2>1
  <2>3. CompiledTestVerdict(e) = "compile_error"  BY <1>1, <1>2, <2>2
  <2> QED  BY <1>2, <1>4, <1>8, <2>3
<1>9. CASE ~c[1].guard /\ ~c[2].guard /\ ~c[3].guard /\ ~c[4].guard /\ c[5].guard
  <2>1. 5 \in 1 .. 8 /\ \A j \in 1 .. 5 - 1 : ~c[j].guard  BY <1>9
  <2>2. Switch(c) = c[5].status  BY <1>3, <1>9, <2>1
  <2>3. CompiledTestVerdict(e) = "compile_error"  BY <1>1, <1>2, <2>2
  <2> QED  BY <1>2, <1>4, <1>9, <2>3
<1>10. CASE ~c[1].guard /\ ~c[2].guard /\ ~c[3].guard /\ ~c[4].guard /\ ~c[5].guard /\ c[6].guard
  <2>1. 6 \in 1 .. 8 /\ \A j \in 1 .. 6 - 1 : ~c[j].guard  BY <1>10
  <2>2. Switch(c) = c[6].status  BY <1>3, <1>10, <2>1
  <2>3. CompiledTestVerdict(e) = "success"  BY <1>1, <1>2, <2>2
  <2> QED  BY <1>2, <1>4, <1>10, <2>3
<1>11. CASE ~c[1].guard /\ ~c[2].guard /\ ~c[3].guard /\ ~c[4].guard /\ ~c[5].guard /\ ~c[6].guard /\ c[7].guard
  <2>1. 7 \in 1 .. 8 /\ \A j \in 1 .. 7 - 1 : ~c[j].guard  BY <1>11
  <2>2. Switch(c) = c[7].status  BY <1>3, <1>11, <2>1
  <2>3. CompiledTestVerdict(e) = "tests_failed"  BY <1>1, <1>2, <2>2
  <2> QED  BY <1>2, <1>4, <1>11, <2>3
<1>12. CASE ~c[1].guard /\ ~c[2].guard /\ ~c[3].guard /\ ~c[4].guard /\ ~c[5].guard /\ ~c[6].guard /\ ~c[7].guard /\ c[8].guard
  <2>1. 8 \in 1 .. 8 /\ \A j \in 1 .. 8 - 1 : ~c[j].guard  BY <1>12
  <2>2. Switch(c) = c[8].status  BY <1>3, <1>12, <2>1
  <2>3. CompiledTestVerdict(e) = "runtime_error"  BY <1>1, <1>2, <2>2
  <2> QED  BY <1>2, <1>4, <1>12, <2>3
<1> QED  BY <1>2, <1>5, <1>6, <1>7, <1>8, <1>9, <1>10, <1>11, <1>12

\* The switch of compiledRuntime.compile, as the chain of its guards.
LEMMA CompileVerdictIs ==
  ASSUME NEW e \in Evidence
  PROVE  CompileVerdict(e) = IF e.cause = "deadline" THEN "compile_error"
           ELSE IF e.failed THEN "compile_error"
           ELSE IF e.artifact # "fits" THEN "internal_error"
           ELSE "compiled"
<1> DEFINE c == <<When(e.cause = "deadline", "compile_error"), When(e.failed, "compile_error"), When(e.artifact # "fits", "internal_error"),
                Default("compiled")>>
<1>1. DOMAIN c = 1 .. 4 /\ 4 \in Nat /\ CompileVerdict(e) = Switch(c)
  BY DEF CompileVerdict
<1>2. /\ c[1].guard = (e.cause = "deadline") /\ c[1].status = "compile_error"
      /\ c[2].guard = (e.failed) /\ c[2].status = "compile_error"
      /\ c[3].guard = (e.artifact # "fits") /\ c[3].status = "internal_error"
      /\ c[4].guard = (TRUE) /\ c[4].status = "compiled"
  BY DEF Deadline, OOM, MemErr, Flood, Clean, Passed, TestsFailed, Default, When
<1> HIDE DEF c
<1>3. ASSUME NEW i \in 1 .. 4, c[i].guard, \A j \in 1 .. i - 1 : ~c[j].guard
      PROVE  Switch(c) = c[i].status
  BY <1>1, <1>3, SwitchTakes
<1>4. e.oom \in BOOLEAN /\ e.failed \in BOOLEAN /\ e.memErr \in BOOLEAN
      /\ e.produced \in BOOLEAN /\ e.buildFail \in BOOLEAN
  BY DEF Evidence
<1>5. CASE c[1].guard
  <2>1. 1 \in 1 .. 4 /\ \A j \in 1 .. 1 - 1 : ~c[j].guard  BY <1>5
  <2>2. Switch(c) = c[1].status  BY <1>3, <1>5, <2>1
  <2>3. CompileVerdict(e) = "compile_error"  BY <1>1, <1>2, <2>2
  <2> QED  BY <1>2, <1>4, <1>5, <2>3
<1>6. CASE ~c[1].guard /\ c[2].guard
  <2>1. 2 \in 1 .. 4 /\ \A j \in 1 .. 2 - 1 : ~c[j].guard  BY <1>6
  <2>2. Switch(c) = c[2].status  BY <1>3, <1>6, <2>1
  <2>3. CompileVerdict(e) = "compile_error"  BY <1>1, <1>2, <2>2
  <2> QED  BY <1>2, <1>4, <1>6, <2>3
<1>7. CASE ~c[1].guard /\ ~c[2].guard /\ c[3].guard
  <2>1. 3 \in 1 .. 4 /\ \A j \in 1 .. 3 - 1 : ~c[j].guard  BY <1>7
  <2>2. Switch(c) = c[3].status  BY <1>3, <1>7, <2>1
  <2>3. CompileVerdict(e) = "internal_error"  BY <1>1, <1>2, <2>2
  <2> QED  BY <1>2, <1>4, <1>7, <2>3
<1>8. CASE ~c[1].guard /\ ~c[2].guard /\ ~c[3].guard /\ c[4].guard
  <2>1. 4 \in 1 .. 4 /\ \A j \in 1 .. 4 - 1 : ~c[j].guard  BY <1>8
  <2>2. Switch(c) = c[4].status  BY <1>3, <1>8, <2>1
  <2>3. CompileVerdict(e) = "compiled"  BY <1>1, <1>2, <2>2
  <2> QED  BY <1>2, <1>4, <1>8, <2>3
<1> QED  BY <1>2, <1>5, <1>6, <1>7, <1>8

================================================================================
