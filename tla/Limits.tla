--------------------------------- MODULE Limits ---------------------------------
(***************************************************************************)
(* The limit policy, as operators: what clampLimits makes of the limits a  *)
(* request asks for, the drain grace config.Load derives, and the whole    *)
(* seconds the sandbox makes of a timeout.                                 *)
(***************************************************************************)
EXTENDS Integers

CONSTANTS Defaults, Ceilings,   \* values an operator may set, in ms
          Asked,                \* values a request may carry
          Floors,               \* minTimeoutMs of the languages, 0 for none
          Graces,               \* RUNNER_SHUTDOWN_GRACE_MS, 0 for unset
          Slack                 \* shutdownGraceSlackMs

\* envInt gives positive values only.
ASSUME LimitsAssumption ==
  /\ Defaults \subseteq Nat \ {0} /\ Ceilings \subseteq Nat \ {0}
  /\ Asked \subseteq Int
  /\ Floors \subseteq Nat /\ Graces \subseteq Nat
  /\ Slack \in Nat

Config == [timeout : Defaults, maxTimeout : Ceilings,
           testTimeout : Defaults, maxTestTimeout : Ceilings,
           compile : Defaults, maxCompile : Ceilings,
           maxBatchTotal : Ceilings, grace : Graces]

Mode == {"run", "test", "trace"}

\* A request: what it asks for, and what its language is.
Request == [mode : Mode, batch : BOOLEAN, timeout : Asked, compile : Asked,
            floor : Floors, compiled : BOOLEAN]

\* RunBatch refuses a batch in test or trace mode.
Admitted(q) == q.batch => q.mode = "run"

clamp(v, def, max) ==
  LET w == IF v <= 0 THEN def ELSE v
  IN IF max > 0 /\ w > max THEN max ELSE w

\* Slip: the floor wins over the ceiling.
raiseToFloor_uncapped(v, floor, max) == IF floor > 0 /\ v < floor THEN floor ELSE v

raiseToFloor(v, floor, max) ==
  LET w == IF floor > 0 /\ v < floor THEN floor ELSE v
  IN IF max > 0 /\ w > max THEN max ELSE w

\* req.TimeoutMs after clampLimits: test and trace use the test envelope.
Envelope(c, q) == IF q.mode = "run" THEN <<c.timeout, c.maxTimeout>>
                                    ELSE <<c.testTimeout, c.maxTestTimeout>>
RunTimeout(c, q) ==
  LET def == Envelope(c, q)[1]
      max == Envelope(c, q)[2]
  IN raiseToFloor(clamp(q.timeout, def, max), q.floor, max)

CompileTimeout(c, q) == clamp(q.compile, c.compile, c.maxCompile)

Larger(a, b) == IF a > b THEN a ELSE b

\* Slip: the batch's own overshoot forgotten.
shutdownGraceMs_short(c) ==
  LET single == c.maxCompile + c.maxTimeout
      floor  == Larger(Larger(single, c.maxBatchTotal), c.maxTestTimeout) + Slack
  IN Larger(floor, c.grace)

shutdownGraceMs(c) ==
  LET single == c.maxCompile + c.maxTimeout
      batch  == c.maxBatchTotal + c.maxTimeout
      floor  == Larger(Larger(single, batch), c.maxTestTimeout) + Slack
  IN Larger(floor, c.grace)

\* RLIMIT_CPU and nsjail's --time_limit, in seconds.
cpuCapSeconds(ms) == (ms + 999) \div 1000 + 1
wallCapSeconds(ms) == Larger(1, (ms + 999) \div 1000)
================================================================================
