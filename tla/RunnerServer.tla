----------------------------- MODULE RunnerServer -----------------------------
(***************************************************************************)
(* The HTTP side of the runner: POST /run and the deprecated POST          *)
(* /run/python behind RequireTokens and LimitConcurrency, the handler that *)
(* decodes, calls the executor and records metrics, and ListenAndServe's   *)
(* drain on SIGTERM.  New builds the gate once for each of the two paths,  *)
(* so each path has a limiter, and a slots channel, of its own.            *)
(*                                                                         *)
(* Every request is a goroutine of net/http; pc[r] is where it stands.     *)
(* What the executor returns is chosen from Outcomes: how a run gets its   *)
(* status is the subject of JailRun, how a batch stops early of Execution. *)
(***************************************************************************)
EXTENDS Integers, Sequences, FiniteSets

CONSTANTS Request,            \* the requests of a behaviour
          Path,               \* the path each is posted to
          MaxConcurrentRuns,  \* capacity of a slots channel
          Tokens,             \* values callers put in X-Runner-Token
          ServiceTokens,      \* the valid set; {} only in development
          Outcomes            \* what Service.Run / RunBatch can return

(***************************************************************************)
(* An outcome is what execute or executeBatch is handed: the status of the *)
(* response envelope and, for a batch, the status of every input that ran. *)
(* status "rejected" stands for a *ValidationError or                      *)
(* ErrUnsupportedLanguage.                                                 *)
(***************************************************************************)
RunStatus == {"success", "runtime_error", "timeout", "memory_exceeded",
              "compile_error", "internal_error", "output_limit_exceeded",
              "tests_failed"}
Label == RunStatus \union {"ok"}

Single == [shape : {"single"}, status : RunStatus \union {"rejected"},
           results : {<< >>}]
Batch  == [shape : {"batch"}, status : {"rejected", "compile_error", "internal_error"},
           results : {<< >>}]
          \union [shape : {"batch"}, status : {"ok"}, results : Seq(RunStatus)]

Paths == {"run", "run_python"}

ASSUME ServerAssumption ==
  /\ IsFiniteSet(Request)
  /\ Path \in [Request -> Paths]
  /\ MaxConcurrentRuns \in Nat \ {0}
  /\ ServiceTokens \subseteq Tokens
  /\ Outcomes \subseteq Single \union Batch

VARIABLES pc,             \* where each request stands
          token,          \* the X-Runner-Token it carries
          outcome,        \* what the executor returned for it
          observed,       \* how many ObserveRun calls it has made
          reply,          \* the response it was given
          slots,          \* len(slots), the channel of each path's limiter
          inflight,       \* metrics: runner_inflight
          overloadTotal,  \* metrics: runner_overload_total
          runsTotal,      \* metrics: runner_runs_total by status
          server          \* ListenAndServe: serving, in Shutdown, or exited

requestVars == <<pc, token, outcome, observed, reply>>
metricVars  == <<inflight, overloadTotal, runsTotal>>
vars == <<pc, token, outcome, observed, reply, slots, inflight,
          overloadTotal, runsTotal, server>>

NoOutcome == [shape |-> "none", status |-> "none", results |-> << >>]
NoReply   == "none"

Step == {"idle", "connected", "received", "limiting", "admitted", "decoding",
         "executing", "observing", "releasing", "uncounting", "replied",
         "done", "gone"}
Reply == {"ok", "unauthorized", "bad_request", "at_capacity", "retry_later"}

Exited == {"exit_0", "exit_1"}
Alive  == server \notin Exited

\* The requests that occupy a slot (of a path), and those the gauge counts.
Holding == {r \in Request : pc[r] \in {"admitted", "decoding", "executing",
                                       "observing", "releasing"}}
HoldingOn(p) == {r \in Holding : Path[r] = p}
Counted == {r \in Request : pc[r] \in {"decoding", "executing", "observing",
                                       "releasing", "uncounting"}}
\* A connection net/http does not consider quiescent when it shuts down.
Active  == {r \in Request : pc[r] \notin {"idle", "done", "gone"}}

Goto(r, from, to) == /\ Alive
                     /\ pc[r] = from
                     /\ pc' = [pc EXCEPT ![r] = to]

Init == /\ pc = [r \in Request |-> "idle"]
        /\ token \in [Request -> Tokens]
        /\ outcome = [r \in Request |-> NoOutcome]
        /\ observed = [r \in Request |-> 0]
        /\ reply = [r \in Request |-> NoReply]
        /\ slots = [p \in Paths |-> 0]
        /\ inflight = 0
        /\ overloadTotal = 0
        /\ runsTotal = [s \in Label |-> 0]
        /\ server = "serving"

-------------------------------------------------------------------------------
(***************************************************************************)
(* net/http.  A connection is accepted while the listener is open; its     *)
(* request may still arrive after SIGTERM, because Shutdown lets a         *)
(* connection that has not spoken yet linger before it closes it.          *)
(***************************************************************************)
Connect(r) == /\ server = "serving"
              /\ Goto(r, "idle", "connected")
              /\ UNCHANGED <<token, outcome, observed, reply, slots, metricVars, server>>

Receive(r) == /\ Goto(r, "connected", "received")
              /\ UNCHANGED <<token, outcome, observed, reply, slots, metricVars, server>>

\* The peer hangs up, ReadHeaderTimeout strikes, or Shutdown closes it.
Drop(r) == /\ Goto(r, "connected", "gone")
           /\ UNCHANGED <<token, outcome, observed, reply, slots, metricVars, server>>

\* The handler chain has returned: the response is flushed and the
\* connection is idle again, or closed when the server is shutting down.
Flush(r) == /\ Goto(r, "replied", "done")
            /\ UNCHANGED <<token, outcome, observed, reply, slots, metricVars, server>>

-------------------------------------------------------------------------------
(***************************************************************************)
(* RequireTokens, then LimitConcurrency (the order New builds the gate in).*)
(***************************************************************************)
Authorized(r) == ServiceTokens = {} \/ token[r] \in ServiceTokens

Answer(r, code) == reply' = [reply EXCEPT ![r] = code]

\* Slip: http.Error(401) without the return after it.
Authorize_anyway(r) ==
  /\ Goto(r, "received", "limiting")
  /\ UNCHANGED <<token, outcome, observed, reply, slots, metricVars, server>>

Authorize(r) ==
  /\ Authorized(r)
  /\ Goto(r, "received", "limiting")
  /\ UNCHANGED <<token, outcome, observed, reply, slots, metricVars, server>>

Unauthorized(r) ==
  /\ ~Authorized(r)
  /\ Goto(r, "received", "replied")
  /\ Answer(r, "unauthorized")
  /\ UNCHANGED <<token, outcome, observed, slots, metricVars, server>>

\* Slip: one slot too many.
Acquire_extra(r) ==
  /\ slots[Path[r]] <= MaxConcurrentRuns
  /\ Goto(r, "limiting", "admitted")
  /\ slots' = [slots EXCEPT ![Path[r]] = @ + 1]
  /\ UNCHANGED <<token, outcome, observed, reply, metricVars, server>>

\* case slots <- struct{}{}
Acquire(r) ==
  /\ slots[Path[r]] < MaxConcurrentRuns
  /\ Goto(r, "limiting", "admitted")
  /\ slots' = [slots EXCEPT ![Path[r]] = @ + 1]
  /\ UNCHANGED <<token, outcome, observed, reply, metricVars, server>>

\* Slip: shed one slot too early.
Shed_early(r) ==
  /\ slots[Path[r]] >= MaxConcurrentRuns - 1
  /\ Goto(r, "limiting", "replied")
  /\ Answer(r, "at_capacity")
  /\ overloadTotal' = overloadTotal + 1
  /\ UNCHANGED <<token, outcome, observed, slots, inflight, runsTotal, server>>

\* Slip: no default case, the caller waits for a slot behind the runs.
Shed_blocks(r) == FALSE /\ pc[r] = "limiting"

\* default: every slot is taken
Shed(r) ==
  /\ slots[Path[r]] = MaxConcurrentRuns
  /\ Goto(r, "limiting", "replied")
  /\ Answer(r, "at_capacity")
  /\ overloadTotal' = overloadTotal + 1
  /\ UNCHANGED <<token, outcome, observed, slots, inflight, runsTotal, server>>

IncInflight(r) ==
  /\ Goto(r, "admitted", "decoding")
  /\ inflight' = inflight + 1
  /\ UNCHANGED <<token, outcome, observed, reply, slots, overloadTotal, runsTotal, server>>

\* The deferred function: <-slots, and only then DecInflight.
ReleaseSlot(r) ==
  /\ Goto(r, "releasing", "uncounting")
  /\ slots' = [slots EXCEPT ![Path[r]] = @ - 1]
  /\ UNCHANGED <<token, outcome, observed, reply, metricVars, server>>

DecInflight(r) ==
  /\ Goto(r, "uncounting", "replied")
  /\ inflight' = inflight - 1
  /\ UNCHANGED <<token, outcome, observed, reply, slots, overloadTotal, runsTotal, server>>

-------------------------------------------------------------------------------
(***************************************************************************)
(* handler.run: decode, then execute or executeBatch.                      *)
(***************************************************************************)
\* decode accepts the body: valid JSON, known encoding, within every cap.
Decode(r) ==
  /\ Goto(r, "decoding", "executing")
  /\ UNCHANGED <<token, outcome, observed, reply, slots, metricVars, server>>

\* Slip: the release is not deferred, an early return goes past it.
DecodeFails_leaks(r) ==
  /\ Goto(r, "decoding", "replied")
  /\ Answer(r, "bad_request")
  /\ UNCHANGED <<token, outcome, observed, slots, metricVars, server>>

\* Slip: http.Error(400) without the return after it.
DecodeFails_goes_on(r) ==
  /\ Goto(r, "decoding", "executing")
  /\ Answer(r, "bad_request")
  /\ UNCHANGED <<token, outcome, observed, slots, metricVars, server>>

\* decode (or the missing language check after it) answers 400 and returns.
DecodeFails(r) ==
  /\ Goto(r, "decoding", "releasing")
  /\ Answer(r, "bad_request")
  /\ UNCHANGED <<token, outcome, observed, slots, metricVars, server>>

\* svc.Run or svc.RunBatch returns a result.
Execute(r) ==
  /\ Goto(r, "executing", "observing")
  /\ \E o \in {p \in Outcomes : p.status # "rejected"} :
        outcome' = [outcome EXCEPT ![r] = o]
  /\ UNCHANGED <<token, observed, reply, slots, metricVars, server>>

\* svc.Run or svc.RunBatch returns a ValidationError or ErrUnsupportedLanguage.
Reject(r) ==
  /\ \E o \in Outcomes : o.status = "rejected"
  /\ Goto(r, "executing", "releasing")
  /\ Answer(r, "bad_request")
  /\ UNCHANGED <<token, outcome, observed, slots, metricVars, server>>

\* The statuses the handler feeds to ObserveRun, one call each: the run's own,
\* every input's of a batch, or the envelope's when the batch has no results.
Series(o) == IF o.results = << >> THEN <<o.status>> ELSE o.results

ObserveRun(r) ==
  /\ Alive
  /\ pc[r] = "observing"
  /\ observed[r] < Len(Series(outcome[r]))
  /\ observed' = [observed EXCEPT ![r] = @ + 1]
  /\ runsTotal' = [runsTotal EXCEPT ![Series(outcome[r])[observed[r] + 1]] = @ + 1]
  /\ UNCHANGED <<pc, token, outcome, reply, slots, inflight, overloadTotal, server>>

\* 503 + Retry-After for a failure of the runner's own, else 200.
Code(o) == IF o.status = "internal_error" THEN "retry_later" ELSE "ok"

\* Slip: a return inside the loop over the results.
Encode_early(r) ==
  /\ observed[r] >= 1
  /\ Goto(r, "observing", "releasing")
  /\ Answer(r, Code(outcome[r]))
  /\ UNCHANGED <<token, outcome, observed, slots, metricVars, server>>

Encode(r) ==
  /\ observed[r] = Len(Series(outcome[r]))
  /\ Goto(r, "observing", "releasing")
  /\ Answer(r, Code(outcome[r]))
  /\ UNCHANGED <<token, outcome, observed, slots, metricVars, server>>

-------------------------------------------------------------------------------
(***************************************************************************)
(* Server.ListenAndServe and main.  Leaving the process stops every        *)
(* goroutine where it is: no action of a request is enabled any more.      *)
(***************************************************************************)
Become(from, to) == /\ server = from
                    /\ server' = to
                    /\ UNCHANGED <<requestVars, slots, metricVars>>

\* ctx.Done: SIGINT or SIGTERM; Shutdown closes the listener.
Signal == Become("serving", "polling")

\* The listener fails before any signal: the error goes to main.
ListenerFails == Become("serving", "exit_1")

\* Slip: Close instead of Shutdown.
Drained_at_once == Become("polling", "exit_0")

\* Shutdown polls: with no active connection it returns nil and main returns.
Drained == Active = {} /\ Become("polling", "exit_0")
StillActive == Active # {} /\ Become("polling", "waiting")

\* Between two polls it waits for the poll timer or for the grace to expire,
\* whichever its select takes; the latter's error goes to main.
PollAgain == Become("waiting", "polling")

\* Slip: Shutdown(context.Background()).
GraceExpires_never == FALSE

GraceExpires == Become("waiting", "exit_1")

\* The process is gone.
Stopped == server \in Exited /\ UNCHANGED vars

Request_(r) ==
  \/ Connect(r) \/ Receive(r) \/ Drop(r) \/ Flush(r)
  \/ Authorize(r) \/ Unauthorized(r) \/ Acquire(r) \/ Shed(r)
  \/ IncInflight(r) \/ ReleaseSlot(r) \/ DecInflight(r)
  \/ Decode(r) \/ DecodeFails(r) \/ Execute(r) \/ Reject(r)
  \/ ObserveRun(r) \/ Encode(r)

Next == \/ \E r \in Request : Request_(r)
        \/ Signal \/ ListenerFails \/ Drained \/ StillActive
        \/ PollAgain \/ GraceExpires \/ Stopped

Spec == Init /\ [][Next]_vars

(***************************************************************************)
(* Fairness.  The Go scheduler runs every goroutine that can run; Shutdown *)
(* closes a connection that stays silent; its poll timer fires, and so,    *)
(* once, does the grace, after which the select of Shutdown finds it ready *)
(* at every round (a Go select is a fair choice).  Nothing makes a run     *)
(* return, an operator send SIGTERM, or a client do its part: only         *)
(* ReadHeaderTimeout is set, so a client that stalls in the middle of its  *)
(* body keeps decode waiting, and one that does not read its response      *)
(* keeps Encode or the final flush waiting, without a limit.               *)
(***************************************************************************)
HandlerStep(r) ==
  \/ Authorize(r) \/ Unauthorized(r) \/ Acquire(r) \/ Shed(r)
  \/ IncInflight(r) \/ ReleaseSlot(r) \/ DecInflight(r) \/ ObserveRun(r)

ShutdownFairness == /\ WF_vars(Drained \/ StillActive)
                    /\ WF_vars(PollAgain)
                    /\ SF_vars(GraceExpires)

HandlerFairness == \A r \in Request : WF_vars(HandlerStep(r)) /\ WF_vars(Drop(r))

FairSpec == Spec /\ HandlerFairness /\ ShutdownFairness

-------------------------------------------------------------------------------
(***************************************************************************)
(* Properties.                                                             *)
(***************************************************************************)
\* The types of the state (Metrics' counters, the limiter's channel, the
\* per-request program counters).
TypeOK ==
  /\ pc \in [Request -> Step]
  /\ token \in [Request -> Tokens]
  /\ outcome \in [Request -> Outcomes \union {NoOutcome}]
  /\ observed \in [Request -> Nat]
  /\ reply \in [Request -> Reply \union {NoReply}]
  /\ slots \in [Paths -> 0 .. MaxConcurrentRuns]
  /\ inflight \in Int
  /\ overloadTotal \in Nat
  /\ runsTotal \in [Label -> Nat]
  /\ server \in {"serving", "polling", "waiting"} \union Exited

\* A path's channel holds exactly one token for every request of the path
\* between its acquire and its deferred release: no early return of the handler
\* leaks a slot and none gives back a slot it does not hold (LimitConcurrency).
SlotAccounting == \A p \in Paths : slots[p] = Cardinality(HoldingOn(p))

\* The two limiters together admit at most twice the configured number: what
\* bounds the load of the container (New, LimitConcurrency).
LoadBounded == Cardinality(Holding) <= 2 * MaxConcurrentRuns

\* middleware.go:44 "LimitConcurrency bounds how many executions run at once":
\* config.go's MaxConcurrentRuns is the number of runs in flight.
OneLimitForAll == Cardinality(Holding) <= MaxConcurrentRuns

\* The gauge is exactly the number of requests between IncInflight and
\* DecInflight, so it returns to zero when the server is idle and never goes
\* negative, whatever the interleaving (LimitConcurrency, metrics.addInflight).
GaugeAccounting == inflight = Cardinality(Counted)

\* Only a caller that passed RequireTokens ever occupies a slot or reaches the
\* executor: an unauthenticated flood cannot use up the capacity (New's gate).
SlotsOnlyForAuthorized ==
  \A r \in Request : r \in Holding \/ outcome[r] # NoOutcome => Authorized(r)

\* Exit status 0 means a complete drain: every request that was received has
\* been answered and has handed everything back (ListenAndServe, main).
CleanExit ==
  server = "exit_0" => /\ \A r \in Request : pc[r] \in {"idle", "done", "gone"}
                       /\ inflight = 0 /\ \A p \in Paths : slots[p] = 0

AnsweredWith(s) ==   \* the results in a response that have status s
  UNION {{r} \X {i \in DOMAIN Series(outcome[r]) : Series(outcome[r])[i] = s} :
           r \in {q \in Request : reply[q] \in {"ok", "retry_later"}}}

\* When no handler is at work the counters tell exactly what was answered:
\* every result in a response, each input of a batch included, was counted
\* once under its status, and every load-shed once (execute, executeBatch).
MetricsMatchAnswers ==
  /\ overloadTotal = Cardinality({r \in Request : reply[r] = "at_capacity"})
  /\ Counted = {} => \A s \in Label : runsTotal[s] = Cardinality(AnsweredWith(s))

\* A response once given is never replaced by another: no path of the handler
\* chain answers twice (http.Error followed by return, everywhere).
AnswerOnce ==
  [][\A r \in Request : reply[r] # NoReply => reply'[r] = reply[r]]_vars

\* What a handler may wait for without a limit: the rest of the body, the
\* executor, room for the response (in Encode, or when it is flushed).
AwaitsClient(r) == \/ pc[r] \in {"decoding", "replied"}
                   \/ pc[r] = "observing" /\ observed[r] = Len(Series(outcome[r]))

\* A request that has been received is answered and its connection released,
\* unless its own run hangs, its own client stalls for ever, or the process
\* exits: no other request, and nothing the server does itself, can keep it
\* (handler.run and its middleware).
EveryRequestAnswered ==
  \A r \in Request :
     pc[r] = "received" ~> \/ pc[r] = "done" /\ reply[r] # NoReply
                           \/ [](pc[r] = "executing")
                           \/ [](AwaitsClient(r))
                           \/ ~Alive

\* After SIGTERM the process exits, even when runs never return: the grace
\* bounds the drain (ListenAndServe).
ShutdownTerminates == server = "polling" ~> ~Alive

(***************************************************************************)
(* The gate of a path implements Admission, for the callers of that path.  *)
(***************************************************************************)
Standing(r) == CASE r \in Holding -> "inside"
                 [] pc[r] \in {"idle", "connected", "received", "limiting"} -> "outside"
                 [] reply[r] = "at_capacity" -> "shed"
                 [] reply[r] = "unauthorized" \/ pc[r] = "gone" -> "refused"
                 [] OTHER -> "left"

Callers(p) == {r \in Request : Path[r] = p}
StandingOn(p) == [r \in Callers(p) |-> Standing(r)]

RunGate == INSTANCE Admission WITH Request  <- Callers("run"),
                                   Capacity <- MaxConcurrentRuns,
                                   standing <- StandingOn("run")

PythonGate == INSTANCE Admission WITH Request  <- Callers("run_python"),
                                      Capacity <- MaxConcurrentRuns,
                                      standing <- StandingOn("run_python")

\* Each path's gate keeps Admission's promise: a place is taken only while one
\* is free and a caller is shed only while none is (RequireTokens,
\* LimitConcurrency).
ImplementsAdmission == RunGate!Spec /\ PythonGate!Spec
================================================================================
