----------------------------- MODULE SandboxBackend -----------------------------
(***************************************************************************)
(* From the environment to a gated, contained run: Load reads the          *)
(* operator's settings, Configure chooses the containment backend over     *)
(* three dials and what the host can do, New builds the two token gates,   *)
(* then Command comes once per run, and /readyz says what became of it.    *)
(***************************************************************************)
EXTENDS FiniteSets, SequencesExt

CONSTANTS Run,                     \* the runs of a behaviour
          Strong, Weak,            \* tokens of minTokenBytes and more, and shorter ones
          maxTokens,
          ServiceEnv, MetricsEnv   \* the tokens in the two variables of each gate, in order

ASSUME BackendAssumption ==
  /\ IsFiniteSet(Run) /\ maxTokens \in Nat \ {0}
  /\ Strong \cap Weak = {}
  /\ ServiceEnv \cup MetricsEnv \subseteq Seq(Strong \cup Weak)

Dial == {"off", "auto", "require", "invalid"}      \* after normalizePolicy
Setting == Dial \cup {"unset"}                     \* as the operator left it

VARIABLES env,         \* what the operator set
          host,        \* what works on this host at boot
          boot,        \* loading, probing, configured, up, refused
          dials,       \* [sandbox, network, cgroup : Dial], and readiness
          tokens,      \* the sets RequireTokens is given, for /run and /metrics
          backend,     \* [kind, isolated, manager], once configured
          cgroupFailed,\* the sticky flag of nsjailSandbox
          run,         \* each run: new, refused, contained, unaccounted
          answer       \* the last answer of /readyz

vars == <<env, host, boot, dials, tokens, backend, cgroupFailed, run, answer>>

None == [kind |-> "none", isolated |-> FALSE, manager |-> FALSE]
Unset == [sandbox |-> "off", network |-> "off", cgroup |-> "off",
          readyRequiresNsjail |-> FALSE]

Init == /\ env \in [development : BOOLEAN, service : ServiceEnv, metrics : MetricsEnv,
                    sandbox : Setting, network : Setting, cgroup : Setting,
                    ready : {"unset", "none", "invalid"}]
        /\ host \in [nsjail : BOOLEAN, userns : BOOLEAN, cgroup : BOOLEAN]
        /\ boot = "loading" /\ dials = Unset /\ backend = None
        /\ tokens = [service |-> {}, metrics |-> {}]
        /\ cgroupFailed = FALSE
        /\ run = [r \in Run |-> "new"]
        /\ answer = "none"

-------------------------------------------------------------------------------
(***************************************************************************)
(* config.Load and httpapi.New.                                            *)
(***************************************************************************)
\* Slip: a repeated token takes a place.
tokenSet_repeats(written) == {written[i] : i \in {k \in DOMAIN written : k <= maxTokens}}

\* Each token once, in order, up to the cap: a token is taken where it and those
\* before it are no more than maxTokens different ones.  New makes the same set
\* of them (unionTokens).
tokenSet(written) ==
  {written[i] : i \in {k \in DOMAIN written :
                        Cardinality({written[j] : j \in 1 .. k}) <= maxTokens}}

requireStrongTokens(written) == tokenSet(written) \subseteq Strong

\* An omitted dial is auto.
normalizePolicy(setting) == IF setting = "unset" THEN "auto" ELSE setting

\* Slip: an omission means auto everywhere.
cgroupPolicy_auto == env.cgroup

\* But for this one, where an omission in production is require.
cgroupPolicy == IF env.cgroup = "unset" /\ ~env.development THEN "require" ELSE env.cgroup

\* Anything but the words that relax it requires nsjail.
readyRequiresNsjail == env.ready # "none"

LoadFails == /\ ~env.development
             /\ \/ tokenSet(env.service) = {}
                \/ ~requireStrongTokens(env.service)
                \/ ~requireStrongTokens(env.metrics)

Load ==
  /\ boot = "loading"
  /\ IF LoadFails
       THEN boot' = "refused" /\ UNCHANGED <<dials, tokens>>
       ELSE /\ boot' = "probing"
            /\ dials' = [sandbox |-> normalizePolicy(env.sandbox),
                         network |-> normalizePolicy(env.network),
                         cgroup |-> normalizePolicy(cgroupPolicy),
                         readyRequiresNsjail |-> readyRequiresNsjail]
            /\ tokens' = [service |-> tokenSet(env.service), metrics |-> tokenSet(env.metrics)]
  /\ UNCHANGED <<env, host, backend, cgroupFailed, run, answer>>

\* Slip: the metrics gate has its own tokens or none.
New_separate ==
  /\ boot = "configured"
  /\ boot' = "up"
  /\ UNCHANGED <<env, host, dials, tokens, backend, cgroupFailed, run, answer>>

\* The routes get their gates, /metrics falling back to the service tokens.
New ==
  /\ boot = "configured"
  /\ boot' = "up"
  /\ tokens' = IF tokens.metrics = {} THEN [tokens EXCEPT !.metrics = tokens.service]
                                     ELSE tokens
  /\ UNCHANGED <<env, host, dials, backend, cgroupFailed, run, answer>>

-------------------------------------------------------------------------------
(***************************************************************************)
(* Configure.                                                              *)
(***************************************************************************)
Up(b) == boot' = "configured" /\ backend' = b
Refuse == boot' = "refused" /\ UNCHANGED backend

\* Slip: auto does not probe.
ConfigureNetns_unprobed ==
  LET isolated == dials.network = "require" /\ host.userns
  IN IF dials.network = "invalid" \/ (dials.network = "require" /\ ~host.userns)
       THEN Refuse
       ELSE Up([kind |-> "netns", isolated |-> isolated, manager |-> FALSE])

\* configureNetns
ConfigureNetns ==
  LET isolated == dials.network \in {"auto", "require"} /\ host.userns
  IN IF dials.network = "invalid" \/ (dials.network = "require" /\ ~host.userns)
       THEN Refuse
       ELSE Up([kind |-> "netns", isolated |-> isolated, manager |-> FALSE])

\* tryNsjail has succeeded; resolveCgroup
ConfigureNsjail ==
  LET manager == dials.cgroup # "off" /\ host.cgroup
  IN IF dials.cgroup = "require" /\ ~host.cgroup
       THEN Refuse
       ELSE Up([kind |-> "nsjail", isolated |-> TRUE, manager |-> manager])

Configure ==
  /\ boot = "probing"
  /\ \/ dials.cgroup = "invalid" /\ Refuse
     \/ /\ dials.cgroup # "invalid" /\ dials.sandbox = "invalid"
        /\ Refuse
     \/ /\ dials.cgroup # "invalid" /\ dials.sandbox = "off"
        /\ IF dials.cgroup = "require" THEN Refuse ELSE ConfigureNetns
     \/ /\ dials.cgroup # "invalid" /\ dials.sandbox \in {"auto", "require"}
        /\ IF host.nsjail THEN ConfigureNsjail
           ELSE IF dials.sandbox = "require" \/ dials.cgroup = "require"
                  THEN Refuse ELSE ConfigureNetns
  /\ UNCHANGED <<env, host, dials, tokens, cgroupFailed, run, answer>>

-------------------------------------------------------------------------------
(***************************************************************************)
(* Command, for one run; the runs of several requests go on side by side.  *)
(***************************************************************************)
Becomes(r, how) == run' = [run EXCEPT ![r] = how]

\* The jail is built: within a cgroup leaf when there is a manager.
Contain(r) ==
  /\ boot = "up" /\ run[r] = "new"
  /\ Becomes(r, IF backend.manager THEN "contained" ELSE "unaccounted")
  /\ UNCHANGED <<env, host, boot, dials, tokens, backend, cgroupFailed, answer>>

\* Slip: the fallback of auto under require too.
CgroupFails_falls_back(r) ==
  /\ boot = "up" /\ run[r] = "new" /\ backend.manager
  /\ Becomes(r, "unaccounted")
  /\ UNCHANGED <<env, host, boot, dials, tokens, backend, cgroupFailed, answer>>

\* Slip: the flag is not kept.
CgroupFails_forgets(r) ==
  /\ boot = "up" /\ run[r] = "new" /\ backend.manager
  /\ Becomes(r, IF dials.cgroup = "require" THEN "refused" ELSE "unaccounted")
  /\ UNCHANGED <<env, host, boot, dials, tokens, backend, cgroupFailed, answer>>

\* cg.begin fails for this run.
CgroupFails(r) ==
  /\ boot = "up" /\ run[r] = "new" /\ backend.manager
  /\ IF dials.cgroup = "require"
       THEN Becomes(r, "refused") /\ cgroupFailed' = TRUE
       ELSE Becomes(r, "unaccounted") /\ UNCHANGED cgroupFailed
  /\ UNCHANGED <<env, host, boot, dials, tokens, backend, answer>>

\* GET /readyz
IsReady == /\ dials.readyRequiresNsjail => backend.kind = "nsjail"
           /\ ~cgroupFailed

Ready ==
  /\ boot = "up"
  /\ answer' = IF IsReady THEN "ready" ELSE "unready"
  /\ UNCHANGED <<env, host, boot, dials, tokens, backend, cgroupFailed, run>>

\* main exits 1 when Load or Configure returns an error.
Exited == boot = "refused" /\ UNCHANGED vars

Next == \/ Load \/ Configure \/ New \/ Ready \/ Exited
        \/ \E r \in Run : Contain(r) \/ CgroupFails(r)

Spec == Init /\ [][Next]_vars

-------------------------------------------------------------------------------
(***************************************************************************)
(* Properties.                                                             *)
(***************************************************************************)
\* What a dial set to require promises is there for every run, from boot to
\* the last: no run starts on a weaker backend, outside an empty network, or
\* (RUNNER_CGROUP=require) without a memory bound of its own, however the host
\* fails later (Configure, resolveCgroup, Command).
RequireFailsClosed ==
  \A r \in Run : run[r] \in {"contained", "unaccounted"} =>
    /\ dials.sandbox = "require" => backend.kind = "nsjail"
    /\ dials.network = "require" => backend.isolated
    /\ dials.cgroup = "require" => run[r] = "contained"

\* The host being capable, only the operator's own off weakens containment:
\* auto falls back for want of the capability, never past it (Configure).
AutoTakesTheBest ==
  boot \in {"configured", "up"} =>
    /\ dials.sandbox # "off" /\ host.nsjail => backend.kind = "nsjail"
    /\ backend.kind = "nsjail" /\ dials.cgroup # "off" /\ host.cgroup => backend.manager
    /\ dials.network # "off" /\ host.userns => backend.isolated

\* Once a run was refused for want of a required cgroup, /readyz never says
\* ready again, whatever the other runs do (Ready, handler.ready).
RefusalIsSticky ==
  [][(\E r \in Run : run[r] = "refused") /\ answer' # answer => answer' = "unready"]_vars

\* A dial with a value Configure does not know stops the boot.
\* sandbox_linux.go:36 netPolicy "is consulted only when nsjail is not the
\* active backend", so its own mistakes are seen only there.
InvalidDialStopsBoot ==
  boot = "up" => "invalid" \notin {dials.sandbox, dials.cgroup}
                 /\ (dials.network = "invalid" => backend.kind = "nsjail")

\* In production neither /run nor /metrics is ever open or behind a guessable
\* token, whatever the operator left out or repeated: README.md:325 "/metrics is
\* never public in production", config.go:107 (Load, tokenSet, New).
GatedInProduction ==
  boot = "up" /\ ~env.development =>
    /\ tokens.service # {} /\ tokens.service \subseteq Strong
    /\ tokens.metrics # {} /\ tokens.metrics \subseteq Strong

\* A rotation goes through: a token the operator wrote is good unless more
\* different ones than the cap were written, and nothing else ever is (tokenSet,
\* unionTokens).
WrittenTokensAreGood ==
  boot = "up" =>
    /\ tokens.service \subseteq ToSet(env.service)
    /\ Cardinality(ToSet(env.service)) <= maxTokens => tokens.service = ToSet(env.service)

\* An omitted RUNNER_SANDBOX or RUNNER_NETWORK_ISOLATION means auto, in
\* production too, and auto falls back.  What stands in for them is the omitted
\* RUNNER_CGROUP: a production run starts below an nsjail with a cgroup leaf of
\* its own only when the operator wrote auto or off into that variable.  And
\* whatever is or is not in RUNNER_READY_REQUIRES, unless it relaxes it /readyz
\* says ready of nsjail alone (cgroupPolicy, normalizePolicy, Configure,
\* readyRequiresNsjail).
OmissionFailsClosed ==
  /\ \A r \in Run : /\ run[r] \in {"contained", "unaccounted"}
                    /\ run[r] = "unaccounted" \/ backend.kind # "nsjail"
                    /\ ~env.development
                    => env.cgroup \in {"auto", "off"}
  /\ env.ready # "none" /\ answer = "ready" => backend.kind = "nsjail"

\* A misspelt dial of containment stops the boot where it is consulted, and an
\* omitted one weakens no production run by itself: that takes an explicit
\* RUNNER_CGROUP (Configure, cgroupPolicy, readyRequiresNsjail).
MistakesFailClosed == InvalidDialStopsBoot /\ OmissionFailsClosed
================================================================================
