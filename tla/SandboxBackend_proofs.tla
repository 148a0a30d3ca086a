------------------------- MODULE SandboxBackend_proofs -------------------------
(***************************************************************************)
(* Theorems about SandboxBackend, for any number of runs, every host,      *)
(* every setting and any tokens: require and a production omission fail    *)
(* closed, auto takes the best the host has, the gates of production are   *)
(* shut, and a refused run keeps /readyz unready.                          *)
(***************************************************************************)
EXTENDS SandboxBackend, FiniteSetTheorems, TLAPS

\* What Load makes of the settings (the Config literal).
TheDials == [sandbox |-> normalizePolicy(env.sandbox),
             network |-> normalizePolicy(env.network),
             cgroup |-> normalizePolicy(cgroupPolicy),
             readyRequiresNsjail |-> readyRequiresNsjail]

\* Past Load the dials are its own, and in production both token sets passed.
Loaded ==
  {env.network, env.cgroup} \subseteq Setting /\ (boot \in {"probing", "configured", "up"} =>
    /\ dials = TheDials
    /\ ~env.development => /\ tokens.service # {} /\ tokens.service \subseteq Strong
                           /\ tokens.metrics \subseteq Strong
                           /\ boot = "up" => tokens.metrics # {})

\* What a backend that is there owes to the dials (Configure).
Configured ==
  boot \in {"configured", "up"} =>
    /\ dials.sandbox = "require" => backend.kind = "nsjail"
    /\ dials.network = "require" => backend.isolated
    /\ dials.cgroup = "require" => backend.manager /\ backend.kind = "nsjail"
    /\ "invalid" \notin {dials.sandbox, dials.cgroup}
    /\ dials.network = "invalid" => backend.kind = "nsjail"

\* No run before the boot is over, one refused run sets the flag for good, and
\* a run is outside a cgroup only when nobody required one (Command).
Runs ==
  /\ run \in [Run -> {"new", "refused", "contained", "unaccounted"}]
  /\ boot # "up" => answer = "none" /\ \A r \in Run : run[r] = "new"
  /\ \A r \in Run : run[r] = "refused" => cgroupFailed
  /\ \A r \in Run : run[r] = "unaccounted" => dials.cgroup # "require"

\* /readyz has said ready only as its setting allows (handler.ready).
Answered == answer = "ready" => (dials.readyRequiresNsjail => backend.kind = "nsjail")

IInv == Loaded /\ Configured /\ AutoTakesTheBest /\ Runs /\ Answered

\* The three outcomes of Configure and when each of them comes.
LEMMA Outcome ==
  ASSUME Configure
  PROVE
    \/ boot' = "refused" /\ backend' = backend
    \/ /\ boot' = "configured" /\ backend'.kind = "nsjail" /\ backend'.isolated
       /\ dials.cgroup # "invalid" /\ dials.sandbox \in {"auto", "require"}
       /\ dials.cgroup = "require" => host.cgroup
       /\ backend'.manager = (dials.cgroup # "off" /\ host.cgroup)
    \/ /\ boot' = "configured" /\ backend'.kind = "netns"
       /\ dials.cgroup \notin {"invalid", "require"} /\ dials.sandbox \in {"off", "auto"}
       /\ dials.sandbox = "auto" => ~host.nsjail
       /\ dials.network # "invalid" /\ (dials.network = "require" => host.userns)
       /\ backend'.isolated = (dials.network \in {"auto", "require"} /\ host.userns)
<1>1. CASE Refuse
  BY <1>1 DEF Refuse
<1>2. CASE ConfigureNsjail /\ dials.cgroup # "invalid" /\ dials.sandbox \in {"auto", "require"}
  <2> DEFINE up == [kind |-> "nsjail", isolated |-> TRUE,
                    manager |-> dials.cgroup # "off" /\ host.cgroup]
  <2>1. Refuse \/ ((dials.cgroup = "require" => host.cgroup)
                    /\ boot' = "configured" /\ backend' = up)
    BY <1>2 DEF ConfigureNsjail, Up
  <2>2. up.kind = "nsjail" /\ up.isolated /\ up.manager = (dials.cgroup # "off" /\ host.cgroup)
    OBVIOUS
  <2> HIDE DEF up
  <2> QED  BY <1>1, <1>2, <2>1, <2>2
<1>3. CASE /\ ConfigureNetns /\ dials.cgroup \notin {"invalid", "require"}
           /\ dials.sandbox \in {"off", "auto"} /\ (dials.sandbox = "auto" => ~host.nsjail)
  <2> DEFINE isolated == dials.network \in {"auto", "require"} /\ host.userns
             up == [kind |-> "netns", isolated |-> isolated, manager |-> FALSE]
  <2>1. Refuse \/ (/\ dials.network # "invalid" /\ (dials.network = "require" => host.userns)
                   /\ boot' = "configured" /\ backend' = up)
    BY <1>3 DEF ConfigureNetns, Up
  <2>2. up.kind = "netns" /\ up.isolated = isolated
    OBVIOUS
  <2> HIDE DEF up
  <2> QED  BY <1>1, <1>3, <2>1, <2>2
<1> QED  BY <1>1, <1>2, <1>3 DEF Configure

\* The boot establishes it and no run spoils it.
LEMMA NextIInv == IInv /\ [Next]_vars => IInv'
<1> SUFFICES ASSUME IInv, [Next]_vars PROVE IInv'  OBVIOUS
<1> USE DEF IInv
<1>0. CASE Load
  <2>1. UNCHANGED <<env, host, backend, cgroupFailed, run, answer>> /\ boot = "loading"
    BY <1>0 DEF Load
  <2>2. CASE LoadFails
    <3>1. boot' = "refused"  BY <1>0, <2>2 DEF Load
    <3> QED  BY <2>1, <3>1 DEF Loaded, Configured, AutoTakesTheBest, Runs, Answered
  <2>3. CASE ~LoadFails
    <3> DEFINE got == [service |-> tokenSet(env.service), metrics |-> tokenSet(env.metrics)]
    <3>1. boot' = "probing" /\ dials' = TheDials /\ tokens' = got
      BY <1>0, <2>3 DEF Load, TheDials
    <3>2. TheDials' = TheDials
      BY <2>1 DEF TheDials, cgroupPolicy, readyRequiresNsjail
    <3>3. ~env.development => /\ tokenSet(env.service) # {} /\ tokenSet(env.service) \subseteq Strong
                              /\ tokenSet(env.metrics) \subseteq Strong
      BY <2>3 DEF LoadFails, requireStrongTokens
    <3>4. got.service = tokenSet(env.service) /\ got.metrics = tokenSet(env.metrics)
      OBVIOUS
    <3> HIDE DEF got
    <3>5. Loaded'  BY <2>1, <3>1, <3>2, <3>3, <3>4 DEF Loaded
    <3>6. Configured' /\ AutoTakesTheBest' /\ Runs' /\ Answered'
      BY <2>1, <3>1 DEF Configured, AutoTakesTheBest, Runs, Answered
    <3> QED  BY <3>5, <3>6
  <2> QED  BY <2>2, <2>3
<1>1. CASE Configure
  <2>1. /\ UNCHANGED <<env, host, dials, tokens, cgroupFailed, run, answer>>
        /\ boot = "probing" /\ boot' \in {"refused", "configured"}
    BY <1>1, Outcome DEF Configure
  <2>2. Loaded'
    BY <2>1 DEF Loaded, TheDials, cgroupPolicy, readyRequiresNsjail
  <2>3. Configured' /\ AutoTakesTheBest'
    <3>1. dials.network \in Dial
      <4>1. dials.network = normalizePolicy(env.network) /\ env.network \in Setting
        BY <2>1 DEF Loaded, TheDials
      <4> QED  BY <4>1 DEF normalizePolicy, Setting, Dial
    <3>2. Configured'  BY <1>1, <2>1, Outcome DEF Configured
    <3>3. AutoTakesTheBest'  BY <1>1, <2>1, <3>1, Outcome DEF AutoTakesTheBest, Dial
    <3> QED  BY <3>2, <3>3
  <2>4. Runs' /\ Answered'
    BY <2>1 DEF Runs, Answered
  <2> QED  BY <2>2, <2>3, <2>4
<1>2. CASE New
  <2> DEFINE shared == [tokens EXCEPT !.metrics = tokens.service]
  <2>1. /\ UNCHANGED <<env, host, dials, backend, cgroupFailed, run, answer>>
        /\ boot = "configured" /\ boot' = "up"
        /\ tokens' = IF tokens.metrics = {} THEN [tokens EXCEPT !.metrics = tokens.service]
                     ELSE tokens
    BY <1>2 DEF New
  <2>2. Loaded'
    <3>1. dials' = TheDials'
      BY <2>1 DEF Loaded, TheDials, cgroupPolicy, readyRequiresNsjail
    <3>2. ASSUME ~env.development
          PROVE  /\ tokens'.service # {} /\ tokens'.service \subseteq Strong
                 /\ tokens'.metrics # {} /\ tokens'.metrics \subseteq Strong
      BY <2>1, <3>2 DEF Loaded
    <3> QED  BY <2>1, <3>1, <3>2 DEF Loaded
  <2>3. Configured' /\ AutoTakesTheBest' /\ Runs' /\ Answered'
    BY <2>1 DEF Configured, AutoTakesTheBest, Runs, Answered
  <2> QED  BY <2>2, <2>3
<1>3. CASE Ready
  <2>1. UNCHANGED <<env, host, boot, dials, tokens, backend, cgroupFailed, run>> /\ boot = "up"
    BY <1>3 DEF Ready
  <2>2. Loaded' /\ Configured' /\ AutoTakesTheBest' /\ Runs'
    BY <2>1 DEF Loaded, TheDials, cgroupPolicy, readyRequiresNsjail, Configured,
                AutoTakesTheBest, Runs
  <2>3. Answered'  BY <1>3, <2>1 DEF Ready, IsReady, Answered
  <2> QED  BY <2>2, <2>3
<1>4. ASSUME NEW r \in Run, Contain(r) \/ CgroupFails(r) PROVE IInv'
  <2>1. UNCHANGED <<env, host, boot, dials, tokens, backend, answer>> /\ boot = "up"
    BY <1>4 DEF Contain, CgroupFails
  <2>2. Loaded' /\ Configured' /\ AutoTakesTheBest' /\ Answered'
    BY <2>1 DEF Loaded, TheDials, cgroupPolicy, readyRequiresNsjail, Configured,
                AutoTakesTheBest, Answered
  <2>3. backend.manager \/ dials.cgroup # "require"  BY <2>1 DEF Configured
  <2>4. Runs'
    <3>1. CASE Contain(r)  BY <2>1, <2>3, <3>1 DEF Contain, Becomes, Runs
    <3>2. CASE CgroupFails(r)  BY <2>1, <3>2 DEF CgroupFails, Becomes, Runs
    <3> QED  BY <1>4, <3>1, <3>2
  <2> QED  BY <2>2, <2>4
<1>5. CASE UNCHANGED vars
  BY <1>5 DEF vars, Loaded, TheDials, cgroupPolicy, readyRequiresNsjail, Configured,
              AutoTakesTheBest, Runs, Answered
<1> QED  BY <1>0, <1>1, <1>2, <1>3, <1>4, <1>5 DEF Next, Exited

\* Every behaviour keeps it.
LEMMA Invariance == Spec => []IInv
<1>1. Init => IInv
  BY DEF Init, IInv, Loaded, Configured, AutoTakesTheBest, Runs, Answered
<1> QED  BY <1>1, NextIInv, PTL DEF Spec

-------------------------------------------------------------------------------
\* What a dial set to require promises is there for every run, from boot to
\* the last (Configure, resolveCgroup, Command).
THEOREM FailsClosed == Spec => []RequireFailsClosed
<1>1. IInv => RequireFailsClosed
  <2> SUFFICES ASSUME IInv, NEW r \in Run, run[r] \in {"contained", "unaccounted"}
               PROVE  /\ dials.sandbox = "require" => backend.kind = "nsjail"
                      /\ dials.network = "require" => backend.isolated
                      /\ dials.cgroup = "require" => run[r] = "contained"
    BY DEF RequireFailsClosed
  <2>1. boot = "up"  BY DEF IInv, Runs
  <2> QED  BY <2>1 DEF IInv, Configured, Runs
<1> QED  BY <1>1, Invariance, PTL

\* Only the operator's own off, or the host's want, weakens containment
\* (Configure).
THEOREM BestIsTaken == Spec => []AutoTakesTheBest
<1>1. IInv => AutoTakesTheBest  BY DEF IInv
<1> QED  BY <1>1, Invariance, PTL

\* A runner that is up has no dial it did not understand, but for the one it
\* did not need (Configure).
THEOREM InvalidStops == Spec => []InvalidDialStopsBoot
<1>1. IInv => InvalidDialStopsBoot  BY DEF IInv, Configured, InvalidDialStopsBoot
<1> QED  BY <1>1, Invariance, PTL

\* Both gates of a production runner are shut, and with strong tokens only
\* (Load, New).
THEOREM ProductionIsGated == Spec => []GatedInProduction
<1>1. IInv => GatedInProduction  BY DEF IInv, Loaded, GatedInProduction
<1> QED  BY <1>1, Invariance, PTL

\* A production run starts below an nsjail with a leaf of its own only when the
\* operator said so, and /readyz says ready of less than nsjail only when it was
\* told to, whatever else is omitted (cgroupPolicy, readyRequiresNsjail).
THEOREM OmissionsFailClosed == Spec => []OmissionFailsClosed
<1>1. IInv => OmissionFailsClosed
  <2> SUFFICES ASSUME IInv PROVE OmissionFailsClosed  OBVIOUS
  <2>1. ASSUME NEW r \in Run, run[r] \in {"contained", "unaccounted"},
               run[r] = "unaccounted" \/ backend.kind # "nsjail", ~env.development
        PROVE  env.cgroup \in {"auto", "off"}
    <3>1. boot = "up"  BY <2>1 DEF IInv, Runs
    <3>2. dials.cgroup \notin {"require", "invalid"}
      BY <2>1, <3>1 DEF IInv, Configured, Runs
    <3>3. dials.cgroup = normalizePolicy(cgroupPolicy) /\ env.cgroup \in Setting
      BY <3>1 DEF IInv, Loaded, TheDials
    <3>4. env.cgroup # "unset"
      BY <2>1, <3>2, <3>3 DEF normalizePolicy, cgroupPolicy
    <3> QED  BY <3>2, <3>3, <3>4 DEF normalizePolicy, cgroupPolicy, Setting, Dial
  <2>2. ASSUME env.ready # "none", answer = "ready" PROVE backend.kind = "nsjail"
    <3>1. boot = "up"  BY <2>2 DEF IInv, Runs
    <3>2. dials.readyRequiresNsjail
      <4>1. readyRequiresNsjail = TRUE  BY <2>2 DEF readyRequiresNsjail
      <4>2. TheDials.readyRequiresNsjail = readyRequiresNsjail  BY DEF TheDials
      <4>3. dials = TheDials  BY <3>1 DEF IInv, Loaded
      <4> QED  BY <4>1, <4>2, <4>3
    <3> QED  BY <2>2, <3>2 DEF IInv, Answered
  <2> QED  BY <2>1, <2>2 DEF OmissionFailsClosed
<1> QED  BY <1>1, Invariance, PTL

\* A misspelt dial stops the boot where it is consulted, and no omitted one
\* weakens a production run without an explicit RUNNER_CGROUP (Configure,
\* cgroupPolicy, readyRequiresNsjail).
THEOREM MistakesAreSafe == Spec => []MistakesFailClosed
<1>1. InvalidDialStopsBoot /\ OmissionFailsClosed => MistakesFailClosed
  BY DEF MistakesFailClosed
<1> QED  BY <1>1, InvalidStops, OmissionsFailClosed, PTL

\* Once a run was refused for want of a required cgroup, /readyz never says
\* ready again (Ready, handler.ready).
THEOREM RefusalSticks == Spec => RefusalIsSticky
<1>1. IInv /\ [Next]_vars =>
        [(\E r \in Run : run[r] = "refused") /\ answer' # answer => answer' = "unready"]_vars
  <2> SUFFICES ASSUME IInv, [Next]_vars, \E r \in Run : run[r] = "refused", answer' # answer
               PROVE  answer' = "unready"
    OBVIOUS
  <2>1. Ready
    BY DEF Next, vars, Load, Configure, New, Contain, CgroupFails, Exited
  <2>2. cgroupFailed  BY DEF IInv, Runs
  <2> QED  BY <2>1, <2>2 DEF Ready, IsReady
<1> QED  BY <1>1, Invariance, PTL DEF Spec, RefusalIsSticky

-------------------------------------------------------------------------------
\* Of tokens that are no more different ones than the cap, none is dropped, and
\* none that was not written is ever taken (tokenSet).
LEMMA TokensTaken ==
  ASSUME NEW T, NEW written \in Seq(T)
  PROVE  /\ tokenSet(written) \subseteq ToSet(written)
         /\ Cardinality(ToSet(written)) <= maxTokens => tokenSet(written) = ToSet(written)
<1>1. tokenSet(written) \subseteq ToSet(written)
  BY DEF tokenSet, ToSet
<1>2. ASSUME Cardinality(ToSet(written)) <= maxTokens, NEW k \in DOMAIN written
      PROVE  Cardinality({written[j] : j \in 1 .. k}) <= maxTokens
  <2> DEFINE first == {written[j] : j \in 1 .. k}
             all == ToSet(written)
  <2>1. DOMAIN written = 1 .. Len(written) /\ Len(written) \in Nat  OBVIOUS
  <2>2. IsFiniteSet(all)
    <3>1. IsFiniteSet(1 .. Len(written))  BY <2>1, FS_Interval
    <3>2. written \in Surjection(1 .. Len(written), all)
      BY <2>1 DEF ToSet, Surjection
    <3> HIDE DEF all
    <3> QED  BY <3>1, <3>2, FS_Surjection
  <2>3. first \subseteq all  BY <2>1 DEF ToSet
  <2> HIDE DEF first, all
  <2>4. /\ Cardinality(first) \in Nat /\ Cardinality(all) \in Nat
        /\ Cardinality(first) <= Cardinality(all)
    BY <2>2, <2>3, FS_Subset, FS_CardinalityType
  <2> QED  BY <1>2, <2>4, BackendAssumption DEF first, all
<1>3. ASSUME Cardinality(ToSet(written)) <= maxTokens
      PROVE  ToSet(written) \subseteq tokenSet(written)
  BY <1>2, <1>3 DEF tokenSet, ToSet
<1> QED  BY <1>1, <1>3

\* The service gate keeps what Load took of the operator's settings.
Kept == /\ env.service \in ServiceEnv
        /\ boot \in {"probing", "configured", "up"} => tokens.service = tokenSet(env.service)

\* A rotation goes through: every token the operator wrote is good, up to the
\* cap, and nothing else ever is (tokenSet, unionTokens).
THEOREM RotationsGoThrough == Spec => []WrittenTokensAreGood
<1>1. Init => Kept  BY DEF Init, Kept
<1>2. Kept /\ [Next]_vars => Kept'
  <2> SUFFICES ASSUME Kept, [Next]_vars PROVE Kept'  OBVIOUS
  <2>1. env' = env  BY DEF Next, vars, Load, Configure, New, Ready, Contain, CgroupFails, Exited
  <2>2. CASE Load
    <3>1. \/ boot' = "refused"
          \/ tokens' = [service |-> tokenSet(env.service), metrics |-> tokenSet(env.metrics)]
      BY <2>2 DEF Load
    <3> QED  BY <2>1, <3>1 DEF Kept
  <2>3. CASE New
    <3>1. /\ boot = "configured"
          /\ tokens' = IF tokens.metrics = {} THEN [tokens EXCEPT !.metrics = tokens.service]
                       ELSE tokens
      BY <2>3 DEF New
    <3>2. tokens'.service = tokens.service  BY <3>1
    <3> QED  BY <2>1, <3>1, <3>2 DEF Kept
  <2>4. CASE Configure
    BY <2>1, <2>4 DEF Configure, Kept
  <2>5. CASE UNCHANGED <<boot, tokens>>
    BY <2>1, <2>5 DEF Kept
  <2> QED
    BY <2>2, <2>3, <2>4, <2>5 DEF Next, vars, Ready, Contain, CgroupFails, Exited
<1>3. Kept => WrittenTokensAreGood
  <2> SUFFICES ASSUME Kept, boot = "up"
               PROVE  /\ tokens.service \subseteq ToSet(env.service)
                      /\ Cardinality(ToSet(env.service)) <= maxTokens
                           => tokens.service = ToSet(env.service)
    BY DEF WrittenTokensAreGood
  <2>1. env.service \in Seq(Strong \cup Weak)  BY BackendAssumption DEF Kept
  <2> QED  BY <2>1, TokensTaken DEF Kept
<1> QED  BY <1>1, <1>2, <1>3, PTL DEF Spec
================================================================================
