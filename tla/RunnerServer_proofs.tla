-------------------------- MODULE RunnerServer_proofs --------------------------
(***************************************************************************)
(* Theorems about RunnerServer, for every set of requests, every capacity, *)
(* every token policy and everything the executor may return.              *)
(*                                                                         *)
(* The safety invariants rest on one inductive invariant, IInv: the types, *)
(* the two counts (of a path's channel and of the gauge), what the steps   *)
(* past the gate say of the caller and of the reply.                       *)
(***************************************************************************)
EXTENDS RunnerServer, FiniteSetTheorems, TLAPS

\* The steps of a request that occupy a slot, and those the gauge counts.
HeldSteps    == {"admitted", "decoding", "executing", "observing", "releasing"}
CountedSteps == {"decoding", "executing", "observing", "releasing", "uncounting"}

\* How many requests of C stand at a step of H.
At(C, f, H) == {q \in C : f[q] \in H}

\* r, and only r, moves: f becomes g.
Moves(f, g, r, to) == g = [f EXCEPT ![r] = to]

-------------------------------------------------------------------------------
(***************************************************************************)
(* Counting.  When one request moves, the number of requests in a region   *)
(* changes by what it enters less what it leaves.                          *)
(***************************************************************************)
\* Moving one request in or out of a region of steps changes its head count by
\* one, moving it within or outside the region leaves it (every Goto).
LEMMA Regroup ==
  ASSUME NEW D, IsFiniteSet(D), NEW C \in SUBSET D,
         NEW V, NEW f \in [D -> V], NEW H,
         NEW r \in D, NEW to \in V,
         NEW g, Moves(f, g, r, to)
  PROVE  /\ IsFiniteSet(At(C, f, H))
         /\ Cardinality(At(C, f, H)) \in Nat
         /\ r \in C /\ f[r] \in H => Cardinality(At(C, f, H)) > 0
         /\ Cardinality(At(C, g, H)) =
              Cardinality(At(C, f, H))
                + (IF r \in C /\ to \in H THEN 1 ELSE 0)
                - (IF r \in C /\ f[r] \in H THEN 1 ELSE 0)
<1> DEFINE old == At(C, f, H)
           new == At(C, g, H)
           enters == r \in C /\ to \in H
           leaves == r \in C /\ f[r] \in H
<1> USE DEF Moves
<1>1. IsFiniteSet(old) /\ Cardinality(old) \in Nat
  <2>1. old \in SUBSET D  BY DEF At
  <2> QED  BY <2>1, FS_Subset, FS_CardinalityType
<1>2. leaves <=> r \in old
  BY DEF At
<1>3. leaves => Cardinality(old) > 0
  <2> SUFFICES ASSUME leaves PROVE Cardinality(old) # 0  BY <1>1
  <2> QED  BY <1>1, <1>2, FS_EmptySet
<1>4. Cardinality(new) = Cardinality(old) + (IF enters THEN 1 ELSE 0)
                                          - (IF leaves THEN 1 ELSE 0)
  <2> HIDE DEF enters, leaves
  <2>1. CASE r \notin C
    <3>1. new = old /\ ~enters /\ ~leaves  BY <2>1 DEF At, enters, leaves
    <3> HIDE DEF new, old
    <3> QED  BY <3>1, <1>1
  <2>2. CASE enters
    <3>1. new = old \union {r}  BY <2>2 DEF At, enters
    <3> HIDE DEF new, old
    <3>2. Cardinality(new) = IF r \in old THEN Cardinality(old) ELSE Cardinality(old) + 1
      BY <3>1, <1>1, FS_AddElement
    <3> QED  BY <3>2, <2>2, <1>1, <1>2
  <2>3. CASE r \in C /\ ~enters
    <3>1. new = old \ {r}  BY <2>3 DEF At, enters
    <3> HIDE DEF new, old
    <3>2. Cardinality(new) = IF r \in old THEN Cardinality(old) - 1 ELSE Cardinality(old)
      BY <3>1, <1>1, FS_RemoveElement
    <3> QED  BY <3>2, <2>3, <1>1, <1>2
  <2> QED  BY <2>1, <2>2, <2>3 DEF enters
<1> QED  BY <1>1, <1>3, <1>4

\* The sets the model counts are such regions (Holding, Counted).
LEMMA Regions ==
  /\ \A p : HoldingOn(p) = At(Callers(p), pc, HeldSteps)
  /\ Counted = At(Request, pc, CountedSteps)
  /\ Holding = At(Request, pc, HeldSteps)
BY DEF HoldingOn, Holding, Counted, Callers, At, HeldSteps, CountedSteps

\* A request that moves changes the two counts by what it enters less what it
\* leaves, and one that stands in a region is counted there.
LEMMA Moved ==
  ASSUME TypeOK, SlotAccounting, GaugeAccounting,
         NEW r \in Request, NEW from \in Step, NEW to \in Step,
         Goto(r, from, to)
  PROVE  /\ \A p \in Paths :
              Cardinality(HoldingOn(p))' =
                slots[p] + (IF p = Path[r] /\ to \in HeldSteps THEN 1 ELSE 0)
                         - (IF p = Path[r] /\ from \in HeldSteps THEN 1 ELSE 0)
         /\ from \in HeldSteps => slots[Path[r]] > 0
         /\ Cardinality(Counted)' =
              inflight + (IF to \in CountedSteps THEN 1 ELSE 0)
                       - (IF from \in CountedSteps THEN 1 ELSE 0)
<1>1. /\ IsFiniteSet(Request)
      /\ pc \in [Request -> Step] /\ pc[r] = from /\ Moves(pc, pc', r, to)
      /\ Path[r] \in Paths
  BY ServerAssumption DEF TypeOK, Goto, Moves
<1>2. \A p : Callers(p) \in SUBSET Request /\ (r \in Callers(p) <=> p = Path[r])
  BY DEF Callers
<1>3. ASSUME NEW p \in Paths
      PROVE  /\ Cardinality(HoldingOn(p))' =
                  slots[p] + (IF p = Path[r] /\ to \in HeldSteps THEN 1 ELSE 0)
                           - (IF p = Path[r] /\ from \in HeldSteps THEN 1 ELSE 0)
             /\ p = Path[r] /\ from \in HeldSteps => slots[p] > 0
  <2>1. /\ slots[p] = Cardinality(At(Callers(p), pc, HeldSteps))
        /\ Cardinality(HoldingOn(p))' = Cardinality(At(Callers(p), pc', HeldSteps))
    BY Regions DEF SlotAccounting, HoldingOn, Holding, Callers, At, HeldSteps
  <2> DEFINE C == Callers(p)
             g == pc'
  <2>2. C \in SUBSET Request /\ Moves(pc, g, r, to)  BY <1>1, <1>2
  <2> HIDE DEF C, g
  <2>3. /\ r \in C /\ pc[r] \in HeldSteps => Cardinality(At(C, pc, HeldSteps)) > 0
        /\ Cardinality(At(C, g, HeldSteps)) =
             Cardinality(At(C, pc, HeldSteps))
               + (IF r \in C /\ to \in HeldSteps THEN 1 ELSE 0)
               - (IF r \in C /\ pc[r] \in HeldSteps THEN 1 ELSE 0)
    BY <1>1, <2>2, Regroup
  <2> QED  BY <1>1, <1>2, <2>1, <2>3 DEF C, g
<1>4. Cardinality(Counted)' =
        inflight + (IF to \in CountedSteps THEN 1 ELSE 0)
                 - (IF from \in CountedSteps THEN 1 ELSE 0)
  <2>1. /\ inflight = Cardinality(At(Request, pc, CountedSteps))
        /\ Cardinality(Counted)' = Cardinality(At(Request, pc', CountedSteps))
    BY Regions DEF GaugeAccounting, Counted, At, CountedSteps
  <2> DEFINE g == pc'
  <2>2. Moves(pc, g, r, to)  BY <1>1
  <2> HIDE DEF g
  <2>3. Cardinality(At(Request, g, CountedSteps)) =
          Cardinality(At(Request, pc, CountedSteps))
            + (IF r \in Request /\ to \in CountedSteps THEN 1 ELSE 0)
            - (IF r \in Request /\ pc[r] \in CountedSteps THEN 1 ELSE 0)
    BY <1>1, <2>2, Regroup
  <2> QED  BY <1>1, <2>1, <2>3 DEF g
<1> QED  BY <1>1, <1>3, <1>4

-------------------------------------------------------------------------------
(***************************************************************************)
(* The inductive invariant.                                                *)
(***************************************************************************)
\* Past the gate, and whoever the executor answered: an authorized caller.
Passed == \A r \in Request :
  pc[r] \in {"limiting", "uncounting"} \union HeldSteps \/ outcome[r] # NoOutcome
     => Authorized(r)

\* Nothing is answered before the handler chain decides, and a request on its
\* way out was answered by the handler, not by the gate.
RepliesFit == \A r \in Request :
  /\ pc[r] \in {"idle", "connected", "received", "limiting", "admitted",
                "decoding", "executing", "observing", "gone"} => reply[r] = NoReply
  /\ pc[r] \in {"releasing", "uncounting"} => reply[r] \in {"ok", "bad_request", "retry_later"}

IInv == /\ TypeOK
        /\ SlotAccounting
        /\ GaugeAccounting
        /\ Passed
        /\ RepliesFit
        /\ CleanExit

\* No request is counted or holds a slot at the start.
LEMMA InitIInv == Init => IInv
<1> SUFFICES ASSUME Init PROVE IInv  OBVIOUS
<1> USE ServerAssumption DEF Init
<1>1. TypeOK
  BY DEF TypeOK, Step, Reply, Exited, Label
<1>2. SlotAccounting
  <2>1. \A p \in Paths : HoldingOn(p) = {}  BY DEF HoldingOn, Holding
  <2> QED  BY <2>1, FS_EmptySet DEF SlotAccounting
<1>3. GaugeAccounting
  <2>1. Counted = {}  BY DEF Counted
  <2> QED  BY <2>1, FS_EmptySet DEF GaugeAccounting
<1>4. Passed /\ RepliesFit /\ CleanExit
  BY DEF Passed, RepliesFit, CleanExit, HeldSteps
<1> QED  BY <1>1, <1>2, <1>3, <1>4 DEF IInv

\* A step of one request that gives and takes the channel's token and the
\* gauge's unit exactly where it enters and leaves their regions keeps both
\* accounts, and the server being up it cannot spoil a clean exit.
LEMMA Accounts ==
  ASSUME IInv, NEW r \in Request, NEW from \in Step, NEW to \in Step,
         Goto(r, from, to), server' = server,
         \A p \in Paths :
            slots'[p] = slots[p] + (IF p = Path[r] /\ to \in HeldSteps THEN 1 ELSE 0)
                                 - (IF p = Path[r] /\ from \in HeldSteps THEN 1 ELSE 0),
         inflight' = inflight + (IF to \in CountedSteps THEN 1 ELSE 0)
                              - (IF from \in CountedSteps THEN 1 ELSE 0)
  PROVE  SlotAccounting' /\ GaugeAccounting' /\ CleanExit'
<1>1. SlotAccounting'
  BY Moved DEF IInv, SlotAccounting
<1>2. GaugeAccounting'
  BY Moved DEF IInv, GaugeAccounting
<1>3. CleanExit'
  BY DEF Goto, Alive, Exited, CleanExit
<1> QED  BY <1>1, <1>2, <1>3

\* A counter that is incremented stays a counter (a Prometheus vector).
LEMMA Increment ==
  ASSUME NEW S, NEW f \in [S -> Nat], NEW s
  PROVE  [f EXCEPT ![s] = @ + 1] \in [S -> Nat]
<1>1. CASE s \in S  BY <1>1
<1>2. CASE s \notin S  BY <1>2
<1> QED  BY <1>1, <1>2

\* Every step of a request's goroutine keeps the invariant.
LEMMA RequestStep ==
  ASSUME IInv, NEW r \in Request, Request_(r)
  PROVE  IInv'
<1> USE DEF IInv
<1>1. CASE Connect(r)
  <2>1. Goto(r, "idle", "connected") /\ server' = server
    BY <1>1 DEF Connect
  <2>2. SlotAccounting' /\ GaugeAccounting' /\ CleanExit'
    BY <1>1, <2>1, Accounts DEF Connect, HeldSteps, CountedSteps, Step, TypeOK, metricVars
  <2>3. TypeOK'
    BY <1>1, <2>1 DEF Connect, Goto, TypeOK, Step, Reply, metricVars
  <2>4. Passed' /\ RepliesFit'
    BY <1>1, <2>1 DEF Connect, Goto, TypeOK, Passed, RepliesFit, HeldSteps, Authorized, NoReply
  <2> QED  BY <2>2, <2>3, <2>4
<1>2. CASE Receive(r)
  <2>1. Goto(r, "connected", "received") /\ server' = server
    BY <1>2 DEF Receive
  <2>2. SlotAccounting' /\ GaugeAccounting' /\ CleanExit'
    BY <1>2, <2>1, Accounts DEF Receive, HeldSteps, CountedSteps, Step, TypeOK, metricVars
  <2>3. TypeOK'
    BY <1>2, <2>1 DEF Receive, Goto, TypeOK, Step, Reply, metricVars
  <2>4. Passed' /\ RepliesFit'
    BY <1>2, <2>1 DEF Receive, Goto, TypeOK, Passed, RepliesFit, HeldSteps, Authorized, NoReply
  <2> QED  BY <2>2, <2>3, <2>4
<1>3. CASE Drop(r)
  <2>1. Goto(r, "connected", "gone") /\ server' = server
    BY <1>3 DEF Drop
  <2>2. SlotAccounting' /\ GaugeAccounting' /\ CleanExit'
    BY <1>3, <2>1, Accounts DEF Drop, HeldSteps, CountedSteps, Step, TypeOK, metricVars
  <2>3. TypeOK'
    BY <1>3, <2>1 DEF Drop, Goto, TypeOK, Step, Reply, metricVars
  <2>4. Passed' /\ RepliesFit'
    BY <1>3, <2>1 DEF Drop, Goto, TypeOK, Passed, RepliesFit, HeldSteps, Authorized, NoReply
  <2> QED  BY <2>2, <2>3, <2>4
<1>4. CASE Flush(r)
  <2>1. Goto(r, "replied", "done") /\ server' = server
    BY <1>4 DEF Flush
  <2>2. SlotAccounting' /\ GaugeAccounting' /\ CleanExit'
    BY <1>4, <2>1, Accounts DEF Flush, HeldSteps, CountedSteps, Step, TypeOK, metricVars
  <2>3. TypeOK'
    BY <1>4, <2>1 DEF Flush, Goto, TypeOK, Step, Reply, metricVars
  <2>4. Passed' /\ RepliesFit'
    BY <1>4, <2>1 DEF Flush, Goto, TypeOK, Passed, RepliesFit, HeldSteps, Authorized, NoReply
  <2> QED  BY <2>2, <2>3, <2>4
<1>5. CASE Authorize(r)
  <2>1. Goto(r, "received", "limiting") /\ server' = server
    BY <1>5 DEF Authorize
  <2>2. SlotAccounting' /\ GaugeAccounting' /\ CleanExit'
    BY <1>5, <2>1, Accounts DEF Authorize, HeldSteps, CountedSteps, Step, TypeOK, metricVars
  <2>3. TypeOK'
    BY <1>5, <2>1 DEF Authorize, Goto, TypeOK, Step, Reply, metricVars
  <2>4. Passed' /\ RepliesFit'
    BY <1>5, <2>1 DEF Authorize, Goto, TypeOK, Passed, RepliesFit, HeldSteps, Authorized, NoReply
  <2> QED  BY <2>2, <2>3, <2>4
<1>6. CASE Unauthorized(r)
  <2>1. Goto(r, "received", "replied") /\ server' = server
    BY <1>6 DEF Unauthorized
  <2>2. SlotAccounting' /\ GaugeAccounting' /\ CleanExit'
    BY <1>6, <2>1, Accounts DEF Unauthorized, HeldSteps, CountedSteps, Step, TypeOK, metricVars
  <2>3. TypeOK'
    BY <1>6, <2>1 DEF Unauthorized, Goto, TypeOK, Step, Reply, metricVars, Answer
  <2>4. Passed' /\ RepliesFit'
    BY <1>6, <2>1 DEF Unauthorized, Goto, TypeOK, Passed, RepliesFit, HeldSteps, Authorized, NoReply, Answer
  <2> QED  BY <2>2, <2>3, <2>4
<1>7. CASE Acquire(r)
  <2>1. Goto(r, "limiting", "admitted") /\ server' = server
    BY <1>7 DEF Acquire
  <2>2. SlotAccounting' /\ GaugeAccounting' /\ CleanExit'
    BY <1>7, <2>1, Accounts DEF Acquire, HeldSteps, CountedSteps, Step, TypeOK, metricVars
  <2>3. TypeOK'
    <3>1. Path[r] \in Paths /\ slots \in [Paths -> 0 .. MaxConcurrentRuns] /\ MaxConcurrentRuns \in Nat
      BY ServerAssumption DEF TypeOK
    <3>2. slots[Path[r]] < MaxConcurrentRuns
      BY <1>7 DEF Acquire
    <3>3. slots' = [slots EXCEPT ![Path[r]] = @ + 1]
      BY <1>7 DEF Acquire
    <3>4. slots' \in [Paths -> 0 .. MaxConcurrentRuns]
      <4> HIDE DEF IInv
      <4> QED  BY <3>1, <3>2, <3>3
    <3> QED  BY <1>7, <2>1, <3>4 DEF Acquire, Goto, TypeOK, Step, metricVars
  <2>4. Passed' /\ RepliesFit'
    BY <1>7, <2>1 DEF Acquire, Goto, TypeOK, Passed, RepliesFit, HeldSteps, Authorized, NoReply
  <2> QED  BY <2>2, <2>3, <2>4
<1>8. CASE Shed(r)
  <2>1. Goto(r, "limiting", "replied") /\ server' = server
    BY <1>8 DEF Shed
  <2>2. SlotAccounting' /\ GaugeAccounting' /\ CleanExit'
    BY <1>8, <2>1, Accounts DEF Shed, HeldSteps, CountedSteps, Step, TypeOK, metricVars
  <2>3. TypeOK'
    BY <1>8, <2>1 DEF Shed, Goto, TypeOK, Step, Reply, metricVars, Answer
  <2>4. Passed' /\ RepliesFit'
    BY <1>8, <2>1 DEF Shed, Goto, TypeOK, Passed, RepliesFit, HeldSteps, Authorized, NoReply, Answer
  <2> QED  BY <2>2, <2>3, <2>4
<1>9. CASE IncInflight(r)
  <2>1. Goto(r, "admitted", "decoding") /\ server' = server
    BY <1>9 DEF IncInflight
  <2>2. SlotAccounting' /\ GaugeAccounting' /\ CleanExit'
    BY <1>9, <2>1, Accounts DEF IncInflight, HeldSteps, CountedSteps, Step, TypeOK, metricVars
  <2>3. TypeOK'
    BY <1>9, <2>1 DEF IncInflight, Goto, TypeOK, Step, Reply, metricVars
  <2>4. Passed' /\ RepliesFit'
    BY <1>9, <2>1 DEF IncInflight, Goto, TypeOK, Passed, RepliesFit, HeldSteps, Authorized, NoReply
  <2> QED  BY <2>2, <2>3, <2>4
<1>10. CASE ReleaseSlot(r)
  <2>1. Goto(r, "releasing", "uncounting") /\ server' = server
    BY <1>10 DEF ReleaseSlot
  <2>2. SlotAccounting' /\ GaugeAccounting' /\ CleanExit'
    BY <1>10, <2>1, Accounts DEF ReleaseSlot, HeldSteps, CountedSteps, Step, TypeOK, metricVars
  <2>3. TypeOK'
    <3>1. Path[r] \in Paths /\ slots \in [Paths -> 0 .. MaxConcurrentRuns] /\ MaxConcurrentRuns \in Nat
      BY ServerAssumption DEF TypeOK
    <3>2. slots[Path[r]] > 0
      BY <2>1, Moved DEF HeldSteps, Step
    <3>3. slots' = [slots EXCEPT ![Path[r]] = @ - 1]
      BY <1>10 DEF ReleaseSlot
    <3>4. slots' \in [Paths -> 0 .. MaxConcurrentRuns]
      <4> HIDE DEF IInv
      <4> QED  BY <3>1, <3>2, <3>3
    <3> QED  BY <1>10, <2>1, <3>4 DEF ReleaseSlot, Goto, TypeOK, Step, metricVars
  <2>4. Passed' /\ RepliesFit'
    BY <1>10, <2>1 DEF ReleaseSlot, Goto, TypeOK, Passed, RepliesFit, HeldSteps, Authorized, NoReply
  <2> QED  BY <2>2, <2>3, <2>4
<1>11. CASE DecInflight(r)
  <2>1. Goto(r, "uncounting", "replied") /\ server' = server
    BY <1>11 DEF DecInflight
  <2>2. SlotAccounting' /\ GaugeAccounting' /\ CleanExit'
    BY <1>11, <2>1, Accounts DEF DecInflight, HeldSteps, CountedSteps, Step, TypeOK, metricVars
  <2>3. TypeOK'
    BY <1>11, <2>1 DEF DecInflight, Goto, TypeOK, Step, Reply, metricVars
  <2>4. Passed' /\ RepliesFit'
    BY <1>11, <2>1 DEF DecInflight, Goto, TypeOK, Passed, RepliesFit, HeldSteps, Authorized, NoReply
  <2> QED  BY <2>2, <2>3, <2>4
<1>12. CASE Decode(r)
  <2>1. Goto(r, "decoding", "executing") /\ server' = server
    BY <1>12 DEF Decode
  <2>2. SlotAccounting' /\ GaugeAccounting' /\ CleanExit'
    BY <1>12, <2>1, Accounts DEF Decode, HeldSteps, CountedSteps, Step, TypeOK, metricVars
  <2>3. TypeOK'
    BY <1>12, <2>1 DEF Decode, Goto, TypeOK, Step, Reply, metricVars
  <2>4. Passed' /\ RepliesFit'
    BY <1>12, <2>1 DEF Decode, Goto, TypeOK, Passed, RepliesFit, HeldSteps, Authorized, NoReply
  <2> QED  BY <2>2, <2>3, <2>4
<1>13. CASE DecodeFails(r)
  <2>1. Goto(r, "decoding", "releasing") /\ server' = server
    BY <1>13 DEF DecodeFails
  <2>2. SlotAccounting' /\ GaugeAccounting' /\ CleanExit'
    BY <1>13, <2>1, Accounts DEF DecodeFails, HeldSteps, CountedSteps, Step, TypeOK, metricVars
  <2>3. TypeOK'
    BY <1>13, <2>1 DEF DecodeFails, Goto, TypeOK, Step, Reply, metricVars, Answer
  <2>4. Passed' /\ RepliesFit'
    BY <1>13, <2>1 DEF DecodeFails, Goto, TypeOK, Passed, RepliesFit, HeldSteps, Authorized, NoReply, Answer
  <2> QED  BY <2>2, <2>3, <2>4
<1>14. CASE Execute(r)
  <2>1. Goto(r, "executing", "observing") /\ server' = server
    BY <1>14 DEF Execute
  <2>2. SlotAccounting' /\ GaugeAccounting' /\ CleanExit'
    BY <1>14, <2>1, Accounts DEF Execute, HeldSteps, CountedSteps, Step, TypeOK, metricVars
  <2>3. TypeOK'
    BY <1>14, <2>1 DEF Execute, Goto, TypeOK, Step, Reply, metricVars
  <2>4. Passed' /\ RepliesFit'
    BY <1>14, <2>1 DEF Execute, Goto, TypeOK, Passed, RepliesFit, HeldSteps, Authorized, NoReply
  <2> QED  BY <2>2, <2>3, <2>4
<1>15. CASE Reject(r)
  <2>1. Goto(r, "executing", "releasing") /\ server' = server
    BY <1>15 DEF Reject
  <2>2. SlotAccounting' /\ GaugeAccounting' /\ CleanExit'
    BY <1>15, <2>1, Accounts DEF Reject, HeldSteps, CountedSteps, Step, TypeOK, metricVars
  <2>3. TypeOK'
    BY <1>15, <2>1 DEF Reject, Goto, TypeOK, Step, Reply, metricVars, Answer
  <2>4. Passed' /\ RepliesFit'
    BY <1>15, <2>1 DEF Reject, Goto, TypeOK, Passed, RepliesFit, HeldSteps, Authorized, NoReply, Answer
  <2> QED  BY <2>2, <2>3, <2>4
<1>16. CASE Encode(r)
  <2>1. Goto(r, "observing", "releasing") /\ server' = server
    BY <1>16 DEF Encode
  <2>2. SlotAccounting' /\ GaugeAccounting' /\ CleanExit'
    BY <1>16, <2>1, Accounts DEF Encode, HeldSteps, CountedSteps, Step, TypeOK, metricVars
  <2>3. TypeOK'
    BY <1>16, <2>1 DEF Encode, Goto, TypeOK, Step, Reply, metricVars, Answer, Code
  <2>4. Passed' /\ RepliesFit'
    BY <1>16, <2>1 DEF Encode, Goto, TypeOK, Passed, RepliesFit, HeldSteps, Authorized, NoReply, Answer, Code
  <2> QED  BY <2>2, <2>3, <2>4
<1>17. CASE ObserveRun(r)
  <2> USE <1>17 DEF ObserveRun
  <2>1. SlotAccounting' /\ GaugeAccounting' /\ CleanExit'
    BY DEF SlotAccounting, GaugeAccounting, CleanExit, HoldingOn, Holding, Counted
  <2>2. TypeOK'
    <3>1. PICK s : runsTotal' = [runsTotal EXCEPT ![s] = @ + 1]  OBVIOUS
    <3>2. runsTotal' \in [Label -> Nat]
      <4>1. runsTotal \in [Label -> Nat]  BY DEF TypeOK
      <4> QED  BY <3>1, <4>1, Increment
    <3>3. observed' \in [Request -> Nat]  BY DEF TypeOK
    <3> QED  BY <3>2, <3>3 DEF TypeOK
  <2>3. Passed' /\ RepliesFit'
    BY DEF Passed, RepliesFit, Authorized
  <2> QED  BY <2>1, <2>2, <2>3
<1> QED
  BY <1>1, <1>2, <1>3, <1>4, <1>5, <1>6, <1>7, <1>8, <1>9, <1>10, <1>11, <1>12,
     <1>13, <1>14, <1>15, <1>16, <1>17 DEF Request_

\* A server with no active connection has every slot and the gauge back, which
\* is what Shutdown's poll waits for.
LEMMA QuietMeansEmpty ==
  ASSUME TypeOK, SlotAccounting, GaugeAccounting, Active = {}
  PROVE  /\ \A r \in Request : pc[r] \in {"idle", "done", "gone"}
         /\ inflight = 0 /\ \A p \in Paths : slots[p] = 0
<1>1. \A r \in Request : pc[r] \in {"idle", "done", "gone"}
  BY DEF Active
<1>2. Counted = {} /\ \A p \in Paths : HoldingOn(p) = {}
  BY <1>1 DEF Counted, HoldingOn, Holding
<1> QED  BY <1>1, <1>2, FS_EmptySet DEF SlotAccounting, GaugeAccounting

\* The steps of ListenAndServe touch nothing but the server's own state.
LEMMA ServerStep ==
  ASSUME IInv, NEW from \in {"serving", "polling", "waiting"},
         NEW to \in {"polling", "waiting", "exit_0", "exit_1"},
         Become(from, to), to = "exit_0" => Active = {}
  PROVE  IInv'
<1> USE DEF IInv, Become
<1>1. TypeOK'
  BY DEF TypeOK, Exited, requestVars, metricVars
<1>2. SlotAccounting' /\ GaugeAccounting'
  BY DEF SlotAccounting, GaugeAccounting, HoldingOn, Holding, Counted, requestVars, metricVars
<1>3. Passed' /\ RepliesFit'
  BY DEF Passed, RepliesFit, Authorized, requestVars
<1>4. CleanExit'
  <2>1. CASE to = "exit_0"
    BY <2>1, QuietMeansEmpty DEF CleanExit, requestVars, metricVars
  <2>2. CASE to # "exit_0"
    BY <2>2 DEF CleanExit
  <2> QED  BY <2>1, <2>2
<1> QED  BY <1>1, <1>2, <1>3, <1>4

\* The invariant is inductive.
LEMMA NextIInv == IInv /\ [Next]_vars => IInv'
<1> SUFFICES ASSUME IInv, [Next]_vars PROVE IInv'  OBVIOUS
<1>1. ASSUME NEW r \in Request, Request_(r) PROVE IInv'
  BY <1>1, RequestStep
<1>2. CASE Signal         BY <1>2, ServerStep DEF Signal
<1>3. CASE ListenerFails  BY <1>3, ServerStep DEF ListenerFails
<1>4. CASE Drained        BY <1>4, ServerStep DEF Drained
<1>5. CASE StillActive    BY <1>5, ServerStep DEF StillActive
<1>6. CASE PollAgain      BY <1>6, ServerStep DEF PollAgain
<1>7. CASE GraceExpires   BY <1>7, ServerStep DEF GraceExpires
<1>8. CASE UNCHANGED vars
  BY <1>8 DEF vars, IInv, TypeOK, SlotAccounting, GaugeAccounting, HoldingOn, Holding, Counted,
              Passed, Authorized, RepliesFit, CleanExit
<1> QED
  BY <1>1, <1>2, <1>3, <1>4, <1>5, <1>6, <1>7, <1>8 DEF Next, Stopped

\* Every behaviour of the server keeps the invariant.
THEOREM Invariance == Spec => []IInv
BY InitIInv, NextIInv, PTL DEF Spec

-------------------------------------------------------------------------------
(***************************************************************************)
(* The safety properties.                                                  *)
(***************************************************************************)
\* The state keeps its types whatever the load (Metrics, LimitConcurrency,
\* ListenAndServe).
THEOREM TypeCorrect == Spec => []TypeOK
<1>1. IInv => TypeOK  BY DEF IInv
<1> QED  BY <1>1, Invariance, PTL

\* No early return of the handler chain leaks a slot or gives back one that it
\* does not hold (LimitConcurrency's deferred release).
THEOREM SlotsAreAccountedFor == Spec => []SlotAccounting
<1>1. IInv => SlotAccounting  BY DEF IInv
<1> QED  BY <1>1, Invariance, PTL

\* The gauge is the number of requests it should count, always
\* (metrics.addInflight).
THEOREM GaugeIsAccountedFor == Spec => []GaugeAccounting
<1>1. IInv => GaugeAccounting  BY DEF IInv
<1> QED  BY <1>1, Invariance, PTL

\* Exit status 0 means a complete drain (ListenAndServe, main).
THEOREM ExitIsClean == Spec => []CleanExit
<1>1. IInv => CleanExit  BY DEF IInv
<1> QED  BY <1>1, Invariance, PTL

\* An unauthenticated caller takes no slot and reaches no executor
\* (RequireTokens before LimitConcurrency).
THEOREM GateIsAuthorized == Spec => []SlotsOnlyForAuthorized
<1>1. IInv => SlotsOnlyForAuthorized
  BY DEF IInv, Passed, SlotsOnlyForAuthorized, Holding, HeldSteps
<1> QED  BY <1>1, Invariance, PTL

\* The container never runs more than twice the configured number of requests,
\* once for each of New's two gates.
THEOREM LoadIsBounded == Spec => []LoadBounded
<1>1. IInv => LoadBounded
  <2> SUFFICES ASSUME IInv PROVE LoadBounded  OBVIOUS
  <2>1. Holding = HoldingOn("run") \union HoldingOn("run_python")
    BY ServerAssumption DEF Holding, HoldingOn, Paths
  <2>2. \A p \in Paths : /\ IsFiniteSet(HoldingOn(p))
                         /\ Cardinality(HoldingOn(p)) <= MaxConcurrentRuns
    <3>1. \A p \in Paths : HoldingOn(p) \in SUBSET Request  BY DEF HoldingOn, Holding
    <3>2. \A p \in Paths : IsFiniteSet(HoldingOn(p))  BY <3>1, ServerAssumption, FS_Subset
    <3>3. \A p \in Paths : Cardinality(HoldingOn(p)) \in 0 .. MaxConcurrentRuns
      BY DEF IInv, TypeOK, SlotAccounting
    <3> QED  BY <3>2, <3>3, ServerAssumption
  <2>3. HoldingOn("run") \cap HoldingOn("run_python") = {}  BY DEF HoldingOn
  <2>4. "run" \in Paths /\ "run_python" \in Paths  BY DEF Paths
  <2>5. Cardinality(Holding) = Cardinality(HoldingOn("run")) + Cardinality(HoldingOn("run_python"))
    <3>1. Cardinality({}) = 0  BY FS_EmptySet
    <3>2. Cardinality(HoldingOn("run")) \in Nat /\ Cardinality(HoldingOn("run_python")) \in Nat
      BY <2>2, <2>4, FS_CardinalityType
    <3>3. Cardinality(Holding) = Cardinality(HoldingOn("run")) + Cardinality(HoldingOn("run_python"))
                                   - Cardinality(HoldingOn("run") \cap HoldingOn("run_python"))
      BY <2>1, <2>2, <2>4, FS_Union
    <3>4. Cardinality(HoldingOn("run") \cap HoldingOn("run_python")) = 0
      BY <2>3, <3>1
    <3> QED  BY <3>2, <3>3, <3>4
  <2>6. \A p \in Paths : Cardinality(HoldingOn(p)) \in Nat  BY <2>2, FS_CardinalityType
  <2> QED  BY <2>2, <2>4, <2>5, <2>6, ServerAssumption DEF LoadBounded
<1> QED  BY <1>1, Invariance, PTL

\* No path of the handler chain answers a request twice.
THEOREM AnswersOnce == Spec => AnswerOnce
<1>1. IInv /\ [Next]_vars => [\A r \in Request : reply[r] # NoReply => reply'[r] = reply[r]]_vars
  <2> SUFFICES ASSUME IInv, [Next]_vars, NEW r \in Request, reply[r] # NoReply
               PROVE  reply'[r] = reply[r]
    OBVIOUS
  <2> USE DEF IInv, TypeOK, RepliesFit, Goto, Answer
  <2>1. ASSUME NEW q \in Request, Request_(q), ~ UNCHANGED reply
        PROVE  /\ reply[q] = NoReply
               /\ \A x \in Request \ {q} : reply'[x] = reply[x]
    <3>1. CASE Unauthorized(q)  BY <3>1 DEF Unauthorized
    <3>2. CASE Shed(q)          BY <3>2 DEF Shed
    <3>3. CASE DecodeFails(q)   BY <3>3 DEF DecodeFails
    <3>4. CASE Reject(q)        BY <3>4 DEF Reject
    <3>5. CASE Encode(q)        BY <3>5 DEF Encode
    <3> QED
      BY <2>1, <3>1, <3>2, <3>3, <3>4, <3>5
      DEF Request_, Connect, Receive, Drop, Flush, Authorize, Acquire, IncInflight,
          ReleaseSlot, DecInflight, Decode, Execute, ObserveRun
  <2>2. UNCHANGED reply \/ \E q \in Request : Request_(q)
    BY DEF Next, vars, Signal, ListenerFails, Drained, StillActive, PollAgain,
                GraceExpires, Stopped, Become, requestVars
  <2> QED  BY <2>1, <2>2
<1> QED  BY <1>1, Invariance, PTL DEF Spec, AnswerOnce

-------------------------------------------------------------------------------
(***************************************************************************)
(* The counters.  A second induction, on top of IInv: what the handlers    *)
(* have told the metrics so far.                                           *)
(***************************************************************************)
\* The ObserveRun calls made so far for a result with status s.
ObservedWith(s) ==
  {x \in Request \X Nat : /\ x[2] \in 1 .. observed[x[1]]
                          /\ Series(outcome[x[1]])[x[2]] = s}

\* The counter of a status is the number of calls made for it.
CallsCounted ==
  \A s \in Label : /\ IsFiniteSet(ObservedWith(s))
                   /\ runsTotal[s] = Cardinality(ObservedWith(s))

\* A request has made no call before it observes, and all of them, one for
\* every result it carries, once its answer has been decided.
CallsMade == \A r \in Request :
  /\ pc[r] = "observing" \/ reply[r] \in {"ok", "retry_later"}
       => outcome[r] \in Outcomes /\ outcome[r].status # "rejected"
  /\ pc[r] = "observing" => observed[r] <= Len(Series(outcome[r]))
  /\ reply[r] \in {"ok", "retry_later"} => observed[r] = Len(Series(outcome[r]))
  /\ pc[r] # "observing" /\ reply[r] \notin {"ok", "retry_later"} => observed[r] = 0

\* Every load-shed was counted.
ShedsCounted == overloadTotal = Cardinality({r \in Request : reply[r] = "at_capacity"})

MInv == CallsCounted /\ CallsMade /\ ShedsCounted

\* What the handler observes of a result it was given is a list of labels, and
\* never an empty one (execute, executeBatch).
LEMMA SeriesTyped ==
  ASSUME NEW o \in Outcomes, o.status # "rejected"
  PROVE  Series(o) \in Seq(Label) /\ Len(Series(o)) \in Nat \ {0}
<1>1. o \in Single \union Batch  BY ServerAssumption
<1>2. o.results \in Seq(RunStatus) /\ o.status \in Label
  <2>1. o.results = << >> \/ o.results \in Seq(RunStatus)  BY <1>1 DEF Single, Batch
  <2>2. << >> \in Seq(RunStatus)  OBVIOUS
  <2>3. o.status \in Label  BY <1>1 DEF Single, Batch, Label, RunStatus
  <2> QED  BY <2>1, <2>2, <2>3
<1>3. CASE o.results = << >>
  BY <1>2, <1>3 DEF Series
<1>4. CASE o.results # << >>
  <2>1. o.results \in Seq(Label)  BY <1>2 DEF Label
  <2>2. Len(o.results) # 0  BY <1>2, <1>4
  <2> QED  BY <1>4, <2>1, <2>2 DEF Series
<1> QED  BY <1>3, <1>4

\* One more ObserveRun call is one more call for its own status, and for no
\* other (metrics.ObserveRun).
LEMMA ObserveCounts ==
  ASSUME IInv, MInv, NEW r \in Request, ObserveRun(r)
  PROVE  CallsCounted'
<1> DEFINE n    == observed[r] + 1
           call == <<r, n>>
           st   == Series(outcome[r])[n]
<1>1. /\ outcome[r] \in Outcomes /\ outcome[r].status # "rejected"
      /\ observed \in [Request -> Nat] /\ observed[r] < Len(Series(outcome[r]))
      /\ observed' = [observed EXCEPT ![r] = @ + 1] /\ outcome' = outcome
      /\ runsTotal \in [Label -> Nat] /\ runsTotal' = [runsTotal EXCEPT ![st] = @ + 1]
  BY DEF ObserveRun, MInv, CallsMade, IInv, TypeOK
<1>2. st \in Label /\ n \in Nat /\ n >= 1
  BY <1>1, SeriesTyped
<1>3. ASSUME NEW s \in Label
      PROVE  /\ IsFiniteSet(ObservedWith(s)')
             /\ runsTotal'[s] = Cardinality(ObservedWith(s)')
  <2>1. IsFiniteSet(ObservedWith(s)) /\ runsTotal[s] = Cardinality(ObservedWith(s))
    BY DEF MInv, CallsCounted
  <2>2. call \notin ObservedWith(s)
    BY <1>1 DEF ObservedWith
  <2>3. ObservedWith(s)' = IF s = st THEN ObservedWith(s) \union {call} ELSE ObservedWith(s)
    <3>1. ASSUME NEW x \in Request \X Nat
          PROVE  x \in ObservedWith(s)' <=> x \in ObservedWith(s) \/ (x = call /\ s = st)
      <4>1. x[1] \in Request /\ x[2] \in Nat /\ x = <<x[1], x[2]>>  OBVIOUS
      <4>2. CASE x[1] # r
        <5>1. observed'[x[1]] = observed[x[1]] /\ x # call  BY <1>1, <4>1, <4>2
        <5> QED  BY <1>1, <5>1 DEF ObservedWith
      <4>3. CASE x[1] = r
        <5>1. observed'[x[1]] = n /\ observed[x[1]] = n - 1 /\ n - 1 \in Nat  BY <1>1, <4>3
        <5>2. x[2] \in 1 .. n <=> x[2] \in 1 .. n - 1 \/ x[2] = n  BY <1>2, <4>1
        <5>3. x = call <=> x[2] = n  BY <4>1, <4>3
        <5>4. x \in ObservedWith(s)' <=> x[2] \in 1 .. n /\ Series(outcome[r])[x[2]] = s
          BY <1>1, <4>3, <5>1 DEF ObservedWith
        <5>5. x \in ObservedWith(s) <=> x[2] \in 1 .. n - 1 /\ Series(outcome[r])[x[2]] = s
          BY <4>3, <5>1 DEF ObservedWith
        <5> HIDE DEF n, call
        <5> QED  BY <4>1, <5>2, <5>3, <5>4, <5>5
      <4> QED  BY <4>2, <4>3
    <3>2. /\ ObservedWith(s)' \in SUBSET (Request \X Nat)
          /\ ObservedWith(s) \in SUBSET (Request \X Nat)
          /\ call \in Request \X Nat
      BY <1>2 DEF ObservedWith
    <3> HIDE DEF call, st
    <3>3. CASE s = st   BY <3>1, <3>2, <3>3
    <3>4. CASE s # st   BY <3>1, <3>2, <3>4
    <3> QED  BY <3>3, <3>4
  <2>4. runsTotal'[s] = IF s = st THEN runsTotal[s] + 1 ELSE runsTotal[s]
    BY <1>1, <1>2
  <2> HIDE DEF call, st
  <2>5. CASE s = st
    <3>1. /\ IsFiniteSet(ObservedWith(s) \union {call})
          /\ Cardinality(ObservedWith(s) \union {call}) = Cardinality(ObservedWith(s)) + 1
      BY <2>1, <2>2, FS_AddElement
    <3> QED  BY <2>1, <2>3, <2>4, <2>5, <3>1
  <2>6. CASE s # st
    BY <2>1, <2>3, <2>4, <2>6
  <2> QED  BY <2>5, <2>6
<1> QED  BY <1>3 DEF CallsCounted

\* A result is handed to a handler that has made no call yet, and no other step
\* touches the calls or their counters (execute, executeBatch).
LEMMA OthersKeepCounts ==
  ASSUME IInv, MInv, UNCHANGED <<observed, runsTotal>>,
         \A r \in Request : outcome'[r] = outcome[r] \/ observed[r] = 0
  PROVE  CallsCounted'
<1>1. ASSUME NEW s PROVE ObservedWith(s)' = ObservedWith(s)
  <2>1. ASSUME NEW x \in Request \X Nat
        PROVE  x \in ObservedWith(s)' <=> x \in ObservedWith(s)
    <3>1. x[1] \in Request /\ x[2] \in Nat  OBVIOUS
    <3>2. CASE observed[x[1]] = 0
      <4>1. x[2] \notin 1 .. observed[x[1]]  BY <3>2
      <4> QED  BY <4>1 DEF ObservedWith
    <3>3. CASE outcome'[x[1]] = outcome[x[1]]
      BY <3>3 DEF ObservedWith
    <3> QED  BY <3>1, <3>2, <3>3
  <2>2. /\ ObservedWith(s)' \in SUBSET (Request \X Nat)
        /\ ObservedWith(s) \in SUBSET (Request \X Nat)
    BY DEF ObservedWith
  <2> QED  BY <2>1, <2>2
<1> QED  BY <1>1 DEF MInv, CallsCounted

\* An answer changes the number of load-sheds by whether it is one, and nobody
\* is answered twice (Answer in LimitConcurrency and the handlers).
LEMMA AnswerCounts ==
  ASSUME IInv, MInv, NEW r \in Request, NEW code \in Reply,
         reply[r] = NoReply, Answer(r, code),
         overloadTotal' = overloadTotal + (IF code = "at_capacity" THEN 1 ELSE 0)
  PROVE  ShedsCounted'
<1> DEFINE V == Reply \union {NoReply}
           H == {"at_capacity"}
           g == reply'
<1>1. /\ IsFiniteSet(Request) /\ Request \in SUBSET Request
      /\ reply \in [Request -> V] /\ code \in V /\ Moves(reply, g, r, code)
  BY ServerAssumption DEF IInv, TypeOK, Answer, Moves
<1>2. /\ overloadTotal = Cardinality(At(Request, reply, H))
      /\ ShedsCounted' <=> overloadTotal' = Cardinality(At(Request, g, H))
  BY DEF MInv, ShedsCounted, At
<1> HIDE DEF g, V, H
<1>3. /\ Cardinality(At(Request, reply, H)) \in Nat
      /\ Cardinality(At(Request, g, H)) =
           Cardinality(At(Request, reply, H))
             + (IF r \in Request /\ code \in H THEN 1 ELSE 0)
             - (IF r \in Request /\ reply[r] \in H THEN 1 ELSE 0)
  BY <1>1, Regroup
<1> QED  BY <1>2, <1>3 DEF H, NoReply

\* The counters keep pace with every step of the handlers and of the server.
LEMMA NextMInv == IInv /\ MInv /\ [Next]_vars => MInv'
<1> SUFFICES ASSUME IInv, MInv, [Next]_vars PROVE MInv'  OBVIOUS
<1>1. ASSUME UNCHANGED <<observed, runsTotal, outcome, reply, overloadTotal>>
      PROVE  CallsCounted' /\ ShedsCounted'
  <2>1. CallsCounted'  BY <1>1, OthersKeepCounts
  <2> QED  BY <1>1, <2>1 DEF MInv, ShedsCounted
<1>2. ASSUME NEW r \in Request, Connect(r) PROVE MInv'
  <2>1. CallsCounted' /\ ShedsCounted'  BY <1>2, <1>1 DEF Connect, metricVars
  <2>2. CallsMade'  BY <1>2 DEF Connect, IInv, MInv, TypeOK, RepliesFit, CallsMade, Goto
  <2> QED  BY <2>1, <2>2 DEF MInv
<1>3. ASSUME NEW r \in Request, Receive(r) PROVE MInv'
  <2>1. CallsCounted' /\ ShedsCounted'  BY <1>3, <1>1 DEF Receive, metricVars
  <2>2. CallsMade'  BY <1>3 DEF Receive, IInv, MInv, TypeOK, RepliesFit, CallsMade, Goto
  <2> QED  BY <2>1, <2>2 DEF MInv
<1>4. ASSUME NEW r \in Request, Drop(r) PROVE MInv'
  <2>1. CallsCounted' /\ ShedsCounted'  BY <1>4, <1>1 DEF Drop, metricVars
  <2>2. CallsMade'  BY <1>4 DEF Drop, IInv, MInv, TypeOK, RepliesFit, CallsMade, Goto
  <2> QED  BY <2>1, <2>2 DEF MInv
<1>5. ASSUME NEW r \in Request, Flush(r) PROVE MInv'
  <2>1. CallsCounted' /\ ShedsCounted'  BY <1>5, <1>1 DEF Flush, metricVars
  <2>2. CallsMade'  BY <1>5 DEF Flush, IInv, MInv, TypeOK, RepliesFit, CallsMade, Goto
  <2> QED  BY <2>1, <2>2 DEF MInv
<1>6. ASSUME NEW r \in Request, Authorize(r) PROVE MInv'
  <2>1. CallsCounted' /\ ShedsCounted'  BY <1>6, <1>1 DEF Authorize, metricVars
  <2>2. CallsMade'  BY <1>6 DEF Authorize, IInv, MInv, TypeOK, RepliesFit, CallsMade, Goto
  <2> QED  BY <2>1, <2>2 DEF MInv
<1>7. ASSUME NEW r \in Request, Acquire(r) PROVE MInv'
  <2>1. CallsCounted' /\ ShedsCounted'  BY <1>7, <1>1 DEF Acquire, metricVars
  <2>2. CallsMade'  BY <1>7 DEF Acquire, IInv, MInv, TypeOK, RepliesFit, CallsMade, Goto
  <2> QED  BY <2>1, <2>2 DEF MInv
<1>8. ASSUME NEW r \in Request, IncInflight(r) PROVE MInv'
  <2>1. CallsCounted' /\ ShedsCounted'  BY <1>8, <1>1 DEF IncInflight, metricVars
  <2>2. CallsMade'  BY <1>8 DEF IncInflight, IInv, MInv, TypeOK, RepliesFit, CallsMade, Goto
  <2> QED  BY <2>1, <2>2 DEF MInv
<1>9. ASSUME NEW r \in Request, ReleaseSlot(r) PROVE MInv'
  <2>1. CallsCounted' /\ ShedsCounted'  BY <1>9, <1>1 DEF ReleaseSlot, metricVars
  <2>2. CallsMade'  BY <1>9 DEF ReleaseSlot, IInv, MInv, TypeOK, RepliesFit, CallsMade, Goto
  <2> QED  BY <2>1, <2>2 DEF MInv
<1>10. ASSUME NEW r \in Request, DecInflight(r) PROVE MInv'
  <2>1. CallsCounted' /\ ShedsCounted'  BY <1>10, <1>1 DEF DecInflight, metricVars
  <2>2. CallsMade'  BY <1>10 DEF DecInflight, IInv, MInv, TypeOK, RepliesFit, CallsMade, Goto
  <2> QED  BY <2>1, <2>2 DEF MInv
<1>11. ASSUME NEW r \in Request, Decode(r) PROVE MInv'
  <2>1. CallsCounted' /\ ShedsCounted'  BY <1>11, <1>1 DEF Decode, metricVars
  <2>2. CallsMade'  BY <1>11 DEF Decode, IInv, MInv, TypeOK, RepliesFit, CallsMade, Goto
  <2> QED  BY <2>1, <2>2 DEF MInv
<1>12. ASSUME NEW r \in Request, Unauthorized(r) PROVE MInv'
  <2>1. CallsCounted'  BY <1>12, OthersKeepCounts DEF Unauthorized, metricVars
  <2>2. ShedsCounted'
    <3>1. reply[r] = NoReply /\ Answer(r, "unauthorized") /\ "unauthorized" \in Reply
      BY <1>12 DEF Unauthorized, IInv, RepliesFit, Goto, Reply
    <3> QED  BY <1>12, <3>1, AnswerCounts DEF Unauthorized, metricVars, IInv, TypeOK
  <2>3. CallsMade'  BY <1>12 DEF Unauthorized, IInv, MInv, TypeOK, RepliesFit, CallsMade, Goto, Answer, NoReply
  <2> QED  BY <2>1, <2>2, <2>3 DEF MInv
<1>13. ASSUME NEW r \in Request, Shed(r) PROVE MInv'
  <2>1. CallsCounted'  BY <1>13, OthersKeepCounts DEF Shed, metricVars
  <2>2. ShedsCounted'
    <3>1. reply[r] = NoReply /\ Answer(r, "at_capacity") /\ "at_capacity" \in Reply
      BY <1>13 DEF Shed, IInv, RepliesFit, Goto, Reply
    <3> QED  BY <1>13, <3>1, AnswerCounts DEF Shed, metricVars, IInv, TypeOK
  <2>3. CallsMade'  BY <1>13 DEF Shed, IInv, MInv, TypeOK, RepliesFit, CallsMade, Goto, Answer, NoReply
  <2> QED  BY <2>1, <2>2, <2>3 DEF MInv
<1>14. ASSUME NEW r \in Request, DecodeFails(r) PROVE MInv'
  <2>1. CallsCounted'  BY <1>14, OthersKeepCounts DEF DecodeFails, metricVars
  <2>2. ShedsCounted'
    <3>1. reply[r] = NoReply /\ Answer(r, "bad_request") /\ "bad_request" \in Reply
      BY <1>14 DEF DecodeFails, IInv, RepliesFit, Goto, Reply
    <3> QED  BY <1>14, <3>1, AnswerCounts DEF DecodeFails, metricVars, IInv, TypeOK
  <2>3. CallsMade'  BY <1>14 DEF DecodeFails, IInv, MInv, TypeOK, RepliesFit, CallsMade, Goto, Answer, NoReply
  <2> QED  BY <2>1, <2>2, <2>3 DEF MInv
<1>15. ASSUME NEW r \in Request, Reject(r) PROVE MInv'
  <2>1. CallsCounted'  BY <1>15, OthersKeepCounts DEF Reject, metricVars
  <2>2. ShedsCounted'
    <3>1. reply[r] = NoReply /\ Answer(r, "bad_request") /\ "bad_request" \in Reply
      BY <1>15 DEF Reject, IInv, RepliesFit, Goto, Reply
    <3> QED  BY <1>15, <3>1, AnswerCounts DEF Reject, metricVars, IInv, TypeOK
  <2>3. CallsMade'  BY <1>15 DEF Reject, IInv, MInv, TypeOK, RepliesFit, CallsMade, Goto, Answer, NoReply
  <2> QED  BY <2>1, <2>2, <2>3 DEF MInv
<1>16. ASSUME NEW r \in Request, Encode(r) PROVE MInv'
  <2>1. CallsCounted'  BY <1>16, OthersKeepCounts DEF Encode, metricVars
  <2>2. ShedsCounted'
    <3>1. reply[r] = NoReply /\ Answer(r, Code(outcome[r])) /\ Code(outcome[r]) \in Reply
      BY <1>16 DEF Encode, IInv, RepliesFit, Goto, Reply, Code
    <3> QED  BY <1>16, <3>1, AnswerCounts DEF Encode, metricVars, IInv, TypeOK, Code
  <2>3. CallsMade'  BY <1>16 DEF Encode, IInv, MInv, TypeOK, RepliesFit, CallsMade, Goto, Answer, NoReply, Code
  <2> QED  BY <2>1, <2>2, <2>3 DEF MInv
<1>17. ASSUME NEW r \in Request, Execute(r) PROVE MInv'
  <2>1. observed[r] = 0 /\ reply[r] = NoReply /\ pc[r] = "executing"
    BY <1>17 DEF Execute, Goto, IInv, MInv, RepliesFit, CallsMade, NoReply
  <2>2. PICK o \in Outcomes : o.status # "rejected" /\ outcome' = [outcome EXCEPT ![r] = o]
    BY <1>17 DEF Execute
  <2>3. CallsCounted'
    <3>1. \A q \in Request : outcome'[q] = outcome[q] \/ observed[q] = 0
      BY <2>1, <2>2 DEF IInv, TypeOK
    <3> QED  BY <1>17, <3>1, OthersKeepCounts DEF Execute, metricVars
  <2>4. ShedsCounted'  BY <1>17 DEF Execute, MInv, ShedsCounted, metricVars
  <2>5. CallsMade'
    <3>1. Len(Series(o)) \in Nat  BY <2>2, SeriesTyped
    <3> QED  BY <1>17, <2>1, <2>2, <3>1 DEF Execute, IInv, MInv, TypeOK, RepliesFit, CallsMade, Goto, NoReply
  <2> QED  BY <2>3, <2>4, <2>5 DEF MInv
<1>18. ASSUME NEW r \in Request, ObserveRun(r) PROVE MInv'
  <2>1. CallsCounted'  BY <1>18, ObserveCounts
  <2>2. ShedsCounted'  BY <1>18 DEF ObserveRun, MInv, ShedsCounted
  <2>3. CallsMade'
    <3>1. Len(Series(outcome[r])) \in Nat
      BY <1>18, SeriesTyped DEF ObserveRun, MInv, CallsMade
    <3> QED  BY <1>18, <3>1 DEF ObserveRun, IInv, MInv, TypeOK, RepliesFit, CallsMade, NoReply
  <2> QED  BY <2>1, <2>2, <2>3 DEF MInv
<1>19. ASSUME UNCHANGED <<requestVars, metricVars>> PROVE MInv'
  <2>1. CallsCounted' /\ ShedsCounted'  BY <1>19, <1>1 DEF requestVars, metricVars
  <2>2. CallsMade'  BY <1>19 DEF MInv, CallsMade, requestVars
  <2> QED  BY <2>1, <2>2 DEF MInv
<1>20. UNCHANGED <<requestVars, metricVars>> \/ \E r \in Request : Request_(r)
  BY DEF Next, vars, Signal, ListenerFails, Drained, StillActive, PollAgain,
         GraceExpires, Stopped, Become, requestVars, metricVars
<1> QED
  BY <1>2, <1>3, <1>4, <1>5, <1>6, <1>7, <1>8, <1>9, <1>10, <1>11, <1>12,
     <1>13, <1>14, <1>15, <1>16, <1>17, <1>18, <1>19, <1>20
  DEF Request_

\* Nothing has been counted at the start.
LEMMA InitMInv == Init => MInv
<1> SUFFICES ASSUME Init PROVE MInv  OBVIOUS
<1>1. CallsCounted
  <2>1. \A s : ObservedWith(s) = {}
    BY DEF Init, ObservedWith
  <2> QED  BY <2>1, FS_EmptySet DEF Init, CallsCounted
<1>2. ShedsCounted
  <2>1. {r \in Request : reply[r] = "at_capacity"} = {}  BY DEF Init, NoReply
  <2> QED  BY <2>1, FS_EmptySet DEF Init, ShedsCounted
<1>3. CallsMade  BY DEF Init, CallsMade, NoReply
<1> QED  BY <1>1, <1>2, <1>3 DEF MInv

\* When no handler is at work the counters tell exactly what was answered, each
\* input of a batch included, and every load-shed once (execute, executeBatch,
\* LimitConcurrency).
THEOREM MetricsAreExact == Spec => []MetricsMatchAnswers
<1>1. IInv /\ MInv => MetricsMatchAnswers
  <2> SUFFICES ASSUME IInv, MInv, Counted = {}, NEW s \in Label
               PROVE  runsTotal[s] = Cardinality(AnsweredWith(s))
    BY DEF MInv, ShedsCounted, MetricsMatchAnswers
  <2>1. \A r \in Request : pc[r] # "observing"
    BY DEF Counted
  <2>2. ASSUME NEW x
        PROVE  x \in AnsweredWith(s) <=>
                 \E r \in Request, i \in Nat : /\ x = <<r, i>>
                                               /\ reply[r] \in {"ok", "retry_later"}
                                               /\ i \in DOMAIN Series(outcome[r])
                                               /\ Series(outcome[r])[i] = s
    <3>1. ASSUME NEW r \in Request, reply[r] \in {"ok", "retry_later"}
          PROVE  DOMAIN Series(outcome[r]) \in SUBSET Nat
      BY <3>1, SeriesTyped DEF MInv, CallsMade
    <3> QED  BY <3>1 DEF AnsweredWith
  <2>3. ASSUME NEW x
        PROVE  x \in ObservedWith(s) <=>
                 \E r \in Request, i \in Nat : /\ x = <<r, i>>
                                               /\ i \in 1 .. observed[r]
                                               /\ Series(outcome[r])[i] = s
    BY DEF ObservedWith
  <2>4. ASSUME NEW r \in Request, NEW i \in Nat
        PROVE  i \in 1 .. observed[r] <=>
                 reply[r] \in {"ok", "retry_later"} /\ i \in DOMAIN Series(outcome[r])
    <3>1. CASE reply[r] \in {"ok", "retry_later"}
      BY <3>1, SeriesTyped DEF MInv, CallsMade
    <3>2. CASE reply[r] \notin {"ok", "retry_later"}
      BY <2>1, <3>2 DEF MInv, CallsMade
    <3> QED  BY <3>1, <3>2
  <2>5. AnsweredWith(s) = ObservedWith(s)
    BY <2>2, <2>3, <2>4
  <2> QED  BY <2>5 DEF MInv, CallsCounted
<1>2. Spec => []MInv
  BY InitMInv, NextMInv, Invariance, PTL DEF Spec
<1> QED  BY <1>1, <1>2, Invariance, PTL

-------------------------------------------------------------------------------
(***************************************************************************)
(* Each path's gate implements Admission.                                  *)
(***************************************************************************)
\* What a step of one request makes of every caller's standing: it takes a
\* place only in Acquire and is shed only in Shed (LimitConcurrency).
LEMMA Journey ==
  ASSUME IInv, NEW r \in Request, Request_(r)
  PROVE  /\ \A q \in Request \ {r} : Standing(q)' = Standing(q)
         /\ \/ Standing(r)' = Standing(r)
            \/ Acquire(r) /\ Standing(r) = "outside" /\ Standing(r)' = "inside"
            \/ Shed(r) /\ Standing(r) = "outside" /\ Standing(r)' = "shed"
            \/ Standing(r) = "outside" /\ Standing(r)' = "refused"
            \/ Standing(r) = "inside" /\ Standing(r)' = "left"
<1> USE DEF IInv, TypeOK, RepliesFit, Standing, Holding, Goto, Answer, NoReply
<1>1. CASE Connect(r)  BY <1>1 DEF Connect
<1>2. CASE Receive(r)  BY <1>2 DEF Receive
<1>3. CASE Drop(r)  BY <1>3 DEF Drop
<1>4. CASE Flush(r)  BY <1>4 DEF Flush
<1>5. CASE Authorize(r)  BY <1>5 DEF Authorize
<1>6. CASE Unauthorized(r)  BY <1>6 DEF Unauthorized
<1>7. CASE Acquire(r)  BY <1>7 DEF Acquire
<1>8. CASE Shed(r)  BY <1>8 DEF Shed
<1>9. CASE IncInflight(r)  BY <1>9 DEF IncInflight
<1>10. CASE ReleaseSlot(r)  BY <1>10 DEF ReleaseSlot
<1>11. CASE DecInflight(r)  BY <1>11 DEF DecInflight
<1>12. CASE Decode(r)  BY <1>12 DEF Decode
<1>13. CASE DecodeFails(r)  BY <1>13 DEF DecodeFails
<1>14. CASE Execute(r)  BY <1>14 DEF Execute
<1>15. CASE Reject(r)  BY <1>15 DEF Reject
<1>16. CASE ObserveRun(r)  BY <1>16 DEF ObserveRun
<1>17. CASE Encode(r)  BY <1>17 DEF Encode, Code
<1> QED
  BY <1>1, <1>2, <1>3, <1>4, <1>5, <1>6, <1>7, <1>8, <1>9, <1>10, <1>11, <1>12,
     <1>13, <1>14, <1>15, <1>16, <1>17 DEF Request_

\* The callers Admission sees inside are the requests that occupy a slot.
LEMMA InsideHolds ==
  ASSUME IInv, NEW p \in Paths
  PROVE  /\ {r \in Callers(p) : StandingOn(p)[r] = "inside"} = HoldingOn(p)
         /\ Cardinality({r \in Callers(p) : StandingOn(p)[r] = "inside"}) = slots[p]
<1>1. \A r \in Request : Standing(r) = "inside" <=> r \in Holding
  BY DEF Standing, Holding, IInv, TypeOK, Step, RepliesFit, NoReply
<1>2. {r \in Callers(p) : StandingOn(p)[r] = "inside"} = HoldingOn(p)
  BY <1>1 DEF StandingOn, Callers, HoldingOn, Holding
<1> QED  BY <1>2 DEF IInv, SlotAccounting

\* A step of the server is a step of a path's admission, or none of it.
LEMMA GateStep ==
  ASSUME IInv, [Next]_vars, NEW p \in Paths
  PROVE  \/ StandingOn(p)' = StandingOn(p)
         \/ \E r \in Callers(p), to \in {"inside", "shed", "refused", "left"} :
              /\ StandingOn(p)' = [StandingOn(p) EXCEPT ![r] = to]
              /\ StandingOn(p)[r] = IF to = "left" THEN "inside" ELSE "outside"
              /\ to = "inside" => slots[p] < MaxConcurrentRuns
              /\ to = "shed" => slots[p] = MaxConcurrentRuns
<1>1. ASSUME UNCHANGED <<pc, reply>> PROVE StandingOn(p)' = StandingOn(p)
  BY <1>1 DEF StandingOn, Standing, Holding, Callers
<1>2. ASSUME NEW r \in Request, Request_(r), r \notin Callers(p)
      PROVE  StandingOn(p)' = StandingOn(p)
  BY <1>2, Journey DEF StandingOn, Callers
<1>3. ASSUME NEW r \in Request, Request_(r), r \in Callers(p)
      PROVE  StandingOn(p)' = [StandingOn(p) EXCEPT ![r] = Standing(r)']
  BY <1>3, Journey DEF StandingOn, Callers
<1>4. ASSUME NEW r \in Request, Request_(r), r \in Callers(p)
      PROVE  \/ StandingOn(p)' = StandingOn(p)
             \/ \E to \in {"inside", "shed", "refused", "left"} :
                  /\ StandingOn(p)' = [StandingOn(p) EXCEPT ![r] = to]
                  /\ StandingOn(p)[r] = IF to = "left" THEN "inside" ELSE "outside"
                  /\ to = "inside" => slots[p] < MaxConcurrentRuns
                  /\ to = "shed" => slots[p] = MaxConcurrentRuns
  <2>1. StandingOn(p)[r] = Standing(r) /\ Path[r] = p
    BY <1>4 DEF StandingOn, Callers
  <2>2. CASE Standing(r)' = Standing(r)
    BY <1>3, <1>4, <2>1, <2>2 DEF StandingOn
  <2>3. CASE Acquire(r) /\ Standing(r) = "outside" /\ Standing(r)' = "inside"
    BY <1>3, <1>4, <2>1, <2>3 DEF Acquire
  <2>4. CASE Shed(r) /\ Standing(r) = "outside" /\ Standing(r)' = "shed"
    BY <1>3, <1>4, <2>1, <2>4 DEF Shed
  <2>5. CASE Standing(r) = "outside" /\ Standing(r)' = "refused"
    BY <1>3, <1>4, <2>1, <2>5
  <2>6. CASE Standing(r) = "inside" /\ Standing(r)' = "left"
    BY <1>3, <1>4, <2>1, <2>6
  <2> QED  BY <1>4, <2>2, <2>3, <2>4, <2>5, <2>6, Journey
<1>5. UNCHANGED <<pc, reply>> \/ \E r \in Request : Request_(r)
  BY DEF Next, vars, Signal, ListenerFails, Drained, StillActive, PollAgain,
         GraceExpires, Stopped, Become, requestVars
<1> QED  BY <1>1, <1>2, <1>4, <1>5

\* A place is taken only while one is free, a caller is shed only while none
\* is, and whoever is inside comes out once (New, RequireTokens and
\* LimitConcurrency), for each of the two paths.
THEOREM GatesImplementAdmission == Spec => ImplementsAdmission
<1>1. Init => RunGate!Init /\ PythonGate!Init
  <2> SUFFICES ASSUME Init PROVE RunGate!Init /\ PythonGate!Init  OBVIOUS
  <2>1. \A r \in Request : Standing(r) = "outside"
    BY DEF Init, Standing, Holding, NoReply
  <2> QED  BY <2>1 DEF RunGate!Init, PythonGate!Init, StandingOn, Callers
<1>2. IInv /\ [Next]_vars => [RunGate!Next]_(StandingOn("run"))
  <2> SUFFICES ASSUME IInv, [Next]_vars, StandingOn("run")' # StandingOn("run")
               PROVE  RunGate!Next
    OBVIOUS
  <2>1. "run" \in Paths  BY DEF Paths
  <2>2. RunGate!Cardinality(RunGate!Inside) = slots["run"]
    <3>1. RunGate!Cardinality(RunGate!Inside) = Cardinality(RunGate!Inside)
      BY DEF RunGate!Cardinality, Cardinality
    <3> QED  BY <2>1, <3>1, InsideHolds DEF RunGate!Inside
  <2>3. PICK r \in Callers("run"), to \in {"inside", "shed", "refused", "left"} :
          /\ StandingOn("run")' = [StandingOn("run") EXCEPT ![r] = to]
          /\ StandingOn("run")[r] = IF to = "left" THEN "inside" ELSE "outside"
          /\ to = "inside" => slots["run"] < MaxConcurrentRuns
          /\ to = "shed" => slots["run"] = MaxConcurrentRuns
    BY <2>1, GateStep
  <2>4. CASE to = "inside"   BY <2>2, <2>3, <2>4 DEF RunGate!Next, RunGate!Admit, RunGate!Move
  <2>5. CASE to = "shed"     BY <2>2, <2>3, <2>5 DEF RunGate!Next, RunGate!Shed, RunGate!Move
  <2>6. CASE to = "refused"  BY <2>3, <2>6 DEF RunGate!Next, RunGate!Refuse, RunGate!Move
  <2>7. CASE to = "left"     BY <2>3, <2>7 DEF RunGate!Next, RunGate!Leave, RunGate!Move
  <2> QED  BY <2>4, <2>5, <2>6, <2>7
<1>3. IInv /\ [Next]_vars => [PythonGate!Next]_(StandingOn("run_python"))
  <2> SUFFICES ASSUME IInv, [Next]_vars, StandingOn("run_python")' # StandingOn("run_python")
               PROVE  PythonGate!Next
    OBVIOUS
  <2>1. "run_python" \in Paths  BY DEF Paths
  <2>2. PythonGate!Cardinality(PythonGate!Inside) = slots["run_python"]
    <3>1. PythonGate!Cardinality(PythonGate!Inside) = Cardinality(PythonGate!Inside)
      BY DEF PythonGate!Cardinality, Cardinality
    <3> QED  BY <2>1, <3>1, InsideHolds DEF PythonGate!Inside
  <2>3. PICK r \in Callers("run_python"), to \in {"inside", "shed", "refused", "left"} :
          /\ StandingOn("run_python")' = [StandingOn("run_python") EXCEPT ![r] = to]
          /\ StandingOn("run_python")[r] = IF to = "left" THEN "inside" ELSE "outside"
          /\ to = "inside" => slots["run_python"] < MaxConcurrentRuns
          /\ to = "shed" => slots["run_python"] = MaxConcurrentRuns
    BY <2>1, GateStep
  <2>4. CASE to = "inside"   BY <2>2, <2>3, <2>4 DEF PythonGate!Next, PythonGate!Admit, PythonGate!Move
  <2>5. CASE to = "shed"     BY <2>2, <2>3, <2>5 DEF PythonGate!Next, PythonGate!Shed, PythonGate!Move
  <2>6. CASE to = "refused"  BY <2>3, <2>6 DEF PythonGate!Next, PythonGate!Refuse, PythonGate!Move
  <2>7. CASE to = "left"     BY <2>3, <2>7 DEF PythonGate!Next, PythonGate!Leave, PythonGate!Move
  <2> QED  BY <2>4, <2>5, <2>6, <2>7
<1> QED
  BY <1>1, <1>2, <1>3, Invariance, PTL
  DEF Spec, ImplementsAdmission, RunGate!Spec, PythonGate!Spec
================================================================================
