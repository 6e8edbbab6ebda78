---- MODULE Connect_proofs ----
(***************************************************************************)
(* Proofs about the connect loop, for any pool, number of attempts and     *)
(* draw: the types, the choice of servers, the independence of an attempt  *)
(* from the goroutines of earlier ones, and Ctrl-C.                        *)
(***************************************************************************)
EXTENDS Connect, FiniteSetTheorems, TLAPS

USE DEF vars, settings, tryVars, verdictVars, engineVars, probeVars,
        Engine!vars

\* What the engine actions do to the engine's variables.
EngineTypeOK ==
    /\ phase \in {"idle", "running", "returned"}
    /\ ready \in BOOLEAN /\ cancelled \in BOOLEAN /\ direct \in BOOLEAN
    /\ outcome \in {"none", "ok", "error", "timeout"}

LEMMA EngineType ==
    ASSUME EngineTypeOK,
           Engine!Start \/ Engine!BecomeReady \/ Engine!Cancel \/ Engine!Returns
    PROVE  EngineTypeOK'
<1>1. CASE Engine!Start
  BY <1>1 DEF Engine!Start, EngineTypeOK
<1>2. CASE Engine!BecomeReady
  <2>1. ready' \in BOOLEAN
    BY <1>2 DEF Engine!BecomeReady
  <2>2. UNCHANGED <<phase, cancelled, outcome, direct>>
    BY <1>2 DEF Engine!BecomeReady
  <2> QED
    BY <2>1, <2>2 DEF EngineTypeOK
<1>3. CASE Engine!Cancel
  <2>1. cancelled' \in BOOLEAN
    BY <1>3 DEF Engine!Cancel
  <2>2. UNCHANGED <<phase, ready, outcome, direct>>
    BY <1>3 DEF Engine!Cancel
  <2> QED
    BY <2>1, <2>2 DEF EngineTypeOK
<1>4. CASE Engine!Returns
  BY <1>4 DEF Engine!Returns, Engine!Return, Engine!Outcomes, EngineTypeOK
<1> QED
  BY <1>1, <1>2, <1>3, <1>4

LEMMA TypeInit == Init => TypeOK
<1> SUFFICES ASSUME Init PROVE TypeOK
  OBVIOUS
<1>1. interrupted \in BOOLEAN /\ ready \in BOOLEAN /\ cancelled \in BOOLEAN
      /\ fatal \in BOOLEAN
  BY DEF Init, Engine!Init
<1>2. /\ probe \in [Attempts -> {"off"}]
      /\ flags \in [Attempts -> SUBSET {"ran", "failed", "slow", "geo"}]
  BY DEF Init
<1> QED
  BY <1>1, <1>2, SizesAssumption DEF Init, TypeOK, Engine!Init

\* No server is tried before the list is there, and while an attempt is on its
\* way its number is that of an attempt.
AttemptInv ==
    /\ loop = "fetch" => attempted = {} /\ attempt = 0
    /\ loop \in {"engine", "switch"} => attempt \in Attempts

\* Every variable keeps its type.
LEMMA TypeStep ==
    TypeOK /\ AttemptInv /\ [Next]_vars => TypeOK' /\ AttemptInv'
<1> SUFFICES ASSUME TypeOK, AttemptInv
             PROVE  [Next]_vars => TypeOK' /\ AttemptInv'
  OBVIOUS
<1> USE SizesAssumption DEF TypeOK, AttemptInv, Attempts
<1>1. ASSUME FetchEnds \/ Fetched PROVE TypeOK' /\ AttemptInv'
  <2>1. CASE FetchEnds
    BY <2>1 DEF FetchEnds, End
  <2>2. CASE Fetched
    BY <2>2 DEF Fetched
  <2> QED
    BY <1>1, <2>1, <2>2
<1>2. ASSUME LoopStep PROVE TypeOK' /\ AttemptInv'
  <2>1. ASSUME NEW s \in 1 .. PoolMax, PickServer(s)
        PROVE  TypeOK' /\ AttemptInv'
    <3>1. s \in 1 .. pool
      BY <2>1 DEF PickServer, Pickable, Untried
    <3>2. attempt' \in 1 .. MaxAttempts
      BY <2>1 DEF PickServer, AttemptsLeft
    <3>3. ready' \in BOOLEAN /\ cancelled' \in BOOLEAN /\ fatal' \in BOOLEAN
      BY <2>1 DEF PickServer, RunCtxDone
    <3> QED
      BY <2>1, <3>1, <3>2, <3>3 DEF PickServer
  <2>2. ASSUME NoServerLeft \/ Leave PROVE TypeOK' /\ AttemptInv'
    <3>1. /\ loop' = "done"
          /\ ending' \in {"noMoreServers", "allUnusable", "disconnected",
                         "finished", "reported"}
      BY <2>2 DEF NoServerLeft, Leave, End
    <3>2. UNCHANGED <<settings, interrupted, tryVars, verdict, lastReason,
                      quoted, engineVars, fatal, probeVars>>
      BY <2>2 DEF NoServerLeft, Leave
    <3> QED
      BY <3>1, <3>2
  <2>3. ASSUME Decide PROVE TypeOK' /\ AttemptInv'
    <3>1. Judge \in {"good"} \cup Bad
      BY DEF Judge, Bad
    <3> QED
      BY <2>3, <3>1 DEF Decide
  <2>4. ASSUME GiveUp PROVE TypeOK' /\ AttemptInv'
    BY <2>4 DEF GiveUp
  <2> QED
    BY <1>2, <2>1, <2>2, <2>3, <2>4 DEF LoopStep
<1>3. ASSUME EngineStep PROVE TypeOK' /\ AttemptInv'
  <2>1. EngineTypeOK'
    BY <1>3, EngineType DEF EngineStep, EngineStarts, EngineReady,
                            EngineReturns, EngineTypeOK
  <2>2. fatal' \in BOOLEAN
    <3>1. CASE EngineStarts \/ EngineReady
      BY <3>1 DEF EngineStarts, EngineReady
    <3>2. CASE EngineReturns
      <4>1. PICK fault \in Recognise : fatal' = (fault \in {"user", "ours"})
        BY <3>2 DEF EngineReturns
      <4> QED
        BY <4>1
    <3> QED
      BY <1>3, <3>1, <3>2 DEF EngineStep
  <2>3. probe' \in [Attempts -> {"off", "probing", "failed", "slow", "fast",
                 "tooSlow", "locating", "away", "good", "bad", "gone"}]
    BY <1>3 DEF EngineStep, EngineStarts, EngineReady, EngineReturns
  <2>4. UNCHANGED <<settings, interrupted, loop, tryVars, verdictVars,
                    flags, lastMbps, lastExit>>
    BY <1>3 DEF EngineStep, EngineStarts, EngineReady, EngineReturns
  <2> QED
    BY <2>1, <2>2, <2>3, <2>4 DEF EngineTypeOK
<1>4. ASSUME NEW a \in Attempts, ProbeStep(a) PROVE TypeOK' /\ AttemptInv'
  <2>1. CASE ProbeReturns(a)
    BY <2>1 DEF ProbeReturns, Probe
  <2>2. CASE StoreSpeed(a)
    BY <2>2 DEF StoreSpeed
  <2>3. CASE ExitLooked(a)
    BY <2>3 DEF ExitLooked
  <2>4. CASE Reject(a)
    <3>1. FlagOf[probe[a]] \in {"failed", "slow", "geo"}
      BY <2>4 DEF Reject, FlagOf
    <3> QED
      BY <2>4, <3>1 DEF Reject
  <2>5. CASE Drop(a)
    <3>1. EngineTypeOK'
      BY <2>5, EngineType DEF Drop, CancelRun, EngineTypeOK
    <3> QED
      BY <2>5, <3>1 DEF Drop, EngineTypeOK
  <2> QED
    BY <1>4, <2>1, <2>2, <2>3, <2>4, <2>5 DEF ProbeStep
<1>5. ASSUME Interrupt PROVE TypeOK' /\ AttemptInv'
  <2>1. EngineTypeOK'
    BY <1>5, EngineType DEF Interrupt, CancelRun, EngineTypeOK
  <2>2. interrupted' \in BOOLEAN
    BY <1>5 DEF Interrupt
  <2>3. UNCHANGED <<settings, loop, tryVars, verdictVars, fatal, probeVars>>
    BY <1>5 DEF Interrupt
  <2> QED
    BY <2>1, <2>2, <2>3 DEF EngineTypeOK
<1>6. ASSUME UNCHANGED vars PROVE TypeOK' /\ AttemptInv'
  BY <1>6
<1> QED
  BY <1>1, <1>2, <1>3, <1>4, <1>5, <1>6 DEF Next, Done

LEMMA TypeAndAttempt == Spec => [](TypeOK /\ AttemptInv)
<1>1. Init => AttemptInv
  BY DEF Init, AttemptInv
<1> QED
  BY <1>1, TypeInit, TypeStep, PTL DEF Spec

\* Type correctness.
THEOREM TypeCorrect == Spec => []TypeOK
  BY TypeAndAttempt, PTL

-----------------------------------------------------------------------------
(* The choice of servers.                                                   *)

\* The servers tried are as many as the attempts begun, and each was among the
\* best left when it was picked.
PickInv == NoServerTwice /\ BestFirst

LEMMA ServersFinite ==
    ASSUME NEW n \in Nat, NEW T, T \subseteq 1 .. n
    PROVE  IsFiniteSet(T) /\ Cardinality(T) \in Nat
<1>1. IsFiniteSet(1 .. n)
  BY FS_Interval
<1>2. IsFiniteSet(T)
  <2>1. T \in SUBSET (1 .. n)
    OBVIOUS
  <2> QED
    BY <1>1, <2>1, FS_Subset
<1> QED
  BY <1>2, FS_CardinalityType

\* A pick among the best TopPick of the untried servers has few better ones:
\* those tried before, and fewer than TopPick that are not.
LEMMA PickedRank ==
    ASSUME TypeOK, PickInv, NEW s \in 1 .. pool, Pickable(s)
    PROVE  s < attempt + 1 + TopPick
<1> DEFINE below == 1 .. (s - 1)
<1> USE SizesAssumption DEF TypeOK
<1>1. pool \in Nat /\ s \in Nat /\ attempt \in Nat
  OBVIOUS
<1>2. IsFiniteSet(attempted) /\ Cardinality(attempted) = attempt
  BY <1>1, ServersFinite DEF PickInv, NoServerTwice
<1>3. IsFiniteSet(Better(s)) /\ Cardinality(Better(s)) \in Nat
  <2>1. Better(s) \subseteq 1 .. pool
    BY DEF Better, Untried
  <2> QED
    BY <1>1, <2>1, ServersFinite
<1>4. below \subseteq Better(s) \cup attempted
  BY <1>1 DEF Better, Untried
<1>5. IsFiniteSet(below) /\ Cardinality(below) = s - 1
  BY <1>1, FS_Interval
<1>6. /\ IsFiniteSet(Better(s) \cup attempted)
      /\ Cardinality(Better(s) \cup attempted)
           <= Cardinality(Better(s)) + Cardinality(attempted)
  <2>1. /\ IsFiniteSet(Better(s) \cup attempted)
        /\ Cardinality(Better(s) \cup attempted)
             = Cardinality(Better(s)) + Cardinality(attempted)
                 - Cardinality(Better(s) \cap attempted)
    BY <1>2, <1>3, FS_Union
  <2>2. Cardinality(Better(s) \cap attempted) \in Nat
    BY <1>2, <1>3, FS_Intersection, FS_CardinalityType
  <2> QED
    BY <1>1, <1>2, <1>3, <2>1, <2>2
<1>7. s - 1 <= Cardinality(Better(s) \cup attempted)
  BY <1>4, <1>5, <1>6, FS_Subset
<1>8. Cardinality(Better(s) \cup attempted) \in Nat
  BY <1>6, FS_CardinalityType
<1>9. Cardinality(Better(s)) < TopPick
  BY DEF Pickable
<1> QED
  BY <1>1, <1>2, <1>3, <1>6, <1>7, <1>8, <1>9

LEMMA PickStep ==
    TypeOK /\ AttemptInv /\ PickInv /\ [Next]_vars => PickInv'
<1> SUFFICES ASSUME TypeOK, AttemptInv, PickInv PROVE [Next]_vars => PickInv'
  OBVIOUS
<1>1. ASSUME NEW s \in 1 .. PoolMax, PickServer(s) PROVE PickInv'
  <2>1. s \in 1 .. pool /\ s \notin attempted
    BY <1>1 DEF PickServer, Pickable, Untried
  <2>2. /\ attempted' = attempted \cup {s} /\ attempt' = attempt + 1
        /\ attempt < MaxAttempts /\ pool' = pool /\ Pickable(s)
    BY <1>1 DEF PickServer, AttemptsLeft
  <2>3. Cardinality(attempted') = attempt'
    <3>1. IsFiniteSet(attempted)
      <4>1. pool \in Nat /\ attempted \subseteq 1 .. pool
        BY SizesAssumption DEF TypeOK
      <4> QED
        BY <4>1, ServersFinite
    <3> QED
      BY <2>1, <2>2, <3>1, FS_AddElement DEF PickInv, NoServerTwice
  <2>4. NoServerTwice'
    BY <2>1, <2>2, <2>3, SizesAssumption DEF TypeOK, PickInv, NoServerTwice
  <2>5. BestFirst'
    <3>1. s < attempt' + TopPick
      BY <2>1, <2>2, PickedRank, SizesAssumption DEF TypeOK
    <3>2. \A t \in attempted : t < attempt' + TopPick
      BY <2>2, SizesAssumption DEF TypeOK, PickInv, BestFirst
    <3> QED
      BY <2>2, <3>1, <3>2 DEF BestFirst
  <2> QED
    BY <2>4, <2>5 DEF PickInv
<1>2. ASSUME Fetched PROVE PickInv'
  \* Nothing has been tried yet.
  <2>1. attempted' = {} /\ attempt' = 0
    BY <1>2 DEF Fetched, AttemptInv
  <2> QED
    BY <2>1, FS_EmptySet, SizesAssumption DEF PickInv, NoServerTwice, BestFirst
<1>3. ASSUME [Next]_vars, ~Fetched, \A s \in 1 .. PoolMax : ~PickServer(s)
      PROVE  PickInv'
  <2>1. UNCHANGED tryVars
    BY <1>3 DEF Next, FetchEnds, LoopStep, NoServerLeft, Decide, GiveUp, Leave,
                EngineStep, EngineStarts, EngineReady, EngineReturns, ProbeStep,
                ProbeReturns, Probe, StoreSpeed, ExitLooked, Reject, Drop, Interrupt,
                Done
  <2> QED
    BY <2>1 DEF PickInv, NoServerTwice, BestFirst
<1> QED
  BY <1>1, <1>2, <1>3

LEMMA PickCorrect == Spec => []PickInv
<1>1. Init => PickInv
  BY FS_EmptySet, SizesAssumption DEF Init, PickInv, NoServerTwice, BestFirst
<1> QED
  BY <1>1, TypeAndAttempt, PickStep, PTL DEF Spec

\* No server is tried twice, and no more than maxAttempts are.
THEOREM ServersTriedOnce == Spec => []NoServerTwice
  BY PickCorrect, PTL DEF PickInv

\* The k-th server tried is among the best k + TopPick - 1.
THEOREM BestServersFirst == Spec => []BestFirst
  BY PickCorrect, PTL DEF PickInv

-----------------------------------------------------------------------------
(* An attempt and the probe goroutines.                                     *)

\* An attempt that has not become ready has no goroutine and no flags yet, and
\* a flag that names a fault is set only by the goroutine that found it.
FlagInv ==
    \A a \in Attempts :
        /\ a > attempt \/ (a = attempt /\ ~ready)
              => probe[a] = "off" /\ flags[a] = {}
        /\ flags[a] \cap {"slow", "failed", "geo"} # {}
              => probe[a] \in {"bad", "gone"}

\* Only a goroutine that rejects its server cancels an attempt's context.
CancelInv ==
    loop = "engine" /\ cancelled => interrupted \/ probe[attempt] = "gone"

ProbeInv == FlagInv /\ VerdictFromOwnProbe /\ CancelInv

\* A goroutine changes its own entries only.
LEMMA ProbeOwn ==
    ASSUME TypeOK, NEW a \in Attempts, ProbeStep(a)
    PROVE  /\ probe[a] # "off"
           /\ \A b \in Attempts : b # a => probe'[b] = probe[b]
                                           /\ flags'[b] = flags[b]
           /\ probe[a] \in {"bad", "gone"} => probe'[a] \in {"bad", "gone"}
           /\ probe[a] # "gone"
           /\ UNCHANGED <<settings, interrupted, loop, tryVars, verdictVars,
                          phase, ready, outcome, direct, fatal>>
<1> USE DEF TypeOK
<1>1. CASE ProbeReturns(a)
  BY <1>1 DEF ProbeReturns, Probe, Alive
<1>2. CASE StoreSpeed(a)
  BY <1>2 DEF StoreSpeed, Alive
<1>3. CASE ExitLooked(a)
  BY <1>3 DEF ExitLooked, Alive
<1>4. CASE Reject(a)
  BY <1>4 DEF Reject, Alive, FlagOf
<1>5. CASE Drop(a)
  BY <1>5 DEF Drop, Alive, CancelRun, Engine!Cancel
<1> QED
  BY <1>1, <1>2, <1>3, <1>4, <1>5 DEF ProbeStep

LEMMA ProbeInvStep ==
    TypeOK /\ AttemptInv /\ ProbeInv /\ [Next]_vars => ProbeInv'
<1> SUFFICES ASSUME TypeOK, AttemptInv, ProbeInv PROVE [Next]_vars => ProbeInv'
  OBVIOUS
<1> USE DEF ProbeInv, FlagInv, VerdictFromOwnProbe, CancelInv
<1>1. ASSUME FetchEnds \/ Fetched PROVE ProbeInv'
  BY <1>1 DEF FetchEnds, Fetched, End
<1>2. ASSUME LoopStep PROVE ProbeInv'
  <2>1. ASSUME NEW s \in 1 .. PoolMax, PickServer(s) PROVE ProbeInv'
    \* The next attempt's entries are still fresh.
    <3>1. /\ attempt \in Nat /\ attempt' = attempt + 1 /\ loop' = "engine"
          /\ UNCHANGED <<probe, flags, interrupted>>
          /\ cancelled' = interrupted
      BY <2>1, SizesAssumption DEF PickServer, RunCtxDone, TypeOK
    <3>2. \A a \in Attempts : a >= attempt' => a > attempt
      BY <3>1 DEF Attempts
    <3> QED
      BY <3>1, <3>2 DEF Attempts
  <2>2. CASE NoServerLeft \/ Leave
    BY <2>2 DEF NoServerLeft, Leave, End
  <2>3. CASE Decide
    <3>1. Judge \in {"slow", "unreachable", "geoMismatch"}
            => flags[attempt] \cap {"slow", "failed", "geo"} # {}
      BY DEF Judge
    <3>2. UNCHANGED <<attempt, ready, probe, flags>> /\ loop' = "switch"
          /\ verdict' = Judge /\ attempt \in Attempts
      BY <2>3 DEF Decide, AttemptInv
    <3> QED
      BY <3>1, <3>2
  <2>4. CASE GiveUp
    BY <2>4 DEF GiveUp
  <2> QED
    BY <1>2, <2>1, <2>2, <2>3, <2>4 DEF LoopStep
<1>3. ASSUME EngineStep PROVE ProbeInv'
  <2>1. CASE EngineReady
    \* The goroutine starts from a fresh entry.
    <3>1. attempt \in Attempts /\ probe[attempt] = "off" /\ flags[attempt] = {}
      BY <2>1 DEF EngineReady, Engine!BecomeReady, AttemptInv
    <3>2. /\ ready' = TRUE /\ loop' = "engine"
          /\ UNCHANGED <<attempt, flags, cancelled, interrupted>>
          /\ \A a \in Attempts : a # attempt => probe'[a] = probe[a]
      BY <2>1 DEF EngineReady, Engine!BecomeReady, TypeOK
    <3>3. CancelInv'
      BY <2>1, <3>1, <3>2 DEF EngineReady
    <3>4. FlagInv'
      BY <3>1, <3>2 DEF Attempts
    <3> QED
      BY <3>2, <3>3, <3>4
  <2>2. CASE EngineStarts
    BY <2>2 DEF EngineStarts, Engine!Start
  <2>3. CASE EngineReturns
    BY <2>3 DEF EngineReturns, Engine!Returns, Engine!Return
  <2> QED
    BY <1>3, <2>1, <2>2, <2>3 DEF EngineStep
<1>4. ASSUME NEW a \in Attempts, ProbeStep(a) PROVE ProbeInv'
  <2>1. FlagInv'
    <3>1. a <= attempt /\ ~(a = attempt /\ ~ready)
      BY <1>4, ProbeOwn, SizesAssumption DEF Attempts, TypeOK
    <3>2. flags'[a] \cap {"slow", "failed", "geo"} # {}
            => probe'[a] \in {"bad", "gone"}
      <4>1. CASE Reject(a)
        BY <4>1 DEF Reject, TypeOK
      <4>2. CASE ~Reject(a)
        <5>1. flags'[a] \cap {"slow", "failed", "geo"}
                = flags[a] \cap {"slow", "failed", "geo"}
          BY <1>4, <4>2 DEF ProbeStep, ProbeReturns, Probe, StoreSpeed, ExitLooked,
                            Drop, TypeOK
        <5> QED
          BY <1>4, <5>1, ProbeOwn
      <4> QED
        BY <4>1, <4>2
    <3> QED
      BY <1>4, <3>1, <3>2, ProbeOwn
  <2>2. VerdictFromOwnProbe'
    BY <1>4, ProbeOwn DEF AttemptInv
  <2>3. CancelInv'
    <3>1. CASE Drop(a)
      <4>1. CASE a = attempt
        <5>1. probe'[attempt] = "gone" /\ attempt' = attempt
          BY <3>1, <4>1 DEF Drop, TypeOK
        <5> QED
          BY <5>1
      <4>2. CASE a # attempt
        <5>1. UNCHANGED cancelled
          BY <3>1, <4>2 DEF Drop, CancelRun
        <5> QED
          BY <1>4, <4>2, <5>1, ProbeOwn DEF AttemptInv
      <4> QED
        BY <4>1, <4>2
    <3>2. CASE ~Drop(a)
      <4>1. UNCHANGED cancelled
        BY <1>4, <3>2 DEF ProbeStep, ProbeReturns, Probe, StoreSpeed, ExitLooked,
                          Reject
      <4> QED
        BY <1>4, <4>1, ProbeOwn DEF AttemptInv
    <3> QED
      BY <3>1, <3>2
  <2> QED
    BY <2>1, <2>2, <2>3
<1>5. ASSUME Interrupt PROVE ProbeInv'
  <2>1. UNCHANGED <<loop, attempt, verdict, ready, probe, flags>>
        /\ interrupted' = TRUE
    BY <1>5 DEF Interrupt, CancelRun, Engine!Cancel
  <2> QED
    BY <2>1
<1>6. ASSUME UNCHANGED vars PROVE ProbeInv'
  BY <1>6
<1> QED
  BY <1>1, <1>2, <1>3, <1>4, <1>5, <1>6 DEF Next, Done

LEMMA ProbeCorrect == Spec => []ProbeInv
<1>1. Init => ProbeInv
  BY DEF Init, ProbeInv, FlagInv, VerdictFromOwnProbe, CancelInv, Engine!Init
<1> QED
  BY <1>1, TypeAndAttempt, ProbeInvStep, PTL DEF Spec

\* A server is condemned only by its own probe.
THEOREM OwnProbeJudges == Spec => []VerdictFromOwnProbe
  BY ProbeCorrect, PTL DEF ProbeInv

\* A tunnel whose probe has found it usable is cancelled by Ctrl-C alone.
THEOREM GoodServerStays == Spec => []GoodServerKept
<1>1. CancelInv => GoodServerKept
  BY DEF CancelInv, GoodServerKept
<1> QED
  BY <1>1, ProbeCorrect, PTL DEF ProbeInv

-----------------------------------------------------------------------------
(* An engine that failed unprobed.                                          *)

\* "ran" is set exactly when the probe has come back.
RanInv ==
    \A a \in Attempts : "ran" \in flags[a] <=> probe[a] \notin {"off", "probing"}

UnprobedInv == RanInv /\ FailedEngineNotGood

LEMMA RanStep ==
    TypeOK /\ AttemptInv /\ FlagInv /\ RanInv /\ [Next]_vars => RanInv'
<1> SUFFICES ASSUME TypeOK, AttemptInv, FlagInv, RanInv
             PROVE  [Next]_vars => RanInv'
  OBVIOUS
<1> USE DEF RanInv
<1>1. ASSUME FetchEnds \/ Fetched \/ LoopStep \/ Interrupt PROVE RanInv'
  <2>1. UNCHANGED <<probe, flags>>
    BY <1>1 DEF FetchEnds, Fetched, LoopStep, PickServer, NoServerLeft, Decide,
                GiveUp, Leave, Interrupt, probeVars
  <2> QED
    BY <2>1
<1>2. ASSUME EngineStep PROVE RanInv'
  <2>1. CASE EngineReady
    \* The goroutine starts from a fresh entry.
    <3>1. attempt \in Attempts /\ probe[attempt] = "off" /\ flags[attempt] = {}
      BY <2>1 DEF EngineReady, Engine!BecomeReady, AttemptInv, FlagInv
    <3>2. UNCHANGED flags /\ probe' \in {probe, [probe EXCEPT ![attempt] = "probing"]}
      BY <2>1 DEF EngineReady
    <3> QED
      BY <3>1, <3>2 DEF TypeOK
  <2>2. CASE EngineStarts \/ EngineReturns
    BY <2>2 DEF EngineStarts, EngineReturns, probeVars
  <2> QED
    BY <1>2, <2>1, <2>2 DEF EngineStep
<1>3. ASSUME NEW a \in Attempts, ProbeStep(a) PROVE RanInv'
  <2> USE DEF TypeOK
  <2>1. CASE ProbeReturns(a)
    BY <2>1 DEF ProbeReturns, Probe
  <2>2. CASE StoreSpeed(a)
    BY <2>2 DEF StoreSpeed
  <2>3. CASE ExitLooked(a)
    BY <2>3 DEF ExitLooked
  <2>4. CASE Reject(a)
    <3>1. FlagOf[probe[a]] # "ran" /\ probe[a] \notin {"off", "probing"}
      BY <2>4 DEF Reject, FlagOf
    <3> QED
      BY <2>4, <3>1 DEF Reject
  <2>5. CASE Drop(a)
    BY <2>5 DEF Drop
  <2> QED
    BY <1>3, <2>1, <2>2, <2>3, <2>4, <2>5 DEF ProbeStep
<1>4. ASSUME UNCHANGED vars PROVE RanInv'
  BY <1>4 DEF vars, probeVars
<1> QED
  BY <1>1, <1>2, <1>3, <1>4 DEF Next, Done

LEMMA UnprobedStep ==
    TypeOK /\ AttemptInv /\ ProbeInv /\ UnprobedInv /\ [Next]_vars => UnprobedInv'
<1> SUFFICES ASSUME TypeOK, AttemptInv, RanInv, FailedEngineNotGood, [Next]_vars
             PROVE  FailedEngineNotGood'
  BY RanStep DEF UnprobedInv, ProbeInv
<1> USE DEF FailedEngineNotGood
<1>1. ASSUME FetchEnds \/ Fetched \/ EngineStep PROVE FailedEngineNotGood'
  BY <1>1 DEF FetchEnds, Fetched, End, EngineStep, EngineStarts, EngineReady, EngineReturns
<1>2. ASSUME LoopStep PROVE FailedEngineNotGood'
  <2>1. CASE Decide
    <3>1. Judge = "good" /\ ~interrupted /\ outcome # "ok" => "ran" \in flags[attempt]
      BY DEF Judge
    <3>2. /\ verdict' = Judge /\ attempt \in Attempts
          /\ UNCHANGED <<attempt, probe, interrupted, outcome>>
      BY <2>1 DEF Decide, AttemptInv, probeVars, tryVars, engineVars
    <3> QED
      BY <3>1, <3>2 DEF RanInv
  <2>2. CASE \E s \in 1 .. PoolMax : PickServer(s)
    BY <2>2 DEF PickServer
  <2>3. CASE NoServerLeft \/ GiveUp \/ Leave
    BY <2>3 DEF NoServerLeft, GiveUp, Leave, End
  <2> QED
    BY <1>2, <2>1, <2>2, <2>3 DEF LoopStep
<1>3. ASSUME NEW a \in Attempts, ProbeStep(a) PROVE FailedEngineNotGood'
  <2>1. probe'[a] \notin {"off", "probing"}
    BY <1>3 DEF ProbeStep, ProbeReturns, Probe, StoreSpeed, ExitLooked, Reject, Drop,
                FlagOf, TypeOK
  <2>2. UNCHANGED <<interrupted, loop, attempt, verdict, outcome>>
    BY <1>3, ProbeOwn DEF tryVars, verdictVars
  <2> QED
    BY <1>3, <2>1, <2>2, ProbeOwn DEF AttemptInv
<1>4. ASSUME Interrupt PROVE FailedEngineNotGood'
  BY <1>4 DEF Interrupt
<1>5. ASSUME UNCHANGED vars PROVE FailedEngineNotGood'
  BY <1>5 DEF vars, tryVars, verdictVars, engineVars, probeVars
<1> QED
  BY <1>1, <1>2, <1>3, <1>4, <1>5 DEF Next, Done

\* A server whose engine failed before its probe came back is never kept as
\* good, so the loop goes on to the next one.
THEOREM FailedEngineRetried == Spec => []FailedEngineNotGood
<1>1. Init => UnprobedInv
  BY DEF Init, UnprobedInv, RanInv, FailedEngineNotGood
<1>2. UnprobedInv => FailedEngineNotGood
  BY DEF UnprobedInv
<1> QED
  BY <1>1, <1>2, TypeAndAttempt, ProbeCorrect, UnprobedStep, PTL DEF Spec

-----------------------------------------------------------------------------
(* The quoted numbers.                                                      *)

\* A goroutine stores what it measured before it raises the flag.
MeasureInv ==
    /\ lastMbps <= attempt /\ lastExit <= attempt
    /\ \A a \in Attempts :
          /\ probe[a] = "tooSlow" \/ "slow" \in flags[a] => lastMbps # 0
          /\ probe[a] = "away" \/ "geo" \in flags[a] => lastExit # 0
    /\ verdict = "slow" => lastMbps # 0
    /\ verdict = "geoMismatch" => lastExit # 0
    /\ QuotesAMeasurement

LEMMA MeasureStep ==
    TypeOK /\ AttemptInv /\ FlagInv /\ MeasureInv /\ [Next]_vars => MeasureInv'
<1> SUFFICES ASSUME TypeOK, AttemptInv, FlagInv, MeasureInv
             PROVE  [Next]_vars => MeasureInv'
  OBVIOUS
<1> USE SizesAssumption DEF MeasureInv, QuotesAMeasurement
<1>1. ASSUME FetchEnds \/ Fetched PROVE MeasureInv'
  BY <1>1 DEF FetchEnds, Fetched, End
<1>2. ASSUME LoopStep PROVE MeasureInv'
  <2>1. ASSUME NEW s \in 1 .. PoolMax, PickServer(s) PROVE MeasureInv'
    BY <2>1 DEF PickServer, TypeOK
  <2>2. CASE NoServerLeft \/ Leave
    BY <2>2 DEF NoServerLeft, Leave, End
  <2>3. CASE Decide
    <3>1. /\ Judge = "slow" => "slow" \in flags[attempt]
          /\ Judge = "geoMismatch" => "geo" \in flags[attempt]
      BY DEF Judge
    <3> QED
      BY <2>3, <3>1 DEF Decide, AttemptInv
  <2>4. CASE GiveUp
    <3>1. /\ lastReason' = verdict /\ attempt' = attempt
          /\ verdict = "slow" => quoted' = lastMbps
          /\ verdict = "geoMismatch" => quoted' = lastExit
          /\ UNCHANGED <<probe, flags, lastMbps, lastExit, verdict>>
      BY <2>4 DEF GiveUp
    <3>2. attempt \in Nat /\ lastMbps \in Nat /\ lastExit \in Nat
      BY DEF TypeOK
    <3> QED
      BY <3>1, <3>2
  <2> QED
    BY <1>2, <2>1, <2>2, <2>3, <2>4 DEF LoopStep
<1>3. ASSUME EngineStep PROVE MeasureInv'
  <2>1. /\ UNCHANGED <<attempt, flags, lastMbps, lastExit, verdict, lastReason,
                       quoted>>
        /\ \A a \in Attempts : probe'[a] # probe[a] => probe'[a] = "probing"
    BY <1>3 DEF EngineStep, EngineStarts, EngineReady, EngineReturns, TypeOK
  <2> QED
    BY <2>1
<1>4. ASSUME NEW a \in Attempts, ProbeStep(a) PROVE MeasureInv'
  <2>1. a \in 1 .. attempt /\ attempt \in Nat
    BY <1>4, ProbeOwn DEF Attempts, TypeOK, FlagInv
  <2>2. UNCHANGED <<attempt, verdict, lastReason, quoted>>
    BY <1>4, ProbeOwn
  <2>3. \A b \in Attempts : b # a => probe'[b] = probe[b]
                                     /\ flags'[b] = flags[b]
    BY <1>4, ProbeOwn
  <2>4. /\ lastMbps' # lastMbps => lastMbps' = a
        /\ lastExit' # lastExit => lastExit' = a
    BY <1>4 DEF ProbeStep, ProbeReturns, Probe, StoreSpeed, ExitLooked, Reject, Drop
  <2>5. /\ probe'[a] = "tooSlow" \/ "slow" \in flags'[a] => lastMbps' # 0
        /\ probe'[a] = "away" \/ "geo" \in flags'[a] => lastExit' # 0
    <3> USE DEF TypeOK
    <3>1. CASE ProbeReturns(a)
      BY <3>1 DEF ProbeReturns, Probe
    <3>2. CASE StoreSpeed(a)
      BY <2>1, <3>2 DEF StoreSpeed
    <3>3. CASE ExitLooked(a)
      BY <2>1, <3>3 DEF ExitLooked
    <3>4. CASE Reject(a)
      <4>1. /\ FlagOf[probe[a]] = "slow" <=> probe[a] = "tooSlow"
            /\ FlagOf[probe[a]] = "geo" <=> probe[a] = "away"
        BY <3>4 DEF Reject, FlagOf
      <4> QED
        BY <3>4, <4>1 DEF Reject
    <3>5. CASE Drop(a)
      BY <3>5 DEF Drop
    <3> QED
      BY <1>4, <3>1, <3>2, <3>3, <3>4, <3>5 DEF ProbeStep
  <2>6. /\ lastMbps' \in 0 .. attempt /\ (lastMbps # 0 => lastMbps' # 0)
        /\ lastExit' \in 0 .. attempt /\ (lastExit # 0 => lastExit' # 0)
    <3>1. lastMbps \in 0 .. attempt /\ lastExit \in 0 .. attempt
      BY <2>1 DEF TypeOK
    <3> QED
      BY <2>1, <2>4, <3>1
  <2>7. ASSUME NEW b \in Attempts
        PROVE  /\ probe'[b] = "tooSlow" \/ "slow" \in flags'[b] => lastMbps' # 0
               /\ probe'[b] = "away" \/ "geo" \in flags'[b] => lastExit' # 0
    BY <2>3, <2>5, <2>6
  <2>8. QuotesAMeasurement'
    BY <2>2
  <2>9. /\ lastMbps' <= attempt' /\ lastExit' <= attempt'
        /\ verdict' = "slow" => lastMbps' # 0
        /\ verdict' = "geoMismatch" => lastExit' # 0
    BY <2>1, <2>2, <2>6
  <2> QED
    BY <2>7, <2>8, <2>9
<1>5. ASSUME Interrupt PROVE MeasureInv'
  BY <1>5 DEF Interrupt
<1>6. ASSUME UNCHANGED vars PROVE MeasureInv'
  BY <1>6
<1> QED
  BY <1>1, <1>2, <1>3, <1>4, <1>5, <1>6 DEF Next, Done

LEMMA MeasureCorrect == Spec => []MeasureInv
<1>1. Init => MeasureInv
  BY DEF Init, MeasureInv, QuotesAMeasurement
<1>2. ProbeInv => FlagInv
  BY DEF ProbeInv
<1> QED
  BY <1>1, <1>2, TypeAndAttempt, ProbeCorrect, MeasureStep, PTL DEF Spec

\* A reason that quotes a number quotes one that a probe has measured.
THEOREM QuotesMeasured == Spec => []QuotesAMeasurement
<1>1. MeasureInv => QuotesAMeasurement
  BY DEF MeasureInv
<1> QED
  BY <1>1, MeasureCorrect, PTL

-----------------------------------------------------------------------------
(* Ctrl-C.                                                                  *)

\* The interrupt reaches every engine call that has not returned.
InterruptInv ==
    interrupted /\ loop = "engine" /\ phase # "returned" => cancelled

LEMMA InterruptStep ==
    TypeOK /\ InterruptInv /\ [Next]_vars => InterruptInv'
<1> SUFFICES ASSUME TypeOK, InterruptInv PROVE [Next]_vars => InterruptInv'
  OBVIOUS
<1> USE DEF InterruptInv
<1>1. ASSUME FetchEnds \/ Fetched \/ LoopStep PROVE InterruptInv'
  <2>1. ASSUME NEW s \in 1 .. PoolMax, PickServer(s) PROVE InterruptInv'
    <3>1. cancelled' = interrupted /\ interrupted' = interrupted
      BY <2>1 DEF PickServer, RunCtxDone
    <3> QED
      BY <3>1, Zenon
  <2>2. ASSUME \A s \in 1 .. PoolMax : ~PickServer(s) PROVE loop' # "engine"
    BY <1>1, <2>2 DEF FetchEnds, Fetched, End, LoopStep, NoServerLeft, Decide,
                      GiveUp, Leave
  <2> QED
    BY <2>1, <2>2
<1>2. ASSUME EngineStep PROVE InterruptInv'
  BY <1>2 DEF EngineStep, EngineStarts, EngineReady, EngineReturns,
              Engine!Start, Engine!BecomeReady, Engine!Returns, Engine!Return
<1>3. ASSUME NEW a \in Attempts, ProbeStep(a) PROVE InterruptInv'
  <2>1. CASE Drop(a)
    BY <2>1 DEF Drop, CancelRun, Engine!Cancel
  <2>2. CASE ~Drop(a)
    BY <1>3, <2>2 DEF ProbeStep, ProbeReturns, Probe, StoreSpeed, ExitLooked, Reject
  <2> QED
    BY <2>1, <2>2
<1>4. ASSUME Interrupt PROVE InterruptInv'
  BY <1>4 DEF Interrupt, CancelRun, Engine!Cancel, TypeOK
<1>5. ASSUME UNCHANGED vars PROVE InterruptInv'
  BY <1>5
<1> QED
  BY <1>1, <1>2, <1>3, <1>4, <1>5 DEF Next, Done

LEMMA InterruptCorrect == Spec => []InterruptInv
<1>1. Init => InterruptInv
  BY DEF Init, InterruptInv
<1> QED
  BY <1>1, TypeCorrect, InterruptStep, PTL DEF Spec

\* After Ctrl-C no engine is started, also when it came while an attempt was
\* still being set up.
THEOREM InterruptStopsStarts == Spec => NoEngineAfterInterrupt
<1>1. InterruptInv /\ [Next]_vars
        => [interrupted => ~(phase = "idle" /\ phase' = "running")]_vars
  <2> SUFFICES ASSUME InterruptInv, interrupted, Next
               PROVE  ~(phase = "idle" /\ phase' = "running")
    OBVIOUS
  <2>1. CASE EngineStarts
    BY <2>1 DEF EngineStarts, Engine!Start, InterruptInv
  <2>2. CASE EngineReady \/ EngineReturns
    BY <2>2 DEF EngineReady, EngineReturns, Engine!BecomeReady,
                Engine!Returns, Engine!Return
  <2>3. CASE FetchEnds \/ Fetched \/ LoopStep \/ Done
    BY <2>3 DEF FetchEnds, Fetched, LoopStep, PickServer, NoServerLeft,
                Decide, GiveUp, Leave, Done
  <2>4. ASSUME NEW a \in Attempts, ProbeStep(a) PROVE phase' = phase
    BY <2>4 DEF ProbeStep, ProbeReturns, Probe, StoreSpeed, ExitLooked, Reject, Drop,
                CancelRun, Engine!Cancel
  <2>5. CASE Interrupt
    BY <2>5 DEF Interrupt
  <2> QED
    BY <2>1, <2>2, <2>3, <2>4, <2>5 DEF Next, EngineStep
<1> QED
  BY <1>1, InterruptCorrect, PTL DEF Spec, NoEngineAfterInterrupt
====
