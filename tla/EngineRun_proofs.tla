---- MODULE EngineRun_proofs ----
(***************************************************************************)
(* Proofs about one engine call, for any streams, kinds of lines and       *)
(* bounds: the types, OnReady at most once, nothing after the return, the  *)
(* engine and its config, the deadline kill that is always reported, the   *)
(* newest lines in the ring, the join, and the refinement of EngineAbs.    *)
(***************************************************************************)
EXTENDS EngineRun, TLAPS

USE DEF vars, envVars, callVars, procVars, pumpVars, onceVars, watchVars,
        notCall, notPump, notWatch

\* The ring stays a sequence of lines when the oldest one is dropped.
LEMMA TruncateType ==
    ASSUME NEW r \in Seq(Lines)
    PROVE  Truncate(r) \in Seq(Lines)
<1>1. CASE Len(r) > RingMax
  <2>1. r # <<>>
    BY <1>1, BoundsAssumption
  <2> QED
    BY <1>1, <2>1 DEF Truncate
<1>2. CASE ~(Len(r) > RingMax)
  BY <1>2 DEF Truncate
<1> QED
  BY <1>1, <1>2

LEMMA EmptyLen == ASSUME NEW q, q = <<>> PROVE Len(q) = 0
  OBVIOUS

LEMMA TypeInit == Init => TypeOK
<1> SUFFICES ASSUME Init PROVE TypeOK
  OBVIOUS
<1>1. sent \in [Streams -> Seq(Kinds)] /\ ring \in Seq(Lines)
  BY DEF Init
<1>2. \A s \in Streams : scanned[s] <= fetched[s] /\ fetched[s] <= Len(sent[s])
  <2> TAKE s \in Streams
  <2>1. scanned[s] = 0 /\ fetched[s] = 0 /\ sent[s] = <<>>
    BY DEF Init
  <2>2. Len(sent[s]) = 0
    BY <2>1, EmptyLen, Zenon
  <2> QED
    BY <2>1, <2>2
<1>3. fetched \in [Streams -> Nat] /\ scanned \in [Streams -> Nat]
  BY DEF Init
<1>4. pump \in [Streams -> {"off", "scan", "fire", "send", "done"}]
  BY DEF Init
<1> QED
  BY <1>1, <1>2, <1>3, <1>4 DEF Init, TypeOK

\* Every variable keeps its type.
LEMMA TypeStep == TypeOK /\ [Next]_vars => TypeOK'
<1> SUFFICES ASSUME TypeOK PROVE [Next]_vars => TypeOK'
  OBVIOUS
<1> USE DEF TypeOK
<1>1. ASSUME CallStep PROVE TypeOK'
  <2>1. CASE Setup \/ SetupFails \/ StartFails
    BY <2>1 DEF Setup, SetupFails, StartFails
  <2>2. CASE StartEngine
    BY <2>2 DEF StartEngine
  <2>3. CASE WaitReturns \/ Join
    BY <2>3 DEF WaitReturns, Join
  <2>4. CASE Check
    BY <2>4 DEF Check
  <2>5. CASE Cleanup
    <3>1. UNCHANGED <<notCall, result>> /\ main' = "returned"
      BY <2>5 DEF Cleanup
    <3>2. dir' \in BOOLEAN
      BY <2>5 DEF Cleanup
    <3> QED
      BY <3>1, <3>2
  <2> QED
    BY <1>1, <2>1, <2>2, <2>3, <2>4, <2>5 DEF CallStep
<1>2. ASSUME NEW s \in Streams, PumpStep(s) PROVE TypeOK'
  <2>1. CASE PumpReads(s)
    BY <2>1 DEF PumpReads
  <2>2. CASE PumpLine(s)
    <3>1. Next1(s) \in Nat \ {0} /\ Next1(s) <= fetched[s]
      BY <2>2 DEF PumpLine, Next1
    <3>2. ring' \in Seq(Lines)
      <4>1. <<s, Next1(s)>> \in Lines
        BY <3>1 DEF Lines
      <4>2. Append(ring, <<s, Next1(s)>>) \in Seq(Lines)
        BY <4>1
      <4> QED
        BY <2>2, <4>2, TruncateType DEF PumpLine
    <3> QED
      BY <2>2, <3>1, <3>2 DEF PumpLine
  <2>3. CASE PumpEnds(s)
    BY <2>3 DEF PumpEnds
  <2>4. CASE FireFirst(s)
    BY <2>4 DEF FireFirst
  <2>5. CASE FireSend(s)
    BY <2>5 DEF FireSend
  <2>6. CASE FireAgain(s)
    BY <2>6 DEF FireAgain
  <2> QED
    BY <1>2, <2>1, <2>2, <2>3, <2>4, <2>5, <2>6 DEF PumpStep
<1>3. ASSUME TimerExpires \/ WatchStep PROVE TypeOK'
  BY <1>3 DEF TimerExpires, WatchStep, WatchReady, WatchTimeout, WatchCancel
<1>4. ASSUME Kill PROVE TypeOK'
  BY <1>4 DEF Kill
<1>5. ASSUME Environment PROVE TypeOK'
  <2>1. ASSUME NEW s \in Streams, NEW k \in Kinds, EngineWrites(s, k)
        PROVE  TypeOK'
    <3>1. Append(sent[s], k) \in Seq(Kinds)
          /\ Len(Append(sent[s], k)) = Len(sent[s]) + 1
      OBVIOUS
    <3> QED
      BY <2>1, <3>1 DEF EngineWrites
  <2>2. ASSUME NEW e \in {"ok", "error"}, EngineExits(e) PROVE TypeOK'
    BY <2>2 DEF EngineExits
  <2>3. CASE CallerCancels
    BY <2>3 DEF CallerCancels
  <2> QED
    BY <1>5, <2>1, <2>2, <2>3 DEF Environment
<1>6. ASSUME UNCHANGED vars PROVE TypeOK'
  BY <1>6
<1> QED
  BY <1>1, <1>2, <1>3, <1>4, <1>5, <1>6 DEF Next, Returned

\* Type correctness.
THEOREM TypeCorrect == Spec => []TypeOK
  BY TypeInit, TypeStep, PTL DEF Spec

-----------------------------------------------------------------------------
(* The course of a call: which processes and goroutines exist at each point *)
(* of the calling goroutine.                                                *)

LifeInv ==
    /\ proc = "none" =>
          /\ main \in {"setup", "start", "cleanup", "returned"}
          /\ engine = "none" /\ exit = "none" /\ watch = "off"
          /\ \A s \in Streams : pump[s] = "off"
    /\ main \in {"setup", "start"} => proc = "none"
    /\ proc = "up" => main = "wait" /\ engine = "up"
    /\ engine = "up" /\ host # "wrapper" => proc = "up"
    /\ main \in {"start", "wait"} => dir
    /\ Joined /\ proc # "none" => \A s \in Streams : pump[s] = "done"

LEMMA LifeInit == Init => LifeInv
  BY DEF Init, LifeInv, Joined

LEMMA LifeStep == TypeOK /\ LifeInv /\ [Next]_vars => LifeInv'
<1> SUFFICES ASSUME TypeOK, LifeInv PROVE [Next]_vars => LifeInv'
  OBVIOUS
<1> USE DEF LifeInv, Joined
<1>1. ASSUME CallStep PROVE LifeInv'
  <2>1. CASE Setup \/ SetupFails
    BY <2>1 DEF Setup, SetupFails
  <2>2. CASE StartEngine
    BY <2>2 DEF StartEngine
  <2>3. CASE StartFails
    BY <2>3 DEF StartFails
  <2>4. CASE WaitReturns
    BY <2>4 DEF WaitReturns, ProcessExited
  <2>5. CASE Join
    BY <2>5 DEF Join, PumpsDone
  <2>6. CASE Check \/ Cleanup
    BY <2>6 DEF Check, Cleanup
  <2> QED
    BY <1>1, <2>1, <2>2, <2>3, <2>4, <2>5, <2>6 DEF CallStep
<1>2. ASSUME NEW s \in Streams, PumpStep(s) PROVE LifeInv'
  \* A pump that takes a step is neither off nor done.
  <2>1. pump[s] \in {"scan", "fire", "send"}
    BY <1>2 DEF PumpStep, PumpReads, PumpLine, PumpEnds, FireFirst, FireSend,
                FireAgain
  <2>2. UNCHANGED <<envVars, callVars, procVars, watchVars>>
    BY <1>2 DEF PumpStep, PumpReads, PumpLine, PumpEnds, FireFirst, FireSend,
                FireAgain
  <2>3. proc # "none" /\ ~Joined
    BY <2>1
  <2> QED
    BY <2>2, <2>3
<1>3. ASSUME TimerExpires \/ WatchStep PROVE LifeInv'
  BY <1>3 DEF TimerExpires, WatchStep, WatchReady, WatchTimeout, WatchCancel
<1>4. ASSUME Kill PROVE LifeInv'
  BY <1>4 DEF Kill, TypeOK
<1>5. ASSUME Environment PROVE LifeInv'
  <2>1. ASSUME NEW s \in Streams, NEW k \in Kinds, EngineWrites(s, k)
        PROVE  LifeInv'
    BY <2>1 DEF EngineWrites
  <2>2. ASSUME NEW e \in {"ok", "error"}, EngineExits(e) PROVE LifeInv'
    BY <2>2 DEF EngineExits, TypeOK
  <2>3. CASE CallerCancels
    BY <2>3 DEF CallerCancels
  <2> QED
    BY <1>5, <2>1, <2>2, <2>3 DEF Environment
<1>6. ASSUME UNCHANGED vars PROVE LifeInv'
  BY <1>6
<1> QED
  BY <1>1, <1>2, <1>3, <1>4, <1>5, <1>6 DEF Next, Returned

LEMMA LifeCorrect == Spec => []LifeInv
  BY TypeCorrect, LifeInit, LifeStep, PTL DEF Spec

\* A running engine that a kill can reach has its config on disk and a caller
\* that waits for it.
THEOREM ConfigOutlivesEngine == Spec => []EngineHasItsConfig
<1>1. LifeInv => EngineHasItsConfig
  BY DEF LifeInv, EngineHasItsConfig
<1> QED
  BY <1>1, LifeCorrect, PTL

-----------------------------------------------------------------------------
(* OnReady.                                                                 *)

OnceInv ==
    /\ calls = IF once = "new" THEN 0 ELSE 1
    /\ \A s \in Streams : pump[s] = "send" => once # "new"

LEMMA OnceInit == Init => OnceInv
  BY DEF Init, OnceInv

LEMMA OnceStep == TypeOK /\ OnceInv /\ [Next]_vars => OnceInv'
<1> SUFFICES ASSUME TypeOK, OnceInv PROVE [Next]_vars => OnceInv'
  OBVIOUS
<1> USE DEF OnceInv
<1>1. ASSUME CallStep PROVE OnceInv'
  <2>1. CASE StartEngine
    BY <2>1 DEF StartEngine
  <2>2. CASE ~StartEngine
    BY <1>1, <2>2 DEF CallStep, Setup, SetupFails, StartFails, WaitReturns,
                      Join, Check, Cleanup
  <2> QED
    BY <2>1, <2>2
<1>2. ASSUME NEW s \in Streams, PumpStep(s) PROVE OnceInv'
  <2> USE DEF TypeOK
  <2>1. CASE PumpReads(s) \/ PumpLine(s) \/ PumpEnds(s)
    BY <2>1 DEF PumpReads, PumpLine, PumpEnds
  <2>2. CASE FireFirst(s)
    BY <2>2 DEF FireFirst, OnceNew
  <2>3. CASE FireSend(s)
    BY <2>3 DEF FireSend
  <2>4. CASE FireAgain(s)
    BY <2>4 DEF FireAgain
  <2> QED
    BY <1>2, <2>1, <2>2, <2>3, <2>4 DEF PumpStep
<1>3. ASSUME TimerExpires \/ WatchStep \/ Kill PROVE OnceInv'
  BY <1>3 DEF TimerExpires, WatchStep, WatchReady, WatchTimeout, WatchCancel,
              Kill
<1>4. ASSUME Environment PROVE OnceInv'
  BY <1>4 DEF Environment, EngineWrites, EngineExits, CallerCancels
<1>5. ASSUME UNCHANGED vars PROVE OnceInv'
  BY <1>5
<1> QED
  BY <1>1, <1>2, <1>3, <1>4, <1>5 DEF Next, Returned

LEMMA OnceCorrect == Spec => []OnceInv
  BY TypeCorrect, OnceInit, OnceStep, PTL DEF Spec

\* Both pumps may see markers, and OnReady is called at most once.
THEOREM OnReadyOnce == Spec => []OnReadyAtMostOnce
<1>1. OnceInv => OnReadyAtMostOnce
  BY DEF OnceInv, OnReadyAtMostOnce
<1> QED
  BY <1>1, OnceCorrect, PTL

\* A marker has been scanned exactly when a pump has come as far as the Once.
MarkInv ==
    MarkerScanned <=> once # "new" \/ \E s \in Streams : pump[s] = "fire"

LEMMA MarkInit == Init => MarkInv
  BY DEF Init, MarkInv, MarkerScanned

\* Only a scanned line can change MarkerScanned: written lines stay as they are.
LEMMA MarkerKept ==
    ASSUME TypeOK, UNCHANGED scanned,
           \A s \in Streams : \A n \in 1 .. scanned[s] : sent'[s][n] = sent[s][n]
    PROVE  MarkerScanned' <=> MarkerScanned
  BY DEF MarkerScanned

LEMMA MarkStep == TypeOK /\ LifeInv /\ OnceInv /\ MarkInv /\ [Next]_vars => MarkInv'
<1> SUFFICES ASSUME TypeOK, LifeInv, OnceInv, MarkInv
             PROVE  [Next]_vars => MarkInv'
  OBVIOUS
<1>1. ASSUME CallStep PROVE MarkInv'
  <2>1. UNCHANGED <<scanned, sent, once>>
    BY <1>1 DEF CallStep, Setup, SetupFails, StartEngine, StartFails,
                WaitReturns, Join, Check, Cleanup
  <2>2. (\E s \in Streams : pump[s] = "fire")'
        <=> \E s \in Streams : pump[s] = "fire"
    <3>1. CASE StartEngine
      BY <3>1 DEF StartEngine, LifeInv
    <3>2. CASE ~StartEngine
      BY <1>1, <3>2 DEF CallStep, Setup, SetupFails, StartFails, WaitReturns,
                        Join, Check, Cleanup
    <3> QED
      BY <3>1, <3>2
  <2> QED
    BY <2>1, <2>2 DEF MarkInv, MarkerScanned
<1>2. ASSUME NEW s \in Streams, PumpStep(s) PROVE MarkInv'
  <2> USE DEF TypeOK
  <2>1. CASE PumpLine(s)
    <3> DEFINE n == Next1(s)
    <3>1. /\ n \in Nat \ {0} /\ n = scanned[s] + 1
          /\ scanned' = [scanned EXCEPT ![s] = n]
          /\ UNCHANGED <<sent, once>>
          /\ pump' = [pump EXCEPT ![s] = IF sent[s][n] = "marker"
                                         THEN "fire" ELSE "scan"]
          /\ pump[s] = "scan"
      BY <2>1 DEF PumpLine, Next1
    <3> HIDE DEF n
    <3>2. MarkerScanned' <=> MarkerScanned \/ sent[s][n] = "marker"
      BY <3>1 DEF MarkerScanned
    <3>3. (\E r \in Streams : pump[r] = "fire")'
          <=> (\E r \in Streams : pump[r] = "fire") \/ sent[s][n] = "marker"
      BY <3>1
    <3> QED
      BY <3>1, <3>2, <3>3 DEF MarkInv
  <2>2. CASE PumpReads(s) \/ PumpEnds(s)
    <3>1. UNCHANGED <<scanned, sent, once>>
      BY <2>2 DEF PumpReads, PumpEnds
    <3>2. (\E r \in Streams : pump[r] = "fire")'
          <=> \E r \in Streams : pump[r] = "fire"
      BY <2>2 DEF PumpReads, PumpEnds
    <3> QED
      BY <3>1, <3>2 DEF MarkInv, MarkerScanned
  <2>3. CASE FireFirst(s) \/ FireSend(s) \/ FireAgain(s)
    \* The Once is not new before and after, or the pump was at "fire".
    <3>1. UNCHANGED <<scanned, sent>>
      BY <2>3 DEF FireFirst, FireSend, FireAgain
    <3>2. once' # "new"
      BY <2>3 DEF FireFirst, FireSend, FireAgain
    <3>3. once # "new" \/ \E r \in Streams : pump[r] = "fire"
      BY <2>3 DEF FireFirst, FireSend, FireAgain, OnceInv
    <3> QED
      BY <3>1, <3>2, <3>3 DEF MarkInv, MarkerScanned
  <2> QED
    BY <1>2, <2>1, <2>2, <2>3 DEF PumpStep
<1>3. ASSUME TimerExpires \/ WatchStep \/ Kill PROVE MarkInv'
  <2>1. UNCHANGED <<scanned, sent, once, pump>>
    BY <1>3 DEF TimerExpires, WatchStep, WatchReady, WatchTimeout,
                WatchCancel, Kill
  <2> QED
    BY <2>1 DEF MarkInv, MarkerScanned
<1>4. ASSUME Environment PROVE MarkInv'
  <2>1. UNCHANGED <<scanned, once, pump>>
    BY <1>4 DEF Environment, EngineWrites, EngineExits, CallerCancels
  <2>2. \A s \in Streams : \A n \in 1 .. scanned[s] : sent'[s][n] = sent[s][n]
    <3>1. ASSUME NEW r \in Streams, NEW k \in Kinds, EngineWrites(r, k)
          PROVE  \A s \in Streams : \A n \in 1 .. scanned[s] :
                    sent'[s][n] = sent[s][n]
      BY <3>1 DEF EngineWrites, TypeOK
    <3>2. CASE UNCHANGED sent
      BY <3>2
    <3> QED
      BY <1>4, <3>1, <3>2 DEF Environment, EngineExits, CallerCancels
  <2> QED
    BY <2>1, <2>2, MarkerKept DEF MarkInv
<1>5. ASSUME UNCHANGED vars PROVE MarkInv'
  BY <1>5 DEF MarkInv, MarkerScanned
<1> QED
  BY <1>1, <1>2, <1>3, <1>4, <1>5 DEF Next, Returned

LEMMA MarkCorrect == Spec => []MarkInv
  BY TypeCorrect, LifeCorrect, OnceCorrect, MarkInit, MarkStep, PTL DEF Spec

\* A call that has joined its pumps has called OnReady exactly when one of
\* them scanned a success marker.
THEOREM OnReadyExact == Spec => []OnReadyExactlyOnce
<1>1. LifeInv /\ OnceInv /\ MarkInv => OnReadyExactlyOnce
  <2> SUFFICES ASSUME LifeInv, OnceInv, MarkInv, Joined
               PROVE  calls = 1 <=> MarkerScanned
    BY DEF OnReadyExactlyOnce, OnReadyAtMostOnce, OnceInv
  <2>1. \A s \in Streams : pump[s] # "fire"
    BY DEF LifeInv, Joined
  <2> QED
    BY <2>1 DEF OnceInv, MarkInv
<1> QED
  BY <1>1, LifeCorrect, OnceCorrect, MarkCorrect, PTL

\* A call that has returned neither calls OnReady nor adds output any more.
THEOREM QuietAfterReturn == Spec => NothingAfterReturn
<1>1. TypeOK /\ LifeInv /\ [Next]_vars
        => [main = "returned" => UNCHANGED <<ring, calls, result>>]_vars
  <2> SUFFICES ASSUME TypeOK, LifeInv, main = "returned"
               PROVE  [Next]_vars => UNCHANGED <<ring, calls, result>>
    OBVIOUS
  <2>1. \A s \in Streams : pump[s] \in {"off", "done"}
    BY DEF LifeInv, Joined
  <2>2. ASSUME NEW s \in Streams, PumpStep(s)
        PROVE  UNCHANGED <<ring, calls, result>>
    BY <2>1, <2>2 DEF PumpStep, PumpReads, PumpLine, PumpEnds, FireFirst,
                      FireSend, FireAgain
  <2>3. ASSUME CallStep PROVE UNCHANGED <<ring, calls, result>>
    BY <2>3 DEF CallStep, Setup, SetupFails, StartEngine, StartFails,
                WaitReturns, Join, Check, Cleanup
  <2>4. ASSUME TimerExpires \/ WatchStep \/ Kill \/ Environment
        PROVE  UNCHANGED <<ring, calls, result>>
    BY <2>4 DEF TimerExpires, WatchStep, WatchReady, WatchTimeout, WatchCancel,
                Kill, Environment, EngineWrites, EngineExits, CallerCancels
  <2> QED
    BY <2>2, <2>3, <2>4 DEF Next, Returned
<1> QED
  BY <1>1, TypeCorrect, LifeCorrect, PTL DEF Spec, NothingAfterReturn

-----------------------------------------------------------------------------
(* The join.                                                                *)

\* The pipes are open exactly from the start of the engine to the end of
\* Cmd.Wait, and the pumps exist from the start on.
PipeInv ==
    /\ main = "wait" <=> open
    /\ main \in {"wait", "join"} => \A s \in Streams : pump[s] # "off"
    /\ once = "running" => \E t \in Streams : pump[t] = "send"

LEMMA PipeInit == Init => PipeInv
  BY DEF Init, PipeInv

LEMMA PipeStep == TypeOK /\ LifeInv /\ PipeInv /\ [Next]_vars => PipeInv'
<1> SUFFICES ASSUME TypeOK, LifeInv, PipeInv PROVE [Next]_vars => PipeInv'
  OBVIOUS
<1> USE DEF PipeInv
<1>1. ASSUME CallStep PROVE PipeInv'
  <2>1. CASE StartEngine
    \* No pump exists yet, so the Once is not running.
    BY <2>1 DEF StartEngine, LifeInv
  <2>2. CASE ~StartEngine
    BY <1>1, <2>2 DEF CallStep, Setup, SetupFails, StartFails, WaitReturns,
                      Join, Check, Cleanup
  <2> QED
    BY <2>1, <2>2
<1>2. ASSUME NEW s \in Streams, PumpStep(s) PROVE PipeInv'
  <2>1. /\ UNCHANGED <<main, open>>
        /\ pump' = [pump EXCEPT ![s] = pump'[s]] /\ pump'[s] # "off"
        /\ pump \in [Streams -> {"off", "scan", "fire", "send", "done"}]
    BY <1>2 DEF PumpStep, PumpReads, PumpLine, PumpEnds, FireFirst, FireSend,
                FireAgain, TypeOK
  \* Only the pump that ends its send leaves it, and the Once is then done.
  <2>2. CASE PumpReads(s) \/ PumpEnds(s) \/ FireAgain(s)
    <3>1. UNCHANGED once /\ pump[s] # "send"
      BY <2>1, <2>2 DEF PumpReads, PumpEnds, FireAgain
    <3> QED
      BY <2>1, <3>1
  <2>3. CASE PumpLine(s)
    \* A pump that comes to the Once was not itself the sender.
    <3>1. UNCHANGED once /\ pump[s] # "send"
      BY <2>3 DEF PumpLine
    <3> QED
      BY <2>1, <3>1
  <2>4. CASE FireFirst(s)
    <3>1. pump'[s] = "send"
      BY <2>1, <2>4 DEF FireFirst
    <3> QED
      BY <2>1, <3>1
  <2>5. CASE FireSend(s)
    <3>1. once' = "done"
      BY <2>5 DEF FireSend
    <3> QED
      BY <2>1, <3>1
  <2> QED
    BY <1>2, <2>2, <2>3, <2>4, <2>5 DEF PumpStep
<1>3. ASSUME TimerExpires \/ WatchStep \/ Kill PROVE PipeInv'
  BY <1>3 DEF TimerExpires, WatchStep, WatchReady, WatchTimeout, WatchCancel,
              Kill
<1>4. ASSUME Environment PROVE PipeInv'
  BY <1>4 DEF Environment, EngineWrites, EngineExits, CallerCancels
<1>5. ASSUME UNCHANGED vars PROVE PipeInv'
  BY <1>5
<1> QED
  BY <1>1, <1>2, <1>3, <1>4, <1>5 DEF Next, Returned

\* The caller never waits for a pump that cannot go on.
THEOREM JoinComes == Spec => []JoinNotStuck
<1>1. PipeInv => JoinNotStuck
  BY DEF PipeInv, JoinNotStuck
<1> QED
  BY <1>1, TypeCorrect, LifeCorrect, PipeInit, PipeStep, PTL DEF Spec

-----------------------------------------------------------------------------
(* The deadline.                                                            *)

\* The watchdog sets its flag before it cancels, so whatever the cancellation
\* brings about finds the flag set.
DeadlineInv ==
    /\ watch = "cancel" \/ deadlineHit => timedOut
    /\ DeadlineKillReported

LEMMA DeadlineInit == Init => DeadlineInv
  BY DEF Init, DeadlineInv, DeadlineKillReported

LEMMA DeadlineStep ==
    TypeOK /\ LifeInv /\ DeadlineInv /\ [Next]_vars => DeadlineInv'
<1> SUFFICES ASSUME TypeOK, LifeInv, DeadlineInv
             PROVE  [Next]_vars => DeadlineInv'
  OBVIOUS
<1> USE DEF DeadlineInv, DeadlineKillReported
<1>1. ASSUME CallStep PROVE DeadlineInv'
  <2>1. CASE Setup \/ SetupFails \/ StartFails
    \* No process, hence no exit status.
    BY <2>1 DEF Setup, SetupFails, StartFails, LifeInv
  <2>2. CASE StartEngine \/ WaitReturns \/ Join
    BY <2>2 DEF StartEngine, WaitReturns, Join
  <2>3. CASE Check
    BY <2>3 DEF Check
  <2>4. CASE Cleanup
    BY <2>4 DEF Cleanup
  <2> QED
    BY <1>1, <2>1, <2>2, <2>3, <2>4 DEF CallStep
<1>2. ASSUME NEW s \in Streams, PumpStep(s) PROVE DeadlineInv'
  BY <1>2 DEF PumpStep, PumpReads, PumpLine, PumpEnds, FireFirst, FireSend,
              FireAgain
<1>3. ASSUME TimerExpires \/ WatchStep PROVE DeadlineInv'
  BY <1>3 DEF TimerExpires, WatchStep, WatchReady, WatchTimeout, WatchCancel
<1>4. ASSUME Kill PROVE DeadlineInv'
  <2>1. main = "wait" /\ (cancelled \/ timedOut)
    BY <1>4 DEF Kill, RunCtxDone, LifeInv
  <2> QED
    BY <1>4, <2>1 DEF Kill
<1>5. ASSUME Environment PROVE DeadlineInv'
  <2>1. ASSUME NEW s \in Streams, NEW k \in Kinds, EngineWrites(s, k)
        PROVE  DeadlineInv'
    BY <2>1 DEF EngineWrites
  <2>2. ASSUME NEW e \in {"ok", "error"}, EngineExits(e) PROVE DeadlineInv'
    BY <2>2 DEF EngineExits
  <2>3. CASE CallerCancels
    BY <2>3 DEF CallerCancels
  <2> QED
    BY <1>5, <2>1, <2>2, <2>3 DEF Environment
<1>6. ASSUME UNCHANGED vars PROVE DeadlineInv'
  BY <1>6
<1> QED
  BY <1>1, <1>2, <1>3, <1>4, <1>5, <1>6 DEF Next, Returned

\* An engine killed for the deadline is reported as TimedOut.
THEOREM DeadlineReported == Spec => []DeadlineKillReported
<1>1. DeadlineInv => DeadlineKillReported
  BY DEF DeadlineInv
<1> QED
  BY <1>1, TypeCorrect, LifeCorrect, DeadlineInit, DeadlineStep, PTL DEF Spec

-----------------------------------------------------------------------------
(* Refinement.                                                              *)

ResultInv ==
    /\ main = "returned" => result # "none"
    /\ main = "cleanup" => result # "none"
    /\ proc = "none" /\ main \in {"cleanup", "returned"} => result = "error"

LEMMA ResultStep ==
    TypeOK /\ LifeInv /\ ResultInv /\ [Next]_vars => ResultInv'
<1> SUFFICES ASSUME TypeOK, LifeInv, ResultInv
             PROVE  [Next]_vars => ResultInv'
  OBVIOUS
<1> USE DEF ResultInv
<1>1. ASSUME CallStep PROVE ResultInv'
  <2>1. CASE Check
    BY <2>1 DEF Check, LifeInv
  <2>2. CASE ~Check
    BY <1>1, <2>2 DEF CallStep, Setup, SetupFails, StartEngine, StartFails,
                      WaitReturns, Join, Cleanup
  <2> QED
    BY <2>1, <2>2
<1>2. ASSUME ~CallStep PROVE [Next]_vars => ResultInv'
  <2> SUFFICES ASSUME [Next]_vars PROVE ResultInv'
    OBVIOUS
  <2>1. UNCHANGED <<main, result>>
    BY <1>2 DEF Next, PumpStep, PumpReads, PumpLine, PumpEnds, FireFirst,
                FireSend, FireAgain, TimerExpires, WatchStep, WatchReady,
                WatchTimeout, WatchCancel, Kill, Environment, EngineWrites,
                EngineExits, CallerCancels, Returned
  <2>2. proc' = "none" => proc = "none"
    BY <1>2 DEF Next, PumpStep, PumpReads, PumpLine, PumpEnds, FireFirst,
                FireSend, FireAgain, TimerExpires, WatchStep, WatchReady,
                WatchTimeout, WatchCancel, Kill, Environment, EngineWrites,
                EngineExits, CallerCancels, Returned
  <2> QED
    BY <2>1, <2>2
<1> QED
  BY <1>1, <1>2

LEMMA ResultCorrect == Spec => []ResultInv
<1>1. Init => ResultInv
  BY DEF Init, ResultInv
<1> QED
  BY <1>1, TypeCorrect, LifeCorrect, ResultStep, PTL DEF Spec

LEMMA AbsInit == Init => Abs!Init
  BY DEF Init, Abs!Init, phaseOf

\* The visible steps are Cmd.Start, the first OnReady, the caller's cancel and
\* the return of the runner; every other step is invisible.
LEMMA AbsStep ==
    ASSUME TypeOK, LifeInv, OnceInv, ResultInv, [Next]_vars
    PROVE  [Abs!Next]_(Abs!vars)
<1> USE DEF Abs!vars
<1>1. CASE CallStep
  <2>1. CASE StartEngine
    <3>1. phaseOf = "idle" /\ phaseOf' = "running"
      BY <2>1 DEF StartEngine, phaseOf, LifeInv
    <3>2. Abs!Start
      BY <2>1, <3>1 DEF StartEngine, Abs!Start
    <3> QED
      BY <3>2 DEF Abs!Next
  <2>2. CASE Cleanup
    <3>1. /\ phaseOf # "returned" /\ phaseOf' = "returned"
          /\ phaseOf = "idle" => proc = "none"
      BY <2>2 DEF Cleanup, phaseOf
    <3>2. result \in Abs!Outcomes /\ (proc = "none" => result = "error")
      BY <2>2 DEF Cleanup, ResultInv, TypeOK, Abs!Outcomes
    <3>3. Abs!Return(result)
      BY <2>2, <3>1, <3>2 DEF Cleanup, Abs!Return
    <3> QED
      BY <3>2, <3>3 DEF Abs!Next, Abs!Returns
  <2>3. CASE Setup \/ SetupFails \/ StartFails \/ WaitReturns \/ Join \/ Check
    <3>1. /\ main # "returned" /\ main' # "returned"
          /\ UNCHANGED <<proc, calls, cancelled, host>>
      BY <2>3 DEF Setup, SetupFails, StartFails, WaitReturns, Join, Check
    <3> QED
      BY <3>1 DEF phaseOf
  <2> QED
    BY <1>1, <2>1, <2>2, <2>3 DEF CallStep
<1>2. ASSUME NEW s \in Streams, PumpStep(s) PROVE [Abs!Next]_(Abs!vars)
  <2>1. CASE FireFirst(s)
    <3>1. calls = 0 /\ calls' = 1
      BY <2>1 DEF FireFirst, OnceNew, OnceInv
    <3>2. phaseOf = "running" /\ UNCHANGED phaseOf
      BY <2>1 DEF FireFirst, phaseOf, LifeInv, Joined
    <3>3. Abs!BecomeReady
      BY <2>1, <3>1, <3>2 DEF FireFirst, Abs!BecomeReady
    <3> QED
      BY <3>3 DEF Abs!Next
  <2>2. CASE ~FireFirst(s)
    <3>1. UNCHANGED <<main, result, proc, calls, cancelled, host>>
      BY <1>2, <2>2 DEF PumpStep, PumpReads, PumpLine, PumpEnds, FireSend,
                        FireAgain
    <3> QED
      BY <3>1 DEF phaseOf
  <2> QED
    BY <2>1, <2>2
<1>3. CASE TimerExpires \/ WatchStep
  <2>1. UNCHANGED <<main, result, proc, calls, cancelled, host>>
    BY <1>3 DEF TimerExpires, WatchStep, WatchReady, WatchTimeout, WatchCancel
  <2> QED
    BY <2>1 DEF phaseOf
<1>4. CASE Kill
  <2>1. /\ UNCHANGED <<main, result, calls, cancelled, host>>
        /\ proc # "none" /\ proc' # "none"
    BY <1>4 DEF Kill
  <2> QED
    BY <2>1 DEF phaseOf
<1>5. CASE Environment
  <2>1. CASE CallerCancels
    <3>1. phaseOf # "returned" /\ UNCHANGED phaseOf
      BY <2>1 DEF CallerCancels, phaseOf
    <3>2. Abs!Cancel
      BY <2>1, <3>1 DEF CallerCancels, Abs!Cancel
    <3> QED
      BY <3>2 DEF Abs!Next
  <2>2. CASE ~CallerCancels
    <3>1. /\ UNCHANGED <<main, result, calls, cancelled, host>>
          /\ proc' = "none" <=> proc = "none"
      BY <1>5, <2>2 DEF Environment, EngineWrites, EngineExits
    <3> QED
      BY <3>1 DEF phaseOf
  <2> QED
    BY <2>1, <2>2
<1>6. CASE UNCHANGED vars
  BY <1>6 DEF phaseOf
<1> QED
  BY <1>1, <1>2, <1>3, <1>4, <1>5, <1>6 DEF Next, Returned

\* The runner implements the engine call that the connect loop is built on.
THEOREM RunnerImplementsEngineAbs == Spec => Abs!Spec
<1>1. TypeOK /\ LifeInv /\ OnceInv /\ ResultInv /\ [Next]_vars
        => [Abs!Next]_(Abs!vars)
  BY AbsStep
<1> QED
  BY <1>1, AbsInit, TypeCorrect, LifeCorrect, OnceCorrect, ResultCorrect, PTL
  DEF Spec, Abs!Spec
-----------------------------------------------------------------------------
(* The ring buffer.                                                         *)

\* One line more makes the ring longer by one, and the last line is the new one.
LEMMA AppendLine ==
    ASSUME NEW r \in Seq(Lines), NEW x \in Lines
    PROVE  /\ Append(r, x) \in Seq(Lines) /\ Len(Append(r, x)) = Len(r) + 1
           /\ \A i \in DOMAIN r : Append(r, x)[i] = r[i]
           /\ Append(r, x)[Len(r) + 1] = x
           /\ DOMAIN Append(r, x) = 1 .. Len(r) + 1 /\ DOMAIN r = 1 .. Len(r)
  OBVIOUS

\* The ring keeps all of its lines, or is full and has lost the first of them.
LEMMA TruncateShape ==
    ASSUME NEW r \in Seq(Lines), Len(r) <= RingMax + 1
    PROVE  \E d \in {0, 1} :
             /\ Truncate(r) \in Seq(Lines) /\ Len(Truncate(r)) = Len(r) - d
             /\ Len(Truncate(r)) <= RingMax
             /\ d = 1 => Len(Truncate(r)) = RingMax
             /\ \A i \in DOMAIN Truncate(r) : Truncate(r)[i] = r[i + d]
             /\ DOMAIN Truncate(r) = 1 .. Len(r) - d
<1>1. CASE Len(r) > RingMax
  <2>1. r # <<>>
    BY <1>1, BoundsAssumption
  <2>2. Len(r) = RingMax + 1
    BY <1>1, BoundsAssumption
  <2>3. /\ Tail(r) \in Seq(Lines) /\ Len(Tail(r)) = Len(r) - 1
        /\ \A i \in DOMAIN Tail(r) : Tail(r)[i] = r[i + 1]
        /\ DOMAIN Tail(r) = 1 .. Len(r) - 1
    BY <2>1
  <2> QED
    BY <1>1, <2>2, <2>3, BoundsAssumption DEF Truncate
<1>2. CASE ~(Len(r) > RingMax)
  BY <1>2, BoundsAssumption DEF Truncate
<1> QED
  BY <1>1, <1>2

\* Only PumpLine writes to the ring, and it is the next line of its stream
\* that is appended.
LEMMA RingFrame ==
    ASSUME TypeOK, [Next]_vars
    PROVE  \/ UNCHANGED <<ring, scanned>>
           \/ \E s \in Streams :
                /\ scanned' = [scanned EXCEPT ![s] = Next1(s)]
                /\ ring' = Truncate(Append(ring, <<s, Next1(s)>>))
<1>1. CASE CallStep
  BY <1>1 DEF CallStep, Setup, SetupFails, StartEngine, StartFails, WaitReturns, Join,
              Check, Cleanup
<1>2. ASSUME NEW s \in Streams, PumpStep(s)
      PROVE  \/ UNCHANGED <<ring, scanned>>
             \/ /\ scanned' = [scanned EXCEPT ![s] = Next1(s)]
                /\ ring' = Truncate(Append(ring, <<s, Next1(s)>>))
  BY <1>2 DEF PumpStep, PumpReads, PumpLine, PumpEnds, FireFirst, FireSend, FireAgain
<1>3. CASE TimerExpires \/ WatchStep \/ Kill \/ Environment \/ UNCHANGED vars
  BY <1>3 DEF TimerExpires, WatchStep, WatchReady, WatchTimeout, WatchCancel, Kill,
              Environment, EngineWrites, EngineExits, CallerCancels
<1> QED
  BY <1>1, <1>2, <1>3 DEF Next, Returned

LEMMA RingInit == Init => RingHoldsTail
<1> SUFFICES ASSUME Init PROVE RingHoldsTail
  OBVIOUS
<1>1. ring = <<>> /\ DOMAIN ring = {}
  BY DEF Init
<1>2. Len(ring) = 0
  BY <1>1, EmptyLen, Zenon
<1>3. \A s \in Streams : scanned[s] = 0
  BY DEF Init
<1>4. 1 .. 0 = {}
  OBVIOUS
<1> QED
  BY <1>1, <1>2, <1>3, <1>4, BoundsAssumption DEF RingHoldsTail

\* A line that is appended and another that may be dropped leave the newest.
LEMMA RingStep == TypeOK /\ RingHoldsTail /\ [Next]_vars => RingHoldsTail'
<1> SUFFICES ASSUME TypeOK, RingHoldsTail, [Next]_vars PROVE RingHoldsTail'
  OBVIOUS
<1>1. CASE UNCHANGED <<ring, scanned>>
  BY <1>1 DEF RingHoldsTail
<1>2. ASSUME NEW s \in Streams,
             scanned' = [scanned EXCEPT ![s] = Next1(s)],
             ring' = Truncate(Append(ring, <<s, Next1(s)>>))
      PROVE  RingHoldsTail'
  <2> DEFINE m == Next1(s)
             r == Append(ring, <<s, m>>)
  <2>1. /\ ring \in Seq(Lines) /\ scanned \in [Streams -> Nat]
        /\ m = scanned[s] + 1 /\ m \in Nat \ {0} /\ <<s, m>> \in Lines
    BY DEF TypeOK, Lines, Next1
  <2>2. scanned' \in [Streams -> Nat] /\ scanned'[s] = m
        /\ \A t \in Streams \ {s} : scanned'[t] = scanned[t]
    BY <1>2, <2>1
  <2> HIDE DEF m
  <2>3. /\ r \in Seq(Lines) /\ Len(r) = Len(ring) + 1
        /\ \A i \in 1 .. Len(ring) : r[i] = ring[i]
        /\ r[Len(r)] = <<s, m>>
        /\ DOMAIN r = 1 .. Len(r) /\ DOMAIN ring = 1 .. Len(ring)
    BY <2>1, AppendLine
  <2>4. ring' = Truncate(r)
    BY <1>2 DEF m
  <2> HIDE DEF r
  <2>5. \A i \in 1 .. Len(ring) : ring[i] \in Lines /\ ring[i] = <<ring[i][1], ring[i][2]>>
                                  /\ ring[i][1] \in Streams /\ ring[i][2] \in Nat \ {0}
    BY <2>1 DEF Lines
  <2>6. Len(ring) \in Nat /\ Len(ring) <= RingMax /\ RingMax \in Nat \ {0}
    BY <2>1, BoundsAssumption DEF RingHoldsTail
  \* What holds of the ring with the new line, before it is truncated.
  <2>7. \A i \in 1 .. Len(r) :
          /\ r[i] = <<r[i][1], r[i][2]>> /\ r[i][1] \in Streams /\ r[i][2] \in Nat \ {0}
          /\ r[i][2] <= scanned'[r[i][1]]
    <3> TAKE i \in 1 .. Len(r)
    <3>1. CASE i = Len(r)
      BY <3>1, <2>1, <2>2, <2>3
    <3>2. CASE i # Len(r)
      <4>1. i \in 1 .. Len(ring) /\ r[i] = ring[i]
        BY <3>2, <2>3, <2>6
      <4>2. ring[i][2] <= scanned[ring[i][1]]
        BY <4>1, <2>3 DEF RingHoldsTail
      <4>3. scanned[ring[i][1]] <= scanned'[ring[i][1]]
        <5>1. CASE ring[i][1] = s
          BY <5>1, <2>1, <2>2
        <5>2. CASE ring[i][1] # s
          <6>1. ring[i][1] \in Streams \ {s}
            BY <5>2, <4>1, <2>5
          <6>2. scanned'[ring[i][1]] = scanned[ring[i][1]] /\ scanned[ring[i][1]] \in Nat
            BY <6>1, <2>1, <2>2
          <6> QED
            BY <6>2
        <5> QED
          BY <5>1, <5>2
      <4> QED
        BY <4>1, <4>2, <4>3, <2>1, <2>2, <2>5
    <3> QED
      BY <3>1, <3>2
  <2>8. \A i, j \in 1 .. Len(r) : i < j /\ r[i][1] = r[j][1] => r[i][2] < r[j][2]
    <3> SUFFICES ASSUME NEW i \in 1 .. Len(r), NEW j \in 1 .. Len(r), i < j, r[i][1] = r[j][1]
                 PROVE  r[i][2] < r[j][2]
      OBVIOUS
    <3>1. i \in 1 .. Len(ring) /\ r[i] = ring[i]
      BY <2>3, <2>6
    <3>2. CASE j = Len(r)
      <4>1. r[j] = <<s, m>> /\ ring[i][1] = s
        BY <3>1, <3>2, <2>3
      <4>2. ring[i][2] <= scanned[s]
        BY <3>1, <4>1, <2>3 DEF RingHoldsTail
      <4>3. r[j][2] = m
        BY <4>1
      <4>4. r[i][2] = ring[i][2] /\ ring[i][2] \in Nat
        BY <3>1, <2>5
      <4>5. m = scanned[s] + 1 /\ scanned[s] \in Nat
        BY <2>1
      <4> QED
        BY <4>2, <4>3, <4>4, <4>5
    <3>3. CASE j # Len(r)
      <4>1. j \in 1 .. Len(ring) /\ r[j] = ring[j]
        BY <3>3, <2>3, <2>6
      <4> QED
        BY <3>1, <4>1, <2>3 DEF RingHoldsTail
    <3> QED
      BY <3>2, <3>3
  <2>9. \A i \in 1 .. Len(r) : \A n \in r[i][2] .. scanned'[r[i][1]] :
          \E j \in 1 .. Len(r) : r[j] = <<r[i][1], n>>
    <3> SUFFICES ASSUME NEW i \in 1 .. Len(r), NEW n \in r[i][2] .. scanned'[r[i][1]]
                 PROVE  \E j \in 1 .. Len(r) : r[j] = <<r[i][1], n>>
      OBVIOUS
    <3>1. CASE r[i][1] = s /\ n = m
      BY <3>1, <2>3, <2>6
    <3>2. CASE ~(r[i][1] = s /\ n = m)
      <4>1. i # Len(r)
        BY <3>2, <2>1, <2>2, <2>3
      <4>2. i \in 1 .. Len(ring) /\ r[i] = ring[i]
        BY <4>1, <2>3, <2>6
      <4>3. n \in ring[i][2] .. scanned[ring[i][1]]
        <5>1. n \in ring[i][2] .. scanned'[ring[i][1]]
          BY <4>2
        <5>2. ring[i][1] \in Streams /\ ring[i][2] \in Nat
          BY <4>2, <2>5
        <5>3. CASE ring[i][1] = s
          <6>1. n # m
            BY <5>3, <3>2, <4>2
          <6>2. n \in ring[i][2] .. m /\ m = scanned[s] + 1 /\ scanned[s] \in Nat
            BY <5>1, <5>3, <2>1, <2>2
          <6>3. n \in ring[i][2] .. scanned[s]
            BY <6>1, <6>2, <5>2
          <6> QED
            BY <6>3, <5>3
        <5>4. CASE ring[i][1] # s
          <6>1. scanned'[ring[i][1]] = scanned[ring[i][1]]
            BY <5>4, <5>2, <2>2
          <6> QED
            BY <5>1, <6>1
        <5> QED
          BY <5>3, <5>4
      <4>4. PICK j \in 1 .. Len(ring) : ring[j] = <<ring[i][1], n>>
        BY <4>2, <4>3, <2>3 DEF RingHoldsTail
      <4> QED
        BY <4>2, <4>4, <2>3, <2>6
    <3> QED
      BY <3>1, <3>2
  <2>10. Len(ring) < RingMax =>
           \A t \in Streams : \A n \in 1 .. scanned'[t] : \E j \in 1 .. Len(r) : r[j] = <<t, n>>
    <3> SUFFICES ASSUME Len(ring) < RingMax, NEW t \in Streams, NEW n \in 1 .. scanned'[t]
                 PROVE  \E j \in 1 .. Len(r) : r[j] = <<t, n>>
      OBVIOUS
    <3>1. CASE t = s /\ n = m
      BY <3>1, <2>3, <2>6
    <3>2. CASE ~(t = s /\ n = m)
      <4>1. n \in 1 .. scanned[t]
        BY <3>2, <2>1, <2>2
      <4>2. PICK j \in 1 .. Len(ring) : ring[j] = <<t, n>>
        BY <4>1, <2>3 DEF RingHoldsTail
      <4> QED
        BY <4>2, <2>3, <2>6
    <3> QED
      BY <3>1, <3>2
  \* What the truncation leaves of it.
  <2>11. PICK d \in {0, 1} :
           /\ Len(ring') = Len(r) - d
           /\ Len(ring') <= RingMax
           /\ d = 1 => Len(ring') = RingMax
           /\ \A i \in DOMAIN ring' : ring'[i] = r[i + d]
           /\ DOMAIN ring' = 1 .. Len(r) - d
    BY <2>3, <2>4, <2>6, TruncateShape
  <2>12. \A i \in DOMAIN ring' : i + d \in 1 .. Len(r)
    BY <2>3, <2>11
  <2>13. \A i, j \in DOMAIN ring' : i < j /\ ring'[i][1] = ring'[j][1] => ring'[i][2] < ring'[j][2]
    BY <2>8, <2>11, <2>12
  <2>14. ASSUME NEW i \in DOMAIN ring'
         PROVE  /\ ring'[i][2] <= scanned'[ring'[i][1]]
                /\ \A n \in ring'[i][2] .. scanned'[ring'[i][1]] :
                     \E j \in DOMAIN ring' : ring'[j] = <<ring'[i][1], n>>
    <3>1. i + d \in 1 .. Len(r) /\ ring'[i] = r[i + d]
      BY <2>11, <2>12
    <3>2. ASSUME NEW n \in ring'[i][2] .. scanned'[ring'[i][1]]
          PROVE  \E j \in DOMAIN ring' : ring'[j] = <<ring'[i][1], n>>
      <4>1. PICK j \in 1 .. Len(r) : r[j] = <<ring'[i][1], n>>
        BY <3>1, <3>2, <2>9
      <4>2. j >= i + d
        BY <3>1, <3>2, <4>1, <2>7, <2>8, <2>3, <2>2
      <4>3. j - d \in DOMAIN ring' /\ (j - d) + d = j
        BY <4>2, <2>3, <2>11
      <4> QED
        BY <4>1, <4>3, <2>11
    <3> QED
      BY <3>1, <3>2, <2>7
  <2>15. Len(ring') < RingMax =>
           \A t \in Streams : \A n \in 1 .. scanned'[t] :
             \E j \in DOMAIN ring' : ring'[j] = <<t, n>>
    <3> SUFFICES ASSUME Len(ring') < RingMax
                 PROVE  \A t \in Streams : \A n \in 1 .. scanned'[t] :
                          \E j \in DOMAIN ring' : ring'[j] = <<t, n>>
      OBVIOUS
    <3>1. d = 0
      BY <2>11, <2>6
    <3>2. Len(ring) < RingMax /\ DOMAIN ring' = 1 .. Len(r)
      BY <3>1, <2>3, <2>6, <2>11
    <3>3. \A j \in 1 .. Len(r) : ring'[j] = r[j]
      BY <3>1, <3>2, <2>3, <2>6, <2>11
    <3> QED
      BY <3>2, <3>3, <2>10
  <2> QED
    BY <2>11, <2>13, <2>14, <2>15 DEF RingHoldsTail
<1> QED
  BY <1>1, <1>2, RingFrame

\* The buffer that diagnosis reads ends with the newest output of both
\* streams, gapless and in order, however their lines interleave.
THEOREM RingIsTail == Spec => []RingHoldsTail
  BY RingInit, RingStep, TypeCorrect, PTL DEF Spec
====
