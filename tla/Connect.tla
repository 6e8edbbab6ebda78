---- MODULE Connect ----
(***************************************************************************)
(* The `connect` command: runConnect's retry loop, attemptConnect with the *)
(* probe goroutine it spawns when the engine is ready, the two globals the *)
(* goroutines share, and Ctrl-C.  The engine call is EngineAbs.  A probe   *)
(* goroutine is never waited for: it may outlive its attempt.              *)
(***************************************************************************)
EXTENDS Integers, FiniteSets

CONSTANTS
    PoolMax,        \* bound: servers of the chosen country
    MaxAttempts,    \* maxAttempts
    TopPick         \* pickServer draws from this many best servers

ASSUME SizesAssumption ==
    PoolMax \in Nat /\ MaxAttempts \in Nat \ {0} /\ TopPick \in Nat \ {0}

Attempts == 1 .. MaxAttempts

VARIABLES
    noProbe,        \* --no-probe
    anycast,        \* the chosen country is "XX"
    interrupted,    \* Ctrl-C or SIGTERM: the command's context is done
    loop,           \* pc of runConnect
    pool,           \* servers of the country; server 1 has the best score
    attempted,      \* servers tried so far
    attempt,        \* attempts begun
    verdict,        \* attemptConnect's verdict, "none" before
    lastReason,     \* verdict the last reason was made from, "none" before
    quoted,         \* attempt whose number that reason quotes, 0 for none
    ending,         \* how the command ended, "none" before
    phase, ready, cancelled, outcome, direct,   \* the engine call (EngineAbs)
    fatal,          \* its output is diagnosed as our bug or the user's turn
    probe,          \* pc of the probe goroutine of each attempt
    flags,          \* the flags the goroutine of each attempt has set
    lastMbps,       \* attempt whose speed the global holds, 0 at the start
    lastExit        \* attempt whose exit the global holds, 0 at the start

Engine == INSTANCE EngineAbs

engineVars == <<phase, ready, cancelled, outcome, direct>>
settings == <<noProbe, anycast>>
tryVars == <<pool, attempted, attempt>>
verdictVars == <<verdict, lastReason, quoted, ending>>
probeVars == <<probe, flags, lastMbps, lastExit>>
vars == <<settings, interrupted, loop, tryVars, verdictVars, engineVars, fatal,
          probeVars>>

Init ==
    /\ noProbe \in BOOLEAN /\ anycast \in BOOLEAN
    /\ interrupted = FALSE
    /\ loop = "fetch"
    /\ pool = 0 /\ attempted = {} /\ attempt = 0
    /\ verdict = "none" /\ lastReason = "none" /\ quoted = 0
    /\ ending = "none"
    /\ Engine!Init /\ fatal = FALSE
    /\ probe = [a \in Attempts |-> "off"]
    /\ flags = [a \in Attempts |-> {}]
    /\ lastMbps = 0 /\ lastExit = 0

End(how) == loop' = "done" /\ ending' = how

-----------------------------------------------------------------------------
(* runConnect.                                                              *)

\* No backend answered, or the user left the picker.
FetchEnds ==
    /\ loop = "fetch"
    /\ \E how \in {"noServers", "cancelled"} : End(how)
    /\ UNCHANGED <<settings, interrupted, tryVars, verdict, lastReason, quoted,
                   engineVars, fatal, probeVars>>

\* A country given on the command line may have no server at all.
Fetched ==
    /\ loop = "fetch"
    /\ pool' \in 0 .. PoolMax
    /\ loop' = "pick"
    /\ UNCHANGED <<settings, interrupted, attempted, attempt, verdictVars,
                   engineVars, fatal, probeVars>>

Untried == (1 .. pool) \ attempted
Better(s) == {t \in Untried : t < s}

\* Mutants: the pick ignores the attempted set, or the rank.
PickableAgain(s) == s \in 1 .. pool /\ Cardinality(Better(s)) < TopPick
PickableAny(s) == s \in Untried
Pickable(s) == s \in Untried /\ Cardinality(Better(s)) < TopPick

\* Mutant: the loop is off by one.
OneMoreAttempt == attempt <= MaxAttempts
AttemptsLeft == attempt < MaxAttempts

\* The engine's context is a child of the command's.  Mutant: it is not.
RunCtxFresh == FALSE
RunCtxDone == interrupted

\* Begin the next attempt with a server among the best not yet tried.
PickServer(s) ==
    /\ loop = "pick" /\ AttemptsLeft
    /\ Pickable(s)
    /\ attempted' = attempted \cup {s}
    /\ attempt' = attempt + 1
    /\ verdict' = "none"
    /\ phase' = "idle" /\ ready' = FALSE /\ outcome' = "none"
    /\ cancelled' = RunCtxDone
    /\ fatal' = FALSE
    /\ loop' = "engine"
    /\ UNCHANGED <<settings, interrupted, pool, lastReason, quoted, ending,
                   direct, probeVars>>

NoServerLeft ==
    /\ loop = "pick"
    /\ ~AttemptsLeft \/ Untried = {}
    /\ End(IF lastReason = "none" THEN "noMoreServers" ELSE "allUnusable")
    /\ UNCHANGED <<settings, interrupted, tryVars, verdict, lastReason, quoted,
                   engineVars, fatal, probeVars>>

-----------------------------------------------------------------------------
(* attemptConnect: the engine call, its OnReady and the verdict.            *)

EngineStarts ==
    /\ loop = "engine"
    /\ Engine!Start
    /\ UNCHANGED <<settings, interrupted, loop, tryVars, verdictVars, fatal,
                   probeVars>>

\* onReady spawns the probe goroutine, unless --no-probe.
EngineReady ==
    /\ loop = "engine"
    /\ Engine!BecomeReady
    /\ probe' = IF noProbe THEN probe ELSE [probe EXCEPT ![attempt] = "probing"]
    /\ UNCHANGED <<settings, interrupted, loop, tryVars, verdictVars, fatal,
                   flags, lastMbps, lastExit>>

\* diagnose.Recognise: whose fault the first pattern that matches names.
Recognise == {"none", "server", "user", "ours"}

\* The output of an engine that never started is empty and diagnoses nothing.
EngineReturns ==
    /\ loop = "engine"
    /\ Engine!Returns
    /\ \E fault \in Recognise : fatal' = (fault \in {"user", "ours"})
    /\ fatal' => phase = "running"
    /\ UNCHANGED <<settings, interrupted, loop, tryVars, verdictVars, probeVars>>

\* Mutant: an engine failure is only what ran into the deadline.
JudgeByDeadline ==
    CASE interrupted -> "good"
      [] ~interrupted /\ "slow" \in flags[attempt] -> "slow"
      [] ~interrupted /\ "failed" \in flags[attempt] -> "unreachable"
      [] ~interrupted /\ "geo" \in flags[attempt] -> "geoMismatch"
      [] ~interrupted /\ outcome = "timeout" -> "engineFailed"
      [] OTHER -> "good"

Judge ==
    CASE interrupted -> "good"
      [] ~interrupted /\ "slow" \in flags[attempt] -> "slow"
      [] ~interrupted /\ "failed" \in flags[attempt] -> "unreachable"
      [] ~interrupted /\ "geo" \in flags[attempt] -> "geoMismatch"
      [] ~interrupted /\ "ran" \notin flags[attempt] /\ outcome # "ok"
            -> "engineFailed"
      [] OTHER -> "good"

Decide ==
    /\ loop = "engine" /\ phase = "returned"
    /\ verdict' = Judge
    /\ loop' = "switch"
    /\ UNCHANGED <<settings, interrupted, tryVars, lastReason, quoted, ending,
                   engineVars, fatal, probeVars>>

-----------------------------------------------------------------------------
(* runConnect's switch on the verdict; a done context wins over all.        *)

Bad == {"slow", "unreachable", "geoMismatch", "engineFailed"}
Fatal == verdict = "engineFailed" /\ fatal

GiveUp ==
    /\ loop = "switch" /\ ~interrupted
    /\ verdict \in Bad /\ ~Fatal
    /\ lastReason' = verdict
    /\ quoted' = CASE verdict = "slow" -> lastMbps
                   [] verdict = "geoMismatch" -> lastExit
                   [] OTHER -> 0
    /\ loop' = "pick"
    /\ UNCHANGED <<settings, interrupted, tryVars, verdict, ending, engineVars,
                   fatal, probeVars>>

Leave ==
    /\ loop = "switch"
    /\ \/ interrupted /\ End("disconnected")
       \/ ~interrupted /\ verdict = "good" /\ End("finished")
       \/ ~interrupted /\ Fatal /\ End("reported")
    /\ UNCHANGED <<settings, interrupted, tryVars, verdict, lastReason, quoted,
                   engineVars, fatal, probeVars>>

-----------------------------------------------------------------------------
(* The probe goroutine of attempt a.                                        *)

Alive(a) == loop # "done" /\ probe[a] # "off"

\* Mutants: one cancel function shared by all attempts; none called.
CancelRunShared(a) ==
    IF loop = "engine" /\ phase # "returned" /\ ~cancelled
    THEN Engine!Cancel ELSE UNCHANGED engineVars
CancelRunNever(a) == UNCHANGED engineVars

\* cancelRun of attempt a: it touches the engine only if a's call still runs.
CancelRun(a) ==
    IF a = attempt /\ loop = "engine" /\ phase # "returned" /\ ~cancelled
    THEN Engine!Cancel ELSE UNCHANGED engineVars

\* speedtest.Probe: no answer, a bad or a short one is an error; else the
\* speed is enough to browse or it is not.
Probe == {"failed", "slow", "fast"}

ProbeReturns(a) ==
    /\ Alive(a) /\ probe[a] = "probing"
    /\ \E r \in Probe : probe' = [probe EXCEPT ![a] = r]
    /\ flags' = [flags EXCEPT ![a] = @ \cup {"ran"}]
    /\ UNCHANGED <<settings, interrupted, loop, tryVars, verdictVars,
                   engineVars, fatal, lastMbps, lastExit>>

\* Mutant: only a usable speed is stored.
StoreFastSpeed(a) ==
    /\ Alive(a) /\ probe[a] \in {"slow", "fast"}
    /\ lastMbps' = IF probe[a] = "fast" THEN a ELSE lastMbps
    /\ probe' = [probe EXCEPT ![a] = IF @ = "slow" THEN "tooSlow" ELSE "locating"]
    /\ UNCHANGED <<settings, interrupted, loop, tryVars, verdictVars,
                   engineVars, fatal, flags, lastExit>>

\* lastMbps.Store
StoreSpeed(a) ==
    /\ Alive(a) /\ probe[a] \in {"slow", "fast"}
    /\ lastMbps' = a
    /\ probe' = [probe EXCEPT ![a] = IF @ = "slow" THEN "tooSlow" ELSE "locating"]
    /\ UNCHANGED <<settings, interrupted, loop, tryVars, verdictVars,
                   engineVars, fatal, flags, lastExit>>

\* exitcheck.Where: no or no good answer, the country of the label, in it the
\* network of a forwarder, or another country.
Where == {"unknown", "here", "forwarder", "elsewhere"}

\* An unknown exit passes and so does every exit of "XX"; another country or
\* a forwarder is stored and rejected.
ExitLooked(a) ==
    /\ Alive(a) /\ probe[a] = "locating"
    /\ \E exit \in Where :
         IF ~anycast /\ exit \in {"forwarder", "elsewhere"}
         THEN probe' = [probe EXCEPT ![a] = "away"] /\ lastExit' = a
         ELSE probe' = [probe EXCEPT ![a] = "good"] /\ UNCHANGED lastExit
    /\ UNCHANGED <<settings, interrupted, loop, tryVars, verdictVars,
                   engineVars, fatal, flags, lastMbps>>

FlagOf == [failed |-> "failed", tooSlow |-> "slow", away |-> "geo"]

\* Mutant: flags shared by all attempts.
RejectShared(a) ==
    /\ Alive(a) /\ probe[a] \in DOMAIN FlagOf
    /\ flags' = [flags EXCEPT ![attempt] = @ \cup {FlagOf[probe[a]]}]
    /\ probe' = [probe EXCEPT ![a] = "bad"]
    /\ UNCHANGED <<settings, interrupted, loop, tryVars, verdictVars,
                   engineVars, fatal, lastMbps, lastExit>>

\* The flag that names the fault is set ...
Reject(a) ==
    /\ Alive(a) /\ probe[a] \in DOMAIN FlagOf
    /\ flags' = [flags EXCEPT ![a] = @ \cup {FlagOf[probe[a]]}]
    /\ probe' = [probe EXCEPT ![a] = "bad"]
    /\ UNCHANGED <<settings, interrupted, loop, tryVars, verdictVars,
                   engineVars, fatal, lastMbps, lastExit>>

\* ... and then the engine's context is cancelled.
Drop(a) ==
    /\ Alive(a) /\ probe[a] = "bad"
    /\ probe' = [probe EXCEPT ![a] = "gone"]
    /\ CancelRun(a)
    /\ UNCHANGED <<settings, interrupted, loop, tryVars, verdictVars, fatal,
                   flags, lastMbps, lastExit>>

ProbeStep(a) ==
    ProbeReturns(a) \/ StoreSpeed(a) \/ ExitLooked(a) \/ Reject(a) \/ Drop(a)

-----------------------------------------------------------------------------
\* The signal cancels the command's context and with it the engine's.
Interrupt ==
    /\ ~interrupted /\ loop # "done"
    /\ interrupted' = TRUE
    /\ CancelRun(attempt)
    /\ UNCHANGED <<settings, loop, tryVars, verdictVars, fatal, probeVars>>

Done == loop = "done" /\ UNCHANGED vars

EngineStep == EngineStarts \/ EngineReady \/ EngineReturns
LoopStep ==
    (\E s \in 1 .. PoolMax : PickServer(s)) \/ NoServerLeft \/ Decide \/ GiveUp
        \/ Leave

Next ==
    \/ FetchEnds \/ Fetched
    \/ LoopStep
    \/ EngineStep
    \/ \E a \in Attempts : ProbeStep(a)
    \/ Interrupt
    \/ Done

Spec == Init /\ [][Next]_vars

\* The loop is scheduled, probes and lookups have timeouts, and the engine
\* call keeps EngineAbs' promises.  The user may stay in the picker for ever.
Fairness ==
    /\ WF_vars(LoopStep)
    /\ WF_vars(phase = "idle" /\ (EngineStarts \/ EngineReturns))
    /\ WF_vars(direct /\ ~ready /\ (EngineReady \/ EngineReturns))
    /\ WF_vars(direct /\ cancelled /\ EngineReturns)
    /\ \A a \in Attempts : WF_vars(ProbeStep(a))

FairSpec == Spec /\ Fairness

-----------------------------------------------------------------------------
(* Properties.                                                              *)

TypeOK ==
    /\ noProbe \in BOOLEAN /\ anycast \in BOOLEAN /\ interrupted \in BOOLEAN
    /\ loop \in {"fetch", "pick", "engine", "switch", "done"}
    /\ pool \in 0 .. PoolMax
    /\ attempted \subseteq 1 .. pool
    /\ attempt \in 0 .. MaxAttempts
    /\ verdict \in {"none", "good"} \cup Bad
    /\ lastReason \in {"none"} \cup Bad
    /\ quoted \in 0 .. MaxAttempts
    /\ ending \in {"none", "noServers", "cancelled", "noMoreServers",
                   "allUnusable", "disconnected", "finished", "reported"}
    /\ phase \in {"idle", "running", "returned"}
    /\ ready \in BOOLEAN /\ cancelled \in BOOLEAN /\ direct \in BOOLEAN
    /\ outcome \in {"none", "ok", "error", "timeout"}
    /\ fatal \in BOOLEAN
    /\ probe \in [Attempts -> {"off", "probing", "failed", "slow", "fast",
                     "tooSlow", "locating", "away", "good", "bad", "gone"}]
    /\ flags \in [Attempts -> SUBSET {"ran", "failed", "slow", "geo"}]
    /\ lastMbps \in 0 .. MaxAttempts /\ lastExit \in 0 .. MaxAttempts

\* Every attempt takes a server of the country that no earlier one took, so
\* the loop ends after at most maxAttempts servers.
NoServerTwice ==
    /\ attempted \subseteq 1 .. pool
    /\ Cardinality(attempted) = attempt
    /\ attempt <= MaxAttempts

\* Although the pick is random, the k-th server is among the best k+4.
BestFirst == \A s \in attempted : s < attempt + TopPick

\* While a tunnel runs whose own probe found it usable, nothing but Ctrl-C
\* cancels it, whatever the goroutines of earlier attempts still do.
GoodServerKept ==
    loop = "engine" /\ probe[attempt] \in {"locating", "good"} /\ ~interrupted
        => ~cancelled

\* A server is called slow, unreachable or misplaced only by its own probe,
\* never by one that outlived its attempt.
VerdictFromOwnProbe ==
    loop = "switch" /\ verdict \in {"slow", "unreachable", "geoMismatch"}
        => probe[attempt] \in {"bad", "gone"}

\* An engine that failed before its probe came back is not taken for a good
\* server, on which the command would end as if the user had disconnected.
FailedEngineNotGood ==
    loop = "switch" /\ verdict = "good" /\ ~interrupted
        => outcome = "ok" \/ probe[attempt] \notin {"off", "probing"}

\* A reason that quotes a speed or an exit quotes a value some probe measured.
QuotesAMeasurement ==
    lastReason \in {"slow", "geoMismatch"} => quoted \in 1 .. attempt

\* After Ctrl-C no further engine is started.
NoEngineAfterInterrupt ==
    [][interrupted => ~(phase = "idle" /\ phase' = "running")]_vars

\* Ctrl-C during the attempts ends the command.
InterruptEnds == direct /\ interrupted /\ loop # "fetch" ~> loop = "done"

\* Every attempt is given up, ends, or comes to a tunnel whose probe passed
\* (or that nobody probes): a bad server never holds the command.
AttemptSettles ==
    direct /\ loop = "engine" ~>
        \/ loop # "engine"
        \/ probe[attempt] = "good"
        \/ noProbe /\ ready

\* connect.go:60 and 70 - with --no-probe there is one shot, no auto-retry.
NoProbeOneShot == noProbe => attempt <= 1
====
