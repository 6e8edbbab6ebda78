---- MODULE EngineRun ----
(***************************************************************************)
(* One call of proxy.Run / openvpn.Run and the runtools.Run below it: the  *)
(* main goroutine, the two output pumps, the deadline watchdog, os/exec's  *)
(* context watcher, and the engine process with its two pipes.             *)
(***************************************************************************)
EXTENDS Integers, Sequences

CONSTANTS
    Streams,    \* the engine's output pipes, stdout and stderr
    Kinds,      \* kinds of line the engine may print
    MaxLines,   \* bound: lines the engine prints, per stream
    PipeCap,    \* lines a pipe holds before a write blocks
    RingMax     \* lines the ring buffer keeps

ASSUME BoundsAssumption ==
    /\ MaxLines \in [Streams -> Nat] /\ PipeCap \in Nat /\ RingMax \in Nat \ {0}
    /\ Kinds \subseteq {"info", "marker", "long"}

VARIABLES
    host,       \* who is killed: "direct" engine, sudo "wrapper", or "refused"
    main,       \* pc of the calling goroutine
    dir,        \* the temp directory with the config exists
    result,     \* the error class returned, "none" before
    cancelled,  \* the caller's context is done
    proc,       \* the process exec started: "none", "up", "exited"
    exit,       \* its exit status as Cmd.Wait has it, "none" before
    engine,     \* the engine process: "none", "up", "down"
    sent,       \* lines the engine has written, per stream
    open,       \* our read ends of the pipes are open
    fetched,    \* lines taken from the pipe into the scanner's buffer
    scanned,    \* lines the scanner has returned
    pump,       \* pc of each pump goroutine
    ring,       \* the ring buffer
    once,       \* readyOnce: "new", "running", "done"
    calls,      \* number of OnReady calls
    readyCh,    \* the ready channel holds its token
    watch,      \* pc of the watchdog goroutine
    expired,    \* the ReadyDeadline timer has fired
    timedOut,   \* the flag the watchdog sets
    deadlineHit \* CancelOnDeadline was called

callVars == <<main, dir, result>>
procVars == <<proc, exit, engine>>
pumpVars == <<fetched, scanned, pump, ring>>
onceVars == <<once, calls, readyCh>>
watchVars == <<watch, expired, timedOut, deadlineHit>>
envVars == <<host, cancelled, sent, open>>
notCall == <<envVars, procVars, pumpVars, onceVars, watchVars>>
notPump == <<envVars, callVars, procVars, watchVars>>
notWatch == <<envVars, callVars, procVars, pumpVars>>
vars == <<envVars, callVars, procVars, pumpVars, onceVars, watchVars>>

Lines == Streams \X (Nat \ {0})

Init ==
    /\ host \in {"direct", "wrapper", "refused"}
    /\ main = "setup" /\ dir = FALSE /\ result = "none"
    /\ cancelled = FALSE
    /\ proc = "none" /\ exit = "none" /\ engine = "none"
    /\ sent = [s \in Streams |-> <<>>]
    /\ open = FALSE
    /\ fetched = [s \in Streams |-> 0]
    /\ scanned = [s \in Streams |-> 0]
    /\ pump = [s \in Streams |-> "off"]
    /\ ring = <<>>
    /\ once = "new" /\ calls = 0 /\ readyCh = FALSE
    /\ watch = "off" /\ expired = FALSE /\ timedOut = FALSE
    /\ deadlineHit = FALSE

-----------------------------------------------------------------------------
(* The calling goroutine.                                                   *)

\* The runner writes the config to a fresh temp directory.
Setup ==
    /\ main = "setup"
    /\ main' = "start" /\ dir' = TRUE
    /\ UNCHANGED <<notCall, result>>

SetupFails ==
    /\ main = "setup"
    /\ main' = "cleanup" /\ result' = "error" /\ dir' \in BOOLEAN
    /\ UNCHANGED notCall

\* Cmd.Start succeeds, then the watchdog and both pumps are spawned.
StartEngine ==
    /\ main = "start"
    /\ ~cancelled
    /\ main' = "wait"
    /\ proc' = "up" /\ engine' = "up" /\ open' = TRUE
    /\ pump' = [s \in Streams |-> "scan"]
    /\ watch' = "armed"
    /\ UNCHANGED <<onceVars, host, cancelled, sent, dir, result, exit,
                   fetched, scanned, ring, expired, timedOut, deadlineHit>>

StartFails ==
    /\ main = "start"
    /\ main' = "cleanup" /\ result' = "error"
    /\ UNCHANGED <<notCall, dir>>

\* Mutant: the wait also ends when the caller's context is done.
ExitOrContext == proc = "exited" \/ cancelled
ProcessExited == proc = "exited"

\* The command runs under a child of the caller's context that the deadline
\* cancels too.  Mutant: it is bound to the deadline's only.
DeadlineCtxDone == deadlineHit
RunCtxDone == cancelled \/ deadlineHit

\* Cmd.Wait returns on process exit and closes the read ends of both pipes.
\* When its context was done, it may have that for the error of a process that
\* exited well.
WaitReturns ==
    /\ main = "wait"
    /\ ProcessExited
    /\ main' = "join" /\ open' = FALSE
    /\ exit' \in {exit} \cup (IF exit = "ok" /\ RunCtxDone THEN {"error"} ELSE {})
    /\ UNCHANGED <<proc, engine, pumpVars, onceVars, watchVars, host, cancelled,
                   sent, dir, result>>

\* wg.Wait.  Mutant: the caller does not wait for the pumps.
PumpsIgnored == TRUE
PumpsDone == \A s \in Streams : pump[s] = "done"

Join ==
    /\ main = "join"
    /\ PumpsDone
    /\ main' = "check"
    /\ UNCHANGED <<notCall, dir, result>>

Check ==
    /\ main = "check"
    /\ main' = "cleanup"
    /\ result' = IF timedOut THEN "timeout"
                 ELSE IF exit = "ok" THEN "ok" ELSE "error"
    /\ UNCHANGED <<notCall, dir>>

\* The runner's deferred cancel and RemoveAll.
Cleanup ==
    /\ main = "cleanup"
    /\ main' = "returned" /\ dir' = FALSE
    /\ UNCHANGED <<notCall, result>>

-----------------------------------------------------------------------------
(* The pumps.                                                               *)

\* Mutant: a read of an empty pipe yields a line.
PumpReadsPast(s) ==
    /\ pump[s] = "scan" /\ scanned[s] = fetched[s]
    /\ open
    /\ fetched' = [fetched EXCEPT ![s] = @ + 1]
    /\ UNCHANGED <<notPump, onceVars, scanned, pump, ring>>

\* One Read moves everything in the pipe into the scanner's buffer.
PumpReads(s) ==
    /\ pump[s] = "scan" /\ scanned[s] = fetched[s]
    /\ open
    /\ fetched[s] < Len(sent[s])
    /\ fetched' = [fetched EXCEPT ![s] = Len(sent[s])]
    /\ UNCHANGED <<notPump, onceVars, scanned, pump, ring>>

\* Mutant: the newest line is dropped instead of the oldest.
TruncateTail(r) == IF Len(r) > RingMax THEN SubSeq(r, 1, RingMax) ELSE r

Truncate(r) == IF Len(r) > RingMax THEN Tail(r) ELSE r

Next1(s) == scanned[s] + 1

\* A line goes to the ring; a success marker sends the pump to fireReady.
PumpLine(s) ==
    /\ pump[s] = "scan" /\ scanned[s] < fetched[s]
    /\ sent[s][Next1(s)] # "long"
    /\ scanned' = [scanned EXCEPT ![s] = Next1(s)]
    /\ ring' = Truncate(Append(ring, <<s, Next1(s)>>))
    /\ pump' = [pump EXCEPT ![s] = IF sent[s][Next1(s)] = "marker"
                                   THEN "fire" ELSE "scan"]
    /\ UNCHANGED <<notPump, onceVars, fetched>>

\* Scan returns false: end of file, a closed pipe, or a line over 1 MB.
PumpEnds(s) ==
    /\ pump[s] = "scan"
    /\ \/ /\ scanned[s] = fetched[s]
          /\ open => engine = "down" /\ fetched[s] = Len(sent[s])
       \/ scanned[s] < fetched[s] /\ sent[s][Next1(s)] = "long"
    /\ pump' = [pump EXCEPT ![s] = "done"]
    /\ UNCHANGED <<notPump, onceVars, fetched, scanned, ring>>

\* Mutant: no sync.Once around OnReady.
OnceIgnored == TRUE
OnceNew == once = "new"

\* readyOnce.Do: the first pump runs OnReady, and only then signals readyCh.
FireFirst(s) ==
    /\ pump[s] = "fire" /\ OnceNew
    /\ once' = "running" /\ calls' = calls + 1
    /\ pump' = [pump EXCEPT ![s] = "send"]
    /\ UNCHANGED <<notPump, fetched, scanned, ring, readyCh>>

\* Mutant: the Once stays marked as running.
FireForgets(s) ==
    /\ pump[s] = "send"
    /\ readyCh' = TRUE
    /\ pump' = [pump EXCEPT ![s] = "scan"]
    /\ UNCHANGED <<notPump, fetched, scanned, ring, calls, once>>

FireSend(s) ==
    /\ pump[s] = "send"
    /\ readyCh' = TRUE /\ once' = "done"
    /\ pump' = [pump EXCEPT ![s] = "scan"]
    /\ UNCHANGED <<notPump, fetched, scanned, ring, calls>>

\* A later marker finds the Once done; while it runs, the caller blocks.
FireAgain(s) ==
    /\ pump[s] = "fire" /\ once = "done"
    /\ pump' = [pump EXCEPT ![s] = "scan"]
    /\ UNCHANGED <<notPump, onceVars, fetched, scanned, ring>>

PumpStep(s) ==
    \/ PumpReads(s) \/ PumpLine(s) \/ PumpEnds(s)
    \/ FireFirst(s) \/ FireSend(s) \/ FireAgain(s)

-----------------------------------------------------------------------------
(* The watchdog.                                                            *)

TimerExpires ==
    /\ watch = "armed" /\ ~expired
    /\ expired' = TRUE
    /\ UNCHANGED <<notWatch, onceVars, watch, timedOut, deadlineHit>>

\* Mutants: the watchdog cancels before it sets the flag, or never cancels.
WatchCancelsFirst ==
    /\ watch = "armed" /\ expired
    /\ deadlineHit' = TRUE /\ watch' = "cancel"
    /\ UNCHANGED <<notWatch, onceVars, expired, timedOut>>

WatchOnlyFlags ==
    /\ watch = "armed" /\ expired
    /\ timedOut' = TRUE /\ watch' = "done"
    /\ UNCHANGED <<notWatch, onceVars, expired, deadlineHit>>

\* select takes either ready case when both the token and the timer are there.
WatchReady ==
    /\ watch = "armed" /\ readyCh
    /\ readyCh' = FALSE /\ watch' = "done"
    /\ UNCHANGED <<notWatch, once, calls, expired, timedOut, deadlineHit>>

WatchTimeout ==
    /\ watch = "armed" /\ expired
    /\ timedOut' = TRUE /\ watch' = "cancel"
    /\ UNCHANGED <<notWatch, onceVars, expired, deadlineHit>>

WatchCancel ==
    /\ watch = "cancel"
    /\ deadlineHit' = TRUE /\ watch' = "done"
    /\ UNCHANGED <<notWatch, onceVars, expired, timedOut>>

WatchStep == WatchReady \/ WatchTimeout \/ WatchCancel

-----------------------------------------------------------------------------
(* The engine, os/exec and the caller.                                      *)

\* A write blocks on a full pipe and goes nowhere once the read end is closed.
EngineWrites(s, k) ==
    /\ engine = "up" /\ open
    /\ Len(sent[s]) < MaxLines[s]
    /\ Len(sent[s]) - fetched[s] < PipeCap
    /\ sent' = [sent EXCEPT ![s] = Append(@, k)]
    /\ UNCHANGED <<callVars, procVars, pumpVars, onceVars, watchVars, host,
                   cancelled, open>>

\* The engine exits on its own; sudo, if still there, passes the status on.
EngineExits(e) ==
    /\ engine = "up"
    /\ engine' = "down"
    /\ IF proc = "up" THEN proc' = "exited" /\ exit' = e
       ELSE UNCHANGED <<proc, exit>>
    /\ UNCHANGED <<envVars, callVars, pumpVars, onceVars, watchVars>>

\* exec's context watcher sends SIGKILL to the process it started.  Behind
\* sudo that is root's process: the signal is refused, or ends only sudo.
Kill ==
    /\ RunCtxDone
    /\ proc = "up" /\ host # "refused"
    /\ proc' = "exited" /\ exit' = "killed"
    /\ engine' = IF host = "direct" THEN "down" ELSE engine
    /\ UNCHANGED <<envVars, callVars, pumpVars, onceVars, watchVars>>

\* A bad probe or Ctrl-C cancels the context the runner was given.
CallerCancels ==
    /\ ~cancelled /\ main # "returned"
    /\ cancelled' = TRUE
    /\ UNCHANGED <<callVars, procVars, pumpVars, onceVars, watchVars, host,
                   sent, open>>

Returned == main = "returned" /\ UNCHANGED vars

CallStep ==
    \/ Setup \/ SetupFails \/ StartEngine \/ StartFails
    \/ WaitReturns \/ Join \/ Check \/ Cleanup

Environment ==
    \/ \E s \in Streams, k \in Kinds : EngineWrites(s, k)
    \/ \E e \in {"ok", "error"} : EngineExits(e)
    \/ CallerCancels

Next ==
    \/ CallStep
    \/ \E s \in Streams : PumpStep(s)
    \/ TimerExpires \/ WatchStep
    \/ Kill
    \/ Environment
    \/ Returned

Spec == Init /\ [][Next]_vars

\* Goroutines are scheduled, timers fire and signals are delivered; nothing is
\* assumed of the engine or of the user.
Fairness ==
    /\ WF_vars(CallStep)
    /\ \A s \in Streams : WF_vars(PumpStep(s))
    /\ WF_vars(TimerExpires)
    /\ WF_vars(WatchStep)
    /\ WF_vars(Kill)

FairSpec == Spec /\ Fairness

-----------------------------------------------------------------------------
(* Properties.                                                              *)

\* Every variable has its type, and the scanner never runs ahead of the pipe.
TypeOK ==
    /\ host \in {"direct", "wrapper", "refused"}
    /\ main \in {"setup", "start", "wait", "join", "check", "cleanup",
                 "returned"}
    /\ dir \in BOOLEAN /\ result \in {"none", "ok", "error", "timeout"}
    /\ cancelled \in BOOLEAN
    /\ proc \in {"none", "up", "exited"}
    /\ exit \in {"none", "ok", "error", "killed"}
    /\ engine \in {"none", "up", "down"}
    /\ sent \in [Streams -> Seq(Kinds)]
    /\ open \in BOOLEAN
    /\ fetched \in [Streams -> Nat]
    /\ scanned \in [Streams -> Nat]
    /\ \A s \in Streams : scanned[s] <= fetched[s] /\ fetched[s] <= Len(sent[s])
    /\ pump \in [Streams -> {"off", "scan", "fire", "send", "done"}]
    /\ ring \in Seq(Lines)
    /\ once \in {"new", "running", "done"}
    /\ calls \in Nat /\ readyCh \in BOOLEAN
    /\ watch \in {"off", "armed", "cancel", "done"}
    /\ expired \in BOOLEAN /\ timedOut \in BOOLEAN /\ deadlineHit \in BOOLEAN

Joined == main \in {"check", "cleanup", "returned"}
MarkerScanned ==
    \E s \in Streams : \E n \in 1 .. scanned[s] : sent[s][n] = "marker"

\* OnReady is called at most once although both pumps may see markers, and a
\* call that has joined its pumps has called it exactly when one was scanned.
OnReadyAtMostOnce == calls <= 1
OnReadyExactlyOnce ==
    /\ OnReadyAtMostOnce
    /\ Joined => (calls = 1 <=> MarkerScanned)

\* The ring buffer holds the newest lines, so diagnosis reads the end of the
\* output: of each stream the lines are in order, none is missing between the
\* oldest that is kept and the last that was scanned, and nothing is dropped
\* before the ring is full (process.go:155-165).
RingHoldsTail ==
    /\ Len(ring) <= RingMax
    /\ \A i, j \in DOMAIN ring : i < j /\ ring[i][1] = ring[j][1] => ring[i][2] < ring[j][2]
    /\ \A i \in DOMAIN ring :
         /\ ring[i][2] <= scanned[ring[i][1]]
         /\ \A n \in ring[i][2] .. scanned[ring[i][1]] :
              \E j \in DOMAIN ring : ring[j] = <<ring[i][1], n>>
    /\ Len(ring) < RingMax =>
         \A s \in Streams : \A n \in 1 .. scanned[s] : \E j \in DOMAIN ring : ring[j] = <<s, n>>

\* The caller joins its pumps without a timeout, and that wait is never for
\* nothing: both pumps exist, their pipes are closed, so that no read blocks,
\* and one that waits at the Once waits for a pump that is inside OnReady, not
\* for itself or for one that has gone (process.go:80-89, 130-131).
JoinNotStuck ==
    /\ main = "join" => ~open /\ \A s \in Streams : pump[s] # "off"
    /\ \A s \in Streams : pump[s] = "fire" /\ once = "running" =>
         \E t \in Streams : pump[t] = "send"

\* Nothing of a finished call reaches the caller late: no OnReady, no output.
NothingAfterReturn ==
    [][main = "returned" => UNCHANGED <<ring, calls, result>>]_vars

\* While the engine runs its config and credentials stay on disk and the call
\* waits for it; only a killed sudo leaves an engine behind.
EngineHasItsConfig ==
    engine = "up" /\ host # "wrapper" => dir /\ main = "wait"

\* An engine killed without the caller's wish was killed for the deadline,
\* and the call then reports TimedOut, never a plain exit error.
DeadlineKillReported ==
    /\ exit = "killed" /\ ~cancelled => timedOut
    /\ exit = "killed" /\ ~cancelled /\ main \in {"cleanup", "returned"}
          => result = "timeout"

\* A cancelled call returns when the kill reaches the engine.
CancelStopsEngine == host = "direct" /\ cancelled ~> main = "returned"

\* A started engine becomes ready or the call returns: no silent hang.
DeadlineBoundsHang ==
    host = "direct" /\ main = "wait" ~> calls > 0 \/ main = "returned"

\* The call implements the abstract engine the connect loop relies on.
phaseOf ==
    CASE main = "returned" -> "returned"
      [] main # "returned" /\ proc = "none" -> "idle"
      [] OTHER -> "running"

Abs == INSTANCE EngineAbs WITH
    phase <- phaseOf,
    ready <- calls > 0,
    outcome <- IF main = "returned" THEN result ELSE "none",
    direct <- host = "direct"

ImplementsEngineAbs == Abs!FairSpec

\* process.go:5-7 says all output is captured for diagnosis: when an engine
\* ended by itself, every line it wrote has been read.
OutputCaptured ==
    main = "returned" /\ exit \in {"ok", "error"}
        => \A s \in Streams : scanned[s] = Len(sent[s])

\* process.go:51-54 says TimedOut means an engine never confirmed connected.
TimedOutNeverReady == result = "timeout" => calls = 0

\* README.md:85-90 says a server given up on is killed and the next one tried:
\* the call whose context was cancelled returns, whoever started the engine.
GivenUpReturns == cancelled ~> main = "returned"
====
