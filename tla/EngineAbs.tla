---- MODULE EngineAbs ----
(***************************************************************************)
(* What connect.go relies on about one call of an engine runner            *)
(* (openvpn.Run, proxy.Run): the call sets up and starts the engine, may   *)
(* report ready once while the engine runs, and returns once.  EngineRun   *)
(* is the detailed runner and implements this module; Connect composes it. *)
(***************************************************************************)
VARIABLES
    phase,      \* "idle" (called, engine not started), "running", "returned"
    ready,      \* OnReady was called
    cancelled,  \* the caller's context is done
    outcome,    \* what the call returned, "none" before
    direct      \* the started process is the engine itself, not sudo

vars == <<phase, ready, cancelled, outcome, direct>>

Outcomes == {"ok", "error", "timeout"}

Init ==
    /\ phase = "idle"
    /\ ready = FALSE
    /\ cancelled = FALSE
    /\ outcome = "none"
    /\ direct \in BOOLEAN

\* exec refuses to start a command whose context is already done.
Start ==
    /\ phase = "idle"
    /\ ~cancelled
    /\ phase' = "running"
    /\ UNCHANGED <<ready, cancelled, outcome, direct>>

BecomeReady ==
    /\ phase = "running"
    /\ ~ready
    /\ ready' = TRUE
    /\ UNCHANGED <<phase, cancelled, outcome, direct>>

Cancel ==
    /\ ~cancelled
    /\ phase # "returned"
    /\ cancelled' = TRUE
    /\ UNCHANGED <<phase, ready, outcome, direct>>

\* A call that never started its engine can only return an error.
Return(o) ==
    /\ phase # "returned"
    /\ phase = "idle" => o = "error"
    /\ phase' = "returned"
    /\ outcome' = o
    /\ UNCHANGED <<ready, cancelled, direct>>

Returns == \E o \in Outcomes : Return(o)

Next == Start \/ BecomeReady \/ Cancel \/ Returns

Spec == Init /\ [][Next]_vars

\* The deadline bounds the time to ready, and a cancelled call returns, when
\* the signal reaches the engine itself.
Settle == direct /\ ~ready /\ (BecomeReady \/ Returns)
Obey == direct /\ cancelled /\ Returns

FairSpec ==
    /\ Spec
    /\ WF_vars(phase = "idle" /\ (Start \/ Returns))
    /\ WF_vars(Settle)
    /\ WF_vars(Obey)
====
