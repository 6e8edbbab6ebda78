---- MODULE MCEngineRun ----
(***************************************************************************)
(* EngineRun on two streams: two lines on stdout and one on stderr are the *)
(* least with which both pumps race for the Once, a line follows a marker, *)
(* the ring overflows, and a pipe fills behind a pump that gave up.        *)
(***************************************************************************)
EXTENDS EngineRun, TLC

CONSTANTS out, err

MCStreams == {out, err}
MCMaxLines == (out :> 2) @@ (err :> 1)
====
