---- MODULE FetchAbs ----
(***************************************************************************)
(* What the commands rely on about backend.FetchAll: every backend is      *)
(* asked, each answers with servers or with an error, and the call returns *)
(* once all have, with the servers of those that worked and one error for  *)
(* each that did not.                                                      *)
(***************************************************************************)
CONSTANT Backends

VARIABLES
    call,       \* "running" or "returned"
    answer,     \* what each backend answered
    merged,     \* backends whose servers the call returned
    errs        \* backends whose error the call returned

vars == <<call, answer, merged, errs>>

Answers == {"waiting", "ok", "failed"}

Init ==
    /\ call = "running"
    /\ answer = [b \in Backends |-> "waiting"]
    /\ merged = {} /\ errs = {}

Answer(b) ==
    /\ answer[b] = "waiting"
    /\ answer' \in {[answer EXCEPT ![b] = a] : a \in {"ok", "failed"}}
    /\ UNCHANGED <<call, merged, errs>>

Return ==
    /\ call = "running"
    /\ \A b \in Backends : answer[b] # "waiting"
    /\ call' = "returned"
    /\ merged' = {b \in Backends : answer[b] = "ok"}
    /\ errs' = {b \in Backends : answer[b] = "failed"}
    /\ UNCHANGED answer

Next == Return \/ \E b \in Backends : Answer(b)

Spec == Init /\ [][Next]_vars /\ WF_vars(Return) /\ \A b \in Backends : WF_vars(Answer(b))
====
