---- MODULE Fetch ----
(***************************************************************************)
(* backend.FetchAll with the goroutines of its backends.  The aggregator   *)
(* pulls its sources at once, keeps the first URI of each endpoint in the  *)
(* order the sources answered, resolves the hosts while the ASN dataset is *)
(* prepared, and makes the servers when both are done.  Riseup gets three  *)
(* files at once through one shared error.  Every other backend is one     *)
(* request.  The program calls FetchAll once, so the memory caches of the  *)
(* backends are empty.                                                     *)
(***************************************************************************)
EXTENDS Integers, Sequences, SequencesExt

CONSTANTS
    Simple,     \* backends that are one request: vpngate, warp
    Sources,    \* subscriptions the aggregator pulls
    Lists,      \* what a subscription may hold: sequences of URIs
    Endpoints,  \* server:port pairs
    CdnNames,   \* endpoints whose host name is a CDN's
    Places      \* what resolving a host may find

\* A URI is [ep, scheme]; one that does not parse has the scheme "junk".  A
\* place is [ip, located]: the kind of address the name has, and whether a
\* country was found for it.
Schemes == {"ss", "trojan", "junk"}
Uris == [ep : Endpoints, scheme : Schemes]

ASSUME FetchAssumption ==
    /\ Lists \subseteq Seq(Uris)
    /\ CdnNames \subseteq Endpoints
    /\ \A pl \in Places : pl.ip = "none" => ~pl.located
    /\ Simple \cap {"ss", "riseup"} = {}

VARIABLES
    call,       \* "running" or "returned"
    ch,         \* answers in FetchAll's channel: [n, ok], in no order
    merged,     \* backends whose servers were returned
    errs,       \* backends whose error was returned
    ssPc,       \* where the aggregator's Fetch stands
    heard,      \* sources that answered
    offered,    \* URIs in the order their sources answered
    parsed,     \* how many of them were looked at
    items,      \* URIs kept, one of each endpoint
    place,      \* what was found of the items' hosts
    asn,        \* the ASN dataset
    cdn,        \* kinds of addresses the CDN ranges cover
    loadErr,    \* whether a list of ranges could not be had
    servers,    \* what the aggregator made, by the index of its item
    part,       \* what each of riseup's requests left
    lastErr     \* riseup's t.err

fanVars == <<call, ch, merged, errs>>
ssVars == <<ssPc, heard, offered, parsed, items, place, asn, cdn, loadErr, servers>>
riseupVars == <<part, lastErr>>
vars == <<fanVars, ssVars, riseupVars>>

Backends == Simple \cup {"ss", "riseup"}
Parts == {"eip", "ca", "client"}
\* Addresses that only the published lists cover, and those in the bundled
\* ranges too; both, and those of known forwarders, are on suspicious ASNs.
Published == {"core", "other"}
Suspicious == Published \cup {"forwarder"}

Init ==
    /\ call = "running" /\ ch = {} /\ merged = {} /\ errs = {}
    /\ ssPc = "sources" /\ heard = {} /\ offered = <<>> /\ parsed = 0 /\ items = <<>>
    /\ place = <<>> /\ asn = "unasked" /\ cdn = {} /\ loadErr = FALSE
    /\ servers = <<>>
    /\ part = [x \in Parts |-> "asked"] /\ lastErr = FALSE

-----------------------------------------------------------------------------
\* FetchAll.
Answered(b) == \E m \in ch : m.n = b

\* Fetch returns, and its goroutine sends before it is Done; the channel has
\* room for all.  Their order is of no use: what is merged is grouped after.
Answer(b, ok) == ch' = ch \cup {[n |-> b, ok |-> ok]}

SimpleAnswers(b) ==
    /\ ~Answered(b)
    /\ \E ok \in BOOLEAN : Answer(b, ok)
    /\ UNCHANGED <<call, merged, errs, ssVars, riseupVars>>

From(ok) == {m.n : m \in {k \in ch : k.ok = ok}}

\* Mutant: the first error ends the call.
ReturnAtError ==
    /\ call = "running"
    /\ From(FALSE) # {} \/ \A b \in Backends : Answered(b)
    /\ call' = "returned"
    /\ merged' = From(TRUE) /\ errs' = From(FALSE)
    /\ UNCHANGED <<ch, ssVars, riseupVars>>

\* wg.Wait, then the answers are merged.
Return ==
    /\ call = "running"
    /\ \A b \in Backends : Answered(b)
    /\ call' = "returned"
    /\ merged' = From(TRUE) /\ errs' = From(FALSE)
    /\ UNCHANGED <<ch, ssVars, riseupVars>>

-----------------------------------------------------------------------------
\* The aggregator.
SourceAnswers(s) ==
    /\ ssPc = "sources" /\ s \notin heard
    /\ heard' = heard \cup {s}
    /\ \/ \E l \in Lists : offered' = offered \o l
       \/ UNCHANGED offered
    /\ UNCHANGED <<fanVars, ssPc, parsed, items, place, asn, cdn, loadErr, servers, riseupVars>>

Parses(u) == u.scheme # "junk"

Seen(u) == \E i \in DOMAIN items : items[i].ep = u.ep

\* Mutants: what does not parse is kept; the scheme tells URIs apart too.
KeepAll(u) == ~Seen(u)
KeepByUri(u) == Parses(u) /\ \A i \in DOMAIN items : items[i] # u

Keep(u) == Parses(u) /\ ~Seen(u)

\* Every source was heard: the URIs are looked at one by one, and the first
\* that parses is kept for each endpoint.
ParseUri ==
    /\ ssPc = "sources" /\ heard = Sources /\ parsed < Len(offered)
    /\ parsed' = parsed + 1
    /\ items' = IF Keep(offered[parsed']) THEN Append(items, offered[parsed']) ELSE items
    /\ UNCHANGED <<fanVars, ssPc, heard, offered, place, asn, cdn, loadErr, servers, riseupVars>>

\* With none the Fetch fails, else the dataset is asked for beside.
Collect ==
    /\ ssPc = "sources" /\ heard = Sources /\ parsed = Len(offered)
    /\ IF items = <<>>
       THEN ssPc' = "done" /\ Answer("ss", FALSE) /\ UNCHANGED asn
       ELSE ssPc' = "resolve" /\ asn' = "asked" /\ UNCHANGED ch
    /\ UNCHANGED <<call, merged, errs, heard, offered, parsed, items, place, cdn, loadErr, servers, riseupVars>>

Resolve ==
    /\ ssPc = "resolve"
    /\ place' \in [{items[i].ep : i \in DOMAIN items} -> Places]
    /\ ssPc' = "wait"
    /\ UNCHANGED <<fanVars, heard, offered, parsed, items, asn, cdn, loadErr, servers, riseupVars>>

AsnPrepared ==
    /\ asn = "asked"
    /\ asn' \in {"loaded", "failed"}
    /\ UNCHANGED <<fanVars, ssPc, heard, offered, parsed, items, place, cdn, loadErr, servers, riseupVars>>

Fronted(u, ranges) == u.ep \in CdnNames \/ place[u.ep].ip \in ranges

Server(u, ranges) ==
    [ep |-> u.ep, scheme |-> u.scheme,
     country |-> IF Fronted(u, ranges) THEN "XX" ELSE IF place[u.ep].located THEN "CC" ELSE "none",
     score |-> IF asn = "loaded" /\ place[u.ep].ip \in Suspicious THEN 5 ELSE 25]

\* Mutant: a failed fetch of the ranges leaves what the sources sent.
RangesSent(got, failed) == got

\* Prepare: the ranges that were loaded or fetched, and the bundled ones when a
\* list failed; lists that were answered without a range are no failure.
Ranges(got, failed) == IF failed THEN got \cup {"core"} ELSE got

Make(got, failed) ==
    /\ cdn' = Ranges(got, failed) /\ loadErr' = failed
    /\ servers' = [i \in {k \in DOMAIN items : Server(items[k], cdn').country # "none"}
                     |-> Server(items[i], cdn')]
    /\ Answer("ss", DOMAIN servers' # {})
    /\ ssPc' = "done"
    /\ UNCHANGED <<call, merged, errs, heard, offered, parsed, items, place, asn, riseupVars>>

\* Mutant: the servers are made without waiting for the dataset.
MaterializeEarly ==
    ssPc = "wait" /\ \E got \in SUBSET Published, failed \in BOOLEAN : Make(got, failed)

\* <-asnReady, then one server of each item that can be placed; the first
\* address to check loads the CDN ranges.
Materialize ==
    /\ ssPc = "wait" /\ asn # "asked"
    /\ \E got \in SUBSET Published, failed \in BOOLEAN : Make(got, failed)

-----------------------------------------------------------------------------
\* Riseup.  get: a request that fails leaves nothing, one that is cut short
\* what it had read, with an error.
Gets == {"whole", "cut", "none"}

\* Each request stores its own outcome over the shared error; what counts is
\* which store of the error's type word came last.
PartAnswers(x) ==
    /\ part[x] = "asked"
    /\ \E got \in Gets :
         /\ part' = [part EXCEPT ![x] = got]
         /\ lastErr' = (got # "whole")
    /\ UNCHANGED <<fanVars, ssVars>>

\* No error seen, the service description parses, and there are certificates.
RiseupSound == ~lastErr /\ part["eip"] = "whole" /\ part["ca"] # "none" /\ part["client"] # "none"

\* A bundle that is cut short may have lost its key or certificate, and the
\* description may list no gateway that can be used.
RiseupParses ==
    /\ ~Answered("riseup")
    /\ \A x \in Parts : part[x] # "asked"
    /\ \/ RiseupSound /\ Answer("riseup", TRUE)
       \/ Answer("riseup", FALSE)
    /\ UNCHANGED <<call, merged, errs, ssVars, riseupVars>>

-----------------------------------------------------------------------------
Aggregates ==
    ParseUri \/ Collect \/ Resolve \/ AsnPrepared \/ Materialize \/ \E s \in Sources : SourceAnswers(s)
Riseups == RiseupParses \/ \E x \in Parts : PartAnswers(x)

Next == Return \/ Aggregates \/ Riseups \/ \E b \in Simple : SimpleAnswers(b)

\* Every request has a timeout, so every goroutine goes on.
Fairness ==
    /\ WF_vars(Return) /\ WF_vars(ParseUri) /\ WF_vars(Collect) /\ WF_vars(Resolve)
    /\ WF_vars(AsnPrepared) /\ WF_vars(Materialize) /\ WF_vars(RiseupParses)
    /\ \A s \in Sources : WF_vars(SourceAnswers(s))
    /\ \A x \in Parts : WF_vars(PartAnswers(x))
    /\ \A b \in Simple : WF_vars(SimpleAnswers(b))

Spec == Init /\ [][Next]_vars /\ Fairness

-----------------------------------------------------------------------------
Kept == [ep : Endpoints, scheme : Schemes \ {"junk"}]

\* The types; only URIs that parse become items.
TypeOK ==
    /\ call \in {"running", "returned"}
    /\ ch \subseteq [n : Backends, ok : BOOLEAN]
    /\ merged \subseteq Backends /\ errs \subseteq Backends
    /\ ssPc \in {"sources", "resolve", "wait", "done"}
    /\ heard \subseteq Sources
    /\ offered \in Seq(Uris) /\ parsed \in 0 .. Len(offered) /\ items \in Seq(Kept)
    /\ place \in [DOMAIN place -> Places] /\ DOMAIN place \subseteq Endpoints
    /\ asn \in {"unasked", "asked", "loaded", "failed"}
    /\ cdn \subseteq Published /\ loadErr \in BOOLEAN
    /\ DOMAIN servers \subseteq DOMAIN items
    /\ servers \in [DOMAIN servers -> [ep : Endpoints, scheme : Schemes \ {"junk"},
                                       country : {"CC", "XX"}, score : {5, 25}]]
    /\ part \in [Parts -> Gets \cup {"asked"}]
    /\ lastErr \in BOOLEAN

\* FetchAll returns, with what every backend answered (backend.go:81-82).
Abs == INSTANCE FetchAbs WITH
    answer <- [b \in Backends |-> IF ~Answered(b) THEN "waiting"
                                  ELSE IF b \in From(TRUE) THEN "ok" ELSE "failed"]

ImplementsFetchAbs == Abs!Spec

\* The first URI of its endpoint that parses, and whether it can be placed.
First(k) ==
    /\ Parses(offered[k])
    /\ \A j \in 1 .. k - 1 : Parses(offered[j]) => offered[j].ep # offered[k].ep
Placed(u) == Fronted(u, cdn) \/ place[u.ep].located

\* In whatever order the sources answer, every endpoint that some of them
\* offered in a form that parses and that can be placed gives one server, and
\* no other does; its protocol is the one that was heard first.
EachEndpointOnce ==
    ssPc = "done" =>
      /\ \A i, j \in DOMAIN servers : servers[i].ep = servers[j].ep => i = j
      /\ \A i \in DOMAIN servers : \E k \in DOMAIN offered :
           /\ First(k) /\ Placed(offered[k])
           /\ servers[i].ep = offered[k].ep /\ servers[i].scheme = offered[k].scheme
      /\ \A k \in DOMAIN offered :
           First(k) /\ Placed(offered[k]) => \E i \in DOMAIN servers : servers[i].ep = offered[k].ep

\* When the ASN dataset can be had, no server on a forwarder's network ranks
\* as high as a clean one, although it is loaded beside the lookup of the
\* hosts (ssaggregator.go:172-177).
ForwardersSink ==
    ssPc = "done" /\ asn = "loaded" =>
      \A i, j \in DOMAIN servers :
        place[servers[i].ep].ip \in Suspicious /\ place[servers[j].ep].ip \notin Suspicious
          => servers[i].score < servers[j].score

\* What stands behind a CDN is not sold under a country, and none of it is lost
\* for want of one: names of a CDN always, addresses in the ranges that were
\* had, and the bundled ranges as soon as one list failed (cdncheck.go:63-64).
Covered == IF loadErr THEN cdn \cup {"core"} ELSE cdn
CdnRelabelled ==
    ssPc = "done" =>
      \A i \in DOMAIN items :
        Fronted(items[i], Covered) =>
          \E k \in DOMAIN servers : servers[k].ep = items[i].ep /\ servers[k].country = "XX"
====
