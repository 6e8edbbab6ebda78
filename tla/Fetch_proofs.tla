---- MODULE Fetch_proofs ----
(***************************************************************************)
(* Proofs about FetchAll, for any backends, sources, lists and places:     *)
(* the types, one server of each endpoint, every step one of FetchAbs or a *)
(* stutter, and what was collected side by side put together soundly.      *)
(***************************************************************************)
EXTENDS Fetch, TLAPS

USE DEF vars, fanVars, ssVars, riseupVars

Step == Return \/ Aggregates \/ Riseups \/ \E b \in Simple : SimpleAnswers(b)

LEMMA Steps == ASSUME [Next]_vars PROVE Step \/ UNCHANGED vars
  BY DEF Next, Step

-----------------------------------------------------------------------------
(* The types.                                                               *)

\* A URI that is kept is appended to the items.
LEMMA AppendItem ==
    ASSUME NEW S, NEW q \in Seq(S), NEW x \in S
    PROVE  /\ Append(q, x) \in Seq(S) /\ DOMAIN q = 1 .. Len(q)
           /\ DOMAIN Append(q, x) = 1 .. Len(q) + 1
           /\ \A i \in 1 .. Len(q) : Append(q, x)[i] = q[i]
           /\ Append(q, x)[Len(q) + 1] = x
  OBVIOUS

LEMMA AnswerType ==
    ASSUME ch \subseteq [n : Backends, ok : BOOLEAN], NEW b \in Backends, NEW ok \in BOOLEAN,
           Answer(b, ok)
    PROVE  ch' \subseteq [n : Backends, ok : BOOLEAN]
  BY DEF Answer

LEMMA ItemType ==
    ASSUME TypeOK, NEW i \in DOMAIN items
    PROVE  items[i].ep \in Endpoints /\ items[i].scheme \in Schemes \ {"junk"}
<1>1. items[i] \in Kept
  BY DEF TypeOK
<1> QED
  BY <1>1 DEF Kept

LEMMA TypeInit == Init => TypeOK
<1> SUFFICES ASSUME Init PROVE TypeOK
  OBVIOUS
<1>1. offered \in Seq(Uris) /\ items \in Seq(Kept) /\ parsed \in 0 .. Len(offered)
  BY DEF Init
<1>2. DOMAIN place = {} /\ DOMAIN servers = {} /\ place = <<>> /\ servers = <<>>
  BY DEF Init
<1>3. place \in [DOMAIN place -> Places]
  BY <1>2
<1>4. servers \in [DOMAIN servers -> [ep : Endpoints, scheme : Schemes \ {"junk"},
                                      country : {"CC", "XX"}, score : {5, 25}]]
  BY <1>2
<1>5. part \in [Parts -> Gets \cup {"asked"}]
  BY DEF Init
<1> QED
  BY <1>1, <1>2, <1>3, <1>4, <1>5 DEF Init, TypeOK

LEMMA TypeStep == ASSUME TypeOK, [Next]_vars PROVE TypeOK'
<1> USE DEF TypeOK
<1>1. "ss" \in Backends /\ "riseup" \in Backends /\ Simple \subseteq Backends
  BY DEF Backends
<1>2. CASE UNCHANGED vars
  BY <1>2
<1>3. CASE Return
  <2>1. \A t \in BOOLEAN : From(t) \subseteq Backends
    BY DEF From
  <2> QED
    BY <1>3, <2>1 DEF Return
<1>4. CASE ParseUri
  <2>1. parsed' = parsed + 1 /\ parsed' \in 0 .. Len(offered) /\ offered[parsed'] \in Uris
    BY <1>4 DEF ParseUri
  <2>2. items' \in Seq(Kept) /\ DOMAIN items \subseteq DOMAIN items'
    <3>1. CASE Keep(offered[parsed'])
      <4>1. offered[parsed'] \in Kept
        BY <2>1, <3>1 DEF Keep, Parses, Uris, Kept
      <4> QED
        BY <1>4, <3>1, <4>1, AppendItem DEF ParseUri
    <3>2. CASE ~Keep(offered[parsed'])
      BY <1>4, <3>2 DEF ParseUri
    <3> QED
      BY <3>1, <3>2
  <2> QED
    BY <1>4, <2>1, <2>2 DEF ParseUri
<1>5. CASE Collect
  <2>1. ch' \subseteq [n : Backends, ok : BOOLEAN]
    BY <1>1, <1>5, AnswerType DEF Collect
  <2> QED
    BY <1>5, <2>1 DEF Collect
<1>6. CASE Resolve
  <2>1. {items[i].ep : i \in DOMAIN items} \subseteq Endpoints
    BY ItemType
  <2>2. place' \in [DOMAIN place' -> Places] /\ DOMAIN place' \subseteq Endpoints
    BY <1>6, <2>1 DEF Resolve
  <2> QED
    BY <1>6, <2>2 DEF Resolve
<1>7. CASE AsnPrepared
  BY <1>7 DEF AsnPrepared
<1>8. CASE Materialize
  <2>1. PICK got \in SUBSET Published, failed \in BOOLEAN : Make(got, failed)
    BY <1>8 DEF Materialize
  <2>2. cdn' \subseteq Published /\ loadErr' \in BOOLEAN
    BY <2>1 DEF Make, Ranges, Published
  <2>3. ch' \subseteq [n : Backends, ok : BOOLEAN]
    <3>1. (DOMAIN servers' # {}) \in BOOLEAN
      OBVIOUS
    <3> QED
      BY <1>1, <2>1, <3>1, AnswerType DEF Make
  <2> DEFINE D == {k \in DOMAIN items : Server(items[k], cdn').country # "none"}
  <2>4. servers' = [i \in D |-> Server(items[i], cdn')]
    BY <2>1 DEF Make
  <2>5. ASSUME NEW i \in D
        PROVE  Server(items[i], cdn') \in [ep : Endpoints, scheme : Schemes \ {"junk"},
                                           country : {"CC", "XX"}, score : {5, 25}]
    <3>1. items[i].ep \in Endpoints /\ items[i].scheme \in Schemes \ {"junk"}
      BY ItemType
    <3>2. Server(items[i], cdn').country # "none"
      OBVIOUS
    <3> QED
      BY <3>1, <3>2 DEF Server
  <2> HIDE DEF D
  <2>6. servers' \in [D -> [ep : Endpoints, scheme : Schemes \ {"junk"},
                            country : {"CC", "XX"}, score : {5, 25}]] /\ DOMAIN servers' = D
    BY <2>4, <2>5
  <2>7. D \subseteq DOMAIN items
    BY DEF D
  <2> QED
    BY <2>1, <2>2, <2>3, <2>6, <2>7 DEF Make
<1>9. CASE \E s \in Sources : SourceAnswers(s)
  <2>1. PICK s \in Sources : SourceAnswers(s)
    BY <1>9
  <2>2. offered' \in Seq(Uris) /\ Len(offered) <= Len(offered')
    <3>1. ASSUME NEW l \in Lists
          PROVE  offered \o l \in Seq(Uris) /\ Len(offered) <= Len(offered \o l)
      <4>1. l \in Seq(Uris)
        BY FetchAssumption
      <4> QED
        BY <4>1
    <3>2. UNCHANGED offered \/ \E l \in Lists : offered' = offered \o l
      BY <2>1 DEF SourceAnswers
    <3>3. CASE UNCHANGED offered
      BY <3>3
    <3>4. CASE \E l \in Lists : offered' = offered \o l
      BY <3>1, <3>4
    <3> QED
      BY <3>2, <3>3, <3>4
  <2>3. parsed' \in 0 .. Len(offered')
    BY <2>1, <2>2 DEF SourceAnswers
  <2> QED
    BY <2>1, <2>2, <2>3 DEF SourceAnswers
<1>10. CASE RiseupParses
  <2>1. ch' \subseteq [n : Backends, ok : BOOLEAN]
    BY <1>1, <1>10, AnswerType DEF RiseupParses
  <2> QED
    BY <1>10, <2>1 DEF RiseupParses
<1>11. CASE \E x \in Parts : PartAnswers(x)
  <2>1. PICK x \in Parts, got \in Gets : /\ part' = [part EXCEPT ![x] = got]
                                         /\ lastErr' = (got # "whole")
    BY <1>11 DEF PartAnswers
  <2>2. part' \in [Parts -> Gets \cup {"asked"}] /\ lastErr' \in BOOLEAN
    BY <2>1
  <2> QED
    BY <1>11, <2>2 DEF PartAnswers
<1>12. CASE \E b \in Simple : SimpleAnswers(b)
  <2>1. ch' \subseteq [n : Backends, ok : BOOLEAN]
    BY <1>1, <1>12, AnswerType DEF SimpleAnswers
  <2> QED
    BY <1>12, <2>1 DEF SimpleAnswers
<1> QED
  BY Steps, <1>2, <1>3, <1>4, <1>5, <1>6, <1>7, <1>8, <1>9, <1>10, <1>11, <1>12
     DEF Step, Aggregates, Riseups

\* The types of FetchAll and its backends; only URIs that parse become items.
THEOREM TypeCorrect == Spec => []TypeOK
  BY TypeInit, TypeStep, PTL DEF Spec

-----------------------------------------------------------------------------
(* Every backend answers once.                                              *)

ChannelInv ==
    /\ ch \subseteq [n : Backends, ok : BOOLEAN]
    /\ \A m, k \in ch : m.n = k.n => m = k
    /\ Answered("ss") => ssPc = "done"

\* An answer of a backend that has given none is the only one it gives.
LEMMA OneMore ==
    ASSUME ChannelInv, NEW b \in Backends, ~Answered(b), NEW ok \in BOOLEAN, Answer(b, ok)
    PROVE  /\ ch' \subseteq [n : Backends, ok : BOOLEAN]
           /\ \A m, k \in ch' : m.n = k.n => m = k
           /\ \A c \in Backends : Answered(c)' <=> Answered(c) \/ c = b
<1> DEFINE new == [n |-> b, ok |-> ok]
<1>1. new \in [n : Backends, ok : BOOLEAN] /\ new.n = b /\ ch' = ch \cup {new}
  BY DEF Answer
<1> HIDE DEF new
<1>2. \A m \in ch : m.n # b
  BY DEF Answered
<1> QED
  BY <1>1, <1>2 DEF ChannelInv, Answered

LEMMA ChannelInit == Init => ChannelInv
  BY DEF Init, ChannelInv, Answered

LEMMA ChannelStep == ASSUME ChannelInv, [Next]_vars PROVE ChannelInv'
<1>1. CASE UNCHANGED vars
  BY <1>1 DEF ChannelInv, Answered
<1>2. ASSUME UNCHANGED ch, ssPc = "done" => ssPc' = "done"
      PROVE  ChannelInv'
  BY <1>2 DEF ChannelInv, Answered
<1>3. ASSUME NEW b \in Backends, NEW ok \in BOOLEAN, ~Answered(b), Answer(b, ok),
             ssPc' = IF b = "ss" THEN "done" ELSE ssPc
      PROVE  ChannelInv'
  <2>1. "ss" \in Backends
    BY DEF Backends
  <2> QED
    BY <1>3, <2>1, OneMore DEF ChannelInv
<1>4. ssPc # "done" => ~Answered("ss")
  BY DEF ChannelInv
<1>5. "ss" \in Backends /\ "riseup" \in Backends /\ Simple \subseteq Backends
      /\ "ss" \notin Simple /\ "riseup" \notin Simple
  BY FetchAssumption DEF Backends
<1>6. CASE Return \/ ParseUri \/ Resolve \/ AsnPrepared \/ (\E s \in Sources : SourceAnswers(s))
           \/ (\E x \in Parts : PartAnswers(x))
  BY <1>2, <1>6 DEF Return, ParseUri, Resolve, AsnPrepared, SourceAnswers, PartAnswers
<1>7. CASE Collect
  BY <1>2, <1>3, <1>4, <1>5, <1>7 DEF Collect
<1>8. CASE Materialize
  <2>1. ssPc = "wait" /\ ssPc' = "done" /\ Answer("ss", DOMAIN servers' # {})
    BY <1>8 DEF Materialize, Make
  <2>2. (DOMAIN servers' # {}) \in BOOLEAN
    OBVIOUS
  <2> QED
    BY <2>1, <2>2, <1>3, <1>4, <1>5
<1>9. CASE RiseupParses
  BY <1>3, <1>5, <1>9 DEF RiseupParses
<1>10. CASE \E b \in Simple : SimpleAnswers(b)
  BY <1>3, <1>5, <1>10 DEF SimpleAnswers
<1> QED
  BY Steps, <1>1, <1>6, <1>7, <1>8, <1>9, <1>10 DEF Step, Aggregates, Riseups

\* An answer of one backend says nothing of another.
LEMMA OthersAsBefore ==
    ASSUME NEW b, NEW c, b # c, NEW ok, Answer(b, ok)
    PROVE  /\ Answered(c)' <=> Answered(c)
           /\ \A t \in BOOLEAN : c \in From(t)' <=> c \in From(t)
<1> DEFINE new == [n |-> b, ok |-> ok]
<1>1. new.n = b /\ ch' = ch \cup {new}
  BY DEF Answer
<1> HIDE DEF new
<1> QED
  BY <1>1 DEF Answered, From

-----------------------------------------------------------------------------
(* The servers are made once, when the dataset is there or is given up.     *)

Score(e) == IF asn = "loaded" /\ place[e].ip \in Suspicious THEN 5 ELSE 25

ScoresInv ==
    /\ ssPc = "sources" => asn = "unasked"
    /\ ssPc # "done" => DOMAIN servers = {}
    /\ ssPc = "done" =>
         asn # "asked" /\ \A i \in DOMAIN servers : servers[i].score = Score(servers[i].ep)

LEMMA ScoresInit == Init => ScoresInv
  BY DEF Init, ScoresInv

LEMMA ScoresStep == ASSUME ScoresInv, [Next]_vars PROVE ScoresInv'
<1>1. CASE UNCHANGED <<ssPc, servers, asn, place>>
  BY <1>1 DEF ScoresInv, Score
<1>2. CASE Return \/ Riseups \/ (\E b \in Simple : SimpleAnswers(b))
           \/ (\E s \in Sources : SourceAnswers(s)) \/ ParseUri \/ UNCHANGED vars
  BY <1>1, <1>2 DEF Return, Riseups, RiseupParses, PartAnswers, SimpleAnswers, SourceAnswers,
                    ParseUri
<1>3. CASE Collect
  BY <1>3 DEF Collect, ScoresInv, Score
<1>4. CASE Resolve
  BY <1>4 DEF Resolve, ScoresInv
<1>5. CASE AsnPrepared
  BY <1>5 DEF AsnPrepared, ScoresInv
<1>6. CASE Materialize
  <2>1. ssPc' = "done" /\ asn # "asked" /\ UNCHANGED <<asn, place>>
    BY <1>6 DEF Materialize, Make
  <2>2. ASSUME NEW i \in DOMAIN servers' PROVE servers'[i] = Server(items[i], cdn')
    BY <1>6, <2>2 DEF Materialize, Make
  <2>3. ASSUME NEW i \in DOMAIN servers' PROVE servers'[i].score = Score(servers'[i].ep)
    <3>1. Server(items[i], cdn').ep = items[i].ep
          /\ Server(items[i], cdn').score = Score(items[i].ep)
      BY DEF Server, Score
    <3> QED
      BY <3>1, <2>2, <2>3
  <2> QED
    BY <2>1, <2>3 DEF ScoresInv, Score
<1> QED
  BY Steps, <1>2, <1>3, <1>4, <1>5, <1>6 DEF Step, Aggregates

\* When the dataset can be had, no server on a forwarder's network ranks with
\* a clean one (ssaggregator.go:142-203).
THEOREM ForwardersRankLower == Spec => []ForwardersSink
<1>1. ScoresInv => ForwardersSink
  BY DEF ScoresInv, ForwardersSink, Score
<1> QED
  BY ScoresInit, ScoresStep, <1>1, PTL DEF Spec

-----------------------------------------------------------------------------
(* One server of each endpoint.                                             *)

\* The items are the first URIs of their endpoints among those looked at.
ItemsInv ==
    /\ heard # Sources => parsed = 0
    /\ ssPc # "sources" => parsed = Len(offered)
    /\ \A i, j \in DOMAIN items : items[i].ep = items[j].ep => i = j
    /\ \A i \in DOMAIN items : \E k \in 1 .. parsed : First(k) /\ items[i] = offered[k]
    /\ \A k \in 1 .. parsed : Parses(offered[k]) => Seen(offered[k])

\* The servers are the items that can be placed.
ServersInv ==
    ssPc = "done" =>
      /\ DOMAIN servers = {k \in DOMAIN items : Placed(items[k])}
      /\ \A i \in DOMAIN servers :
           servers[i].ep = items[i].ep /\ servers[i].scheme = items[i].scheme

LEMMA ItemsInit == Init => ItemsInv /\ ServersInv
<1> SUFFICES ASSUME Init PROVE ItemsInv /\ ServersInv
  OBVIOUS
<1>1. DOMAIN items = {} /\ parsed = 0 /\ 1 .. parsed = {} /\ ssPc = "sources"
  BY DEF Init
<1> QED
  BY <1>1 DEF ItemsInv, ServersInv

\* What is appended is the first of its endpoint.
LEMMA ItemsParse ==
    ASSUME TypeOK, ItemsInv, ParseUri
    PROVE  ItemsInv'
<1> DEFINE u == offered[parsed']
<1>1. /\ parsed \in Nat /\ Len(offered) \in Nat /\ parsed < Len(offered) /\ parsed' = parsed + 1
      /\ heard = Sources /\ ssPc = "sources" /\ UNCHANGED <<offered, heard, ssPc>>
      /\ DOMAIN offered = 1 .. Len(offered)
  BY DEF ParseUri, TypeOK
<1>2. \A k : First(k)' <=> First(k)
  BY <1>1 DEF First, Parses
<1>3. u \in Uris
  BY <1>1 DEF TypeOK
<1> HIDE DEF u
<1>4. CASE Keep(u)
  <2>1. items \in Seq(Kept) /\ u \in Kept /\ items' = Append(items, u)
    BY <1>3, <1>4 DEF TypeOK, ParseUri, u, Keep, Parses, Uris, Kept
  <2>2. /\ DOMAIN items = 1 .. Len(items) /\ DOMAIN items' = 1 .. Len(items) + 1
        /\ Len(items) \in Nat
        /\ \A i \in 1 .. Len(items) : items'[i] = items[i]
        /\ items'[Len(items) + 1] = u
    BY <2>1, AppendItem
  <2>3. \A i \in DOMAIN items : items[i].ep # u.ep
    BY <1>4 DEF Keep, Seen
  <2>4. First(parsed')
    <3>1. Parses(offered[parsed'])
      BY <1>4 DEF Keep, u
    <3>2. ASSUME NEW j \in 1 .. parsed' - 1, Parses(offered[j])
          PROVE  offered[j].ep # offered[parsed'].ep
      <4>1. j \in 1 .. parsed
        BY <1>1
      <4>2. PICK i \in DOMAIN items : items[i].ep = offered[j].ep
        BY <3>2, <4>1 DEF ItemsInv, Seen
      <4> QED
        BY <2>3, <4>2 DEF u
    <3> QED
      BY <3>1, <3>2 DEF First
  <2>5. \A i, j \in DOMAIN items' : items'[i].ep = items'[j].ep => i = j
    <3> SUFFICES ASSUME NEW i \in DOMAIN items', NEW j \in DOMAIN items',
                        items'[i].ep = items'[j].ep
                 PROVE  i = j
      OBVIOUS
    <3>1. CASE i \in 1 .. Len(items) /\ j \in 1 .. Len(items)
      BY <3>1, <2>2 DEF ItemsInv
    <3>2. CASE ~(i \in 1 .. Len(items) /\ j \in 1 .. Len(items))
      BY <3>2, <2>2, <2>3
    <3> QED
      BY <3>1, <3>2
  <2>6. ASSUME NEW i \in DOMAIN items'
        PROVE  \E k \in 1 .. parsed' : First(k)' /\ items'[i] = offered'[k]
    <3>1. CASE i \in 1 .. Len(items)
      <4>1. PICK k \in 1 .. parsed : First(k) /\ items[i] = offered[k]
        BY <3>1, <2>2 DEF ItemsInv
      <4>2. k \in 1 .. parsed'
        BY <1>1
      <4> QED
        BY <3>1, <4>1, <4>2, <1>1, <1>2, <2>2
    <3>2. CASE i = Len(items) + 1
      <4>1. parsed' \in 1 .. parsed'
        BY <1>1
      <4> QED
        BY <3>2, <4>1, <1>1, <1>2, <2>2, <2>4 DEF u
    <3> QED
      BY <3>1, <3>2, <2>2
  <2>7. ASSUME NEW k \in 1 .. parsed', Parses(offered'[k])
        PROVE  \E i \in DOMAIN items' : items'[i].ep = offered'[k].ep
    <3>1. CASE k = parsed'
      <4>1. Len(items) + 1 \in DOMAIN items'
        BY <2>2
      <4> QED
        BY <3>1, <4>1, <1>1, <2>2 DEF u
    <3>2. CASE k # parsed'
      <4>1. k \in 1 .. parsed /\ Parses(offered[k])
        BY <3>2, <2>7, <1>1
      <4>2. PICK i \in DOMAIN items : items[i].ep = offered[k].ep
        BY <4>1 DEF ItemsInv, Seen
      <4> QED
        BY <4>2, <1>1, <2>2
    <3> QED
      BY <3>1, <3>2
  <2> QED
    BY <1>1, <2>5, <2>6, <2>7 DEF ItemsInv, Seen, Parses
<1>5. CASE ~Keep(u)
  <2>1. UNCHANGED items
    BY <1>5 DEF ParseUri, u
  <2>2. ASSUME NEW i \in DOMAIN items
        PROVE  \E k \in 1 .. parsed' : First(k)' /\ items'[i] = offered'[k]
    <3>1. PICK k \in 1 .. parsed : First(k) /\ items[i] = offered[k]
      BY DEF ItemsInv
    <3>2. k \in 1 .. parsed'
      BY <1>1
    <3> QED
      BY <3>1, <3>2, <2>1, <1>1, <1>2
  <2>3. ASSUME NEW k \in 1 .. parsed', Parses(offered[k])
        PROVE  Seen(offered[k])
    <3>1. CASE k = parsed'
      BY <3>1, <1>5, <2>3 DEF Keep, u
    <3>2. CASE k # parsed'
      <4>1. k \in 1 .. parsed
        BY <3>2, <1>1
      <4> QED
        BY <4>1, <2>3 DEF ItemsInv
    <3> QED
      BY <3>1, <3>2
  <2>4. \A i, j \in DOMAIN items' : items'[i].ep = items'[j].ep => i = j
    BY <2>1 DEF ItemsInv
  <2> QED
    BY <1>1, <2>1, <2>2, <2>3, <2>4 DEF ItemsInv, Seen, Parses
<1> QED
  BY <1>4, <1>5

LEMMA ItemsStep ==
    ASSUME TypeOK, ScoresInv, ItemsInv, ServersInv, [Next]_vars
    PROVE  ItemsInv' /\ ServersInv'
<1>1. ASSUME UNCHANGED <<heard, offered, parsed, items>>, ssPc # "sources" => ssPc' # "sources",
             ssPc' # "sources" => parsed = Len(offered)
      PROVE  ItemsInv'
  BY <1>1 DEF ItemsInv, First, Parses, Seen
<1>2. ASSUME UNCHANGED <<servers, items, place, cdn>>, ssPc' = "done" => ssPc = "done"
      PROVE  ServersInv'
  BY <1>2 DEF ServersInv, Placed, Fronted
<1>3. ssPc # "sources" => parsed = Len(offered)
  BY DEF ItemsInv
<1>4. CASE Return \/ AsnPrepared \/ Riseups \/ (\E b \in Simple : SimpleAnswers(b))
           \/ UNCHANGED vars
  BY <1>1, <1>2, <1>3, <1>4 DEF Return, AsnPrepared, Riseups, RiseupParses, PartAnswers,
                                SimpleAnswers
<1>5. CASE \E s \in Sources : SourceAnswers(s)
  <2>1. PICK s \in Sources : SourceAnswers(s)
    BY <1>5
  <2>2. heard # Sources /\ ssPc = "sources"
        /\ UNCHANGED <<parsed, items, ssPc, servers, place, cdn>>
    BY <2>1 DEF SourceAnswers
  <2>3. parsed = 0 /\ 1 .. parsed = {}
    BY <2>2 DEF ItemsInv
  <2>4. DOMAIN items = {}
    BY <2>3 DEF ItemsInv
  <2> QED
    BY <1>2, <2>2, <2>3, <2>4 DEF ItemsInv
<1>6. CASE ParseUri
  <2>1. ItemsInv'
    BY <1>6, ItemsParse
  <2>2. ssPc' # "done"
    BY <1>6 DEF ParseUri
  <2> QED
    BY <2>1, <2>2 DEF ServersInv
<1>7. CASE Collect
  <2>1. ItemsInv'
    BY <1>1, <1>7 DEF Collect
  <2>2. ASSUME ssPc' = "done" PROVE DOMAIN items' = {} /\ DOMAIN servers' = {}
    <3>1. items' = <<>>
      BY <1>7, <2>2 DEF Collect
    <3>2. DOMAIN servers' = {}
      BY <1>7 DEF Collect, ScoresInv
    <3> QED
      BY <3>1, <3>2
  <2> QED
    BY <2>1, <2>2 DEF ServersInv
<1>8. CASE Resolve
  BY <1>1, <1>3, <1>8 DEF Resolve, ServersInv
<1>9. CASE Materialize
  <2>1. /\ UNCHANGED <<heard, offered, parsed, items, place>> /\ ssPc = "wait" /\ ssPc' = "done"
        /\ servers' = [i \in {k \in DOMAIN items : Server(items[k], cdn').country # "none"}
                         |-> Server(items[i], cdn')]
    BY <1>9 DEF Materialize, Make
  <2>2. ASSUME NEW k \in DOMAIN items
        PROVE  Placed(items[k])' <=> Server(items[k], cdn').country # "none"
    BY <2>1 DEF Placed, Server, Fronted
  <2>3. \A u : Server(u, cdn').ep = u.ep /\ Server(u, cdn').scheme = u.scheme
    BY DEF Server
  <2>4. DOMAIN servers' = {k \in DOMAIN items : Server(items[k], cdn').country # "none"}
    BY <2>1
  <2>5. \A i \in DOMAIN servers' : servers'[i] = Server(items[i], cdn')
    BY <2>1
  <2>6. (DOMAIN servers = {k \in DOMAIN items : Placed(items[k])})'
    BY <2>1, <2>2, <2>4
  <2>7. \A i \in DOMAIN servers' :
          servers'[i].ep = items'[i].ep /\ servers'[i].scheme = items'[i].scheme
    BY <2>1, <2>3, <2>5
  <2>8. ItemsInv'
    BY <1>1, <1>3, <2>1
  <2> QED
    BY <2>6, <2>7, <2>8 DEF ServersInv
<1> QED
  BY Steps, <1>4, <1>5, <1>6, <1>7, <1>8, <1>9 DEF Step, Aggregates

LEMMA OnceEach == ASSUME TypeOK, ItemsInv, ServersInv PROVE EachEndpointOnce
<1> SUFFICES ASSUME ssPc = "done" PROVE EachEndpointOnce
  BY DEF EachEndpointOnce
<1>1. parsed = Len(offered) /\ DOMAIN offered = 1 .. parsed
  BY DEF ItemsInv, TypeOK
<1>2. /\ DOMAIN servers = {k \in DOMAIN items : Placed(items[k])}
      /\ \A i \in DOMAIN servers :
           servers[i].ep = items[i].ep /\ servers[i].scheme = items[i].scheme
  BY DEF ServersInv
<1>3. \A i, j \in DOMAIN servers : servers[i].ep = servers[j].ep => i = j
  BY <1>2 DEF ItemsInv
<1>4. ASSUME NEW i \in DOMAIN servers
      PROVE  \E k \in DOMAIN offered :
               /\ First(k) /\ Placed(offered[k])
               /\ servers[i].ep = offered[k].ep /\ servers[i].scheme = offered[k].scheme
  <2>1. PICK k \in 1 .. parsed : First(k) /\ items[i] = offered[k]
    BY <1>2 DEF ItemsInv
  <2> QED
    BY <1>1, <1>2, <2>1
<1>5. ASSUME NEW k \in DOMAIN offered, First(k), Placed(offered[k])
      PROVE  \E i \in DOMAIN servers : servers[i].ep = offered[k].ep
  <2>1. PICK i \in DOMAIN items : items[i].ep = offered[k].ep
    BY <1>1, <1>5 DEF ItemsInv, First, Seen
  <2>2. Placed(items[i])
    BY <1>5, <2>1 DEF Placed, Fronted
  <2> QED
    BY <1>2, <2>1, <2>2
<1> QED
  BY <1>3, <1>4, <1>5 DEF EachEndpointOnce

\* In whatever order the sources answer and whatever they repeat, the URI that
\* was heard first of an endpoint gives its only server, unless it cannot be
\* placed, and no endpoint is lost (ssaggregator.go:103-215).
THEOREM OneServerPerEndpoint == Spec => []EachEndpointOnce
  BY TypeCorrect, ScoresInit, ScoresStep, ItemsInit, ItemsStep, TypeStep, TypeInit, OnceEach, PTL
     DEF Spec

-----------------------------------------------------------------------------
(* A list that failed is made up for by the bundled ranges.                 *)

LEMMA RangesHaveBundled ==
    ASSUME NEW got \in SUBSET Published, NEW failed \in BOOLEAN, failed
    PROVE  "core" \in Ranges(got, failed)
  BY DEF Ranges

LEMMA CdnInit == Init => CdnRelabelled
  BY DEF Init, CdnRelabelled

LEMMA CdnStep == ASSUME CdnRelabelled, [Next]_vars PROVE CdnRelabelled'
<1>1. CASE UNCHANGED <<ssPc, servers, items, place, cdn, loadErr>>
  BY <1>1 DEF CdnRelabelled, Covered, Fronted
<1>2. CASE Return \/ Riseups \/ (\E b \in Simple : SimpleAnswers(b)) \/ AsnPrepared
           \/ (\E s \in Sources : SourceAnswers(s)) \/ UNCHANGED vars
  BY <1>1, <1>2 DEF Return, Riseups, RiseupParses, PartAnswers, SimpleAnswers, SourceAnswers,
                    AsnPrepared
<1>3. CASE Collect
  <2>1. ssPc' = "done" => items' = <<>>
    BY <1>3 DEF Collect
  <2>2. ssPc' = "done" => DOMAIN items' = {}
    BY <2>1
  <2> QED
    BY <2>2 DEF CdnRelabelled
<1>6. CASE ParseUri
  BY <1>6 DEF ParseUri, CdnRelabelled
<1>4. CASE Resolve
  BY <1>4 DEF Resolve, CdnRelabelled
<1>5. CASE Materialize
  <2>1. Covered' = cdn' /\ UNCHANGED <<items, place>>
    <3>1. PICK got \in SUBSET Published, failed \in BOOLEAN : Make(got, failed)
      BY <1>5 DEF Materialize
    <3>2. cdn' = Ranges(got, failed) /\ loadErr' = failed /\ UNCHANGED <<items, place>>
      BY <3>1 DEF Make
    <3>3. loadErr' => cdn' \cup {"core"} = cdn'
      BY <3>2, RangesHaveBundled
    <3> QED
      BY <3>2, <3>3 DEF Covered
  <2>2. servers' = [i \in {k \in DOMAIN items : Server(items[k], cdn').country # "none"}
                      |-> Server(items[i], cdn')]
    BY <1>5 DEF Materialize, Make
  <2>3. ASSUME NEW i \in DOMAIN items, Fronted(items[i], Covered')
        PROVE  i \in DOMAIN servers' /\ servers'[i].ep = items[i].ep
               /\ servers'[i].country = "XX"
    <3>1. Fronted(items[i], cdn')
      BY <2>1, <2>3 DEF Fronted
    <3>2. Server(items[i], cdn').country = "XX" /\ Server(items[i], cdn').ep = items[i].ep
      BY <3>1 DEF Server
    <3> QED
      BY <2>2, <3>2
  <2> QED
    BY <2>1, <2>3 DEF CdnRelabelled, Fronted
<1> QED
  BY Steps, <1>2, <1>3, <1>4, <1>5, <1>6 DEF Step, Aggregates

\* What has a name of a CDN, an address in the ranges that were had or, when a
\* list failed, one in the bundled ranges is never sold under a country
\* (cdncheck.go:52-70, ssaggregator.go:150-170).
THEOREM FrontsAreRelabelled == Spec => []CdnRelabelled
  BY CdnInit, CdnStep, PTL DEF Spec

-----------------------------------------------------------------------------
(* Refinement: the answers in the channel are those of FetchAbs.            *)

Ans == [b \in Backends |-> IF ~Answered(b) THEN "waiting"
                           ELSE IF b \in From(TRUE) THEN "ok" ELSE "failed"]

LEMMA AbsInit == Init => Abs!Init
  BY DEF Init, Abs!Init, Answered

\* With one answer each, what FetchAll merges and reports are the answers.
LEMMA AnswersSplit ==
    ASSUME ChannelInv
    PROVE  From(TRUE) = {b \in Backends : Ans[b] = "ok"}
           /\ From(FALSE) = {b \in Backends : Ans[b] = "failed"}
<1>1. \A m \in ch : m.n \in Backends /\ m.ok \in BOOLEAN
  BY DEF ChannelInv
<1>2. ASSUME NEW b \in Backends
      PROVE  /\ b \in From(TRUE) <=> Ans[b] = "ok"
             /\ b \in From(FALSE) <=> Ans[b] = "failed"
  <2>1. Answered(b) <=> b \in From(TRUE) \/ b \in From(FALSE)
    BY <1>1 DEF Answered, From
  <2>2. ~(b \in From(TRUE) /\ b \in From(FALSE))
    BY DEF From, ChannelInv
  <2> QED
    BY <2>1, <2>2 DEF Ans
<1>3. From(TRUE) \subseteq Backends /\ From(FALSE) \subseteq Backends
  BY <1>1 DEF From
<1> QED
  BY <1>2, <1>3

LEMMA AbsReturn == ASSUME ChannelInv, Return PROVE Abs!Return
<1>1. Ans' = Ans
  BY DEF Return, Ans, Answered, From
<1>2. \A b \in Backends : Ans[b] # "waiting"
  BY DEF Return, Ans
<1> QED
  BY <1>1, <1>2, AnswersSplit DEF Return, Abs!Return, Ans

\* A backend that sends into the channel takes FetchAbs's Answer step.
LEMMA AbsAnswer ==
    ASSUME ChannelInv, NEW b \in Backends, ~Answered(b), NEW ok \in BOOLEAN, Answer(b, ok),
           UNCHANGED <<call, merged, errs>>
    PROVE  Abs!Answer(b)
<1>1. Ans[b] = "waiting"
  BY DEF Ans
<1>2. Answered(b)' /\ (b \in From(TRUE)' <=> ok)
  <2> DEFINE new == [n |-> b, ok |-> ok]
  <2>1. new.n = b /\ new.ok = ok /\ ch' = ch \cup {new}
    BY DEF Answer
  <2> HIDE DEF new
  <2> QED
    BY <2>1 DEF Answered, From
<1>3. \A c \in Backends \ {b} : Ans'[c] = Ans[c]
  BY OthersAsBefore DEF Ans
<1>4. Ans'[b] = IF ok THEN "ok" ELSE "failed"
  BY <1>2 DEF Ans
<1>5. Ans' = [Ans EXCEPT ![b] = IF ok THEN "ok" ELSE "failed"]
  BY <1>3, <1>4 DEF Ans
<1> QED
  BY <1>1, <1>5 DEF Abs!Answer, Ans

LEMMA AbsStep == ASSUME ChannelInv, [Next]_vars PROVE [Abs!Next]_(Abs!vars)
<1>1. ASSUME UNCHANGED <<call, ch, merged, errs>> PROVE UNCHANGED Abs!vars
  BY <1>1 DEF Abs!vars, Answered, From
<1>2. ASSUME NEW b \in Backends, NEW ok \in BOOLEAN, ~Answered(b), Answer(b, ok),
             UNCHANGED <<call, merged, errs>>
      PROVE  Abs!Next
  BY <1>2, AbsAnswer DEF Abs!Next
<1>3. "ss" \in Backends /\ "riseup" \in Backends /\ Simple \subseteq Backends
  BY DEF Backends
<1>4. ssPc # "done" => ~Answered("ss")
  BY DEF ChannelInv
<1>5. CASE ParseUri \/ Resolve \/ AsnPrepared \/ (\E s \in Sources : SourceAnswers(s))
           \/ (\E x \in Parts : PartAnswers(x)) \/ UNCHANGED vars
  BY <1>1, <1>5 DEF ParseUri, Resolve, AsnPrepared, SourceAnswers, PartAnswers
<1>6. CASE Return
  BY <1>6, AbsReturn DEF Abs!Next
<1>7. CASE Collect
  BY <1>1, <1>2, <1>3, <1>4, <1>7 DEF Collect
<1>8. CASE Materialize
  <2>1. (DOMAIN servers' # {}) \in BOOLEAN
    OBVIOUS
  <2> QED
    BY <2>1, <1>2, <1>3, <1>4, <1>8 DEF Materialize, Make
<1>9. CASE RiseupParses
  BY <1>2, <1>3, <1>9 DEF RiseupParses
<1>10. CASE \E b \in Simple : SimpleAnswers(b)
  BY <1>2, <1>3, <1>10 DEF SimpleAnswers
<1> QED
  BY Steps, <1>5, <1>6, <1>7, <1>8, <1>9, <1>10 DEF Step, Aggregates, Riseups

\* FetchAll never returns before every backend answered, and returns what they
\* answered: no error of one loses the servers of another (backend.go:83-115).
\* That it returns at all is left to TLC.
THEOREM FetchAllImplementsFetchAbs == Spec => Abs!Init /\ [][Abs!Next]_(Abs!vars)
  BY ChannelInit, ChannelStep, AbsInit, AbsStep, PTL DEF Spec
====
