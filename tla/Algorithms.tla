---- MODULE Algorithms ----
(***************************************************************************)
(* The program's sequential algorithms, called one at a time on any input  *)
(* of the given sets.  Each is a loop whose bodies are operators of AsnDb, *)
(* Catalog and Outbounds; a step is one turn of the loop, one halving of   *)
(* sort.Search, or one call of sort.Slice, which may put equal elements in *)
(* any order.                                                              *)
(***************************************************************************)
EXTENDS Integers, Sequences, FiniteSets, Functions

CONSTANTS
    SuspiciousASNs,
    Datasets,       \* sequences of rows of the ip2asn dataset
    Addresses,      \* addresses looked up
    Uris,           \* proxy URIs
    Tables,         \* VPN Gate answers: [sound, header, rows]
    Bodies,         \* subscription bodies, see Catalog
    Gateways,       \* a Riseup gateway's transports
    Lists           \* what the backends sent: sequences of servers

D == INSTANCE AsnDb
U == INSTANCE Outbounds
C == INSTANCE Catalog

Table == [sound : BOOLEAN, header : Seq(STRING), rows : Seq(Seq(STRING))]
\* What the limit cuts off is no line of its own.
Body == [form : {"plain", "blob", "bad"}, lines : Seq(STRING \ {"stump"}), limit : Nat, stump : BOOLEAN]
Transport == [type : STRING, protocols : Seq(STRING), ports : Seq(STRING)]
Listed == [country : STRING, score : Int]

\* The inputs have the types the code reads them with; nothing else is asked
\* of them, and no ASN in the list is 0.
ASSUME AlgorithmsAssumption ==
    /\ SuspiciousASNs \subseteq Nat \ {0}
    /\ Datasets \subseteq Seq(D!Row) /\ Addresses \subseteq D!Address
    /\ Uris \subseteq U!Uri
    /\ Tables \subseteq Table /\ Bodies \subseteq Body
    /\ Gateways \subseteq Seq(Transport) /\ Lists \subseteq Seq(Listed)

VARIABLES
    call,       \* the operation called, "none" between calls
    input,      \* its arguments
    pc,         \* where it stands
    at,         \* elements its loop has passed
    work,       \* what it has built
    output      \* its result

vars == <<call, input, pc, at, work, output>>

Init ==
    /\ call = "none" /\ input = <<>> /\ pc = "idle"
    /\ at = 0 /\ work = <<>> /\ output = <<>>

Begin(op, args, start) ==
    /\ pc' = "loop"
    /\ call' = op /\ input' = args /\ work' = start
    /\ UNCHANGED <<at, output>>

\* One turn of the loop over seq, which leaves w.
Turn(op, stage, seq, w) ==
    /\ call = op /\ pc = stage /\ at < Len(seq)
    /\ at' = at + 1 /\ work' = w
    /\ UNCHANGED <<call, input, pc, output>>

\* The loop over seq is over; the next one starts from its beginning.
Over(op, stage, seq) ==
    /\ call = op /\ pc = stage /\ at = Len(seq)
    /\ UNCHANGED <<call, input>>

Returns(result) == pc' = "done" /\ output' = result

Return ==
    /\ pc = "done" /\ pc' = "idle"
    /\ call' = "none" /\ input' = <<>> /\ at' = 0 /\ work' = <<>> /\ output' = <<>>

\* What sort.Slice may make of q, before its order is asked for.
Rearranged(q) == {[i \in DOMAIN q |-> q[p[i]]] : p \in Bijection(DOMAIN q, DOMAIN q)}

-----------------------------------------------------------------------------
\* asncheck: parse, then DetectByIP.
CallDetect ==
    /\ pc = "idle"
    /\ \E rows \in Datasets, ip \in Addresses :
         Begin("detect", [rows |-> rows, ip |-> ip], D!NoRows)

ParseRow == Turn("detect", "loop", input.rows, D!TakeRow(work, input.rows[at + 1]))

\* The pool of the address is sorted by where its rows start, and searched
\* between lo and hi.
SortPool ==
    /\ Over("detect", "loop", input.rows)
    /\ \E pool \in Rearranged(work[D!Asked(input.ip)]) :
         /\ \A i, j \in DOMAIN pool : i < j => ~D!Less(pool[j].start, pool[i].start)
         /\ work' = [pool |-> pool, lo |-> 0, hi |-> Len(pool)]
    /\ pc' = "search"
    /\ UNCHANGED <<at, output>>

\* sort.Search.
Halve ==
    /\ pc = "search" /\ work.lo < work.hi
    /\ LET h == (work.lo + work.hi) \div 2
       IN work' = IF D!After(work.pool[h + 1], input.ip) THEN [work EXCEPT !.hi = h]
                  ELSE [work EXCEPT !.lo = h + 1]
    /\ UNCHANGED <<call, input, pc, at, output>>

Detected ==
    /\ pc = "search" /\ work.lo >= work.hi
    /\ Returns(D!DetectByIP(D!Lookup(work.pool, work.lo, input.ip)))
    /\ UNCHANGED <<call, input, at, work>>

-----------------------------------------------------------------------------
\* proxy: no loops.
CallBuild ==
    /\ pc = "idle"
    /\ call' = "build" /\ \E u \in Uris : input' = u
    /\ LET o == U!Parse(input')
       IN Returns(IF o = U!Refused THEN o ELSE U!BuildConfig(o))
    /\ UNCHANGED <<at, work>>

CallBuildWireGuard ==
    /\ pc = "idle"
    /\ call' = "wireguard" /\ \E reg \in [key : BOOLEAN, peer : BOOLEAN] : input' = reg
    /\ Returns(U!BuildWireGuardConfig(input'))
    /\ UNCHANGED <<at, work>>

-----------------------------------------------------------------------------
\* vpngate: parseVPNGateCSV.  A table is sound if it has its header and no
\* quote in it is out of place: one that is loses the whole table.
CallTable ==
    pc = "idle" /\ \E t \in Tables : t.sound /\ t.rows # <<>> /\ Begin("table", t, <<>>)

TableFails ==
    /\ pc = "idle"
    /\ call' = "table"
    /\ \E t \in Tables : ~(t.sound /\ t.rows # <<>>) /\ input' = t
    /\ Returns(<<>>)
    /\ UNCHANGED <<at, work>>

TableRow ==
    Turn("table", "loop", input.rows, C!TakeRow(work, input.header, input.rows[at + 1]))

TableRead == Over("table", "loop", input.rows) /\ Returns(work) /\ UNCHANGED <<at, work>>

\* ss-aggregator: fetchSource.
CallSource == pc = "idle" /\ \E body \in Bodies : Begin("source", body, <<>>)

SourceLine ==
    LET text == C!Text(input)
    IN Turn("source", "loop", text, C!TakeLine(work, text[at + 1])) /\ text[at + 1] # "long"

\* The scanner gives up on a line that its buffer does not hold, and nobody
\* asks it why.
SourceStops ==
    /\ call = "source" /\ pc = "loop"
    /\ at < Len(C!Text(input)) /\ C!Text(input)[at + 1] = "long"
    /\ Returns(work)
    /\ UNCHANGED <<call, input, at, work>>

SourceRead == Over("source", "loop", C!Text(input)) /\ Returns(work) /\ UNCHANGED <<at, work>>

-----------------------------------------------------------------------------
\* riseup: bestTransport's loops over transports, their protocols (p passed)
\* and their ports (q passed).
CallTransport ==
    /\ pc = "idle"
    /\ \E gateway \in Gateways :
         Begin("transport", gateway, [best |-> C!NoTransport, p |-> 0, q |-> 0])

NextTransport ==
    LET tr == input[at + 1]
    IN /\ Turn("transport", "loop", input, [work EXCEPT !.p = 0, !.q = 0])
       /\ tr.type # "openvpn" \/ work.p = Len(tr.protocols)

Inside(tr) ==
    /\ call = "transport" /\ pc = "loop" /\ at < Len(input)
    /\ tr.type = "openvpn" /\ work.p < Len(tr.protocols)
    /\ UNCHANGED <<call, input, pc, at, output>>

NextProtocol ==
    LET tr == input[at + 1]
    IN /\ Inside(tr) /\ work.q = Len(tr.ports)
       /\ work' = [work EXCEPT !.p = @ + 1, !.q = 0]

NextPort ==
    LET tr == input[at + 1]
    IN /\ Inside(tr) /\ work.q < Len(tr.ports)
       /\ work' = [work EXCEPT !.q = @ + 1,
                     !.best = C!Better(@, tr.protocols[work.p + 1], tr.ports[work.q + 1])]

TransportChosen ==
    Over("transport", "loop", input) /\ Returns(work.best) /\ UNCHANGED <<at, work>>

-----------------------------------------------------------------------------
\* backend: GroupByCountry, then ui: BuildEntries, on the same servers.
Empty == [cc \in {} |-> <<>>]

CallEntries ==
    /\ pc = "idle"
    /\ \E servers \in Lists :
         Begin("entries", servers,
               [groups |-> Empty, unsorted |-> {}, rows |-> Empty, list |-> <<>>])

GroupServer ==
    Turn("entries", "loop", input, [work EXCEPT !.groups = C!AddServer(@, input[at + 1])])

Grouped ==
    /\ Over("entries", "loop", input)
    /\ pc' = "order"
    /\ work' = [work EXCEPT !.unsorted = DOMAIN work.groups]
    /\ UNCHANGED <<at, output>>

\* Each country's servers, best first; a map is walked in any order.
OrderGroup ==
    /\ pc = "order"
    /\ \E cc \in work.unsorted : \E q \in Rearranged(work.groups[cc]) :
         /\ \A i, j \in DOMAIN q : i < j => q[i].score >= q[j].score
         /\ work' = [work EXCEPT !.groups[cc] = q, !.unsorted = @ \ {cc}]
    /\ UNCHANGED <<call, input, pc, at, output>>

Ordered ==
    /\ pc = "order" /\ work.unsorted = {}
    /\ pc' = "count" /\ at' = 0
    /\ UNCHANGED <<call, input, work, output>>

CountServer ==
    Turn("entries", "count", input, [work EXCEPT !.rows = C!CountServer(@, input[at + 1])])

Counted ==
    /\ Over("entries", "count", input)
    /\ pc' = "list"
    /\ UNCHANGED <<at, work, output>>

Unlisted == {cc \in DOMAIN work.rows : \A i \in DOMAIN work.list : work.list[i].code # cc}

ListRow ==
    /\ pc = "list"
    /\ \E cc \in Unlisted : work' = [work EXCEPT !.list = Append(@, work.rows[cc])]
    /\ UNCHANGED <<call, input, pc, at, output>>

\* Those with most servers first.
SortRows ==
    /\ pc = "list" /\ Unlisted = {}
    /\ \E q \in Rearranged(work.list) :
         /\ \A i, j \in DOMAIN q : i < j => q[i].count >= q[j].count
         /\ Returns([groups |-> work.groups, entries |-> q])
    /\ UNCHANGED <<call, input, at, work>>

-----------------------------------------------------------------------------
Detect == CallDetect \/ ParseRow \/ SortPool \/ Halve \/ Detected
Build == CallBuild \/ CallBuildWireGuard
ReadTable == CallTable \/ TableFails \/ TableRow \/ TableRead
ReadSource == CallSource \/ SourceLine \/ SourceStops \/ SourceRead
ChooseTransport ==
    CallTransport \/ NextTransport \/ NextProtocol \/ NextPort \/ TransportChosen
GroupAndList ==
    \/ CallEntries \/ GroupServer \/ Grouped \/ OrderGroup \/ Ordered
    \/ CountServer \/ Counted \/ ListRow \/ SortRows

Next ==
    Detect \/ Build \/ ReadTable \/ ReadSource \/ ChooseTransport \/ GroupAndList \/ Return

Spec == Init /\ [][Next]_vars

Done(op) == call = op /\ pc = "done"

-----------------------------------------------------------------------------
\* Rows that parse are ranges of one family, and no two of them overlap.
Ranges(rows) ==
    \A i, j \in DOMAIN rows : rows[i].ok /\ rows[j].ok =>
      LET r == rows[i]  s == rows[j]
      IN /\ r.start.fam = r.end.fam /\ D!Leq(r.start, r.end)
         /\ r # s => D!Less(r.end, s.start) \/ D!Less(s.end, r.start)

Within(row, ip) == row.ok /\ D!Leq(row.start, ip) /\ D!Leq(ip, row.end)

\* The row is of the address's own family, and no row is of an IPv4 address
\* written in IPv6.
Covers(row, ip) ==
    Within(row, ip) /\ ip.fam # "map" /\ ((row.start.fam = "v4") <=> (ip.fam = "v4"))

\* However the rows are ordered and wherever the gaps are, an ASN is only
\* answered from a row that spans the address; and if the rows are ranges
\* that do not overlap, the ASN of the row of its own family that covers the
\* address is, and none without one or for an IPv4 address written in IPv6
\* (asncheck.go:132-183).
LookupFindsCover ==
    Done("detect") =>
      LET rows == input.rows  ip == input.ip
      IN /\ output.asn # 0 =>
              \E i \in DOMAIN rows : Within(rows[i], ip) /\ rows[i].asn = output.asn
         /\ output.suspicious <=> output.asn \in SuspiciousASNs
         /\ Ranges(rows) =>
              IF \E i \in DOMAIN rows : Covers(rows[i], ip)
              THEN \E i \in DOMAIN rows : Covers(rows[i], ip) /\ rows[i].asn = output.asn
              ELSE output.asn = 0

\* A configuration says what its URI says.  The protocol, the server and the
\* port are the URI's; none is built for a port that is missing, nor for port
\* 0 but by Shadowsocks; the brackets of an IPv6 host are gone where the URI
\* is parsed as a URL.  TLS is on exactly where the protocol is always TLS or
\* the URI asks for it (REALITY apart, see the findings), and then asks for
\* the URI's SNI; what rides QUIC has an ALPN, no other transport, and checks
\* certificates unless the URI says not to.  A WireGuard configuration needs
\* the key and the peer (parser.go:69-340, runner.go:170-370).
OutboundFaithful ==
    /\ Done("build") /\ output # U!Refused =>
         LET p == output.proxy
         IN /\ p.type = CASE input.scheme = "ss" -> "shadowsocks" [] input.scheme = "hy2" -> "hysteria2"
                          [] OTHER -> input.scheme
            /\ p.server \in {input.host, U!Bare(input.host)}
            /\ p.type \notin {"shadowsocks", "vmess"} => p.server = U!Bare(input.host)
            /\ input.ported /\ p.port = input.port
            /\ p.type # "shadowsocks" => p.port # 0
            /\ p.flow \in {"", "xtls-rprx-vision"}
            /\ p.type # "vless" \/ input.tls # "reality" =>
                 (p.tls.enabled <=> \/ p.type \in {"trojan", "tuic", "hysteria2"}
                                    \/ p.type \in {"vmess", "vless"} /\ input.tls = "tls")
            /\ p.type \in {"tuic", "hysteria2"} =>
                 /\ p.tls.insecure => input.insecure
                 /\ p.tls.alpn # "" /\ p.transport = "none"
            /\ p.tls.enabled /\ input.sni # "" => p.tls.serverName = input.sni
    /\ Done("wireguard") /\ output # U!Refused => input.key /\ input.peer

\* src says which element of seq each element of q was made from: those at
\* the indexes in S, each of them once and in their order.
Picks(src, S) ==
    /\ \A i, j \in DOMAIN src : i < j => src[i] < src[j]
    /\ {src[i] : i \in DOMAIN src} = S

\* The cells of a row under a column's name, and a field that is one of them
\* or is empty for lack of one.
Under(header, row, name) ==
    {row[i] : i \in {k \in DOMAIN row : k \in DOMAIN header /\ header[k] = name}}
IsCell(x, header, row, name) ==
    x \in Under(header, row, name) \/ (Under(header, row, name) = {} /\ x = "")

\* The rows that came whole with a configuration that decodes.
Whole(table) ==
    {i \in DOMAIN table.rows :
       /\ Len(table.rows[i]) >= Len(table.header)
       /\ \E x \in Under(table.header, table.rows[i], "config") : x \notin {"", "junk"}}

ServerOf(s, header, row) ==
    /\ IsCell(s.host, header, row, "IP") /\ IsCell(s.config, header, row, "config")
    /\ IsCell(s.country, header, row, "CountryShort")
    /\ (IsCell(s.id, header, row, "HostName") /\ s.id # "") \/ s.id = s.host

\* Whatever the order of the columns, a server has the fields of its row, and
\* exactly the rows that came whole with a configuration that decodes give
\* one, in their order, if the table is sound (vpngate.go:80-154).
VpnGateRows ==
    Done("table") /\ input.sound /\ IsInjective(input.header) =>
      \E src \in [DOMAIN output -> DOMAIN input.rows] :
        /\ Picks(src, Whole(input))
        /\ \A i \in DOMAIN output : ServerOf(output[i], input.header, input.rows[src[i]])

\* The lines that are URIs, and those that both limits let through.
UriLines(body) == {i \in DOMAIN body.lines : body.lines[i] \in C!Schemes}
Reached(body) ==
    {i \in DOMAIN body.lines : i <= body.limit /\ \A k \in 1..i : body.lines[k] # "long"}

\* What is handed to the parser comes from URIs of the body, in their order and
\* each once, whole unless the limit on the body cut it; and unless the body
\* is a blob that does not decode, no URI is lost for what stands around it
\* within the limits on the body and on a line (ssaggregator.go:227-266).
SourceKeepsUris ==
    Done("source") =>
      \E kept \in SUBSET UriLines(input) : \E src \in [DOMAIN output -> DOMAIN input.lines] :
        /\ Picks(src, kept)
        /\ input.form # "bad" => UriLines(input) \cap Reached(input) \subseteq kept
        /\ \A i \in DOMAIN output :
             output[i] = IF src[i] <= input.limit THEN input.lines[src[i]] ELSE "stump"

\* The order of the ports in riseup.go:171-172, and what a gateway offers.
Rank(port) == CASE port = "1194" -> 1 [] port = "53" -> 2 [] port = "80" -> 3 [] port = "443" -> 4
                [] OTHER -> 5
Offers(gateway, proto, port) ==
    \E i \in DOMAIN gateway :
      /\ gateway[i].type = "openvpn"
      /\ \E k \in DOMAIN gateway[i].protocols : gateway[i].protocols[k] = proto
      /\ \E k \in DOMAIN gateway[i].ports : gateway[i].ports[k] = port

\* What may be given up with the gateway: ports that riseup.go:171-172 does not
\* name, and TCP 443, on which code and comment disagree (see the findings).
Disputed(proto, port) == Rank(port) = 5 \/ (Rank(port) = 4 /\ proto = "tcp")

\* The transport is one that the gateway offers for OpenVPN on one of the ports
\* that riseup.go:171-172 names; UDP 1194 is taken whenever it is offered, no
\* port is taken while the same protocol offers one named before it, nor TCP
\* while another protocol offers the port; and a gateway is given up only if
\* all that it offers is disputed.
TransportOrder ==
    Done("transport") =>
      /\ output.port # "" => Offers(input, output.proto, output.port) /\ Rank(output.port) < 5
      /\ \A i \in DOMAIN input : input[i].type = "openvpn" =>
           \A k \in DOMAIN input[i].protocols, l \in DOMAIN input[i].ports :
             LET proto == input[i].protocols[k]  port == input[i].ports[l]
             IN /\ output.port = "" => Disputed(proto, port)
                /\ proto = "udp" /\ port = "1194" => output.proto # "tcp" /\ output.port = "1194"
                /\ output.port # "" /\ proto = output.proto => Rank(output.port) <= Rank(port)
                /\ port = output.port => output.proto # "tcp" \/ proto = "tcp"

\* The picker and the pools that connect draws from agree: every country shown
\* has as many servers as sent one and as its pool, and as good a best one, if
\* that is not below 0; every pool with a country code is shown once, and the
\* largest come first.
PickerMatchesPool ==
    Done("entries") =>
      LET shown(i) == output.entries[i]
          pool(i) == output.groups[shown(i).code]
      IN /\ {shown(i).code : i \in DOMAIN output.entries} = DOMAIN output.groups \ {""}
         /\ \A i \in DOMAIN output.entries :
              /\ shown(i).count = Len(pool(i))
              /\ Len(pool(i)) = Cardinality({k \in DOMAIN input : input[k].country = shown(i).code})
              /\ shown(i).best = IF pool(i)[1].score > 0 THEN pool(i)[1].score ELSE 0
              /\ \A k \in DOMAIN input :
                   input[k].country = shown(i).code => input[k].score <= pool(i)[1].score
         /\ \A i, j \in DOMAIN output.entries :
              i < j => shown(i).code # shown(j).code /\ shown(i).count >= shown(j).count
====
