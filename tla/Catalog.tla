---- MODULE Catalog ----
(***************************************************************************)
(* How answers become servers and servers become countries, as the bodies  *)
(* of the loops that do it: over the rows of a VPN Gate CSV, the lines of  *)
(* a subscription, the offers of a Riseup gateway, and the servers that    *)
(* backend.GroupByCountry pools and ui.BuildEntries counts.                *)
(***************************************************************************)
EXTENDS Integers, Sequences

\* parseVPNGateCSV.  The header is a sequence of column names, a row one of
\* cells.  A name that occurs twice stands for its last column.
Column(header, name) ==
    IF \E i \in DOMAIN header : header[i] = name
    THEN CHOOSE i \in DOMAIN header :
           header[i] = name /\ \A k \in DOMAIN header : header[k] = name => k <= i
    ELSE 0

Cell(header, row, name) ==
    LET i == Column(header, name) IN IF i = 0 \/ i > Len(row) THEN "" ELSE row[i]

\* Mutant: a row that was cut short is taken as far as it goes.
RowTakenAsIs(header, row) == Cell(header, row, "config") \notin {"", "junk"}

\* "junk" stands for what is not base64.
RowTaken(header, row) ==
    Len(row) >= Len(header) /\ Cell(header, row, "config") \notin {"", "junk"}

RowServer(header, row) ==
    LET host == Cell(header, row, "HostName")  ip == Cell(header, row, "IP")
    IN [id |-> IF host = "" THEN ip ELSE host, host |-> ip,
        country |-> Cell(header, row, "CountryShort"), config |-> Cell(header, row, "config")]

TakeRow(out, header, row) ==
    IF RowTaken(header, row) THEN Append(out, RowServer(header, row)) ELSE out

-----------------------------------------------------------------------------
\* fetchSource.  A body is [form, lines, limit, stump].  Its lines are sent as
\* they are ("plain"; these never decode), as one base64 blob ("blob"), or as
\* one that does not decode ("bad": it stands behind a comment, or is cut
\* where no base64 can end).  limit lines of it lie within the 8 MiB that are
\* read, and stump says that the cut leaves the next one its scheme.  A line
\* is a scheme, for a URI; "long", for more than the 4 MiB of the scanner's
\* buffer; or anything else.
Schemes == {"ss", "vmess", "vless", "trojan", "tuic", "hysteria2", "hy2"}

IsUri(line) == line \in Schemes \cup {"stump"}

Stumped(body) ==
    body.stump /\ body.limit < Len(body.lines) /\ body.lines[body.limit + 1] \in Schemes

\* What the limit lets through of the lines.
Arrived(body) ==
    LET count == IF Len(body.lines) <= body.limit THEN Len(body.lines)
                 ELSE body.limit + IF Stumped(body) THEN 1 ELSE 0
    IN [i \in 1..count |-> IF i <= body.limit THEN body.lines[i] ELSE "stump"]

Raw(body) == IF body.form = "plain" THEN Arrived(body) ELSE <<"blob">>

StartsWithUri(raw) == raw # <<>> /\ IsUri(raw[1])

\* Mutant: a body that does not decode is given up.
TextOrNothing(body) ==
    IF StartsWithUri(Raw(body)) THEN Raw(body)
    ELSE IF body.form = "blob" THEN Arrived(body) ELSE <<>>

\* A body that does not start like a URI is decoded if it can be.
Text(body) ==
    IF ~StartsWithUri(Raw(body)) /\ body.form = "blob" THEN Arrived(body) ELSE Raw(body)

TakeLine(uris, line) == IF IsUri(line) THEN Append(uris, line) ELSE uris

-----------------------------------------------------------------------------
\* bestTransport.
PortPriority(port) ==
    CASE port = "1194" -> 4 [] port = "53" -> 3 [] port = "80" -> 2 [] port = "443" -> 1
      [] OTHER -> 0

\* Mutant: TCP is preferred.
PriorityTcp(proto, port) == PortPriority(port) + IF proto = "tcp" THEN 1 ELSE 0

Priority(proto, port) == PortPriority(port) - IF proto = "tcp" THEN 1 ELSE 0

NoTransport == [proto |-> "", port |-> "", priority |-> 0]

Better(best, proto, port) ==
    IF Priority(proto, port) > best.priority
    THEN [proto |-> proto, port |-> port, priority |-> Priority(proto, port)]
    ELSE best

-----------------------------------------------------------------------------
\* f with x at key k, which it may lack; missing is what a lacking key has.
Put(f, k, x) == [c \in DOMAIN f \cup {k} |-> IF c = k THEN x ELSE f[c]]
Get(f, k, missing) == IF k \in DOMAIN f THEN f[k] ELSE missing

AddServer(groups, s) == Put(groups, s.country, Append(Get(groups, s.country, <<>>), s))

NewEntry(cc) == [code |-> cc, count |-> 0, best |-> 0]

\* Mutant: the first server of a country sets its best score.
CountServerFirst(rows, s) ==
    IF s.country = "" THEN rows
    ELSE Put(rows, s.country,
             [Get(rows, s.country, [NewEntry(s.country) EXCEPT !.best = s.score]) EXCEPT !.count = @ + 1])

CountServer(rows, s) ==
    IF s.country = "" THEN rows
    ELSE Put(rows, s.country,
             [Get(rows, s.country, NewEntry(s.country)) EXCEPT
                !.count = @ + 1, !.best = IF s.score > @ THEN s.score ELSE @])
====
