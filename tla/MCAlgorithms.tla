---- MODULE MCAlgorithms ----
(***************************************************************************)
(* Algorithms on small sets of inputs in which every kind of element       *)
(* occurs beside and before every other.                                   *)
(***************************************************************************)
EXTENDS Algorithms

CONSTANTS
    MaxRows,        \* bound: rows of a dataset
    MaxServers,     \* bound: servers of a pool
    MaxTransports   \* bound: transports of a gateway

Upto(n, S) == UNION {[1..k -> S] : k \in 0..n}

\* Rows with gaps between them, touching, of one address, not routed (ASN 0),
\* in both families, one that overlaps others, and one that does not parse;
\* in any order.
DataRow(fam, lo, hi, asn, ok) ==
    [start |-> [fam |-> fam, n |-> lo], end |-> [fam |-> fam, n |-> hi], asn |-> asn, ok |-> ok]
MCDatasets ==
    Upto(MaxRows, {DataRow("v4", 0, 0, 3, TRUE), DataRow("v4", 2, 3, 1, TRUE),
                   DataRow("v4", 4, 4, 2, TRUE), DataRow("v4", 5, 5, 0, TRUE),
                   DataRow("v6", 1, 3, 3, TRUE), DataRow("v4", 2, 6, 4, TRUE),
                   DataRow("v4", 1, 1, 1, FALSE)})
MCAddresses == [fam : {"v4", "v6", "map"}, n : 0..6]

MCUris ==
    {u \in [scheme : U!Schemes, user : BOOLEAN, host : {"name", "[v6]"}, ported : BOOLEAN,
            port : {-1, 0, 443}, net : {"", "ws", "WS"},
            flow : {"", "xtls-rprx-vision", "xtls-rprx-vision-udp443"},
            tls : {"", "tls", "reality"}, sni : {"", "sni"}, wsHost : {"", "front"},
            alpn : {"", "h2"}, insecure : BOOLEAN] :
       u.ported \/ u.port = 0}

\* Headers start with HostName; a column may be missing.
Headers == {h \in [1..4 -> {"HostName", "IP", "CountryShort", "config", "Speed"}] :
              h[1] = "HostName" /\ \A i, j \in 1..4 : i # j => h[i] # h[j]}
Fields == [HostName : {"", "h"}, IP : {"", "i"}, CountryShort : {"c"},
           config : {"junk", "k"}, Speed : {"s"}]
\* A row as sent: its fields in the order of the header, and how many cells
\* of it arrived, with one too many at the most.
Sent(header, fields, cells) ==
    [i \in 1..cells |-> IF i \in DOMAIN header THEN fields[header[i]] ELSE "extra"]
MCTables ==
    UNION {[sound : {TRUE}, header : {h}, rows : Upto(2, {Sent(h, f, n) : f \in Fields, n \in 2..5})]
             : h \in Headers}
      \cup {[sound |-> FALSE, header |-> h, rows |-> <<>>] : h \in Headers}

MCBodies ==
    [form : {"plain", "blob", "bad"}, lines : Upto(3, {"ss", "hy2", "hysteria", "#", "", "long"}),
     limit : 0..3, stump : BOOLEAN]

MCGateways ==
    Upto(MaxTransports,
         [type : {"openvpn", "obfs4"}, protocols : {<<"tcp">>, <<"udp">>, <<"tcp", "udp">>},
          ports : Upto(1, {"1194", "53", "80", "443", "8080"})
                    \cup {<<"443", "80">>, <<"53", "1194">>, <<"80", "53">>, <<"8080", "443">>}])

MCLists == Upto(MaxServers, [country : {"", "a", "b"}, score : {-1, 5, 25}])
====
