---- MODULE AsnDb ----
(***************************************************************************)
(* asncheck.Database: the rows of the ip2asn dataset in one pool for each  *)
(* address family, the order of addresses that the pools are sorted and    *)
(* searched by, and what a row found says of an address.                   *)
(***************************************************************************)
EXTENDS Integers, Sequences

CONSTANT SuspiciousASNs

\* "map" is an IPv4 address written in IPv6.  A row that does not parse is
\* not ok.
Address == [fam : {"v4", "v6", "map"}, n : Int]
Row == [start : Address, end : Address, asn : Nat, ok : BOOLEAN]

\* netip.Addr.Compare: IPv4 first, then by value.
Less(x, y) == IF x.fam = "v4" /\ y.fam # "v4" THEN TRUE
              ELSE IF x.fam # "v4" /\ y.fam = "v4" THEN FALSE
              ELSE x.n < y.n

Leq(x, y) == ~Less(y, x)

\* The body of parse's loop.
NoRows == [v4 |-> <<>>, v6 |-> <<>>]

Home(row) == IF row.start.fam = "v4" THEN "v4" ELSE "v6"

TakeRow(pools, row) == IF row.ok THEN [pools EXCEPT ![Home(row)] = Append(@, row)] ELSE pools

\* The pool that Lookup reads.
Asked(ip) == IF ip.fam = "v6" THEN "v6" ELSE "v4"

\* Mutant: the search stops at a row that starts at the address.
Beyond(row, ip) == Leq(ip, row.start)

\* What sort.Search looks for the first of.
After(row, ip) == Less(ip, row.start)

NoMatch == 0

\* One step back from the first row that starts after the address.
Lookup(pool, idx, ip) ==
    IF idx # 0 /\ Leq(pool[idx].start, ip) /\ Leq(ip, pool[idx].end) THEN pool[idx].asn
    ELSE NoMatch

IsSuspicious(asn) == asn # NoMatch /\ asn \in SuspiciousASNs

DetectByIP(asn) == [asn |-> asn, suspicious |-> IsSuspicious(asn)]
====
