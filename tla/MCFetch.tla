---- MODULE MCFetch ----
(***************************************************************************)
(* Fetch on two sources, two endpoints and two kinds of lists: the same    *)
(* endpoint comes twice under two schemes, from one list or from two, with *)
(* a URI that does not parse in front.                                     *)
(***************************************************************************)
EXTENDS Fetch

CONSTANTS a, b

MCEndpoints == {a, b}
MCCdnNames == {b}
Uri(e, s) == [ep |-> e, scheme |-> s]
MCLists == { <<Uri(a, "ss"), Uri(b, "ss")>>,
             <<Uri(b, "junk"), Uri(a, "trojan"), Uri(a, "ss")>> }
MCPlaces == [ip : {"plain", "core", "forwarder"}, located : {TRUE}]
              \cup [ip : {"none"}, located : {FALSE}]
====
