---- MODULE Outbounds ----
(***************************************************************************)
(* From a URI to a sing-box configuration: proxy.Parse and its parsers,    *)
(* then buildConfig with the outbound, the transport and the TLS block.    *)
(* Fields that are only carried along (tag, password, path) are left out.  *)
(***************************************************************************)
EXTENDS Integers, Sequences

\* A URI is a record: scheme; user, its credentials are there and decode;
\* host; ported, it has a port that is a number, and port, which one; and what
\* its query (or vmess's JSON) says: net, flow, tls, sni, wsHost, alpn,
\* insecure.
\* The schemes a URI may have; v1 of hysteria and others are refused.
Schemes == {"ss", "vmess", "vless", "trojan", "tuic", "hysteria2", "hy2", "hysteria"}

\* Networks beyond those that sing-box knows behave as "tcp".
Uri == [scheme : Schemes, user : BOOLEAN, host : STRING, ported : BOOLEAN, port : Int,
        net : {"", "tcp", "ws", "WS", "grpc", "http", "h2"}, flow : STRING,
        tls : {"", "tls", "reality"}, sni : STRING, wsHost : STRING, alpn : STRING,
        insecure : BOOLEAN]

Refused == [protocol |-> "none"]

Outbound == [protocol |-> "", server |-> "", port |-> 0, network |-> "", flow |-> "",
             tls |-> FALSE, sni |-> "", wsHost |-> "", alpn |-> "", skip |-> FALSE]

\* url.Hostname drops the brackets of an IPv6 host, splitHostPort keeps them.
Bare(host) == IF host = "[v6]" THEN "v6" ELSE host

\* splitHostPort takes any number for a port.
ParseShadowsocks(u) ==
    IF ~u.user \/ u.host = "" \/ ~u.ported THEN Refused
    ELSE [Outbound EXCEPT !.protocol = "shadowsocks", !.server = u.host, !.port = u.port]

\* The checks the other parsers share: user, host and a port that is not 0.
\* url.Parse takes none below 0, Atoi does.
Complete(u) == u.user /\ u.host # "" /\ u.ported /\ u.port # 0
CompleteUrl(u) == Complete(u) /\ u.port > 0

Lower(net) == IF net = "WS" THEN "ws" ELSE net
OrTcp(net) == IF net = "" THEN "tcp" ELSE net

ParseVMess(u) ==
    IF ~Complete(u) THEN Refused
    ELSE [Outbound EXCEPT !.protocol = "vmess", !.server = u.host, !.port = u.port,
            !.network = OrTcp(Lower(u.net)), !.wsHost = u.wsHost, !.tls = u.tls = "tls",
            !.sni = u.sni, !.alpn = u.alpn, !.skip = TRUE]

ParseVLESS(u) ==
    IF ~CompleteUrl(u) \/ u.flow \notin {"", "xtls-rprx-vision"} THEN Refused
    ELSE [Outbound EXCEPT !.protocol = "vless", !.server = Bare(u.host), !.port = u.port,
            !.network = OrTcp(u.net), !.wsHost = u.wsHost, !.flow = u.flow,
            !.tls = u.tls \in {"tls", "reality"}, !.sni = u.sni, !.alpn = u.alpn, !.skip = TRUE]

\* TUIC and Hysteria 2 ride QUIC: always TLS, and certificates are checked
\* unless the URI says otherwise.
Quic(u, protocol) ==
    IF ~CompleteUrl(u) THEN Refused
    ELSE [Outbound EXCEPT !.protocol = protocol, !.server = Bare(u.host), !.port = u.port,
            !.tls = TRUE, !.sni = u.sni, !.alpn = u.alpn, !.skip = u.insecure]

ParseTUIC(u) == Quic(u, "tuic")
ParseHysteria2(u) == Quic(u, "hysteria2")

ParseTrojan(u) ==
    IF ~CompleteUrl(u) THEN Refused
    ELSE [Outbound EXCEPT !.protocol = "trojan", !.server = Bare(u.host), !.port = u.port,
            !.network = OrTcp(u.net), !.wsHost = u.wsHost, !.tls = TRUE, !.sni = u.sni, !.skip = TRUE]

Parse(u) ==
    CASE u.scheme = "ss" -> ParseShadowsocks(u)
      [] u.scheme = "vmess" -> ParseVMess(u)
      [] u.scheme = "vless" -> ParseVLESS(u)
      [] u.scheme = "trojan" -> ParseTrojan(u)
      [] u.scheme = "tuic" -> ParseTUIC(u)
      [] u.scheme \in {"hysteria2", "hy2"} -> ParseHysteria2(u)
      [] OTHER -> Refused

-----------------------------------------------------------------------------
Absent == [enabled |-> FALSE]

\* Mutant: certificates are checked only when the URI names a server.
BuildTLSTrusting(o) ==
    IF ~o.tls THEN Absent
    ELSE [enabled |-> TRUE, insecure |-> o.skip \/ o.sni = "", alpn |-> o.alpn,
          serverName |-> IF o.sni # "" THEN o.sni ELSE o.wsHost]

BuildTLS(o) ==
    IF ~o.tls THEN Absent
    ELSE [enabled |-> TRUE, insecure |-> o.skip, alpn |-> o.alpn,
          serverName |-> IF o.sni # "" THEN o.sni ELSE o.wsHost]

TlsOrDefault(o, alpn) ==
    IF BuildTLS(o).enabled
    THEN [BuildTLS(o) EXCEPT !.alpn = IF @ = "" THEN alpn ELSE @]
    ELSE [enabled |-> TRUE, insecure |-> o.skip, alpn |-> alpn, serverName |-> o.sni]

BuildTransport(o) ==
    CASE o.network = "ws" -> "ws"
      [] o.network = "grpc" -> "grpc"
      [] o.network \in {"http", "h2"} -> "http"
      [] OTHER -> "none"

\* outboundConfig: which blocks each protocol's outbound has.
OutboundConfig(o) ==
    [type |-> o.protocol, server |-> o.server, port |-> o.port, flow |-> o.flow,
     transport |-> IF o.protocol \in {"vmess", "vless", "trojan"} THEN BuildTransport(o) ELSE "none",
     tls |-> CASE o.protocol \in {"vmess", "vless"} -> BuildTLS(o)
               [] o.protocol = "trojan" ->
                    IF BuildTLS(o).enabled THEN BuildTLS(o)
                    ELSE [enabled |-> TRUE, insecure |-> TRUE, alpn |-> "", serverName |-> ""]
               [] o.protocol \in {"tuic", "hysteria2"} -> TlsOrDefault(o, "h3")
               [] OTHER -> Absent]

\* Of a configuration only the proxy depends on the URI.
BuildConfig(o) == [proxy |-> OutboundConfig(o)]

\* A registration is [key, peer]: whether the fields are there.
BuildWireGuardConfig(reg) ==
    IF ~reg.key \/ ~reg.peer THEN Refused ELSE [proxy |-> [type |-> "wireguard"]]
====
