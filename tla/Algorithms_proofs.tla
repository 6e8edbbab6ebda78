---- MODULE Algorithms_proofs ----
(***************************************************************************)
(* Proofs about the sequential algorithms, for any inputs: datasets,       *)
(* tables, bodies and lists of any length.  Each has an invariant that     *)
(* says what its loop has made of the elements it has passed, so that the  *)
(* induction over the input is the one over the steps.                     *)
(***************************************************************************)
EXTENDS Algorithms, FiniteSetTheorems, SequenceTheorems, TLAPS

USE DEF vars

\* Where each call can stand.
Stages ==
    /\ call \in {"none", "detect", "build", "wireguard", "table", "source", "transport", "entries"}
    /\ call = "none" <=> pc = "idle"
    /\ pc = "idle" => at = 0
    /\ pc = "search" => call = "detect"
    /\ pc \in {"order", "count", "list"} => call = "entries"
    /\ pc \in {"idle", "loop", "search", "order", "count", "list", "done"}
    /\ call \in {"build", "wireguard"} => pc = "done"

\* A step that a call is in, or begins, is one of its own.
LEMMA OwnSteps ==
    ASSUME Stages, [Next]_vars
    PROVE  /\ call' = "detect" =>
                CallDetect \/ ParseRow \/ SortPool \/ Halve \/ Detected \/ UNCHANGED vars
           /\ call' = "build" => CallBuild \/ UNCHANGED vars
           /\ call' = "wireguard" => CallBuildWireGuard \/ UNCHANGED vars
           /\ call' = "table" => ReadTable \/ UNCHANGED vars
           /\ call' = "source" => ReadSource \/ UNCHANGED vars
           /\ call' = "transport" => ChooseTransport \/ UNCHANGED vars
           /\ call' = "entries" => GroupAndList \/ UNCHANGED vars
<1>1. CASE UNCHANGED vars
  BY <1>1
<1>2. CASE Return
  BY <1>2 DEF Return
<1>3. CASE Detect
  <2>1. call' = "detect"
    BY <1>3 DEF Stages, Detect, CallDetect, ParseRow, SortPool, Halve, Detected, Begin, Turn, Over
  <2> QED
    BY <1>3, <2>1 DEF Detect
<1>4. CASE Build
  BY <1>4 DEF Build, CallBuild, CallBuildWireGuard
<1>5. CASE ReadTable
  <2>1. call' = "table"
    BY <1>5 DEF ReadTable, CallTable, TableFails, TableRow, TableRead, Begin, Turn, Over
  <2> QED
    BY <1>5, <2>1
<1>6. CASE ReadSource
  <2>1. call' = "source"
    BY <1>6 DEF ReadSource, CallSource, SourceLine, SourceStops, SourceRead, Begin, Turn, Over
  <2> QED
    BY <1>6, <2>1
<1>7. CASE ChooseTransport
  <2>1. call' = "transport"
    BY <1>7 DEF ChooseTransport, CallTransport, NextTransport, NextProtocol, NextPort,
       TransportChosen, Begin, Turn, Over, Inside
  <2> QED
    BY <1>7, <2>1
<1>8. CASE GroupAndList
  <2>1. call' = "entries"
    BY <1>8 DEF Stages, GroupAndList, CallEntries, GroupServer, Grouped, OrderGroup, Ordered,
       CountServer, Counted, ListRow, SortRows, Begin, Turn, Over
  <2> QED
    BY <1>8, <2>1
<1> QED
  BY <1>1, <1>2, <1>3, <1>4, <1>5, <1>6, <1>7, <1>8 DEF Next

\* Nothing is called at first.
LEMMA StagesInit == Init => Stages
  BY DEF Init, Stages

\* Every step leaves its call at one of its own places.
LEMMA StagesStep == ASSUME Stages, [Next]_vars PROVE Stages'
<1>1. CASE UNCHANGED vars
  BY <1>1 DEF Stages
<1>2. CASE Return
  BY <1>2 DEF Return, Stages
<1>3. CASE Detect
  BY <1>3 DEF Stages, Detect, CallDetect, ParseRow, SortPool, Halve, Detected, Begin, Turn, Over,
     Returns
<1>4. CASE Build
  BY <1>4 DEF Stages, Build, CallBuild, CallBuildWireGuard, Returns
<1>5. CASE ReadTable
  BY <1>5 DEF Stages, ReadTable, CallTable, TableFails, TableRow, TableRead, Begin, Turn, Over,
     Returns
<1>6. CASE ReadSource
  BY <1>6 DEF Stages, ReadSource, CallSource, SourceLine, SourceStops, SourceRead, Begin, Turn,
     Over, Returns
<1>7. CASE ChooseTransport
  BY <1>7 DEF Stages, ChooseTransport, CallTransport, NextTransport, NextProtocol, NextPort,
       TransportChosen, Begin, Turn, Over, Inside, Returns
<1>8. CASE GroupAndList
  BY <1>8 DEF Stages, GroupAndList, CallEntries, GroupServer, Grouped, OrderGroup, Ordered,
       CountServer, Counted, ListRow, SortRows, Begin, Turn, Over, Returns
<1> QED
  BY <1>1, <1>2, <1>3, <1>4, <1>5, <1>6, <1>7, <1>8 DEF Next

-----------------------------------------------------------------------------
\* proxy: Parse and BuildConfig.

\* The output is made of the one input.
BuildInv ==
    /\ call = "build" =>
         \E u \in U!Uri :
           /\ input = u
           /\ output = IF U!Parse(u) = U!Refused THEN U!Refused ELSE U!BuildConfig(U!Parse(u))
    /\ call = "wireguard" =>
         \E reg \in [key : BOOLEAN, peer : BOOLEAN] :
           input = reg /\ output = U!BuildWireGuardConfig(reg)

\* The type that outbounds of a scheme have.
Protocol(u) ==
    CASE u.scheme = "ss" -> "shadowsocks" [] u.scheme = "hy2" -> "hysteria2" [] OTHER -> u.scheme

\* What makes an outbound of the URI a TLS one.
TlsAsked(u) ==
    \/ u.scheme \in {"trojan", "tuic", "hysteria2", "hy2"}
    \/ u.scheme \in {"vmess", "vless"} /\ u.tls = "tls"
    \/ u.scheme = "vless" /\ u.tls = "reality"

\* parseVLESS asks for TLS by either value.
LEMMA VlessTls ==
    ASSUME NEW u \in U!Uri, NEW o, o = U!ParseVLESS(u), o # U!Refused
    PROVE  /\ u.tls \in {"tls", "reality"} => o.tls = TRUE
           /\ u.tls \notin {"tls", "reality"} => o.tls = FALSE
<1> DEFINE asked == u.tls \in {"tls", "reality"}
<1>1. o.tls = asked
  BY DEF U!ParseVLESS, U!Uri, U!Outbound
<1>2. asked \in BOOLEAN
  OBVIOUS
<1> HIDE DEF asked
<1>3. (asked => o.tls = TRUE) /\ (~asked => o.tls = FALSE)
  BY <1>1, <1>2
<1> QED
  BY <1>3 DEF asked

\* What Parse makes of a URI that it accepts.
LEMMA Parsed ==
    ASSUME NEW u \in U!Uri, U!Parse(u) # U!Refused
    PROVE  LET o == U!Parse(u)
           IN /\ u.scheme # "hysteria"
              /\ o.protocol = Protocol(u) /\ u.ported /\ o.port = u.port
              /\ u.scheme \in {"ss", "vmess"} => o.server = u.host
              /\ u.scheme \notin {"ss", "vmess"} => o.server = U!Bare(u.host)
              /\ u.scheme # "ss" => o.sni = u.sni
              /\ u.port = 0 => u.scheme = "ss"
              /\ o.flow \in {"", "xtls-rprx-vision"}
              /\ o.tls \in BOOLEAN /\ o.skip \in BOOLEAN
              /\ o.tls = TlsAsked(u)
              /\ u.scheme \in {"tuic", "hysteria2", "hy2"} => o.skip = u.insecure
<1> USE DEF Protocol, TlsAsked, U!Uri, U!Schemes, U!Outbound, U!Complete, U!CompleteUrl
<1>1. CASE u.scheme = "ss"
  <2>1. U!Parse(u) = U!ParseShadowsocks(u)
    BY <1>1 DEF U!Parse
  <2>2. /\ u.ported
        /\ U!Parse(u) = [U!Outbound EXCEPT !.protocol = "shadowsocks", !.server = u.host, !.port = u.port]
    BY <2>1 DEF U!ParseShadowsocks
  <2> DEFINE o == U!Parse(u)
  <2>3. /\ o.protocol = "shadowsocks" /\ o.server = u.host /\ o.port = u.port /\ o.flow = "" /\ o.tls = FALSE /\ o.skip = FALSE
    BY <2>2
  <2> QED
    BY <1>1, <2>2, <2>3
<1>2. CASE u.scheme = "vmess"
  <2>1. U!Parse(u) = U!ParseVMess(u)
    BY <1>2 DEF U!Parse
  <2> QED
    BY <1>2, <2>1 DEF U!ParseVMess
<1>3. CASE u.scheme = "vless"
  <2>1. U!Parse(u) = U!ParseVLESS(u)
    BY <1>3 DEF U!Parse
  <2>2. U!CompleteUrl(u) /\ u.flow \in {"", "xtls-rprx-vision"}
    BY <2>1 DEF U!ParseVLESS
  <2> DEFINE o == U!ParseVLESS(u)
  <2>3. /\ o.protocol = "vless" /\ o.server = U!Bare(u.host) /\ o.port = u.port /\ o.sni = u.sni /\ o.flow = u.flow
        /\ o.skip = TRUE
    BY <2>2 DEF U!ParseVLESS
  <2>4. /\ u.tls \in {"tls", "reality"} => o.tls = TRUE
        /\ u.tls \notin {"tls", "reality"} => o.tls = FALSE
    BY <2>1, VlessTls
  <2> HIDE DEF o
  <2> QED
    BY <1>3, <2>1, <2>2, <2>3, <2>4 DEF o
<1>4. CASE u.scheme = "trojan"
  <2>1. U!Parse(u) = U!ParseTrojan(u)
    BY <1>4 DEF U!Parse
  <2> QED
    BY <1>4, <2>1 DEF U!ParseTrojan
<1>5. CASE u.scheme = "tuic"
  <2>1. U!Parse(u) = U!Quic(u, "tuic")
    BY <1>5 DEF U!Parse, U!ParseTUIC
  <2> QED
    BY <1>5, <2>1 DEF U!Quic
<1>6. CASE u.scheme \in {"hysteria2", "hy2"}
  <2>1. U!Parse(u) = U!Quic(u, "hysteria2")
    BY <1>6 DEF U!Parse, U!ParseHysteria2
  <2> QED
    BY <1>6, <2>1 DEF U!Quic
<1>7. CASE u.scheme = "hysteria"
  BY <1>7 DEF U!Parse
<1> QED
  BY <1>1, <1>2, <1>3, <1>4, <1>5, <1>6, <1>7

\* Which blocks an outbound has.
LEMMA Blocks ==
    ASSUME NEW o, NEW p, p = U!OutboundConfig(o)
    PROVE  /\ p.type = o.protocol /\ p.server = o.server /\ p.port = o.port /\ p.flow = o.flow
           /\ o.protocol \in {"vmess", "vless"} => p.tls = U!BuildTLS(o)
           /\ o.protocol = "trojan" /\ U!BuildTLS(o).enabled => p.tls = U!BuildTLS(o)
           /\ o.protocol \in {"tuic", "hysteria2"} =>
                p.tls = U!TlsOrDefault(o, "h3") /\ p.transport = "none"
           /\ o.protocol = "shadowsocks" => p.tls = U!Absent
<1>1. p.type = o.protocol /\ p.server = o.server /\ p.port = o.port /\ p.flow = o.flow
  BY DEF U!OutboundConfig
<1>2. o.protocol \in {"vmess", "vless"} => p.tls = U!BuildTLS(o)
  BY DEF U!OutboundConfig
<1>3. o.protocol = "trojan" /\ U!BuildTLS(o).enabled => p.tls = U!BuildTLS(o)
  BY DEF U!OutboundConfig
<1>4. o.protocol \in {"tuic", "hysteria2"} => p.tls = U!TlsOrDefault(o, "h3")
  BY DEF U!OutboundConfig
<1>5. ASSUME o.protocol \in {"tuic", "hysteria2"} PROVE p.transport = "none"
  <2>1. o.protocol \notin {"vmess", "vless", "trojan"}
    BY <1>5
  <2>2. p.transport = IF o.protocol \in {"vmess", "vless", "trojan"} THEN U!BuildTransport(o) ELSE "none"
    BY DEF U!OutboundConfig
  <2> QED
    BY <2>1, <2>2
<1>6. o.protocol = "shadowsocks" => p.tls = U!Absent
  BY DEF U!OutboundConfig
<1> QED
  BY <1>1, <1>2, <1>3, <1>4, <1>5, <1>6

\* No configuration is built at first.
LEMMA BuildInit == Init => BuildInv
  BY DEF Init, BuildInv

\* A step keeps output and input together.
LEMMA BuildStep == ASSUME Stages, BuildInv, [Next]_vars PROVE BuildInv'
<1>1. call' = "build" => CallBuild \/ UNCHANGED vars
  BY OwnSteps
<1>2. call' = "wireguard" => CallBuildWireGuard \/ UNCHANGED vars
  BY OwnSteps
<1>3. CASE UNCHANGED vars
  BY <1>3 DEF BuildInv
<1>4. CASE CallBuild
  BY <1>4, AlgorithmsAssumption DEF BuildInv, CallBuild, Returns
<1>5. CASE CallBuildWireGuard
  BY <1>5 DEF BuildInv, CallBuildWireGuard, Returns
<1>6. CASE call' \notin {"build", "wireguard"}
  BY <1>6 DEF BuildInv
<1> QED
  BY <1>1, <1>2, <1>3, <1>4, <1>5, <1>6

\* Output made of the input is faithful to it.
LEMMA BuildFaithful == ASSUME BuildInv PROVE OutboundFaithful
<1>1. ASSUME Done("build"), output # U!Refused
      PROVE  LET p == output.proxy
             IN /\ p.type = Protocol(input)
                /\ p.server \in {input.host, U!Bare(input.host)}
                /\ p.type \notin {"shadowsocks", "vmess"} => p.server = U!Bare(input.host)
                /\ input.ported /\ p.port = input.port
                /\ p.type # "shadowsocks" => p.port # 0
                /\ p.flow \in {"", "xtls-rprx-vision"}
                /\ p.type # "vless" \/ input.tls # "reality" =>
                     (p.tls.enabled <=> \/ p.type \in {"trojan", "tuic", "hysteria2"}
                                        \/ p.type \in {"vmess", "vless"} /\ input.tls = "tls")
                /\ p.type \in {"tuic", "hysteria2"} =>
                     /\ p.tls.insecure => input.insecure
                     /\ p.tls.alpn # "" /\ p.transport = "none"
                /\ p.tls.enabled /\ input.sni # "" => p.tls.serverName = input.sni
  <2> DEFINE o == U!Parse(input)
             p == output.proxy
  <2>1. input \in U!Uri /\ o # U!Refused /\ output = U!BuildConfig(o)
    BY <1>1 DEF BuildInv, Done
  <2>2. /\ input.scheme # "hysteria"
        /\ o.protocol = Protocol(input) /\ input.ported /\ o.port = input.port
        /\ input.scheme \in {"ss", "vmess"} => o.server = input.host
        /\ input.scheme \notin {"ss", "vmess"} => o.server = U!Bare(input.host)
        /\ input.scheme # "ss" => o.sni = input.sni
        /\ input.port = 0 => input.scheme = "ss"
        /\ o.flow \in {"", "xtls-rprx-vision"}
        /\ o.tls \in BOOLEAN /\ o.skip \in BOOLEAN
        /\ o.tls = TlsAsked(input)
        /\ input.scheme \in {"tuic", "hysteria2", "hy2"} => o.skip = input.insecure
    BY <2>1, Parsed
  <2> HIDE DEF o
  <2>3. p = U!OutboundConfig(o)
    BY <2>1 DEF U!BuildConfig
  <2>4. /\ p.type = o.protocol /\ p.server = o.server /\ p.port = o.port /\ p.flow = o.flow
        /\ o.protocol \in {"vmess", "vless"} => p.tls = U!BuildTLS(o)
        /\ o.protocol = "trojan" /\ U!BuildTLS(o).enabled => p.tls = U!BuildTLS(o)
        /\ o.protocol \in {"tuic", "hysteria2"} =>
             p.tls = U!TlsOrDefault(o, "h3") /\ p.transport = "none"
        /\ o.protocol = "shadowsocks" => p.tls = U!Absent
    BY <2>3, Blocks
  <2> HIDE DEF p
  <2>5. /\ o.tls => U!BuildTLS(o).enabled = TRUE /\ U!BuildTLS(o).insecure = o.skip
        /\ o.tls /\ o.sni # "" => U!BuildTLS(o).serverName = o.sni
        /\ ~o.tls => U!BuildTLS(o).enabled = FALSE
    BY DEF U!BuildTLS, U!Absent
  <2>6. o.tls => /\ U!TlsOrDefault(o, "h3").enabled = TRUE
                 /\ U!TlsOrDefault(o, "h3").insecure = o.skip
                 /\ U!TlsOrDefault(o, "h3").alpn # ""
                 /\ o.sni # "" => U!TlsOrDefault(o, "h3").serverName = o.sni
    BY DEF U!TlsOrDefault, U!BuildTLS
  <2>7. input.scheme \in U!Schemes
    BY <2>1 DEF U!Uri
  <2>8. /\ p.type = Protocol(input)
        /\ input.ported /\ p.port = input.port
        /\ p.type # "shadowsocks" => p.port # 0
        /\ p.flow \in {"", "xtls-rprx-vision"}
    BY <2>2, <2>4 DEF Protocol
  <2>11. /\ p.server \in {input.host, U!Bare(input.host)}
         /\ p.type \notin {"shadowsocks", "vmess"} => p.server = U!Bare(input.host)
    <3>1. p.type \notin {"shadowsocks", "vmess"} => input.scheme \notin {"ss", "vmess"}
      BY <2>8 DEF Protocol
    <3> QED
      BY <2>2, <2>4, <3>1
  <2> DEFINE Asked == \/ p.type \in {"trojan", "tuic", "hysteria2"}
                      \/ p.type \in {"vmess", "vless"} /\ input.tls = "tls"
                      \/ p.type = "vless" /\ input.tls = "reality"
  <2>9. /\ p.type # "vless" \/ input.tls # "reality" =>
             (p.tls.enabled <=> \/ p.type \in {"trojan", "tuic", "hysteria2"}
                                \/ p.type \in {"vmess", "vless"} /\ input.tls = "tls")
        /\ p.tls.enabled /\ input.sni # "" => p.tls.serverName = input.sni
    <3>1. CASE input.scheme = "ss"
      <4>1. p.type = "shadowsocks" /\ p.tls.enabled = FALSE
        <5>1. p.type = "shadowsocks" /\ o.protocol = "shadowsocks"
          BY <2>2, <2>8, <3>1 DEF Protocol
        <5> QED
          BY <2>4, <5>1 DEF U!Absent
      <4> QED
        BY <4>1
    <3>2. CASE input.scheme \in {"vmess", "vless"}
      <4>1. p.tls = U!BuildTLS(o) /\ p.type = input.scheme
        BY <2>2, <2>8, <2>4, <3>2 DEF Protocol
      <4>2. o.tls <=> Asked
        BY <2>2, <3>2, <4>1 DEF TlsAsked
      <4> QED
        BY <2>2, <2>5, <3>2, <4>1, <4>2
    <3>3. CASE input.scheme = "trojan"
      <4>1. o.tls = TRUE /\ p.type = "trojan" /\ p.tls = U!BuildTLS(o)
        BY <2>2, <2>5, <2>8, <2>4, <3>3 DEF Protocol, TlsAsked
      <4> QED
        BY <2>2, <2>5, <3>3, <4>1
    <3>4. CASE input.scheme \in {"tuic", "hysteria2", "hy2"}
      <4>1. o.tls = TRUE /\ p.type \in {"tuic", "hysteria2"} /\ p.tls = U!TlsOrDefault(o, "h3")
        BY <2>2, <2>8, <2>4, <3>4 DEF Protocol, TlsAsked
      <4> QED
        BY <2>2, <2>6, <3>4, <4>1
    <3> QED
      BY <2>2, <2>7, <3>1, <3>2, <3>3, <3>4 DEF U!Schemes
  <2>10. p.type \in {"tuic", "hysteria2"} =>
           /\ p.tls.insecure => input.insecure
           /\ p.tls.alpn # "" /\ p.transport = "none"
    <3> SUFFICES ASSUME p.type \in {"tuic", "hysteria2"}
                 PROVE  /\ p.tls.insecure => input.insecure
                        /\ p.tls.alpn # "" /\ p.transport = "none"
      OBVIOUS
    <3>1. input.scheme \in {"tuic", "hysteria2", "hy2"}
      BY <2>7, <2>8 DEF Protocol, U!Schemes
    <3>2. o.tls = TRUE /\ o.protocol \in {"tuic", "hysteria2"}
      BY <2>2, <3>1 DEF Protocol, TlsAsked
    <3> QED
      BY <2>2, <2>6, <2>4, <3>1, <3>2
  <2> QED
    BY <2>3, <2>8, <2>9, <2>10, <2>11 DEF p
<1>2. ASSUME Done("wireguard"), output # U!Refused
      PROVE  input.key /\ input.peer
  BY <1>2 DEF BuildInv, Done, U!BuildWireGuardConfig
<1> QED
  BY <1>1, <1>2 DEF OutboundFaithful, Protocol

-----------------------------------------------------------------------------
\* ss-aggregator: fetchSource.

\* src goes on with index e after its k, for the indexes S and e of T.
GoesOn(src, k, T, S, e) ==
    \E t \in [1 .. k + 1 -> T] :
      /\ Picks(t, S \cup {e}) /\ t[k + 1] = e
      /\ \A i \in 1 .. k : t[i] = src[i]

\* One more element is made from an index beyond those of the others.
LEMMA PickNext ==
    ASSUME NEW k \in Nat, NEW T, T \subseteq Nat, NEW src \in [1 .. k -> T], NEW S,
           NEW e \in T, Picks(src, S), \A s \in S : s < e
    PROVE  GoesOn(src, k, T, S, e)
<1> DEFINE t == [i \in 1 .. k + 1 |-> IF i = k + 1 THEN e ELSE src[i]]
<1>1. t \in [1 .. k + 1 -> T]
  OBVIOUS
<1>2. t[k + 1] = e /\ \A i \in 1 .. k : t[i] = src[i]
  OBVIOUS
<1>3. \A i \in 1 .. k : src[i] \in S /\ src[i] \in Nat
  BY DEF Picks
<1>4. DOMAIN t = 1 .. k + 1 /\ DOMAIN src = 1 .. k /\ e \in Nat
  OBVIOUS
<1> HIDE DEF t
<1>5. \A i, j \in 1 .. k + 1 : i < j => t[i] < t[j]
  <2> SUFFICES ASSUME NEW i \in 1 .. k + 1, NEW j \in 1 .. k + 1, i < j PROVE t[i] < t[j]
    OBVIOUS
  <2>1. CASE j = k + 1
    <3>1. i \in 1 .. k
      BY <2>1
    <3> QED
      BY <1>2, <1>3, <2>1, <3>1
  <2>2. CASE j # k + 1
    <3>1. i \in 1 .. k /\ j \in 1 .. k
      BY <2>2
    <3> QED
      BY <1>2, <1>4, <3>1 DEF Picks
  <2> QED
    BY <2>1, <2>2
<1>6. {t[i] : i \in 1 .. k + 1} = S \cup {e}
  <2>1. {src[i] : i \in 1 .. k} = S
    BY <1>4 DEF Picks
  <2>2. ASSUME NEW x \in S \cup {e} PROVE \E i \in 1 .. k + 1 : t[i] = x
    <3>1. CASE x = e
      BY <1>2, <3>1
    <3>2. CASE x \in S
      <4>1. PICK i \in 1 .. k : src[i] = x
        BY <2>1, <3>2
      <4> QED
        BY <1>2, <4>1
    <3> QED
      BY <3>1, <3>2
  <2>3. ASSUME NEW i \in 1 .. k + 1 PROVE t[i] \in S \cup {e}
    <3>1. CASE i = k + 1
      BY <1>2, <3>1
    <3>2. CASE i # k + 1
      <4>1. i \in 1 .. k
        BY <3>2
      <4> QED
        BY <1>2, <1>3, <4>1
    <3> QED
      BY <3>1, <3>2
  <2> QED
    BY <2>2, <2>3
<1>7. Picks(t, S \cup {e})
  BY <1>4, <1>5, <1>6 DEF Picks
<1> QED
  BY <1>1, <1>2, <1>7 DEF GoesOn

\* No elements are made of no indexes.
LEMMA PickNone == ASSUME NEW T PROVE \E src \in [{} -> T] : DOMAIN src = {} /\ Picks(src, {})
<1> DEFINE src == [i \in {} |-> i]
<1>1. src \in [{} -> T] /\ DOMAIN src = {}
  OBVIOUS
<1> QED
  BY <1>1 DEF Picks

\* What Append does, element by element.
LEMMA AppendAt ==
    ASSUME NEW S, NEW q \in Seq(S), NEW x \in S
    PROVE  /\ Append(q, x) \in Seq(S) /\ DOMAIN q = 1 .. Len(q)
           /\ DOMAIN Append(q, x) = 1 .. Len(q) + 1
           /\ \A i \in 1 .. Len(q) : Append(q, x)[i] = q[i]
           /\ Append(q, x)[Len(q) + 1] = x
  OBVIOUS

-----------------------------------------------------------------------------
\* q has the URIs of the first n lines of the text.
FromText(q, text, n) ==
    \E src \in [DOMAIN q -> DOMAIN text] :
      /\ Picks(src, {i \in 1 .. n : C!IsUri(text[i])})
      /\ \A i \in DOMAIN q : q[i] = text[src[i]]

\* What a text is made of.
Line == STRING \cup {"stump", "blob"}

\* The loop has kept the URIs of the lines that it has passed, and ends only
\* with the text or at a line that is too long.
SourceInv ==
    call = "source" =>
      /\ input \in Body /\ at \in 0 .. Len(C!Text(input))
      /\ pc = "loop" => work \in Seq(Line) /\ FromText(work, C!Text(input), at)
      /\ pc = "done" =>
           /\ FromText(output, C!Text(input), at)
           /\ at < Len(C!Text(input)) => C!Text(input)[at + 1] = "long"

\* A sequence of strings cut to count of them, and those beyond limit lost
\* but for what is left of them.
LEMMA CutIs ==
    ASSUME NEW lines \in Seq(Line), NEW limit \in Nat, NEW count \in Nat, count <= Len(lines),
           NEW left \in Line, NEW text,
           text = [i \in 1 .. count |-> IF i <= limit THEN lines[i] ELSE left]
    PROVE  /\ text \in Seq(Line) /\ DOMAIN text = 1 .. count
           /\ DOMAIN lines = 1 .. Len(lines)
           /\ \A i \in 1 .. count : /\ i <= limit => text[i] = lines[i]
                                    /\ i > limit => text[i] = left
<1>1. text \in [1 .. count -> Line]
  <2>1. \A i \in 1 .. count : lines[i] \in Line
    OBVIOUS
  <2> QED
    BY <2>1
<1>2. text \in Seq(Line)
  BY <1>1, SeqDef
<1>3. DOMAIN text = 1 .. count /\ DOMAIN lines = 1 .. Len(lines)
  BY <1>1
<1>4. \A i \in 1 .. count : /\ i <= limit => text[i] = lines[i]
                           /\ i > limit => text[i] = left
  <2> SUFFICES ASSUME NEW i \in 1 .. count
               PROVE  /\ i <= limit => text[i] = lines[i]
                      /\ i > limit => text[i] = left
    OBVIOUS
  <2>1. text[i] = IF i <= limit THEN lines[i] ELSE left
    OBVIOUS
  <2>2. i > limit => ~(i <= limit)
    OBVIOUS
  <2> QED
    BY <2>1, <2>2
<1> QED
  BY <1>2, <1>3, <1>4

\* What the limit lets through: the lines within it and perhaps the beginning
\* of the next, if that is a URI.
LEMMA ArrivedIs ==
    ASSUME NEW body \in Body
    PROVE  LET text == C!Arrived(body)
           IN /\ text \in Seq(Line) /\ DOMAIN text \subseteq DOMAIN body.lines
              /\ \A i \in DOMAIN text :
                   /\ i <= body.limit => text[i] = body.lines[i]
                   /\ i > body.limit => text[i] = "stump" /\ body.lines[i] \in C!Schemes
              /\ \A i \in DOMAIN body.lines : i <= body.limit => i \in DOMAIN text
<1> DEFINE stumped == C!Stumped(body)
           count == IF Len(body.lines) <= body.limit THEN Len(body.lines)
                    ELSE body.limit + IF stumped THEN 1 ELSE 0
<1>1. PICK lines \in Seq(Line), limit \in Nat, left \in Line :
        lines = body.lines /\ limit = body.limit /\ left = "stump"
  <2>1. body.lines \in Seq(STRING \ {"stump"}) /\ body.limit \in Nat
    BY DEF Body
  <2>2. body.lines \in Seq(Line)
    <3>1. STRING \ {"stump"} \subseteq Line
      BY DEF Line
    <3> QED
      BY <2>1, <3>1, SeqMonotonic
  <2>3. "stump" \in Line
    BY DEF Line
  <2> QED
    BY <2>1, <2>2, <2>3
<1>2. stumped => limit < Len(lines) /\ lines[limit + 1] \in C!Schemes
  BY <1>1 DEF C!Stumped
<1> HIDE DEF stumped
<1>3. /\ count \in Nat /\ count <= Len(lines)
      /\ \A i \in 1 .. count : i > limit => i = limit + 1 /\ stumped
      /\ \A i \in 1 .. Len(lines) : i <= limit => i \in 1 .. count
  BY <1>1, <1>2
<1>4. C!Arrived(body) = [i \in 1 .. count |-> IF i <= limit THEN lines[i] ELSE left]
  BY <1>1 DEF C!Arrived, stumped
<1> HIDE DEF count
<1>5. PICK text : text = C!Arrived(body)
  OBVIOUS
<1>6. /\ text \in Seq(Line) /\ DOMAIN text = 1 .. count
      /\ DOMAIN lines = 1 .. Len(lines)
      /\ \A i \in 1 .. count : /\ i <= limit => text[i] = lines[i]
                               /\ i > limit => text[i] = left
  BY <1>3, <1>4, <1>5, CutIs
<1>7. \A i \in 1 .. count : i \in 1 .. Len(lines)
  BY <1>3
<1>8. \A i \in 1 .. count : i > limit => lines[i] \in C!Schemes
  BY <1>2, <1>3
<1> QED
  BY <1>1, <1>3, <1>5, <1>6, <1>7, <1>8

\* The text is what the limit lets through, unless that is wrapped and does
\* not decode.
LEMMA TextIs ==
    ASSUME NEW body \in Body
    PROVE  /\ body.form # "bad" => C!Text(body) = C!Arrived(body)
           /\ body.form = "bad" => C!Text(body) = <<"blob">>
           /\ C!Text(body) \in Seq(Line)
<1>1. ~C!StartsWithUri(<<"blob">>)
  BY DEF C!StartsWithUri, C!IsUri, C!Schemes
<1>2. body.form \in {"plain", "blob", "bad"}
  BY DEF Body
<1>3. /\ body.form # "bad" => C!Text(body) = C!Arrived(body)
      /\ body.form = "bad" => C!Text(body) = <<"blob">>
  BY <1>1, <1>2 DEF C!Text, C!Raw
<1>4. C!Arrived(body) \in Seq(Line)
  BY ArrivedIs
<1>5. PICK blob \in Line : blob = "blob"
  BY DEF Line
<1>6. <<blob>> \in Seq(Line)
  <2>1. <<blob>> \in [1 .. 1 -> Line]
    OBVIOUS
  <2> QED
    BY <2>1, SeqDef
<1> QED
  BY <1>3, <1>4, <1>5, <1>6

\* One more line is passed.
LEMMA LineTaken ==
    ASSUME NEW text \in Seq(Line), NEW q \in Seq(Line), NEW n \in Nat, n < Len(text),
           FromText(q, text, n)
    PROVE  /\ C!TakeLine(q, text[n + 1]) \in Seq(Line)
           /\ FromText(C!TakeLine(q, text[n + 1]), text, n + 1)
<1> DEFINE line == text[n + 1]
           uris(m) == {i \in 1 .. m : C!IsUri(text[i])}
<1>1. text \in Seq(Line) /\ DOMAIN text = 1 .. Len(text) /\ n + 1 \in DOMAIN text
  OBVIOUS
<1>2. line \in Line
  BY <1>1
<1>3. PICK src \in [DOMAIN q -> DOMAIN text] :
        Picks(src, uris(n)) /\ \A i \in DOMAIN q : q[i] = text[src[i]]
  BY DEF FromText
<1>4. CASE C!IsUri(line)
  <2> DEFINE q2 == Append(q, line)
  <2>1. C!TakeLine(q, line) = q2
    BY <1>4 DEF C!TakeLine
  <2>2. /\ q2 \in Seq(Line) /\ DOMAIN q = 1 .. Len(q) /\ DOMAIN q2 = 1 .. Len(q) + 1
        /\ \A i \in 1 .. Len(q) : q2[i] = q[i]
        /\ q2[Len(q) + 1] = line
    BY <1>2, AppendAt
  <2>3. uris(n + 1) = uris(n) \cup {n + 1}
    BY <1>4
  <2>4. \A s \in uris(n) : s < n + 1
    OBVIOUS
  <2> HIDE DEF uris, q2
  <2>5. Len(q) \in Nat /\ DOMAIN text \subseteq Nat
    BY <1>1
  <2>6. PICK t \in [1 .. Len(q) + 1 -> DOMAIN text] :
          /\ Picks(t, uris(n) \cup {n + 1}) /\ t[Len(q) + 1] = n + 1
          /\ \A i \in 1 .. Len(q) : t[i] = src[i]
    <3> DEFINE T == DOMAIN text
               e == n + 1
               S == uris(n)
               k == Len(q)
    <3>1. k \in Nat /\ T \subseteq Nat /\ e \in T /\ src \in [1 .. k -> T]
      BY <1>1, <2>2, <2>5
    <3>2. Picks(src, S) /\ \A s \in S : s < e
      BY <1>3, <2>4
    <3> HIDE DEF T, e, S, k
    <3>3. GoesOn(src, k, T, S, e)
      BY <3>1, <3>2, PickNext
    <3> QED
      BY <3>3 DEF GoesOn, T, e, S, k
  <2>7. \A i \in DOMAIN q2 : q2[i] = text[t[i]]
    <3> SUFFICES ASSUME NEW i \in 1 .. Len(q) + 1 PROVE q2[i] = text[t[i]]
      BY <2>2
    <3>1. CASE i = Len(q) + 1
      BY <2>2, <2>6, <3>1
    <3>2. CASE i # Len(q) + 1
      <4>1. i \in 1 .. Len(q)
        BY <2>5, <3>2
      <4> QED
        BY <1>3, <2>2, <2>6, <4>1
    <3> QED
      BY <3>1, <3>2
  <2>8. FromText(q2, text, n + 1)
    BY <2>2, <2>3, <2>6, <2>7 DEF FromText, uris
  <2> QED
    BY <2>1, <2>2, <2>8
<1>5. CASE ~C!IsUri(line)
  <2>1. C!TakeLine(q, line) = q
    BY <1>5 DEF C!TakeLine
  <2>2. uris(n + 1) = uris(n)
    BY <1>5
  <2> HIDE DEF uris
  <2>3. FromText(q, text, n + 1)
    BY <1>3, <2>2 DEF FromText, uris
  <2> QED
    BY <2>1, <2>3
<1> QED
  BY <1>4, <1>5

\* No source is read at first.
LEMMA SourceInit == Init => SourceInv
  BY DEF Init, SourceInv

\* Each turn passes one line.
LEMMA SourceStep == ASSUME Stages, SourceInv, [Next]_vars PROVE SourceInv'
<1>1. call' = "source" => ReadSource \/ UNCHANGED vars
  BY OwnSteps
<1>2. CASE UNCHANGED vars
  BY <1>2 DEF SourceInv
<1>3. CASE call' # "source"
  BY <1>3 DEF SourceInv
<1>4. CASE CallSource
  <2>1. PICK body \in Bodies : Begin("source", body, <<>>)
    BY <1>4 DEF CallSource
  <2>2. input' = body /\ pc' = "loop" /\ work' = <<>> /\ at' = 0 /\ body \in Body
    BY <1>4, <2>1, AlgorithmsAssumption DEF CallSource, Begin, Stages
  <2>3. FromText(<<>>, C!Text(body), 0)
    <3>1. {i \in 1 .. 0 : C!IsUri(C!Text(body)[i])} = {} /\ DOMAIN <<>> = {}
      OBVIOUS
    <3> QED
      BY <3>1, PickNone DEF FromText
  <2>4. 0 \in 0 .. Len(C!Text(body)) /\ <<>> \in Seq(Line)
    BY <2>2, TextIs
  <2> QED
    BY <2>2, <2>3, <2>4 DEF SourceInv
<1> DEFINE text == C!Text(input)
<1>5. ASSUME call = "source", pc = "loop"
      PROVE  /\ input \in Body /\ text \in Seq(Line) /\ Len(text) \in Nat /\ at \in 0 .. Len(text)
             /\ work \in Seq(Line) /\ FromText(work, text, at)
  <2>1. input \in Body /\ at \in 0 .. Len(text) /\ work \in Seq(Line) /\ FromText(work, text, at)
    BY <1>5 DEF SourceInv
  <2>2. text \in Seq(Line)
    BY <2>1, TextIs
  <2> QED
    BY <2>1, <2>2
<1>6. CASE SourceLine
  <2>1. /\ call = "source" /\ pc = "loop" /\ at < Len(text) /\ at' = at + 1
        /\ work' = C!TakeLine(work, text[at + 1]) /\ input' = input /\ pc' = "loop"
    BY <1>6 DEF SourceLine, Turn
  <2> HIDE DEF text
  <2>2. work' \in Seq(Line) /\ FromText(work', text, at + 1)
    BY <1>5, <2>1, LineTaken
  <2>3. at + 1 \in 0 .. Len(text)
    BY <1>5, <2>1
  <2> QED
    BY <1>5, <2>1, <2>2, <2>3 DEF SourceInv, text
<1>7. CASE SourceStops
  <2>1. /\ call = "source" /\ pc = "loop" /\ text[at + 1] = "long"
        /\ output' = work /\ input' = input /\ pc' = "done" /\ at' = at
    BY <1>7 DEF SourceStops, Returns
  <2> QED
    BY <1>5, <2>1 DEF SourceInv
<1>8. CASE SourceRead
  <2>1. /\ call = "source" /\ pc = "loop" /\ at = Len(text) /\ at' = at
        /\ output' = work /\ input' = input /\ pc' = "done"
    BY <1>8 DEF SourceRead, Over, Returns
  <2> QED
    BY <1>5, <2>1 DEF SourceInv
<1> QED
  BY <1>1, <1>2, <1>3, <1>4, <1>6, <1>7, <1>8 DEF ReadSource

\* What the loop has passed when it ends holds all that the limits let through.
LEMMA SourceKept == ASSUME SourceInv PROVE SourceKeepsUris
<1> SUFFICES ASSUME Done("source") PROVE
      \E kept \in SUBSET UriLines(input) : \E src \in [DOMAIN output -> DOMAIN input.lines] :
        /\ Picks(src, kept)
        /\ input.form # "bad" => UriLines(input) \cap Reached(input) \subseteq kept
        /\ \A i \in DOMAIN output :
             output[i] = IF src[i] <= input.limit THEN input.lines[src[i]] ELSE "stump"
  BY DEF SourceKeepsUris
<1> DEFINE text == C!Text(input)
           kept == {i \in 1 .. at : C!IsUri(text[i])}
<1>1. /\ input \in Body /\ at \in 0 .. Len(text) /\ FromText(output, text, at)
      /\ at < Len(text) => text[at + 1] = "long"
  BY DEF SourceInv, Done
<1>2. PICK src \in [DOMAIN output -> DOMAIN text] :
        Picks(src, kept) /\ \A i \in DOMAIN output : output[i] = text[src[i]]
  BY <1>1 DEF FromText
<1>3. CASE input.form = "bad"
  <2>1. text = <<"blob">>
    BY <1>1, <1>3, TextIs
  <2>2. kept = {}
    <3>1. \A i \in 1 .. at : text[i] = "blob"
      BY <1>1, <2>1
    <3> QED
      BY <3>1 DEF C!IsUri, C!Schemes
  <2> HIDE DEF kept
  <2>3. DOMAIN output = {}
    BY <1>2, <2>2 DEF Picks
  <2>4. PICK none \in [{} -> DOMAIN input.lines] : Picks(none, {})
    BY PickNone
  <2> QED
    BY <1>3, <2>3, <2>4
<1>4. CASE input.form # "bad"
  <2>1. text = C!Arrived(input)
    BY <1>1, <1>4, TextIs
  <2>2. /\ text \in Seq(Line) /\ DOMAIN text \subseteq DOMAIN input.lines
        /\ \A i \in DOMAIN text :
             /\ i <= input.limit => text[i] = input.lines[i]
             /\ i > input.limit => text[i] = "stump" /\ input.lines[i] \in C!Schemes
        /\ \A i \in DOMAIN input.lines : i <= input.limit => i \in DOMAIN text
    BY <1>1, <2>1, ArrivedIs
  <2>3. input.limit \in Nat /\ input.lines \in Seq(STRING \ {"stump"})
    BY <1>1 DEF Body
  <2> HIDE DEF text
  <2>4. DOMAIN text = 1 .. Len(text) /\ Len(text) \in Nat
    BY <2>2
  <2>5. kept \subseteq UriLines(input)
    <3> SUFFICES ASSUME NEW i \in 1 .. at, C!IsUri(text[i])
                 PROVE  i \in DOMAIN input.lines /\ input.lines[i] \in C!Schemes
      BY DEF UriLines
    <3>1. i \in DOMAIN text /\ i \in DOMAIN input.lines /\ i \in Nat
      BY <1>1, <2>2, <2>4
    <3>2. input.lines[i] # "stump"
      BY <2>3, <3>1
    <3> QED
      BY <2>2, <2>3, <3>1, <3>2 DEF C!IsUri
  <2>6. UriLines(input) \cap Reached(input) \subseteq kept
    <3> SUFFICES ASSUME NEW i \in DOMAIN input.lines, input.lines[i] \in C!Schemes,
                        i <= input.limit, \A k \in 1 .. i : input.lines[k] # "long"
                 PROVE  i \in 1 .. at /\ C!IsUri(text[i])
      BY DEF UriLines, Reached
    <3>1. i \in 1 .. Len(text) /\ text[i] = input.lines[i]
      BY <2>2, <2>4
    <3>2. i <= at
      <4> SUFFICES ASSUME at < i PROVE FALSE
        BY <1>1, <3>1
      <4>1. at + 1 \in 1 .. i /\ at + 1 \in DOMAIN text /\ at + 1 <= input.limit /\ at < Len(text)
        BY <1>1, <2>3, <2>4, <3>1
      <4> QED
        BY <1>1, <2>2, <4>1
    <3> QED
      BY <1>1, <3>1, <3>2 DEF C!IsUri
  <2>7. \A i \in DOMAIN output :
          output[i] = IF src[i] <= input.limit THEN input.lines[src[i]] ELSE "stump"
    <3> SUFFICES ASSUME NEW i \in DOMAIN output
                 PROVE  output[i] = IF src[i] <= input.limit THEN input.lines[src[i]] ELSE "stump"
      OBVIOUS
    <3>1. src[i] \in DOMAIN text /\ src[i] \in Nat /\ output[i] = text[src[i]]
      BY <1>2, <2>4
    <3> QED
      BY <2>2, <2>3, <3>1
  <2>8. src \in [DOMAIN output -> DOMAIN input.lines]
    BY <1>2, <2>2
  <2> HIDE DEF kept
  <2> QED
    BY <1>2, <2>5, <2>6, <2>7, <2>8
<1> QED
  BY <1>3, <1>4

-----------------------------------------------------------------------------
\* vpngate: parseVPNGateCSV.

\* q has the servers of the whole rows among the first n.
FromRows(q, table, n) ==
    \E src \in [DOMAIN q -> DOMAIN table.rows] :
      /\ Picks(src, {i \in 1 .. n : i \in Whole(table)})
      /\ \A i \in DOMAIN q : ServerOf(q[i], table.header, table.rows[src[i]])

\* What the rows of a table would give.
Servers(table) == {C!RowServer(table.header, table.rows[i]) : i \in DOMAIN table.rows}

\* The loop has made the servers of the rows that it has passed.
TableInv ==
    call = "table" =>
      /\ input \in Table /\ at \in 0 .. Len(input.rows)
      /\ input.sound /\ IsInjective(input.header) =>
           /\ pc = "loop" => work \in Seq(Servers(input)) /\ FromRows(work, input, at)
           /\ pc = "done" => FromRows(output, input, Len(input.rows))

\* The cell that the code reads is the only one under its name.
LEMMA CellIs ==
    ASSUME NEW header \in Seq(STRING), NEW row \in Seq(STRING), IsInjective(header), NEW name
    PROVE  /\ IsCell(C!Cell(header, row, name), header, row, name)
           /\ \A x \in Under(header, row, name) : x = C!Cell(header, row, name)
<1> DEFINE c == C!Column(header, name)
           cell == C!Cell(header, row, name)
<1>1. DOMAIN header = 1 .. Len(header) /\ DOMAIN row = 1 .. Len(row) /\ Len(row) \in Nat
  OBVIOUS
<1>2. cell = IF c = 0 \/ c > Len(row) THEN "" ELSE row[c]
  BY DEF C!Cell
<1>3. CASE \A i \in DOMAIN header : header[i] # name
  <2>1. c = 0
    BY <1>3 DEF C!Column
  <2>2. Under(header, row, name) = {}
    BY <1>3 DEF Under
  <2>3. cell = ""
    BY <1>2, <2>1
  <2> HIDE DEF c, cell
  <2> QED
    BY <2>2, <2>3 DEF IsCell, cell
<1>4. CASE \E i \in DOMAIN header : header[i] = name
  <2>1. PICK i \in DOMAIN header : header[i] = name
    BY <1>4
  <2>2. \A k \in DOMAIN header : header[k] = name => k = i
    BY <2>1 DEF IsInjective
  <2>3. c = CHOOSE k \in DOMAIN header :
              header[k] = name /\ \A l \in DOMAIN header : header[l] = name => l <= k
    BY <1>4 DEF C!Column
  <2>4. \A l \in DOMAIN header : header[l] = name => l <= i
    BY <1>1, <2>1, <2>2
  <2>5. c \in DOMAIN header /\ header[c] = name
    BY <2>1, <2>3, <2>4
  <2>6. c = i /\ i \in 1 .. Len(header) /\ i # 0
    BY <1>1, <2>2, <2>5
  <2> HIDE DEF c, cell
  <2>7. CASE i \in DOMAIN row
    <3>1. cell = row[i]
      <4>1. c = i /\ i \in 1 .. Len(row) /\ ~(i = 0 \/ i > Len(row))
        BY <1>1, <2>6, <2>7
      <4> QED
        BY <1>2, <4>1
    <3>2. {k \in DOMAIN row : k \in DOMAIN header /\ header[k] = name} = {i}
      BY <2>1, <2>2, <2>7
    <3>3. Under(header, row, name) = {row[i]}
      BY <3>2 DEF Under
    <3> QED
      BY <3>1, <3>3 DEF IsCell, cell
  <2>8. CASE i \notin DOMAIN row
    <3>1. cell = ""
      <4>1. c = i /\ i > Len(row)
        BY <1>1, <2>6, <2>8
      <4> QED
        BY <1>2, <4>1
    <3>2. {k \in DOMAIN row : k \in DOMAIN header /\ header[k] = name} = {}
      BY <2>2, <2>8
    <3>3. Under(header, row, name) = {}
      BY <3>2 DEF Under
    <3> QED
      BY <3>1, <3>3 DEF IsCell, cell
  <2> QED
    BY <2>7, <2>8
<1> QED
  BY <1>3, <1>4


\* The rows taken are those that came whole.
LEMMA TakenIsWhole ==
    ASSUME NEW table \in Table, IsInjective(table.header), NEW i \in DOMAIN table.rows
    PROVE  C!RowTaken(table.header, table.rows[i]) <=> i \in Whole(table)
<1> DEFINE h == table.header
           row == table.rows[i]
           x == C!Cell(h, row, "config")
<1>1. h \in Seq(STRING) /\ row \in Seq(STRING)
  BY DEF Table
<1>2. IsCell(x, h, row, "config") /\ \A y \in Under(h, row, "config") : y = x
  BY <1>1, CellIs
<1>3. i \in Whole(table) <=>
        Len(row) >= Len(h) /\ \E y \in Under(h, row, "config") : y \notin {"", "junk"}
  BY DEF Whole
<1>4. C!RowTaken(h, row) <=> Len(row) >= Len(h) /\ x \notin {"", "junk"}
  BY DEF C!RowTaken
<1> HIDE DEF h, row, x
<1>5. (\E y \in Under(h, row, "config") : y \notin {"", "junk"}) <=> x \notin {"", "junk"}
  BY <1>2 DEF IsCell
<1> QED
  BY <1>3, <1>4, <1>5 DEF h, row, x

\* The server of a row has its fields.
LEMMA RowGives ==
    ASSUME NEW header \in Seq(STRING), NEW row \in Seq(STRING), IsInjective(header)
    PROVE  ServerOf(C!RowServer(header, row), header, row)
<1> DEFINE host == C!Cell(header, row, "HostName")
           ip == C!Cell(header, row, "IP")
           cc == C!Cell(header, row, "CountryShort")
           config == C!Cell(header, row, "config")
           s == C!RowServer(header, row)
<1>1. /\ IsCell(host, header, row, "HostName") /\ IsCell(ip, header, row, "IP")
      /\ IsCell(cc, header, row, "CountryShort") /\ IsCell(config, header, row, "config")
  BY CellIs
<1>2. s = [id |-> IF host = "" THEN ip ELSE host, host |-> ip, country |-> cc, config |-> config]
  BY DEF C!RowServer
<1> HIDE DEF host, ip, cc, config, s
<1>3. /\ s.host = ip /\ s.country = cc /\ s.config = config
      /\ s.id = IF host = "" THEN ip ELSE host
  BY <1>2
<1>4. ServerOf(s, header, row)
  BY <1>1, <1>3 DEF ServerOf
<1> QED
  BY <1>4 DEF s

\* One more row is passed.
LEMMA RowRead ==
    ASSUME NEW table \in Table, IsInjective(table.header), NEW q \in Seq(Servers(table)), NEW n \in Nat,
           n < Len(table.rows), FromRows(q, table, n)
    PROVE  /\ C!TakeRow(q, table.header, table.rows[n + 1]) \in Seq(Servers(table))
           /\ FromRows(C!TakeRow(q, table.header, table.rows[n + 1]), table, n + 1)
<1> DEFINE h == table.header
           row == table.rows[n + 1]
           whole(m) == {i \in 1 .. m : i \in Whole(table)}
<1>1. /\ DOMAIN table.rows = 1 .. Len(table.rows) /\ n + 1 \in DOMAIN table.rows
      /\ h \in Seq(STRING) /\ row \in Seq(STRING)
  BY DEF Table
<1>2. C!RowTaken(h, row) <=> n + 1 \in Whole(table)
  BY <1>1, TakenIsWhole
<1>3. PICK src \in [DOMAIN q -> DOMAIN table.rows] :
        Picks(src, whole(n)) /\ \A i \in DOMAIN q : ServerOf(q[i], h, table.rows[src[i]])
  BY DEF FromRows
<1>4. CASE C!RowTaken(h, row)
  <2> DEFINE s == C!RowServer(h, row)
             q2 == Append(q, s)
  <2>1. C!TakeRow(q, h, row) = q2
    BY <1>4 DEF C!TakeRow
  <2>2. s \in Servers(table) /\ ServerOf(s, h, row)
    BY <1>1, RowGives DEF Servers
  <2> HIDE DEF s
  <2>3. /\ q2 \in Seq(Servers(table)) /\ DOMAIN q = 1 .. Len(q) /\ DOMAIN q2 = 1 .. Len(q) + 1
        /\ \A i \in 1 .. Len(q) : q2[i] = q[i]
        /\ q2[Len(q) + 1] = s
    BY <2>2, AppendAt
  <2>4. whole(n + 1) = whole(n) \cup {n + 1}
    BY <1>2, <1>4
  <2>5. \A k \in whole(n) : k < n + 1
    OBVIOUS
  <2> HIDE DEF whole, q2
  <2>6. Len(q) \in Nat /\ DOMAIN table.rows \subseteq Nat
    BY <1>1
  <2>7. PICK t \in [1 .. Len(q) + 1 -> DOMAIN table.rows] :
          /\ Picks(t, whole(n) \cup {n + 1}) /\ t[Len(q) + 1] = n + 1
          /\ \A i \in 1 .. Len(q) : t[i] = src[i]
    <3> DEFINE T == DOMAIN table.rows
               e == n + 1
               S == whole(n)
               k == Len(q)
    <3>1. k \in Nat /\ T \subseteq Nat /\ e \in T /\ src \in [1 .. k -> T]
      BY <1>1, <2>3, <2>6
    <3>2. Picks(src, S) /\ \A m \in S : m < e
      BY <1>3, <2>5
    <3> HIDE DEF T, e, S, k
    <3>3. GoesOn(src, k, T, S, e)
      BY <3>1, <3>2, PickNext
    <3> QED
      BY <3>3 DEF GoesOn, T, e, S, k
  <2>8. \A i \in DOMAIN q2 : ServerOf(q2[i], h, table.rows[t[i]])
    <3> SUFFICES ASSUME NEW i \in 1 .. Len(q) + 1 PROVE ServerOf(q2[i], h, table.rows[t[i]])
      BY <2>3
    <3>1. CASE i = Len(q) + 1
      BY <2>2, <2>3, <2>7, <3>1
    <3>2. CASE i # Len(q) + 1
      <4>1. i \in 1 .. Len(q)
        BY <2>6, <3>2
      <4> QED
        BY <1>3, <2>3, <2>7, <4>1
    <3> QED
      BY <3>1, <3>2
  <2>9. FromRows(q2, table, n + 1)
    BY <2>3, <2>4, <2>7, <2>8 DEF FromRows, whole
  <2> QED
    BY <2>1, <2>3, <2>9
<1>5. CASE ~C!RowTaken(h, row)
  <2>1. C!TakeRow(q, h, row) = q
    BY <1>5 DEF C!TakeRow
  <2>2. whole(n + 1) = whole(n)
    BY <1>2, <1>5
  <2> HIDE DEF whole
  <2>3. FromRows(q, table, n + 1)
    BY <1>3, <2>2 DEF FromRows, whole
  <2> QED
    BY <2>1, <2>3
<1> QED
  BY <1>4, <1>5

\* No table is read at first.
LEMMA TableInit == Init => TableInv
  BY DEF Init, TableInv

\* Each turn passes one row.
LEMMA TableStep == ASSUME Stages, TableInv, [Next]_vars PROVE TableInv'
<1>1. call' = "table" => ReadTable \/ UNCHANGED vars
  BY OwnSteps
<1>2. CASE UNCHANGED vars
  BY <1>2 DEF TableInv
<1>3. CASE call' # "table"
  BY <1>3 DEF TableInv
<1>4. CASE CallTable
  <2>1. PICK t \in Tables : t.sound /\ t.rows # <<>> /\ Begin("table", t, <<>>)
    BY <1>4 DEF CallTable
  <2>2. /\ input' = t /\ pc' = "loop" /\ work' = <<>> /\ at' = 0
        /\ t \in Table /\ t.rows \in Seq(Seq(STRING))
    BY <1>4, <2>1, AlgorithmsAssumption DEF CallTable, Begin, Stages, Table
  <2>3. FromRows(<<>>, t, 0)
    <3>1. {i \in 1 .. 0 : i \in Whole(t)} = {} /\ DOMAIN <<>> = {}
      OBVIOUS
    <3> QED
      BY <3>1, PickNone DEF FromRows
  <2>4. 0 \in 0 .. Len(t.rows) /\ <<>> \in Seq(Servers(t))
    BY <2>2
  <2> QED
    BY <2>2, <2>3, <2>4 DEF TableInv
<1>5. CASE TableRow
  <2>1. /\ call = "table" /\ pc = "loop" /\ at < Len(input.rows) /\ at' = at + 1
        /\ work' = C!TakeRow(work, input.header, input.rows[at + 1])
        /\ input' = input /\ pc' = "loop"
    BY <1>5 DEF TableRow, Turn
  <2>2. input \in Table /\ at \in Nat
    BY <2>1 DEF TableInv
  <2>3. Len(input.rows) \in Nat /\ at + 1 \in 0 .. Len(input.rows)
    BY <2>1, <2>2 DEF Table
  <2>4. CASE input.sound /\ IsInjective(input.header)
    <3>1. work \in Seq(Servers(input)) /\ FromRows(work, input, at)
      BY <2>1, <2>4 DEF TableInv
    <3>2. work' \in Seq(Servers(input))
          /\ FromRows(C!TakeRow(work, input.header, input.rows[at + 1]), input, at + 1)
      BY <2>1, <2>2, <2>4, <3>1, RowRead
    <3> QED
      BY <2>1, <2>2, <2>3, <3>2 DEF TableInv
  <2>5. CASE ~(input.sound /\ IsInjective(input.header))
    BY <2>1, <2>2, <2>3, <2>5 DEF TableInv
  <2> QED
    BY <2>4, <2>5
<1>6. CASE TableRead
  <2>1. /\ call = "table" /\ pc = "loop" /\ at = Len(input.rows) /\ at' = at
        /\ output' = work /\ input' = input /\ pc' = "done"
    BY <1>6 DEF TableRead, Over, Returns
  <2> QED
    BY <2>1 DEF TableInv
<1>7. CASE TableFails
  <2>1. PICK t \in Tables : ~(t.sound /\ t.rows # <<>>) /\ input' = t
    BY <1>7 DEF TableFails
  <2>2. /\ input' = t /\ pc' = "done" /\ output' = <<>> /\ at' = 0
        /\ t \in Table /\ t.rows \in Seq(Seq(STRING))
    BY <1>7, <2>1, AlgorithmsAssumption DEF TableFails, Returns, Stages, Table
  <2>3. 0 \in 0 .. Len(t.rows)
    BY <2>2
  <2>4. CASE t.sound
    <3>1. t.rows = <<>> /\ Len(t.rows) = 0
      BY <2>1, <2>4
    <3>2. {i \in 1 .. 0 : i \in Whole(t)} = {} /\ DOMAIN <<>> = {}
      OBVIOUS
    <3>3. FromRows(<<>>, t, 0)
      BY <3>2, PickNone DEF FromRows
    <3> QED
      BY <2>2, <2>3, <3>1, <3>3 DEF TableInv
  <2>5. CASE ~t.sound
    BY <2>2, <2>3, <2>5 DEF TableInv
  <2> QED
    BY <2>4, <2>5
<1> QED
  BY <1>1, <1>2, <1>3, <1>4, <1>5, <1>6, <1>7 DEF ReadTable

\* After the last row all of them are read.
LEMMA TableHolds == ASSUME TableInv PROVE VpnGateRows
<1> SUFFICES ASSUME Done("table"), input.sound, IsInjective(input.header) PROVE
      \E src \in [DOMAIN output -> DOMAIN input.rows] :
        /\ Picks(src, Whole(input))
        /\ \A i \in DOMAIN output : ServerOf(output[i], input.header, input.rows[src[i]])
  BY DEF VpnGateRows
<1>1. input \in Table /\ FromRows(output, input, Len(input.rows))
  BY DEF TableInv, Done
<1>2. DOMAIN input.rows = 1 .. Len(input.rows)
  BY <1>1 DEF Table
<1>3. {i \in 1 .. Len(input.rows) : i \in Whole(input)} = Whole(input)
  BY <1>2 DEF Whole
<1> QED
  BY <1>1, <1>3 DEF FromRows

-----------------------------------------------------------------------------
\* riseup: bestTransport.

\* The provers' arithmetic does not take the empty string.
Blank == ""

\* The values that the code compares with are not empty.
LEMMA BlankIs ==
    /\ Blank # "1194" /\ Blank # "53" /\ Blank # "80" /\ Blank # "443" /\ Blank # "tcp"
  BY Zenon DEF Blank

\* What the loops have passed: the transports up to n, and of the next one
\* the protocols up to p and, with protocol p + 1, the ports up to q.
Passed(n, p, q, i, k, l) == i <= n \/ (i = n + 1 /\ (k <= p \/ (k = p + 1 /\ l <= q)))

\* A best transport is one offered, with its own priority.
Chosen(gateway, best) ==
    \/ best = C!NoTransport
    \/ /\ best.priority > 0 /\ best.priority = C!Priority(best.proto, best.port)
       /\ Offers(gateway, best.proto, best.port)

\* No offer that was passed has a higher priority.
BestOf(gateway, n, p, q, best) ==
    \A i \in DOMAIN gateway : gateway[i].type = "openvpn" =>
      \A k \in DOMAIN gateway[i].protocols, l \in DOMAIN gateway[i].ports :
        Passed(n, p, q, i, k, l) =>
          C!Priority(gateway[i].protocols[k], gateway[i].ports[l]) <= best.priority

\* The loops stand at n, p and q with the best of what they passed.
Looking(gateway, n, w) ==
    \E best, p, q :
      /\ p \in Nat /\ q \in Nat /\ w = [best |-> best, p |-> p, q |-> q]
      /\ best.priority \in Nat /\ Chosen(gateway, best) /\ BestOf(gateway, n, p, q, best)

\* The best so far is the best of what the loops have passed.
TransportInv ==
    call = "transport" =>
      /\ input \in Seq(Transport) /\ at \in 0 .. Len(input)
      /\ pc = "loop" => Looking(input, at, work)
      /\ pc = "done" =>
           /\ output.priority \in Nat /\ Chosen(input, output)
           /\ BestOf(input, Len(input), 0, 0, output)

\* A priority says which port and protocol it is of, up to a tie.
LEMMA Priorities ==
    ASSUME NEW proto, NEW port
    PROVE  /\ Rank(port) \in 1 .. 5 /\ C!PortPriority(port) = 5 - Rank(port)
           /\ proto = "tcp" => C!Priority(proto, port) = 4 - Rank(port)
           /\ proto # "tcp" => C!Priority(proto, port) = 5 - Rank(port)
           /\ C!Priority(proto, port) \in Int
           /\ Disputed(proto, port) <=> C!Priority(proto, port) <= 0
<1>1. Rank(port) \in 1 .. 5 /\ C!PortPriority(port) = 5 - Rank(port)
  BY DEF Rank, C!PortPriority
<1>2. /\ proto = "tcp" => C!Priority(proto, port) = 4 - Rank(port)
      /\ proto # "tcp" => C!Priority(proto, port) = 5 - Rank(port)
  BY <1>1 DEF C!Priority
<1> QED
  BY <1>1, <1>2 DEF Disputed

\* One more offer is compared.
LEMMA BetterIs ==
    ASSUME NEW gateway \in Seq(Transport), NEW best, best.priority \in Nat, Chosen(gateway, best),
           NEW proto, NEW port, Offers(gateway, proto, port)
    PROVE  LET b == C!Better(best, proto, port)
           IN /\ b.priority \in Nat /\ Chosen(gateway, b)
              /\ b.priority >= best.priority /\ b.priority >= C!Priority(proto, port)
<1>1. C!Priority(proto, port) \in Int
  BY Priorities
<1>2. CASE C!Priority(proto, port) > best.priority
  <2> DEFINE b == C!Better(best, proto, port)
  <2>1. b = [proto |-> proto, port |-> port, priority |-> C!Priority(proto, port)]
    BY <1>2 DEF C!Better
  <2>2. b.proto = proto /\ b.port = port /\ b.priority = C!Priority(proto, port)
    BY <2>1
  <2> HIDE DEF b
  <2> QED
    BY <1>1, <1>2, <2>2 DEF b, Chosen
<1>3. CASE ~(C!Priority(proto, port) > best.priority)
  BY <1>1, <1>3 DEF C!Better
<1> QED
  BY <1>2, <1>3

\* No gateway is read at first.
LEMMA TransportInit == Init => TransportInv
  BY DEF Init, TransportInv

\* Each step passes one offer, protocol or transport.
LEMMA TransportStep == ASSUME Stages, TransportInv, [Next]_vars PROVE TransportInv'
<1>1. call' = "transport" => ChooseTransport \/ UNCHANGED vars
  BY OwnSteps
<1>2. CASE UNCHANGED vars
  BY <1>2 DEF TransportInv
<1>3. CASE call' # "transport"
  BY <1>3 DEF TransportInv
<1>4. CASE CallTransport
  <2>1. PICK g \in Gateways :
          Begin("transport", g, [best |-> C!NoTransport, p |-> 0, q |-> 0])
    BY <1>4 DEF CallTransport
  <2>2. /\ input' = g /\ pc' = "loop" /\ at' = 0
        /\ work' = [best |-> C!NoTransport, p |-> 0, q |-> 0] /\ g \in Seq(Transport)
    BY <1>4, <2>1, AlgorithmsAssumption DEF CallTransport, Begin, Stages
  <2>3. C!NoTransport.priority = 0 /\ Chosen(g, C!NoTransport)
    BY DEF C!NoTransport, Chosen
  <2>4. BestOf(g, 0, 0, 0, C!NoTransport)
    <3>1. DOMAIN g = 1 .. Len(g)
      BY <2>2
    <3>2. ASSUME NEW i \in DOMAIN g, NEW k \in DOMAIN g[i].protocols, NEW l \in DOMAIN g[i].ports
          PROVE  ~Passed(0, 0, 0, i, k, l)
      <4>1. g[i] \in Transport
        BY <2>2
      <4>2. DOMAIN g[i].protocols = 1 .. Len(g[i].protocols) /\ DOMAIN g[i].ports = 1 .. Len(g[i].ports)
        BY <4>1 DEF Transport
      <4> QED
        BY <3>1, <4>2 DEF Passed
    <3> QED
      BY <3>2 DEF BestOf
  <2> QED
    BY <2>2, <2>3, <2>4 DEF TransportInv, Looking
<1> DEFINE tr == input[at + 1]
<1>5. ASSUME call = "transport", pc = "loop", at < Len(input)
      PROVE  /\ input \in Seq(Transport) /\ at \in Nat /\ at + 1 \in DOMAIN input
             /\ DOMAIN input = 1 .. Len(input) /\ at + 1 \in 0 .. Len(input)
             /\ \A i \in DOMAIN input :
                  /\ DOMAIN input[i].protocols = 1 .. Len(input[i].protocols)
                  /\ DOMAIN input[i].ports = 1 .. Len(input[i].ports)
                  /\ Len(input[i].protocols) \in Nat /\ Len(input[i].ports) \in Nat
  <2>1. input \in Seq(Transport) /\ at \in Nat
    BY <1>5 DEF TransportInv
  <2>2. DOMAIN input = 1 .. Len(input) /\ at + 1 \in DOMAIN input /\ at + 1 \in 0 .. Len(input)
    BY <1>5, <2>1
  <2>3. ASSUME NEW i \in DOMAIN input
        PROVE  /\ DOMAIN input[i].protocols = 1 .. Len(input[i].protocols)
               /\ DOMAIN input[i].ports = 1 .. Len(input[i].ports)
               /\ Len(input[i].protocols) \in Nat /\ Len(input[i].ports) \in Nat
    <3>1. input[i] \in Transport
      BY <2>1
    <3> QED
      BY <3>1 DEF Transport
  <2> QED
    BY <2>1, <2>2, <2>3
<1>6. ASSUME call = "transport", pc = "loop"
      PROVE  /\ work.p \in Nat /\ work.q \in Nat
             /\ work = [best |-> work.best, p |-> work.p, q |-> work.q]
             /\ work.best.priority \in Nat /\ Chosen(input, work.best)
             /\ BestOf(input, at, work.p, work.q, work.best)
  BY <1>6 DEF TransportInv, Looking
<1>7. CASE NextTransport
  <2>1. /\ call = "transport" /\ pc = "loop" /\ at < Len(input) /\ at' = at + 1
        /\ work' = [work EXCEPT !.p = 0, !.q = 0] /\ input' = input /\ pc' = "loop"
        /\ tr.type # "openvpn" \/ work.p = Len(tr.protocols)
    BY <1>7 DEF NextTransport, Turn
  <2>2. work' = [best |-> work.best, p |-> 0, q |-> 0]
    BY <1>6, <2>1
  <2>3. BestOf(input, at + 1, 0, 0, work.best)
    <3> SUFFICES ASSUME NEW i \in DOMAIN input, input[i].type = "openvpn",
                        NEW k \in DOMAIN input[i].protocols, NEW l \in DOMAIN input[i].ports,
                        Passed(at + 1, 0, 0, i, k, l)
                 PROVE  Passed(at, work.p, work.q, i, k, l)
      BY <1>6, <2>1 DEF BestOf
    <3>1. k \in 1 .. Len(input[i].protocols) /\ i \in 1 .. Len(input) /\ l \in 1 .. Len(input[i].ports)
      BY <1>5, <2>1
    <3>2. i <= at + 1
      BY <1>5, <2>1, <3>1 DEF Passed
    <3>3. CASE i <= at
      BY <3>3 DEF Passed
    <3>4. CASE i = at + 1
      BY <2>1, <3>1, <3>4 DEF Passed
    <3> QED
      BY <1>5, <2>1, <3>1, <3>2, <3>3, <3>4
  <2>4. Looking(input, at + 1, work')
    BY <1>6, <2>1, <2>2, <2>3 DEF Looking
  <2> QED
    BY <1>5, <2>1, <2>4 DEF TransportInv
<1>8. CASE NextProtocol
  <2>1. /\ call = "transport" /\ pc = "loop" /\ at < Len(input) /\ at' = at
        /\ work' = [work EXCEPT !.p = work.p + 1, !.q = 0] /\ input' = input /\ pc' = "loop"
        /\ work.q = Len(tr.ports)
    BY <1>8 DEF NextProtocol, Inside
  <2>2. work' = [best |-> work.best, p |-> work.p + 1, q |-> 0]
    BY <1>6, <2>1
  <2>3. BestOf(input, at, work.p + 1, 0, work.best)
    <3> SUFFICES ASSUME NEW i \in DOMAIN input, input[i].type = "openvpn",
                        NEW k \in DOMAIN input[i].protocols, NEW l \in DOMAIN input[i].ports,
                        Passed(at, work.p + 1, 0, i, k, l)
                 PROVE  Passed(at, work.p, work.q, i, k, l)
      BY <1>6, <2>1 DEF BestOf
    <3>1. k \in 1 .. Len(input[i].protocols) /\ i \in 1 .. Len(input) /\ l \in 1 .. Len(input[i].ports)
      BY <1>5, <2>1
    <3>2. CASE i <= at
      BY <3>2 DEF Passed
    <3>3. CASE i = at + 1
      BY <1>5, <1>6, <2>1, <3>1, <3>3 DEF Passed
    <3> QED
      BY <3>1, <3>2, <3>3 DEF Passed
  <2>4. Looking(input, at, work')
    <3>1. work.p + 1 \in Nat
      BY <1>6, <2>1
    <3> QED
      BY <1>6, <2>1, <2>2, <2>3, <3>1 DEF Looking
  <2> QED
    BY <1>5, <2>1, <2>4 DEF TransportInv
<1>9. CASE NextPort
  <2> DEFINE proto == tr.protocols[work.p + 1]
             port == tr.ports[work.q + 1]
             b == C!Better(work.best, proto, port)
  <2>1. /\ call = "transport" /\ pc = "loop" /\ at < Len(input) /\ at' = at
        /\ work' = [work EXCEPT !.q = work.q + 1, !.best = b] /\ input' = input /\ pc' = "loop"
        /\ work.q < Len(tr.ports) /\ work.p < Len(tr.protocols) /\ tr.type = "openvpn"
    BY <1>9 DEF NextPort, Inside
  <2>2. work' = [best |-> b, p |-> work.p, q |-> work.q + 1]
    BY <1>6, <2>1
  <2>3. Offers(input, proto, port)
    <3>1. work.p + 1 \in DOMAIN tr.protocols /\ work.q + 1 \in DOMAIN tr.ports
      BY <1>5, <1>6, <2>1
    <3> QED
      BY <1>5, <2>1, <3>1 DEF Offers
  <2>4. /\ b.priority \in Nat /\ Chosen(input, b)
        /\ b.priority >= work.best.priority /\ b.priority >= C!Priority(proto, port)
    <3> HIDE DEF b, proto, port
    <3> QED
      BY <1>5, <1>6, <2>1, <2>3, BetterIs DEF b
  <2> HIDE DEF b
  <2>5. BestOf(input, at, work.p, work.q + 1, b)
    <3> SUFFICES ASSUME NEW i \in DOMAIN input, input[i].type = "openvpn",
                        NEW k \in DOMAIN input[i].protocols, NEW l \in DOMAIN input[i].ports,
                        Passed(at, work.p, work.q + 1, i, k, l)
                 PROVE  C!Priority(input[i].protocols[k], input[i].ports[l]) <= b.priority
      BY DEF BestOf
    <3>1. k \in 1 .. Len(input[i].protocols) /\ i \in 1 .. Len(input) /\ l \in 1 .. Len(input[i].ports)
      BY <1>5, <2>1
    <3>2. CASE Passed(at, work.p, work.q, i, k, l)
      <4>1. C!Priority(input[i].protocols[k], input[i].ports[l]) <= work.best.priority
        BY <1>6, <2>1, <3>2 DEF BestOf
      <4>2. C!Priority(input[i].protocols[k], input[i].ports[l]) \in Int
        BY Priorities
      <4> QED
        BY <1>6, <2>1, <2>4, <4>1, <4>2
    <3>3. CASE ~Passed(at, work.p, work.q, i, k, l)
      <4>1. i = at + 1 /\ k = work.p + 1 /\ l = work.q + 1
        BY <1>5, <1>6, <2>1, <3>1, <3>3 DEF Passed
      <4>2. C!Priority(proto, port) \in Int
        BY Priorities
      <4> QED
        BY <2>4, <4>1, <4>2
    <3> QED
      BY <3>2, <3>3
  <2>6. Looking(input, at, work')
    <3>1. work.q + 1 \in Nat
      BY <1>6, <2>1
    <3> QED
      BY <1>6, <2>1, <2>2, <2>4, <2>5, <3>1 DEF Looking
  <2> QED
    BY <1>5, <2>1, <2>6 DEF TransportInv
<1>10. CASE TransportChosen
  <2>1. /\ call = "transport" /\ pc = "loop" /\ at = Len(input) /\ at' = at
        /\ output' = work.best /\ input' = input /\ pc' = "done"
    BY <1>10 DEF TransportChosen, Over, Returns
  <2>2. input \in Seq(Transport) /\ DOMAIN input = 1 .. Len(input)
    BY <2>1 DEF TransportInv
  <2>3. BestOf(input, Len(input), 0, 0, work.best)
    <3> SUFFICES ASSUME NEW i \in DOMAIN input, NEW k, NEW l
                 PROVE  Passed(at, work.p, work.q, i, k, l)
      BY <1>6, <2>1 DEF BestOf
    <3> QED
      BY <2>1, <2>2 DEF Passed
  <2> QED
    BY <1>6, <2>1, <2>2, <2>3 DEF TransportInv
<1> QED
  BY <1>1, <1>2, <1>3, <1>4, <1>7, <1>8, <1>9, <1>10 DEF ChooseTransport

\* What a best priority says of a transport that it was preferred to.
LEMMA Preferred ==
    ASSUME NEW o, o.priority \in Nat,
           \/ o.proto = Blank /\ o.port = Blank /\ o.priority = 0
           \/ o.priority > 0 /\ o.priority = C!Priority(o.proto, o.port) /\ o.port # Blank,
           NEW proto, NEW port, C!Priority(proto, port) <= o.priority
    PROVE  /\ o.port = Blank => Disputed(proto, port)
           /\ proto = "udp" /\ port = "1194" => o.proto # "tcp" /\ o.port = "1194"
           /\ proto = o.proto => Rank(o.port) <= Rank(port)
           /\ port = o.port => o.proto # "tcp" \/ proto = "tcp"
<1>1. PICK r \in 1 .. 5, w \in Int :
        /\ r = Rank(port) /\ w = C!Priority(proto, port) /\ w <= o.priority
        /\ (proto = "tcp" => w = 4 - r) /\ (proto # "tcp" => w = 5 - r)
        /\ Disputed(proto, port) <=> w <= 0
  BY Priorities
<1>2. PICK best \in 1 .. 5, top \in Int :
        /\ best = Rank(o.port) /\ top = C!Priority(o.proto, o.port)
        /\ (o.proto = "tcp" => top = 4 - best) /\ (o.proto # "tcp" => top = 5 - best)
  BY Priorities
<1>3. /\ o.port = Blank => best = 5
      /\ port = "1194" => r = 1
      /\ best = 1 => o.port = "1194"
      /\ port = o.port => r = best
  BY <1>1, <1>2, BlankIs DEF Rank
<1>4. \/ o.proto = Blank /\ o.port = Blank /\ o.priority = 0
      \/ o.priority > 0 /\ o.priority = top /\ o.port # Blank
  BY <1>2
<1>5. o.port = Blank => Disputed(proto, port)
  BY <1>1, <1>4
<1>6. ASSUME proto = "udp", port = "1194" PROVE o.proto # "tcp" /\ o.port = "1194"
  <2>1. w = 4
    BY <1>1, <1>3, <1>6
  <2> QED
    BY <1>1, <1>2, <1>3, <1>4, <2>1
<1>7. ASSUME proto = o.proto PROVE best <= r
  BY <1>1, <1>2, <1>3, <1>4, <1>7, BlankIs
<1>8. ASSUME port = o.port PROVE o.proto # "tcp" \/ proto = "tcp"
  BY <1>1, <1>2, <1>3, <1>4, <1>8, BlankIs
<1> QED
  BY <1>1, <1>2, <1>5, <1>6, <1>7, <1>8

\* After the last transport the best is the best of all.
LEMMA TransportHolds == ASSUME TransportInv PROVE TransportOrder
<1> SUFFICES ASSUME Done("transport") PROVE
      /\ output.port # "" => Offers(input, output.proto, output.port) /\ Rank(output.port) < 5
      /\ \A i \in DOMAIN input : input[i].type = "openvpn" =>
           \A k \in DOMAIN input[i].protocols, l \in DOMAIN input[i].ports :
             LET proto == input[i].protocols[k]  port == input[i].ports[l]
             IN /\ output.port = "" => Disputed(proto, port)
                /\ proto = "udp" /\ port = "1194" => output.proto # "tcp" /\ output.port = "1194"
                /\ output.port # "" /\ proto = output.proto => Rank(output.port) <= Rank(port)
                /\ port = output.port => output.proto # "tcp" \/ proto = "tcp"
  BY DEF TransportOrder
<1>1. /\ input \in Seq(Transport) /\ output.priority \in Nat /\ Chosen(input, output)
      /\ BestOf(input, Len(input), 0, 0, output)
  BY DEF TransportInv, Done
<1>2. Rank("") = 5 /\ Rank("1194") = 1 /\ \A port : Rank(port) = 1 => port = "1194"
  BY DEF Rank
<1>3. \/ output.proto = "" /\ output.port = "" /\ output.priority = 0
      \/ /\ output.priority > 0 /\ output.priority = C!Priority(output.proto, output.port)
         /\ Offers(input, output.proto, output.port) /\ output.port # ""
         /\ Rank(output.port) < 5
  <2>1. CASE output = C!NoTransport
    BY <2>1 DEF C!NoTransport
  <2>2. CASE output # C!NoTransport
    <3>1. /\ output.priority > 0 /\ output.priority = C!Priority(output.proto, output.port)
          /\ Offers(input, output.proto, output.port)
      BY <1>1, <2>2 DEF Chosen
    <3>2. ~Disputed(output.proto, output.port)
      BY <1>1, <3>1, Priorities
    <3>3. Rank(output.port) \in 1 .. 5
      BY Priorities
    <3>4. Rank(output.port) < 5 /\ Rank(output.port) # 5
      BY <3>2, <3>3 DEF Disputed
    <3>5. output.port # ""
      BY <1>2, <3>4, Zenon
    <3> QED
      BY <3>1, <3>4, <3>5, Zenon
  <2> QED
    BY <2>1, <2>2
<1>4. ASSUME NEW i \in DOMAIN input, input[i].type = "openvpn",
             NEW k \in DOMAIN input[i].protocols, NEW l \in DOMAIN input[i].ports
      PROVE  LET proto == input[i].protocols[k]  port == input[i].ports[l]
             IN /\ output.port = "" => Disputed(proto, port)
                /\ proto = "udp" /\ port = "1194" => output.proto # "tcp" /\ output.port = "1194"
                /\ output.port # "" /\ proto = output.proto => Rank(output.port) <= Rank(port)
                /\ port = output.port => output.proto # "tcp" \/ proto = "tcp"
  <2> DEFINE proto == input[i].protocols[k]
             port == input[i].ports[l]
  <2>1. C!Priority(proto, port) <= output.priority
    <3>1. Passed(Len(input), 0, 0, i, k, l)
      BY <1>1 DEF Passed
    <3> QED
      BY <1>1, <1>4, <3>1 DEF BestOf
  <2> HIDE DEF proto, port
  <2>2. \/ output.proto = Blank /\ output.port = Blank /\ output.priority = 0
        \/ /\ output.priority > 0 /\ output.priority = C!Priority(output.proto, output.port)
           /\ output.port # Blank
    BY <1>3, Zenon DEF Blank
  <2>3. /\ output.port = Blank => Disputed(proto, port)
        /\ proto = "udp" /\ port = "1194" => output.proto # "tcp" /\ output.port = "1194"
        /\ proto = output.proto => Rank(output.port) <= Rank(port)
        /\ port = output.port => output.proto # "tcp" \/ proto = "tcp"
    BY <1>1, <2>1, <2>2, Preferred
  <2>4. /\ output.port = "" => Disputed(proto, port)
        /\ proto = "udp" /\ port = "1194" => output.proto # "tcp" /\ output.port = "1194"
        /\ proto = output.proto => Rank(output.port) <= Rank(port)
        /\ port = output.port => output.proto # "tcp" \/ proto = "tcp"
    BY <2>3, Zenon DEF Blank
  <2> QED
    BY <2>4 DEF proto, port
<1> QED
  BY <1>3, <1>4

-----------------------------------------------------------------------------
\* asncheck: parse and DetectByIP.

\* Sorting keeps the elements, each of them in its new place.
LEMMA RearrangedIs ==
    ASSUME NEW S, NEW q \in Seq(S), NEW r \in Rearranged(q)
    PROVE  /\ r \in Seq(S) /\ Len(r) = Len(q) /\ DOMAIN r = DOMAIN q /\ DOMAIN q = 1 .. Len(q)
           /\ \E p \in Bijection(DOMAIN q, DOMAIN q) : \A i \in DOMAIN q : r[i] = q[p[i]]
           /\ \A i \in DOMAIN q : \E j \in DOMAIN q : r[i] = q[j]
           /\ \A j \in DOMAIN q : \E i \in DOMAIN q : r[i] = q[j]
<1>1. DOMAIN q = 1 .. Len(q) /\ Len(q) \in Nat
  OBVIOUS
<1>2. PICK p \in Bijection(DOMAIN q, DOMAIN q) : r = [i \in DOMAIN q |-> q[p[i]]]
  BY DEF Rearranged
<1>3. p \in [DOMAIN q -> DOMAIN q] /\ \A j \in DOMAIN q : \E i \in DOMAIN q : p[i] = j
  BY <1>2 DEF Bijection, Surjection, Injection
<1>4. DOMAIN r = DOMAIN q /\ \A i \in DOMAIN q : r[i] = q[p[i]] /\ r[i] \in S
  BY <1>2, <1>3
<1>5. r \in Seq(S) /\ Len(r) = Len(q)
  <2>1. r \in [1 .. Len(q) -> S]
    BY <1>1, <1>2, <1>4
  <2> QED
    BY <1>1, <2>1
<1>6. \A i \in DOMAIN q : \E j \in DOMAIN q : r[i] = q[j]
  BY <1>3, <1>4
<1>7. ASSUME NEW j \in DOMAIN q PROVE \E i \in DOMAIN q : r[i] = q[j]
  <2>1. PICK i \in DOMAIN q : p[i] = j
    BY <1>3
  <2> QED
    BY <1>4, <2>1
<1>8. \E f \in Bijection(DOMAIN q, DOMAIN q) : \A i \in DOMAIN q : r[i] = q[f[i]]
  BY <1>4
<1> QED
  BY <1>1, <1>4, <1>5, <1>6, <1>7, <1>8

\* The order of addresses.
LEMMA AddressOrder ==
    ASSUME NEW x \in D!Address, NEW y \in D!Address, NEW z \in D!Address
    PROVE  /\ ~D!Less(x, x)
           /\ D!Leq(x, y) /\ D!Leq(y, z) => D!Leq(x, z)
           /\ D!Less(x, y) /\ D!Leq(y, z) => D!Less(x, z)
           /\ D!Leq(x, y) /\ D!Less(y, z) => D!Less(x, z)
           /\ D!Less(x, y) => D!Leq(x, y)
           /\ D!Leq(x, y) <=> ~D!Less(y, x)
<1> USE DEF D!Less, D!Leq
<1>1. x.n \in Int /\ y.n \in Int /\ z.n \in Int
  BY DEF D!Address
<1>2. ~D!Less(x, x)
  BY <1>1
<1>3. D!Leq(x, y) /\ D!Leq(y, z) => D!Leq(x, z)
  BY <1>1
<1>4. D!Less(x, y) /\ D!Leq(y, z) => D!Less(x, z)
  BY <1>1
<1>5. D!Leq(x, y) /\ D!Less(y, z) => D!Less(x, z)
  BY <1>1
<1>6. D!Less(x, y) => D!Leq(x, y)
  BY <1>1
<1> QED
  BY <1>2, <1>3, <1>4, <1>5, <1>6

\* A pool has the rows of its family among the first n, and no others.
Rows(rows, n, family, pool) ==
    /\ pool \in Seq(D!Row)
    /\ \A i \in DOMAIN pool : \E k \in 1 .. n :
         rows[k].ok /\ D!Home(rows[k]) = family /\ pool[i] = rows[k]
    /\ \A k \in 1 .. n : rows[k].ok /\ D!Home(rows[k]) = family =>
         \E i \in DOMAIN pool : pool[i] = rows[k]

\* In the order that sort.Slice leaves.
Sorted(pool) == \A i, j \in DOMAIN pool : i < j => ~D!Less(pool[j].start, pool[i].start)

\* The rows up to lo start at the address or before it, those beyond hi after.
Between(pool, lo, hi, ip) ==
    /\ lo \in Nat /\ hi \in Nat /\ lo <= hi /\ hi <= Len(pool)
    /\ \A i \in DOMAIN pool : (i <= lo => ~D!After(pool[i], ip)) /\ (i > hi => D!After(pool[i], ip))

\* A sorted pool with all rows of the family, searched from lo to hi.
Searching(arg, pool, lo, hi) ==
    /\ Rows(arg.rows, Len(arg.rows), D!Asked(arg.ip), pool)
    /\ Sorted(pool) /\ Between(pool, lo, hi, arg.ip)

\* The pools have the rows passed; the search closes in on the address.
DetectInv ==
    call = "detect" =>
      /\ input.rows \in Seq(D!Row) /\ input.ip \in D!Address /\ at \in 0 .. Len(input.rows)
      /\ pc = "loop" => \E v4, v6 :
           /\ work = [v4 |-> v4, v6 |-> v6]
           /\ Rows(input.rows, at, "v4", v4) /\ Rows(input.rows, at, "v6", v6)
      /\ pc = "search" => \E pool, lo, hi :
           work = [pool |-> pool, lo |-> lo, hi |-> hi] /\ Searching(input, pool, lo, hi)
      /\ pc = "done" => \E pool, lo :
           Searching(input, pool, lo, lo) /\ output = D!DetectByIP(D!Lookup(pool, lo, input.ip))

\* One more row leaves its pool with it and the other as it was.
LEMMA RowAdded ==
    ASSUME NEW rows \in Seq(D!Row), NEW n \in Nat, n < Len(rows), NEW family, NEW pool,
           Rows(rows, n, family, pool)
    PROVE  Rows(rows, n + 1, family,
                IF rows[n + 1].ok /\ D!Home(rows[n + 1]) = family
                THEN Append(pool, rows[n + 1]) ELSE pool)
<1> DEFINE row == rows[n + 1]
           q == Append(pool, row)
<1>1. row \in D!Row /\ \A k \in 1 .. n + 1 : k \in 1 .. n \/ k = n + 1
  OBVIOUS
<1>2. pool \in Seq(D!Row) /\ DOMAIN pool = 1 .. Len(pool) /\ Len(pool) \in Nat
  BY DEF Rows
<1>3. CASE row.ok /\ D!Home(row) = family
  <2>1. /\ q \in Seq(D!Row) /\ DOMAIN q = 1 .. Len(pool) + 1 /\ q[Len(pool) + 1] = row
        /\ \A i \in DOMAIN pool : i \in DOMAIN q /\ q[i] = pool[i]
    BY <1>1, <1>2
  <2> HIDE DEF q
  <2>2. ASSUME NEW i \in DOMAIN q
        PROVE  \E k \in 1 .. n + 1 : rows[k].ok /\ D!Home(rows[k]) = family /\ q[i] = rows[k]
    <3>1. CASE i \in DOMAIN pool
      BY <2>1, <3>1 DEF Rows
    <3>2. CASE i \notin DOMAIN pool
      <4>1. i = Len(pool) + 1
        BY <1>2, <2>1, <3>2
      <4> QED
        BY <1>3, <2>1, <4>1
    <3> QED
      BY <3>1, <3>2
  <2>3. ASSUME NEW k \in 1 .. n + 1, rows[k].ok, D!Home(rows[k]) = family
        PROVE  \E i \in DOMAIN q : q[i] = rows[k]
    <3>1. CASE k \in 1 .. n
      <4>1. PICK i \in DOMAIN pool : pool[i] = rows[k]
        BY <2>3, <3>1 DEF Rows
      <4> QED
        BY <2>1, <4>1
    <3>2. CASE k = n + 1
      <4>1. Len(pool) + 1 \in DOMAIN q
        BY <1>2, <2>1
      <4> QED
        BY <2>1, <3>2, <4>1
    <3> QED
      BY <1>1, <3>1, <3>2
  <2>4. Rows(rows, n + 1, family, q)
    BY <2>1, <2>2, <2>3 DEF Rows
  <2> QED
    BY <1>3, <2>4 DEF q
<1>4. CASE ~(row.ok /\ D!Home(row) = family)
  <2>1. ASSUME NEW i \in DOMAIN pool
        PROVE  \E k \in 1 .. n + 1 : rows[k].ok /\ D!Home(rows[k]) = family /\ pool[i] = rows[k]
    BY DEF Rows
  <2>2. ASSUME NEW k \in 1 .. n + 1, rows[k].ok, D!Home(rows[k]) = family
        PROVE  \E i \in DOMAIN pool : pool[i] = rows[k]
    BY <1>1, <1>4, <2>2 DEF Rows
  <2>3. Rows(rows, n + 1, family, pool)
    BY <1>2, <2>1, <2>2 DEF Rows
  <2> QED
    BY <1>4, <2>3
<1> QED
  BY <1>3, <1>4

\* Either half keeps the first row beyond the address in between.
LEMMA Halving ==
    ASSUME NEW pool \in Seq(D!Row), NEW ip \in D!Address, Sorted(pool),
           NEW lo, NEW hi, Between(pool, lo, hi, ip), lo < hi
    PROVE  LET h == (lo + hi) \div 2
           IN /\ D!After(pool[h + 1], ip) => Between(pool, lo, h, ip)
              /\ ~D!After(pool[h + 1], ip) => Between(pool, h + 1, hi, ip)
<1>1. PICK h \in Nat : h = (lo + hi) \div 2 /\ lo <= h /\ h < hi
  BY DEF Between
<1>2. lo \in Nat /\ hi \in Nat /\ hi <= Len(pool) /\ Len(pool) \in Nat /\ DOMAIN pool = 1 .. Len(pool)
  BY DEF Between
<1>3. h + 1 \in DOMAIN pool
  BY <1>1, <1>2
<1>4. ASSUME NEW i \in DOMAIN pool PROVE pool[i].start \in D!Address
  <2>1. pool[i] \in D!Row
    OBVIOUS
  <2> QED
    BY <2>1 DEF D!Row
<1>5. ASSUME D!After(pool[h + 1], ip) PROVE Between(pool, lo, h, ip)
  <2>1. ASSUME NEW i \in DOMAIN pool, i > h PROVE D!After(pool[i], ip)
    <3>1. i = h + 1 \/ h + 1 < i
      BY <1>1, <1>2, <2>1
    <3>2. CASE h + 1 < i
      <4>1. D!Leq(pool[h + 1].start, pool[i].start)
        BY <1>3, <3>2 DEF Sorted, D!Leq
      <4> QED
        BY <1>3, <1>4, <1>5, <4>1, AddressOrder DEF D!After
    <3> QED
      BY <1>5, <3>1, <3>2
  <2> QED
    BY <1>1, <1>2, <2>1 DEF Between
<1>6. ASSUME ~D!After(pool[h + 1], ip) PROVE Between(pool, h + 1, hi, ip)
  <2>1. ASSUME NEW i \in DOMAIN pool, i <= h + 1 PROVE ~D!After(pool[i], ip)
    <3>1. i = h + 1 \/ i < h + 1
      BY <1>1, <1>2, <2>1
    <3>2. CASE i < h + 1
      <4>1. D!Leq(pool[i].start, pool[h + 1].start) /\ D!Leq(pool[h + 1].start, ip)
        BY <1>3, <1>6, <3>2 DEF Sorted, D!Leq, D!After
      <4>2. D!Leq(pool[i].start, ip)
        BY <1>3, <1>4, <4>1, AddressOrder
      <4> QED
        BY <4>2 DEF D!After, D!Leq
    <3> QED
      BY <1>6, <3>1, <3>2
  <2> QED
    BY <1>1, <1>2, <2>1 DEF Between
<1> QED
  BY <1>1, <1>5, <1>6

\* Nothing is looked up at first.
LEMMA DetectInit == Init => DetectInv
  BY DEF Init, DetectInv

\* Each turn takes one row, each halving one half.
LEMMA DetectStep == ASSUME Stages, DetectInv, [Next]_vars PROVE DetectInv'
<1>1. call' = "detect" =>
        CallDetect \/ ParseRow \/ SortPool \/ Halve \/ Detected \/ UNCHANGED vars
  BY OwnSteps
<1>2. CASE UNCHANGED vars
  BY <1>2 DEF DetectInv
<1>3. CASE call' # "detect"
  BY <1>3 DEF DetectInv
<1>4. CASE CallDetect
  <2>1. PICK rows \in Datasets, ip \in Addresses :
          Begin("detect", [rows |-> rows, ip |-> ip], D!NoRows)
    BY <1>4 DEF CallDetect
  <2>2. /\ input'.rows = rows /\ input'.ip = ip /\ pc' = "loop" /\ at' = 0
        /\ work' = [v4 |-> <<>>, v6 |-> <<>>] /\ rows \in Seq(D!Row) /\ ip \in D!Address
    BY <1>4, <2>1, AlgorithmsAssumption DEF CallDetect, Begin, Stages, D!NoRows
  <2>3. \A family : Rows(rows, 0, family, <<>>)
    BY DEF Rows
  <2>4. 0 \in 0 .. Len(rows)
    BY <2>2
  <2> QED
    BY <2>2, <2>3, <2>4 DEF DetectInv
<1>5. CASE ParseRow
  <2> DEFINE row == input.rows[at + 1]
  <2>1. /\ call = "detect" /\ pc = "loop" /\ at < Len(input.rows) /\ at' = at + 1
        /\ work' = D!TakeRow(work, row) /\ input' = input /\ pc' = "loop"
    BY <1>5 DEF ParseRow, Turn
  <2>2. PICK v4, v6 : /\ work = [v4 |-> v4, v6 |-> v6]
                      /\ Rows(input.rows, at, "v4", v4) /\ Rows(input.rows, at, "v6", v6)
    BY <2>1 DEF DetectInv
  <2>3. input.rows \in Seq(D!Row) /\ input.ip \in D!Address /\ at \in Nat /\ Len(input.rows) \in Nat
    BY <2>1 DEF DetectInv
  <2> DEFINE a == IF row.ok /\ D!Home(row) = "v4" THEN Append(v4, row) ELSE v4
             b == IF row.ok /\ D!Home(row) = "v6" THEN Append(v6, row) ELSE v6
  <2>4. Rows(input.rows, at + 1, "v4", a) /\ Rows(input.rows, at + 1, "v6", b)
    BY <2>1, <2>2, <2>3, RowAdded
  <2>5. work' = [v4 |-> a, v6 |-> b]
    <3>1. D!Home(row) = "v4" \/ D!Home(row) = "v6"
      BY DEF D!Home
    <3>2. CASE ~row.ok
      BY <2>1, <2>2, <3>2 DEF D!TakeRow
    <3>3. CASE row.ok /\ D!Home(row) = "v4"
      <4>1. work' = [work EXCEPT !["v4"] = Append(@, row)]
        BY <2>1, <3>3 DEF D!TakeRow
      <4> QED
        BY <2>2, <3>3, <4>1
    <3>4. CASE row.ok /\ D!Home(row) = "v6"
      <4>1. work' = [work EXCEPT !["v6"] = Append(@, row)]
        BY <2>1, <3>4 DEF D!TakeRow
      <4> QED
        BY <2>2, <3>4, <4>1
    <3> QED
      BY <3>1, <3>2, <3>3, <3>4
  <2> HIDE DEF a, b
  <2> QED
    BY <2>1, <2>3, <2>4, <2>5 DEF DetectInv
<1>6. CASE SortPool
  <2>1. /\ call = "detect" /\ pc = "loop" /\ at = Len(input.rows) /\ at' = at
        /\ input' = input /\ pc' = "search"
    BY <1>6 DEF SortPool, Over
  <2>2. PICK pool \in Rearranged(work[D!Asked(input.ip)]) :
          Sorted(pool) /\ work' = [pool |-> pool, lo |-> 0, hi |-> Len(pool)]
    BY <1>6 DEF SortPool, Sorted
  <2>3. PICK v4, v6 : /\ work = [v4 |-> v4, v6 |-> v6]
                      /\ Rows(input.rows, at, "v4", v4) /\ Rows(input.rows, at, "v6", v6)
    BY <2>1 DEF DetectInv
  <2> DEFINE asked == D!Asked(input.ip)
             q == work[asked]
  <2>4. Rows(input.rows, at, asked, q)
    <3>1. asked = "v4" \/ asked = "v6"
      BY DEF D!Asked
    <3>2. work["v4"] = v4 /\ work["v6"] = v6
      BY <2>3
    <3> QED
      BY <2>3, <3>1, <3>2
  <2> HIDE DEF asked, q
  <2>5. q \in Seq(D!Row) /\ pool \in Rearranged(q)
    BY <2>2, <2>4 DEF Rows, asked, q
  <2>6. /\ pool \in Seq(D!Row) /\ DOMAIN pool = DOMAIN q
        /\ \A i \in DOMAIN q : \E j \in DOMAIN q : pool[i] = q[j]
        /\ \A j \in DOMAIN q : \E i \in DOMAIN q : pool[i] = q[j]
    BY <2>5, RearrangedIs
  <2>7. Rows(input.rows, at, asked, pool)
    <3>1. ASSUME NEW i \in DOMAIN pool
          PROVE  \E k \in 1 .. at :
                   input.rows[k].ok /\ D!Home(input.rows[k]) = asked /\ pool[i] = input.rows[k]
      <4>1. PICK j \in DOMAIN q : pool[i] = q[j]
        BY <2>6
      <4> QED
        BY <2>4, <4>1 DEF Rows
    <3>2. ASSUME NEW k \in 1 .. at, input.rows[k].ok, D!Home(input.rows[k]) = asked
          PROVE  \E i \in DOMAIN pool : pool[i] = input.rows[k]
      <4>1. PICK j \in DOMAIN q : q[j] = input.rows[k]
        BY <2>4, <3>2 DEF Rows
      <4> QED
        BY <2>6, <4>1
    <3> QED
      BY <2>6, <3>1, <3>2 DEF Rows
  <2>8. Between(pool, 0, Len(pool), input.ip)
    <3>1. DOMAIN pool = 1 .. Len(pool) /\ Len(pool) \in Nat
      BY <2>6
    <3> QED
      BY <3>1 DEF Between
  <2>9. Searching(input, pool, 0, Len(pool))
    BY <2>1, <2>2, <2>7, <2>8 DEF Searching, asked
  <2>10. input.rows \in Seq(D!Row) /\ input.ip \in D!Address /\ at \in 0 .. Len(input.rows)
    BY <2>1 DEF DetectInv
  <2> QED
    BY <2>1, <2>2, <2>9, <2>10 DEF DetectInv
<1>7. ASSUME pc = "search"
      PROVE  /\ call = "detect" /\ input.rows \in Seq(D!Row) /\ input.ip \in D!Address
             /\ at \in 0 .. Len(input.rows)
             /\ work = [pool |-> work.pool, lo |-> work.lo, hi |-> work.hi]
             /\ Searching(input, work.pool, work.lo, work.hi)
  BY <1>7 DEF Stages, DetectInv
<1>8. CASE Halve
  <2> DEFINE h == (work.lo + work.hi) \div 2
  <2>1. /\ pc = "search" /\ work.lo < work.hi /\ input' = input /\ at' = at /\ pc' = "search"
        /\ work' = IF D!After(work.pool[h + 1], input.ip) THEN [work EXCEPT !.hi = h]
                   ELSE [work EXCEPT !.lo = h + 1]
    BY <1>8 DEF Halve
  <2>2. /\ D!After(work.pool[h + 1], input.ip) => Between(work.pool, work.lo, h, input.ip)
        /\ ~D!After(work.pool[h + 1], input.ip) => Between(work.pool, h + 1, work.hi, input.ip)
    <3>1. /\ work.pool \in Seq(D!Row) /\ Sorted(work.pool)
          /\ Between(work.pool, work.lo, work.hi, input.ip)
      BY <1>7, <2>1 DEF Searching, Rows
    <3> QED
      BY <1>7, <2>1, <3>1, Halving
  <2> HIDE DEF h
  <2>3. \E lo, hi : /\ work' = [pool |-> work.pool, lo |-> lo, hi |-> hi]
                    /\ Between(work.pool, lo, hi, input.ip)
    <3>1. CASE D!After(work.pool[h + 1], input.ip)
      <4>1. work' = [pool |-> work.pool, lo |-> work.lo, hi |-> h]
        BY <1>7, <2>1, <3>1
      <4> QED
        BY <2>2, <3>1, <4>1
    <3>2. CASE ~D!After(work.pool[h + 1], input.ip)
      <4>1. work' = [pool |-> work.pool, lo |-> h + 1, hi |-> work.hi]
        BY <1>7, <2>1, <3>2
      <4> QED
        BY <2>2, <3>2, <4>1
    <3> QED
      BY <3>1, <3>2
  <2>4. \E lo, hi : /\ work' = [pool |-> work.pool, lo |-> lo, hi |-> hi]
                    /\ Searching(input, work.pool, lo, hi)
    BY <1>7, <2>1, <2>3 DEF Searching
  <2>5. \E pool, lo, hi : work' = [pool |-> pool, lo |-> lo, hi |-> hi]
                          /\ Searching(input, pool, lo, hi)
    BY <2>4
  <2> QED
    BY <1>7, <2>1, <2>5 DEF DetectInv
<1>9. CASE Detected
  <2>1. /\ pc = "search" /\ work.lo >= work.hi /\ input' = input /\ at' = at /\ pc' = "done"
        /\ output' = D!DetectByIP(D!Lookup(work.pool, work.lo, input.ip))
    BY <1>9 DEF Detected, Returns
  <2>2. work.lo = work.hi
    BY <1>7, <2>1 DEF Searching, Between
  <2>3. Searching(input, work.pool, work.lo, work.lo)
    BY <1>7, <2>1, <2>2
  <2>4. \E pool, lo : /\ Searching(input, pool, lo, lo)
                      /\ output' = D!DetectByIP(D!Lookup(pool, lo, input.ip))
    BY <2>1, <2>3
  <2> QED
    BY <1>7, <2>1, <2>4 DEF DetectInv
<1> QED
  BY <1>1, <1>2, <1>3, <1>4, <1>5, <1>6, <1>8, <1>9

\* The row before the first one beyond the address is the only candidate.
LEMMA DetectHolds == ASSUME DetectInv PROVE LookupFindsCover
<1> DEFINE rows == input.rows
           ip == input.ip
<1> SUFFICES ASSUME Done("detect") PROVE
      /\ output.asn # 0 => \E i \in DOMAIN rows : Within(rows[i], ip) /\ rows[i].asn = output.asn
      /\ output.suspicious <=> output.asn \in SuspiciousASNs
      /\ Ranges(rows) =>
           IF \E i \in DOMAIN rows : Covers(rows[i], ip)
           THEN \E i \in DOMAIN rows : Covers(rows[i], ip) /\ rows[i].asn = output.asn
           ELSE output.asn = 0
  BY DEF LookupFindsCover
<1>1. PICK pool, lo : Searching(input, pool, lo, lo)
                      /\ output = D!DetectByIP(D!Lookup(pool, lo, ip))
  BY DEF DetectInv, Done
<1>2. rows \in Seq(D!Row) /\ ip \in D!Address /\ DOMAIN rows = 1 .. Len(rows)
  BY DEF DetectInv, Done
<1>3. /\ Rows(rows, Len(rows), D!Asked(ip), pool) /\ Sorted(pool) /\ Between(pool, lo, lo, ip)
      /\ pool \in Seq(D!Row) /\ DOMAIN pool = 1 .. Len(pool)
      /\ lo \in Nat /\ lo <= Len(pool)
  BY <1>1 DEF Searching, Rows, Between
<1> HIDE DEF rows, ip
<1> DEFINE r == pool[lo]
           found == lo # 0 /\ D!Leq(r.start, ip) /\ D!Leq(ip, r.end)
<1>4. output.asn = IF found THEN r.asn ELSE 0
  BY <1>1 DEF D!DetectByIP, D!Lookup, D!NoMatch, ip
<1>5. output.suspicious <=> output.asn \in SuspiciousASNs
  <2>1. output.suspicious = D!IsSuspicious(output.asn)
    BY <1>1 DEF D!DetectByIP
  <2>2. D!IsSuspicious(output.asn) <=> output.asn # 0 /\ output.asn \in SuspiciousASNs
    BY DEF D!IsSuspicious, D!NoMatch
  <2>3. 0 \notin SuspiciousASNs
    BY AlgorithmsAssumption
  <2> QED
    BY <2>1, <2>2, <2>3
<1>6. \A s : s \in D!Row => s.start \in D!Address /\ s.end \in D!Address
  BY DEF D!Row
<1>7. ASSUME lo # 0
      PROVE  /\ lo \in DOMAIN pool /\ r \in D!Row
             /\ \E k \in DOMAIN rows : rows[k].ok /\ D!Home(rows[k]) = D!Asked(ip) /\ r = rows[k]
  <2>1. lo \in DOMAIN pool
    BY <1>3, <1>7
  <2>2. r \in D!Row
    BY <1>3, <2>1
  <2>3. \E k \in 1 .. Len(rows) :
          rows[k].ok /\ D!Home(rows[k]) = D!Asked(ip) /\ pool[lo] = rows[k]
    BY <1>3, <2>1 DEF Rows
  <2> QED
    BY <1>2, <2>1, <2>2, <2>3
<1>8. output.asn # 0 => \E i \in DOMAIN rows : Within(rows[i], ip) /\ rows[i].asn = output.asn
  BY <1>4, <1>7 DEF Within
<1> HIDE DEF r, found
<1>9. ASSUME Ranges(rows), NEW i \in DOMAIN rows, Covers(rows[i], ip)
      PROVE  Covers(rows[i], ip) /\ rows[i].asn = output.asn
  <2> DEFINE s == rows[i]
  <2>1. /\ s \in D!Row /\ s.ok /\ D!Home(s) = D!Asked(ip)
        /\ D!Leq(s.start, ip) /\ D!Leq(ip, s.end)
    BY <1>2, <1>9 DEF Covers, Within, D!Home, D!Asked, D!Address
  <2>2. PICK j \in DOMAIN pool : pool[j] = s
    BY <1>2, <1>3, <2>1 DEF Rows
  <2>3. j <= lo /\ lo # 0
    <3>1. ~D!After(s, ip)
      BY <2>1 DEF D!After, D!Leq
    <3> QED
      BY <1>3, <2>2, <3>1 DEF Between
  <2>4. lo \in DOMAIN pool /\ r \in D!Row
    BY <1>7, <2>3
  <2>5. D!Leq(r.start, ip)
    BY <1>3, <2>4 DEF Between, D!After, D!Leq, r
  <2>6. D!Leq(s.start, r.start)
    <3>1. CASE j = lo
      BY <1>6, <2>1, <2>2, <3>1, AddressOrder DEF D!Leq, r
    <3>2. CASE j # lo
      BY <1>3, <2>2, <2>3, <2>4, <3>2 DEF Sorted, D!Leq, r
    <3> QED
      BY <3>1, <3>2
  <2>7. r = s
    <3> SUFFICES ASSUME r # s PROVE FALSE
      OBVIOUS
    <3>1. PICK k \in DOMAIN rows : rows[k].ok /\ r = rows[k]
      BY <1>7, <2>3
    <3>2. D!Leq(r.start, r.end) /\ (D!Less(s.end, r.start) \/ D!Less(r.end, s.start))
      BY <1>9, <2>1, <3>1 DEF Ranges
    <3>3. /\ s.start \in D!Address /\ s.end \in D!Address
          /\ r.start \in D!Address /\ r.end \in D!Address
      BY <1>6, <2>1, <2>4
    <3>4. CASE D!Less(s.end, r.start)
      <4>1. D!Less(s.end, ip)
        BY <1>2, <2>5, <3>3, <3>4, AddressOrder
      <4> QED
        BY <2>1, <4>1 DEF D!Leq
    <3>5. CASE D!Less(r.end, s.start)
      <4>1. D!Less(r.end, r.start)
        BY <2>6, <3>3, <3>5, AddressOrder
      <4> QED
        BY <3>2, <4>1 DEF D!Leq
    <3> QED
      BY <3>2, <3>4, <3>5
  <2> QED
    BY <1>4, <1>9, <2>1, <2>3, <2>5, <2>7 DEF found
<1>10. ASSUME Ranges(rows), ~\E i \in DOMAIN rows : Covers(rows[i], ip) PROVE output.asn = 0
  <2> SUFFICES ASSUME found PROVE FALSE
    BY <1>4
  <2>1. lo # 0 /\ D!Leq(r.start, ip) /\ D!Leq(ip, r.end)
    BY DEF found
  <2>2. PICK k \in DOMAIN rows : rows[k].ok /\ D!Home(rows[k]) = D!Asked(ip) /\ r = rows[k]
    BY <1>7, <2>1
  <2>3. r.start.fam = r.end.fam
    BY <1>10, <2>2 DEF Ranges
  <2>4. ip.fam # "map"
    <3> SUFFICES ASSUME ip.fam = "map" PROVE FALSE
      OBVIOUS
    <3>1. r.start.fam = "v4"
      BY <2>2 DEF D!Home, D!Asked
    <3>2. D!Less(r.end, ip)
      BY <2>3, <3>1 DEF D!Less
    <3> QED
      BY <2>1, <3>2 DEF D!Leq
  <2>5. (r.start.fam = "v4") <=> (ip.fam = "v4")
    BY <1>2, <2>2, <2>4 DEF D!Home, D!Asked, D!Address
  <2>6. Covers(rows[k], ip)
    BY <2>1, <2>2, <2>4, <2>5 DEF Covers, Within
  <2> QED
    BY <1>10, <2>6
<1>11. Ranges(rows) =>
         IF \E i \in DOMAIN rows : Covers(rows[i], ip)
         THEN \E i \in DOMAIN rows : Covers(rows[i], ip) /\ rows[i].asn = output.asn
         ELSE output.asn = 0
  BY <1>9, <1>10
<1> QED
  BY <1>5, <1>8, <1>11

-----------------------------------------------------------------------------
\* backend and ui: GroupByCountry and BuildEntries.

\* How many of the first n servers are of country cc.
CountOf(servers, n, cc) == Cardinality({k \in 1 .. n : servers[k].country = cc})

\* One more server counts for its own country only.
LEMMA CountNext ==
    ASSUME NEW servers, NEW n \in Nat, NEW cc
    PROVE  /\ CountOf(servers, n, cc) \in Nat
           /\ CountOf(servers, 0, cc) = 0
           /\ servers[n + 1].country = cc =>
                CountOf(servers, n + 1, cc) = CountOf(servers, n, cc) + 1
           /\ servers[n + 1].country # cc => CountOf(servers, n + 1, cc) = CountOf(servers, n, cc)
           /\ (\A k \in 1 .. n : servers[k].country # cc) => CountOf(servers, n, cc) = 0
<1> DEFINE those(m) == {k \in 1 .. m : servers[k].country = cc}
<1>1. IsFiniteSet(those(n)) /\ Cardinality(those(n)) \in Nat
  <2>1. IsFiniteSet(1 .. n)
    BY FS_Interval
  <2>2. those(n) \in SUBSET (1 .. n)
    OBVIOUS
  <2>3. IsFiniteSet(those(n))
    BY <2>1, <2>2, FS_Subset
  <2> QED
    BY <2>3, FS_CardinalityType
<1>2. those(0) = {}
  OBVIOUS
<1>3. servers[n + 1].country = cc => those(n + 1) = those(n) \cup {n + 1}
  OBVIOUS
<1>4. servers[n + 1].country # cc => those(n + 1) = those(n)
  OBVIOUS
<1>5. n + 1 \notin those(n)
  OBVIOUS
<1>6. (\A k \in 1 .. n : servers[k].country # cc) => those(n) = {}
  OBVIOUS
<1>7. \A m : CountOf(servers, m, cc) = Cardinality(those(m))
  BY DEF CountOf
<1> HIDE DEF those
<1>8. Cardinality(those(n) \cup {n + 1}) = Cardinality(those(n)) + 1
  BY <1>1, <1>5, FS_AddElement
<1>9. Cardinality({}) = 0
  BY FS_EmptySet
<1> QED
  BY <1>1, <1>2, <1>3, <1>4, <1>6, <1>7, <1>8, <1>9

\* q has just the servers of country cc among the first n.
Pool(servers, n, cc, q) ==
    /\ q \in Seq(Listed) /\ Len(q) = CountOf(servers, n, cc)
    /\ \A k \in 1 .. n : servers[k].country = cc => \E i \in DOMAIN q : q[i] = servers[k]
    /\ \A i \in DOMAIN q : \E k \in 1 .. n : servers[k].country = cc /\ q[i] = servers[k]

\* Every country of the servers up to n has a pool, and nothing else has.
Pooled(servers, n, groups) ==
    /\ \A cc : cc \in DOMAIN groups <=> \E k \in 1 .. n : servers[k].country = cc
    /\ \A cc \in DOMAIN groups : Pool(servers, n, cc, groups[cc])

\* In the order that sort.Slice leaves a pool.
BestFirst(q) == \A i, j \in DOMAIN q : i < j => q[i].score >= q[j].score

\* The row counts the servers of country cc among the first n, and has their
\* best score unless that is below 0.
Tally(servers, n, cc, row) ==
    /\ row = [code |-> cc, count |-> CountOf(servers, n, cc), best |-> row.best]
    /\ row.best \in Nat
    /\ \A k \in 1 .. n : servers[k].country = cc => servers[k].score <= row.best
    /\ row.best = 0 \/ \E k \in 1 .. n : servers[k].country = cc /\ servers[k].score = row.best

\* Every country but "" of the servers up to n has a row that counts them.
Tallied(servers, n, rows) ==
    /\ \A cc : cc \in DOMAIN rows <=> cc # Blank /\ \E k \in 1 .. n : servers[k].country = cc
    /\ \A cc \in DOMAIN rows : Tally(servers, n, cc, rows[cc])

\* Rows in a list, no country twice.
Listing(rows, list) ==
    /\ list \in Seq({rows[cc] : cc \in DOMAIN rows})
    /\ \A i \in DOMAIN list : list[i].code \in DOMAIN rows /\ list[i] = rows[list[i].code]
    /\ \A i, j \in DOMAIN list : i # j => list[i].code # list[j].code

\* Every pool is sorted.
InOrder(groups) == \A cc \in DOMAIN groups : BestFirst(groups[cc])

\* What the loops work on.
Work(groups, unsorted, rows, list) ==
    [groups |-> groups, unsorted |-> unsorted, rows |-> rows, list |-> list]

\* Pools and rows are of the servers that their loops have passed.
EntriesInv ==
    call = "entries" =>
      /\ input \in Seq(Listed) /\ at \in 0 .. Len(input)
      /\ pc = "loop" => \E groups :
           work = Work(groups, {}, Empty, <<>>) /\ Pooled(input, at, groups)
      /\ pc = "order" => \E groups, unsorted :
           /\ work = Work(groups, unsorted, Empty, <<>>) /\ Pooled(input, Len(input), groups)
           /\ \A cc \in DOMAIN groups : cc \in unsorted \/ BestFirst(groups[cc])
      /\ pc = "count" => \E groups, rows :
           /\ work = Work(groups, {}, rows, <<>>)
           /\ Pooled(input, Len(input), groups) /\ InOrder(groups) /\ Tallied(input, at, rows)
      /\ pc = "list" => \E groups, rows, list :
           /\ work = Work(groups, {}, rows, list)
           /\ Pooled(input, Len(input), groups) /\ InOrder(groups)
           /\ Tallied(input, Len(input), rows) /\ Listing(rows, list)
      /\ pc = "done" => \E groups, rows, list :
           /\ output = [groups |-> groups, entries |-> list]
           /\ Pooled(input, Len(input), groups) /\ InOrder(groups)
           /\ Tallied(input, Len(input), rows) /\ Listing(rows, list)
           /\ \A cc \in DOMAIN rows : \E i \in DOMAIN list : list[i].code = cc
           /\ \A i, j \in DOMAIN list : i < j => list[i].count >= list[j].count

\* What Put changes.
LEMMA PutIs ==
    ASSUME NEW f, NEW k, NEW x
    PROVE  /\ \A c : c \in DOMAIN C!Put(f, k, x) <=> c \in DOMAIN f \/ c = k
           /\ C!Put(f, k, x)[k] = x
           /\ \A c \in DOMAIN f : c # k => C!Put(f, k, x)[c] = f[c]
  BY DEF C!Put

\* One more server joins the pool of its country.
LEMMA ServerPooled ==
    ASSUME NEW servers \in Seq(Listed), NEW n \in Nat, n < Len(servers), NEW groups,
           Pooled(servers, n, groups)
    PROVE  Pooled(servers, n + 1, C!AddServer(groups, servers[n + 1]))
<1> DEFINE s == servers[n + 1]
           old == C!Get(groups, s.country, <<>>)
           new == Append(old, s)
           all == C!AddServer(groups, s)
<1>1. s \in Listed /\ \A k \in 1 .. n + 1 : k \in 1 .. n \/ k = n + 1
  OBVIOUS
<1>2. /\ \A c : c \in DOMAIN all <=> c \in DOMAIN groups \/ c = s.country
      /\ all[s.country] = new
      /\ \A c \in DOMAIN groups : c # s.country => all[c] = groups[c]
  <2>1. all = C!Put(groups, s.country, new)
    BY DEF C!AddServer
  <2> HIDE DEF all, new
  <2> QED
    BY <2>1, PutIs
<1> HIDE DEF all
<1>3. Pool(servers, n, s.country, old)
  <2>1. CASE s.country \in DOMAIN groups
    BY <2>1 DEF Pooled, C!Get
  <2>2. CASE s.country \notin DOMAIN groups
    <3>1. old = <<>>
      BY <2>2 DEF C!Get
    <3>2. \A k \in 1 .. n : servers[k].country # s.country
      BY <2>2 DEF Pooled
    <3>3. CountOf(servers, n, s.country) = 0
      BY <3>2, CountNext
    <3>4. <<>> \in Seq(Listed) /\ Len(<<>>) = 0 /\ DOMAIN <<>> = {}
      OBVIOUS
    <3> HIDE DEF old, s
    <3> QED
      BY <3>1, <3>2, <3>3, <3>4 DEF Pool
  <2> QED
    BY <2>1, <2>2
<1> HIDE DEF old
<1>4. Pool(servers, n + 1, s.country, new)
  <2>1. /\ new \in Seq(Listed) /\ Len(new) = Len(old) + 1
        /\ DOMAIN new = 1 .. Len(old) + 1 /\ DOMAIN old = 1 .. Len(old) /\ Len(old) \in Nat
        /\ new[Len(old) + 1] = s /\ \A i \in DOMAIN old : i \in DOMAIN new /\ new[i] = old[i]
    BY <1>1, <1>3 DEF Pool
  <2> HIDE DEF new
  <2>2. Len(new) = CountOf(servers, n + 1, s.country)
    <3> DEFINE cc == s.country
    <3>1. servers[n + 1].country = cc
      OBVIOUS
    <3> HIDE DEF cc
    <3>2. CountOf(servers, n + 1, cc) = CountOf(servers, n, cc) + 1
      BY <3>1, CountNext
    <3>3. Len(old) = CountOf(servers, n, cc)
      BY <1>3 DEF Pool, cc
    <3>4. Len(new) = CountOf(servers, n + 1, cc)
      BY <2>1, <3>2, <3>3
    <3> QED
      BY <3>4 DEF cc
  <2>3. ASSUME NEW k \in 1 .. n + 1, servers[k].country = s.country
        PROVE  \E i \in DOMAIN new : new[i] = servers[k]
    <3>1. CASE k \in 1 .. n
      <4>1. PICK i \in DOMAIN old : old[i] = servers[k]
        BY <1>3, <2>3, <3>1 DEF Pool
      <4> QED
        BY <2>1, <4>1
    <3>2. CASE k = n + 1
      <4>1. Len(old) + 1 \in DOMAIN new
        BY <2>1
      <4> QED
        BY <2>1, <3>2, <4>1
    <3> QED
      BY <1>1, <3>1, <3>2
  <2>4. ASSUME NEW i \in DOMAIN new
        PROVE  \E k \in 1 .. n + 1 : servers[k].country = s.country /\ new[i] = servers[k]
    <3>1. CASE i \in DOMAIN old
      <4>1. PICK k \in 1 .. n : servers[k].country = s.country /\ old[i] = servers[k]
        BY <1>3, <3>1 DEF Pool
      <4> QED
        BY <2>1, <3>1, <4>1
    <3>2. CASE i \notin DOMAIN old
      <4>1. i = Len(old) + 1
        BY <2>1, <3>2
      <4> QED
        BY <2>1, <4>1
    <3> QED
      BY <3>1, <3>2
  <2> QED
    BY <2>1, <2>2, <2>3, <2>4 DEF Pool
<1>5. ASSUME NEW cc, cc # s.country, Pool(servers, n, cc, groups[cc])
      PROVE  Pool(servers, n + 1, cc, groups[cc])
  <2> DEFINE q == groups[cc]
  <2>1. q \in Seq(Listed) /\ Len(q) = CountOf(servers, n + 1, cc)
    BY <1>5, CountNext DEF Pool
  <2>2. \A k \in 1 .. n + 1 : servers[k].country = cc => k \in 1 .. n
    BY <1>1, <1>5
  <2> HIDE DEF q
  <2>3. Pool(servers, n, cc, q)
    BY <1>5 DEF q
  <2>4. Pool(servers, n + 1, cc, q)
    BY <2>1, <2>2, <2>3 DEF Pool
  <2> QED
    BY <2>4 DEF q
<1>6. \A cc : cc \in DOMAIN all <=> \E k \in 1 .. n + 1 : servers[k].country = cc
  <2> SUFFICES ASSUME NEW cc
               PROVE  cc \in DOMAIN all <=> \E k \in 1 .. n + 1 : servers[k].country = cc
    OBVIOUS
  <2>1. cc \in DOMAIN groups <=> \E k \in 1 .. n : servers[k].country = cc
    BY DEF Pooled
  <2>2. (\E k \in 1 .. n + 1 : servers[k].country = cc)
          <=> (\E k \in 1 .. n : servers[k].country = cc) \/ s.country = cc
    BY <1>1
  <2> QED
    BY <1>2, <2>1, <2>2
<1>7. ASSUME NEW cc \in DOMAIN all PROVE Pool(servers, n + 1, cc, all[cc])
  <2>1. CASE cc = s.country
    BY <1>2, <1>4, <2>1
  <2>2. CASE cc # s.country
    <3>1. cc \in DOMAIN groups /\ all[cc] = groups[cc]
      BY <1>2, <2>2
    <3> QED
      BY <1>5, <2>2, <3>1 DEF Pooled
  <2> QED
    BY <2>1, <2>2
<1>8. Pooled(servers, n + 1, all)
  BY <1>6, <1>7 DEF Pooled
<1> QED
  BY <1>8 DEF all

\* A row with another count and another best score.
LEMMA RowChanged ==
    ASSUME NEW row, NEW c, NEW n, NEW b, row = [code |-> c, count |-> n, best |-> b],
           NEW x, NEW y, NEW changed, changed = [row EXCEPT !.count = x, !.best = y]
    PROVE  changed = [code |-> c, count |-> x, best |-> y]
<1>1. ASSUME NEW r, r = [row EXCEPT !.count = x]
      PROVE  r = [code |-> c, count |-> x, best |-> b]
  <2>1. r.code = c /\ r.count = x /\ r.best = b
    BY <1>1
  <2>2. r = [code |-> r.code, count |-> r.count, best |-> r.best]
    BY <1>1
  <2> QED
    BY <2>1, <2>2
<1>2. ASSUME NEW r, r = [code |-> c, count |-> x, best |-> b], NEW t, t = [r EXCEPT !.best = y]
      PROVE  t = [code |-> c, count |-> x, best |-> y]
  <2>1. t.code = c /\ t.count = x /\ t.best = y
    BY <1>2
  <2>2. t = [code |-> t.code, count |-> t.count, best |-> t.best]
    BY <1>2
  <2> QED
    BY <2>1, <2>2
<1>3. [row EXCEPT !.count = x, !.best = y] = [[row EXCEPT !.count = x] EXCEPT !.best = y]
  OBVIOUS
<1> QED
  BY <1>1, <1>2, <1>3

\* One more server is counted for its country.
LEMMA ServerCounted ==
    ASSUME NEW servers \in Seq(Listed), NEW n \in Nat, n < Len(servers), NEW rows,
           Tallied(servers, n, rows)
    PROVE  Tallied(servers, n + 1, C!CountServer(rows, servers[n + 1]))
<1> DEFINE s == servers[n + 1]
           all == C!CountServer(rows, s)
<1>1. s.score \in Int /\ \A k \in 1 .. n + 1 : k \in 1 .. n \/ k = n + 1
  <2>1. s \in Listed
    OBVIOUS
  <2> QED
    BY <2>1 DEF Listed
<1>2. (s.country = Blank => all = rows)
      /\ (s.country # Blank =>
            all = C!Put(rows, s.country,
                        [C!Get(rows, s.country, C!NewEntry(s.country)) EXCEPT
                           !.count = @ + 1, !.best = IF s.score > @ THEN s.score ELSE @]))
  BY Zenon DEF C!CountServer, Blank
<1>3. ASSUME NEW cc, cc # s.country, NEW row, Tally(servers, n, cc, row)
      PROVE  Tally(servers, n + 1, cc, row)
  <2>1. CountOf(servers, n + 1, cc) = CountOf(servers, n, cc)
    BY <1>3, CountNext
  <2>2. \A k \in 1 .. n + 1 : servers[k].country = cc => k \in 1 .. n
    BY <1>1, <1>3
  <2> QED
    BY <1>3, <2>1, <2>2 DEF Tally
<1>4. ASSUME NEW cc
      PROVE  (\E k \in 1 .. n + 1 : servers[k].country = cc)
               <=> (\E k \in 1 .. n : servers[k].country = cc) \/ s.country = cc
  BY <1>1
<1> HIDE DEF s, all
<1>5. CASE s.country = Blank
  <2>1. ASSUME NEW cc
        PROVE  cc \in DOMAIN rows <=> cc # Blank /\ \E k \in 1 .. n + 1 : servers[k].country = cc
    BY <1>4, <1>5 DEF Tallied
  <2>2. ASSUME NEW cc \in DOMAIN rows PROVE Tally(servers, n + 1, cc, rows[cc])
    BY <1>3, <1>5 DEF Tallied
  <2>3. Tallied(servers, n + 1, rows)
    BY <2>1, <2>2 DEF Tallied
  <2> QED
    BY <1>2, <1>5, <2>3 DEF all, s
<1>6. CASE s.country # Blank
  <2> DEFINE c == s.country
             old == C!Get(rows, c, C!NewEntry(c))
             new == [old EXCEPT !.count = @ + 1, !.best = IF s.score > @ THEN s.score ELSE @]
  <2>1. all = C!Put(rows, c, new)
    BY <1>2, <1>6
  <2>2. Tally(servers, n, c, old)
    <3>1. CASE c \in DOMAIN rows
      BY <3>1 DEF C!Get, Tallied
    <3>2. CASE c \notin DOMAIN rows
      <4>1. old = [code |-> c, count |-> 0, best |-> 0]
        BY <3>2 DEF C!Get, C!NewEntry
      <4>2. \A k \in 1 .. n : servers[k].country # c
        BY <1>6, <3>2 DEF Tallied
      <4>3. CountOf(servers, n, c) = 0
        BY <4>2, CountNext
      <4> HIDE DEF old, c
      <4> QED
        BY <4>1, <4>2, <4>3 DEF Tally
    <3> QED
      BY <3>1, <3>2
  <2> HIDE DEF old
  <2>3. CountOf(servers, n + 1, c) = CountOf(servers, n, c) + 1
    <3>1. servers[n + 1].country = c
      BY DEF s
    <3> HIDE DEF c
    <3> QED
      BY <3>1, CountNext
  <2>4. Tally(servers, n + 1, c, new)
    <3>1. /\ old = [code |-> c, count |-> CountOf(servers, n, c), best |-> old.best]
          /\ old.best \in Nat
          /\ \A k \in 1 .. n : servers[k].country = c => servers[k].score <= old.best
          /\ old.best = 0 \/ \E k \in 1 .. n : servers[k].country = c /\ servers[k].score = old.best
      BY <2>2 DEF Tally
    <3> DEFINE top == IF s.score > old.best THEN s.score ELSE old.best
    <3>2. new = [code |-> c, count |-> CountOf(servers, n, c) + 1, best |-> top]
      <4>1. old.count = CountOf(servers, n, c)
        BY <3>1
      <4> HIDE DEF top
      <4>2. new = [old EXCEPT !.count = CountOf(servers, n, c) + 1, !.best = top]
        BY <4>1 DEF top
      <4>3. PICK m, b : old = [code |-> c, count |-> m, best |-> b]
        BY <3>1
      <4>4. PICK x, y : x = CountOf(servers, n, c) + 1 /\ y = top
        OBVIOUS
      <4> HIDE DEF new, c
      <4>5. new = [old EXCEPT !.count = x, !.best = y]
        BY <4>2, <4>4
      <4>6. new = [code |-> c, count |-> x, best |-> y]
        BY <4>3, <4>5, RowChanged
      <4> QED
        BY <4>4, <4>6
    <3>3. new = [code |-> c, count |-> CountOf(servers, n + 1, c), best |-> new.best] /\ new.best = top
      BY <2>3, <3>2
    <3>4. top \in Nat /\ top >= old.best /\ top >= s.score /\ (top = old.best \/ top = s.score)
      BY <1>1, <3>1
    <3> HIDE DEF new, top
    <3>5. ASSUME NEW k \in 1 .. n + 1, servers[k].country = c PROVE servers[k].score <= top
      <4>1. CASE k = n + 1
        BY <3>4, <4>1 DEF s
      <4>2. CASE k \in 1 .. n
        <5>1. servers[k] \in Listed
          BY <4>2
        <5>2. servers[k].score <= old.best /\ servers[k].score \in Int
          BY <3>1, <3>5, <4>2, <5>1 DEF Listed
        <5> QED
          BY <3>1, <3>4, <5>2
      <4> QED
        BY <1>1, <4>1, <4>2
    <3>6. top = 0 \/ \E k \in 1 .. n + 1 : servers[k].country = c /\ servers[k].score = top
      <4>1. CASE top = old.best
        BY <3>1, <4>1
      <4>2. CASE top = s.score
        <5>1. n + 1 \in 1 .. n + 1
          OBVIOUS
        <5> QED
          BY <4>2, <5>1 DEF s
      <4> QED
        BY <3>4, <4>1, <4>2
    <3> QED
      BY <3>3, <3>4, <3>5, <3>6 DEF Tally
  <2>5. /\ \A cc : cc \in DOMAIN all <=> cc \in DOMAIN rows \/ cc = c
        /\ all[c] = new
        /\ \A cc \in DOMAIN rows : cc # c => all[cc] = rows[cc]
    <3> HIDE DEF new, c
    <3> QED
      BY <2>1, PutIs
  <2> HIDE DEF new
  <2>6. ASSUME NEW cc
        PROVE  cc \in DOMAIN all <=> cc # Blank /\ \E k \in 1 .. n + 1 : servers[k].country = cc
    <3>1. cc \in DOMAIN rows <=> cc # Blank /\ \E k \in 1 .. n : servers[k].country = cc
      BY DEF Tallied
    <3> QED
      BY <1>4, <1>6, <2>5, <3>1
  <2>7. ASSUME NEW cc \in DOMAIN all PROVE Tally(servers, n + 1, cc, all[cc])
    <3>1. CASE cc = c
      BY <2>4, <2>5, <3>1
    <3>2. CASE cc # c
      <4>1. cc \in DOMAIN rows /\ all[cc] = rows[cc]
        BY <2>5, <3>2
      <4> QED
        BY <1>3, <3>2, <4>1 DEF Tallied
    <3> QED
      BY <3>1, <3>2
  <2>8. Tallied(servers, n + 1, all)
    BY <2>6, <2>7 DEF Tallied
  <2> QED
    BY <2>8 DEF all, s
<1> QED
  BY <1>5, <1>6

\* Sorting a pool leaves a pool.
LEMMA PoolSorted ==
    ASSUME NEW servers, NEW n, NEW cc, NEW q, Pool(servers, n, cc, q), NEW r \in Rearranged(q)
    PROVE  Pool(servers, n, cc, r)
<1>1. q \in Seq(Listed)
  BY DEF Pool
<1>2. /\ r \in Seq(Listed) /\ Len(r) = Len(q) /\ DOMAIN r = DOMAIN q
      /\ \A i \in DOMAIN q : \E j \in DOMAIN q : r[i] = q[j]
      /\ \A j \in DOMAIN q : \E i \in DOMAIN q : r[i] = q[j]
  BY <1>1, RearrangedIs
<1>3. ASSUME NEW k \in 1 .. n, servers[k].country = cc PROVE \E i \in DOMAIN r : r[i] = servers[k]
  <2>1. PICK j \in DOMAIN q : q[j] = servers[k]
    BY <1>3 DEF Pool
  <2> QED
    BY <1>2, <2>1
<1>4. ASSUME NEW i \in DOMAIN r PROVE \E k \in 1 .. n : servers[k].country = cc /\ r[i] = servers[k]
  <2>1. PICK j \in DOMAIN q : r[i] = q[j]
    BY <1>2
  <2> QED
    BY <2>1 DEF Pool
<1> QED
  BY <1>2, <1>3, <1>4 DEF Pool

\* Sorting a list leaves the rows it lists.
LEMMA ListSorted ==
    ASSUME NEW rows, NEW list, Listing(rows, list), NEW r \in Rearranged(list)
    PROVE  /\ Listing(rows, r) /\ DOMAIN r = DOMAIN list
           /\ \A j \in DOMAIN list : \E i \in DOMAIN r : r[i] = list[j]
<1> DEFINE S == {rows[cc] : cc \in DOMAIN rows}
<1>1. list \in Seq(S)
  BY DEF Listing
<1> HIDE DEF S
<1>2. /\ r \in Seq(S) /\ DOMAIN r = DOMAIN list
      /\ \A j \in DOMAIN list : \E i \in DOMAIN list : r[i] = list[j]
      /\ \E p \in Bijection(DOMAIN list, DOMAIN list) : \A i \in DOMAIN list : r[i] = list[p[i]]
  BY <1>1, RearrangedIs
<1>3. PICK p \in Bijection(DOMAIN list, DOMAIN list) : \A i \in DOMAIN list : r[i] = list[p[i]]
  BY <1>2
<1>4. p \in [DOMAIN list -> DOMAIN list] /\ \A i, j \in DOMAIN list : i # j => p[i] # p[j]
  BY <1>3 DEF Bijection, Injection, IsInjective
<1>5. ASSUME NEW i \in DOMAIN r PROVE r[i].code \in DOMAIN rows /\ r[i] = rows[r[i].code]
  <2>1. PICK j \in DOMAIN list : r[i] = list[j]
    BY <1>2, <1>3, <1>4
  <2> QED
    BY <2>1 DEF Listing
<1>6. ASSUME NEW i \in DOMAIN r, NEW j \in DOMAIN r, i # j PROVE r[i].code # r[j].code
  <2>1. p[i] \in DOMAIN list /\ p[j] \in DOMAIN list /\ p[i] # p[j]
    BY <1>2, <1>4, <1>6
  <2>2. r[i] = list[p[i]] /\ r[j] = list[p[j]]
    BY <1>2, <1>3
  <2> QED
    BY <2>1, <2>2 DEF Listing
<1> QED
  BY <1>2, <1>5, <1>6 DEF Listing, S

\* One more row is listed.
LEMMA RowListed ==
    ASSUME NEW rows, NEW list, Listing(rows, list), NEW cc \in DOMAIN rows, rows[cc].code = cc,
           \A i \in DOMAIN list : list[i].code # cc
    PROVE  Listing(rows, Append(list, rows[cc]))
<1> DEFINE S == {rows[c] : c \in DOMAIN rows}
           row == rows[cc]
           new == Append(list, row)
<1>1. list \in Seq(S) /\ row \in S
  BY DEF Listing
<1> HIDE DEF S
<1>2. /\ new \in Seq(S) /\ DOMAIN list = 1 .. Len(list) /\ Len(list) \in Nat
      /\ DOMAIN new = 1 .. Len(list) + 1 /\ new[Len(list) + 1] = row
      /\ \A i \in DOMAIN list : new[i] = list[i]
  BY <1>1
<1> HIDE DEF new
<1>3. \A i \in DOMAIN new : i \in DOMAIN list \/ i = Len(list) + 1
  BY <1>2
<1>4. ASSUME NEW i \in DOMAIN new PROVE new[i].code \in DOMAIN rows /\ new[i] = rows[new[i].code]
  BY <1>2, <1>3 DEF Listing
<1>5. ASSUME NEW i \in DOMAIN new, NEW j \in DOMAIN new, i # j PROVE new[i].code # new[j].code
  <2>1. CASE i \in DOMAIN list /\ j \in DOMAIN list
    BY <1>2, <1>5, <2>1 DEF Listing
  <2>2. CASE i = Len(list) + 1 /\ j \in DOMAIN list
    BY <1>2, <2>2
  <2>3. CASE i \in DOMAIN list /\ j = Len(list) + 1
    BY <1>2, <2>3
  <2> QED
    BY <1>3, <1>5, <2>1, <2>2, <2>3
<1>6. Listing(rows, new)
  BY <1>2, <1>4, <1>5 DEF Listing, S
<1> QED
  BY <1>6 DEF new

\* The parts of what the loops work on.
LEMMA WorkIs ==
    ASSUME NEW groups, NEW unsorted, NEW rows, NEW list, NEW w, w = Work(groups, unsorted, rows, list)
    PROVE  w.groups = groups /\ w.unsorted = unsorted /\ w.rows = rows /\ w.list = list
  BY DEF Work

\* Only the pools change.
LEMMA GroupsChanged ==
    ASSUME NEW groups, NEW unsorted, NEW rows, NEW list, NEW w, w = Work(groups, unsorted, rows, list),
           NEW x, NEW changed, changed = [w EXCEPT !.groups = x]
    PROVE  changed = Work(x, unsorted, rows, list)
<1>1. /\ changed.groups = x /\ changed.unsorted = unsorted
      /\ changed.rows = rows /\ changed.list = list
  BY DEF Work
<1>2. changed = [groups |-> changed.groups, unsorted |-> changed.unsorted,
                 rows |-> changed.rows, list |-> changed.list]
  BY DEF Work
<1> QED
  BY <1>1, <1>2 DEF Work

\* Only what is left to sort changes.
LEMMA UnsortedChanged ==
    ASSUME NEW groups, NEW unsorted, NEW rows, NEW list, NEW w, w = Work(groups, unsorted, rows, list),
           NEW x, NEW changed, changed = [w EXCEPT !.unsorted = x]
    PROVE  changed = Work(groups, x, rows, list)
<1>1. /\ changed.groups = groups /\ changed.unsorted = x
      /\ changed.rows = rows /\ changed.list = list
  BY DEF Work
<1>2. changed = [groups |-> changed.groups, unsorted |-> changed.unsorted,
                 rows |-> changed.rows, list |-> changed.list]
  BY DEF Work
<1> QED
  BY <1>1, <1>2 DEF Work

\* Only the rows change.
LEMMA CountsChanged ==
    ASSUME NEW groups, NEW unsorted, NEW rows, NEW list, NEW w, w = Work(groups, unsorted, rows, list),
           NEW x, NEW changed, changed = [w EXCEPT !.rows = x]
    PROVE  changed = Work(groups, unsorted, x, list)
<1>1. /\ changed.groups = groups /\ changed.unsorted = unsorted
      /\ changed.rows = x /\ changed.list = list
  BY DEF Work
<1>2. changed = [groups |-> changed.groups, unsorted |-> changed.unsorted,
                 rows |-> changed.rows, list |-> changed.list]
  BY DEF Work
<1> QED
  BY <1>1, <1>2 DEF Work

\* Only the list changes.
LEMMA ListChanged ==
    ASSUME NEW groups, NEW unsorted, NEW rows, NEW list, NEW w, w = Work(groups, unsorted, rows, list),
           NEW x, NEW changed, changed = [w EXCEPT !.list = x]
    PROVE  changed = Work(groups, unsorted, rows, x)
<1>1. /\ changed.groups = groups /\ changed.unsorted = unsorted
      /\ changed.rows = rows /\ changed.list = x
  BY DEF Work
<1>2. changed = [groups |-> changed.groups, unsorted |-> changed.unsorted,
                 rows |-> changed.rows, list |-> changed.list]
  BY DEF Work
<1> QED
  BY <1>1, <1>2 DEF Work

\* No servers are grouped at first.
LEMMA EntriesInit == Init => EntriesInv
  BY DEF Init, EntriesInv

\* Each step groups, sorts, counts or lists one more.
LEMMA EntriesStep == ASSUME Stages, EntriesInv, [Next]_vars PROVE EntriesInv'
<1>1. call' = "entries" => GroupAndList \/ UNCHANGED vars
  BY OwnSteps
<1>2. CASE UNCHANGED vars
  BY <1>2 DEF EntriesInv
<1>3. CASE call' # "entries"
  BY <1>3 DEF EntriesInv
<1>4. ASSUME call = "entries" PROVE input \in Seq(Listed) /\ at \in 0 .. Len(input)
  BY <1>4 DEF EntriesInv
<1>5. CASE CallEntries
  <2>1. PICK servers \in Lists :
          Begin("entries", servers, Work(Empty, {}, Empty, <<>>))
    BY <1>5 DEF CallEntries, Work
  <2>2. /\ input' = servers /\ pc' = "loop" /\ at' = 0 /\ work' = Work(Empty, {}, Empty, <<>>)
        /\ servers \in Seq(Listed)
    BY <1>5, <2>1, AlgorithmsAssumption DEF CallEntries, Begin, Stages
  <2>3. Pooled(servers, 0, Empty)
    BY DEF Pooled, Empty
  <2>4. 0 \in 0 .. Len(servers)
    BY <2>2
  <2> QED
    BY <2>2, <2>3, <2>4 DEF EntriesInv
<1>6. CASE GroupServer
  <2>1. /\ call = "entries" /\ pc = "loop" /\ at < Len(input) /\ at' = at + 1
        /\ work' = [work EXCEPT !.groups = C!AddServer(work.groups, input[at + 1])]
        /\ input' = input /\ pc' = "loop"
    BY <1>6 DEF GroupServer, Turn
  <2>2. PICK groups : work = Work(groups, {}, Empty, <<>>) /\ Pooled(input, at, groups)
    BY <2>1 DEF EntriesInv
  <2>3. PICK x : x = C!AddServer(groups, input[at + 1])
    OBVIOUS
  <2>4. work' = Work(x, {}, Empty, <<>>)
    <3>1. work.groups = groups
      BY <2>2, WorkIs
    <3>2. work' = [work EXCEPT !.groups = x]
      BY <2>1, <2>3, <3>1
    <3> QED
      BY <2>2, <3>2, GroupsChanged
  <2>5. Pooled(input, at + 1, x)
    BY <1>4, <2>1, <2>2, <2>3, ServerPooled
  <2>6. at + 1 \in 0 .. Len(input)
    BY <1>4, <2>1
  <2> QED
    BY <1>4, <2>1, <2>4, <2>5, <2>6 DEF EntriesInv
<1>7. CASE Grouped
  <2>1. /\ call = "entries" /\ pc = "loop" /\ at = Len(input) /\ at' = at
        /\ work' = [work EXCEPT !.unsorted = DOMAIN work.groups]
        /\ input' = input /\ pc' = "order"
    BY <1>7 DEF Grouped, Over
  <2>2. PICK groups : work = Work(groups, {}, Empty, <<>>) /\ Pooled(input, at, groups)
    BY <2>1 DEF EntriesInv
  <2>3. work' = Work(groups, DOMAIN groups, Empty, <<>>)
    <3>1. work.groups = groups
      BY <2>2, WorkIs
    <3>2. work' = [work EXCEPT !.unsorted = DOMAIN groups]
      BY <2>1, <3>1
    <3> QED
      BY <2>2, <3>2, UnsortedChanged
  <2> QED
    BY <1>4, <2>1, <2>2, <2>3 DEF EntriesInv
<1>8. CASE OrderGroup
  <2>1. call = "entries" /\ pc = "order" /\ at' = at /\ input' = input /\ pc' = "order"
    BY <1>8 DEF OrderGroup, Stages
  <2>2. PICK groups, unsorted :
          /\ work = Work(groups, unsorted, Empty, <<>>) /\ Pooled(input, Len(input), groups)
          /\ \A cc \in DOMAIN groups : cc \in unsorted \/ BestFirst(groups[cc])
    BY <2>1 DEF EntriesInv
  <2>3. work.groups = groups /\ work.unsorted = unsorted
    BY <2>2, WorkIs
  <2>4. PICK cc \in unsorted : \E q \in Rearranged(groups[cc]) :
          /\ BestFirst(q)
          /\ work' = [work EXCEPT !.groups[cc] = q, !.unsorted = work.unsorted \ {cc}]
    BY <1>8, <2>3 DEF OrderGroup, BestFirst
  <2>41. PICK q \in Rearranged(groups[cc]) :
          /\ BestFirst(q)
          /\ work' = [work EXCEPT !.groups[cc] = q, !.unsorted = work.unsorted \ {cc}]
    BY <2>4
  <2>5. PICK x, y : x = [groups EXCEPT ![cc] = q] /\ y = unsorted \ {cc}
    OBVIOUS
  <2>6. work' = Work(x, y, Empty, <<>>)
    <3>1. PICK w : w = [work EXCEPT !.groups = x]
      OBVIOUS
    <3>2. w = Work(x, unsorted, Empty, <<>>)
      BY <2>2, <3>1, GroupsChanged
    <3>3. work' = [w EXCEPT !.unsorted = y]
      BY <2>3, <2>41, <2>5, <3>1
    <3> QED
      BY <3>2, <3>3, UnsortedChanged
  <2>7. ASSUME NEW c \in DOMAIN x
        PROVE  Pool(input, Len(input), c, x[c]) /\ (c \in y \/ BestFirst(x[c]))
    <3>1. c \in DOMAIN groups /\ Pool(input, Len(input), c, groups[c])
      BY <2>2, <2>5 DEF Pooled
    <3>2. CASE c = cc
      <4>1. x[c] = q
        BY <2>5, <3>1, <3>2
      <4> QED
        BY <2>41, <3>1, <3>2, <4>1, PoolSorted
    <3>3. CASE c # cc
      <4>1. x[c] = groups[c]
        BY <2>5, <3>1, <3>3
      <4>2. c \in y \/ BestFirst(groups[c])
        BY <2>2, <2>5, <3>1, <3>3
      <4> QED
        BY <3>1, <4>1, <4>2
    <3> QED
      BY <3>2, <3>3
  <2>8. Pooled(input, Len(input), x)
    BY <2>2, <2>5, <2>7 DEF Pooled
  <2> QED
    BY <1>4, <2>1, <2>6, <2>7, <2>8 DEF EntriesInv
<1>9. CASE Ordered
  <2>1. /\ call = "entries" /\ pc = "order" /\ work.unsorted = {} /\ at' = 0 /\ input' = input
        /\ pc' = "count" /\ work' = work
    BY <1>9 DEF Ordered, Stages
  <2>2. PICK groups, unsorted :
          /\ work = Work(groups, unsorted, Empty, <<>>) /\ Pooled(input, Len(input), groups)
          /\ \A cc \in DOMAIN groups : cc \in unsorted \/ BestFirst(groups[cc])
    BY <2>1 DEF EntriesInv
  <2>3. unsorted = {}
    BY <2>1, <2>2, WorkIs
  <2>4. InOrder(groups)
    BY <2>2, <2>3 DEF InOrder
  <2>5. Tallied(input, 0, Empty)
    BY DEF Tallied, Empty
  <2>6. 0 \in 0 .. Len(input)
    BY <1>4, <2>1
  <2> QED
    BY <1>4, <2>1, <2>2, <2>3, <2>4, <2>5, <2>6 DEF EntriesInv
<1>10. CASE CountServer
  <2>1. /\ call = "entries" /\ pc = "count" /\ at < Len(input) /\ at' = at + 1
        /\ work' = [work EXCEPT !.rows = C!CountServer(work.rows, input[at + 1])]
        /\ input' = input /\ pc' = "count"
    BY <1>10 DEF CountServer, Turn
  <2>2. PICK groups, rows :
          /\ work = Work(groups, {}, rows, <<>>)
          /\ Pooled(input, Len(input), groups) /\ InOrder(groups) /\ Tallied(input, at, rows)
    BY <2>1 DEF EntriesInv
  <2>3. PICK x : x = C!CountServer(rows, input[at + 1])
    OBVIOUS
  <2>4. work' = Work(groups, {}, x, <<>>)
    <3>1. work.rows = rows
      BY <2>2, WorkIs
    <3>2. work' = [work EXCEPT !.rows = x]
      BY <2>1, <2>3, <3>1
    <3> QED
      BY <2>2, <3>2, CountsChanged
  <2>5. Tallied(input, at + 1, x)
    BY <1>4, <2>1, <2>2, <2>3, ServerCounted
  <2>6. at + 1 \in 0 .. Len(input)
    BY <1>4, <2>1
  <2> QED
    BY <1>4, <2>1, <2>2, <2>4, <2>5, <2>6 DEF EntriesInv
<1>11. CASE Counted
  <2>1. /\ call = "entries" /\ pc = "count" /\ at = Len(input) /\ at' = at /\ input' = input
        /\ pc' = "list" /\ work' = work
    BY <1>11 DEF Counted, Over
  <2>2. PICK groups, rows :
          /\ work = Work(groups, {}, rows, <<>>)
          /\ Pooled(input, Len(input), groups) /\ InOrder(groups) /\ Tallied(input, at, rows)
    BY <2>1 DEF EntriesInv
  <2>3. Listing(rows, <<>>)
    BY DEF Listing
  <2> QED
    BY <1>4, <2>1, <2>2, <2>3 DEF EntriesInv
<1>12. ASSUME call = "entries", pc = "list", NEW groups, NEW rows, NEW list,
              work = Work(groups, {}, rows, list)
       PROVE  Unlisted = {cc \in DOMAIN rows : \A i \in DOMAIN list : list[i].code # cc}
  <2>1. work.rows = rows /\ work.list = list
    BY <1>12, WorkIs
  <2> QED
    BY <2>1 DEF Unlisted
<1>13. CASE ListRow
  <2>1. call = "entries" /\ pc = "list" /\ at' = at /\ input' = input /\ pc' = "list"
    BY <1>13 DEF ListRow, Stages
  <2>2. PICK groups, rows, list :
          /\ work = Work(groups, {}, rows, list)
          /\ Pooled(input, Len(input), groups) /\ InOrder(groups)
          /\ Tallied(input, Len(input), rows) /\ Listing(rows, list)
    BY <2>1 DEF EntriesInv
  <2>3. PICK cc \in Unlisted : work' = [work EXCEPT !.list = Append(work.list, work.rows[cc])]
    BY <1>13 DEF ListRow
  <2>4. PICK x : x = Append(list, rows[cc])
    OBVIOUS
  <2>5. work' = Work(groups, {}, rows, x)
    <3>1. work.rows = rows /\ work.list = list
      BY <2>2, WorkIs
    <3>2. work' = [work EXCEPT !.list = x]
      BY <2>3, <2>4, <3>1
    <3> QED
      BY <2>2, <3>2, ListChanged
  <2>6. Listing(rows, x)
    <3>1. cc \in DOMAIN rows /\ \A i \in DOMAIN list : list[i].code # cc
      BY <1>12, <2>1, <2>2, <2>3
    <3>2. rows[cc].code = cc
      BY <2>2, <3>1 DEF Tallied, Tally
    <3> QED
      BY <2>2, <2>4, <3>1, <3>2, RowListed
  <2> QED
    BY <1>4, <2>1, <2>2, <2>5, <2>6 DEF EntriesInv
<1>14. CASE SortRows
  <2>1. /\ call = "entries" /\ pc = "list" /\ Unlisted = {} /\ at' = at /\ input' = input
        /\ pc' = "done"
    BY <1>14 DEF SortRows, Returns, Stages
  <2>2. PICK groups, rows, list :
          /\ work = Work(groups, {}, rows, list)
          /\ Pooled(input, Len(input), groups) /\ InOrder(groups)
          /\ Tallied(input, Len(input), rows) /\ Listing(rows, list)
    BY <2>1 DEF EntriesInv
  <2>3. work.groups = groups /\ work.list = list
    BY <2>2, WorkIs
  <2>4. PICK q \in Rearranged(list) :
          /\ \A i, j \in DOMAIN q : i < j => q[i].count >= q[j].count
          /\ output' = [groups |-> groups, entries |-> q]
    BY <1>14, <2>3 DEF SortRows, Returns
  <2>5. /\ Listing(rows, q) /\ DOMAIN q = DOMAIN list
        /\ \A j \in DOMAIN list : \E i \in DOMAIN q : q[i] = list[j]
    BY <2>2, ListSorted
  <2>6. ASSUME NEW cc \in DOMAIN rows PROVE \E i \in DOMAIN q : q[i].code = cc
    <3>1. PICK j \in DOMAIN list : list[j].code = cc
      BY <1>12, <2>1, <2>2
    <3> QED
      BY <2>5, <3>1
  <2> QED
    BY <1>4, <2>1, <2>2, <2>4, <2>5, <2>6 DEF EntriesInv
<1> QED
  BY <1>1, <1>2, <1>3, <1>5, <1>6, <1>7, <1>8, <1>9, <1>10, <1>11, <1>13, <1>14 DEF GroupAndList

\* What the picker shows of a country is what its pool holds.
Matches(servers, cc, row, q) ==
    /\ row.count = Len(q)
    /\ Len(q) = Cardinality({k \in DOMAIN servers : servers[k].country = cc})
    /\ row.best = IF q[1].score > 0 THEN q[1].score ELSE 0
    /\ \A k \in DOMAIN servers : servers[k].country = cc => servers[k].score <= q[1].score

\* A row and the pool of its country were made of the same servers.
LEMMA RowMatchesPool ==
    ASSUME NEW servers \in Seq(Listed), NEW cc, NEW row, NEW q,
           Tally(servers, Len(servers), cc, row), Pool(servers, Len(servers), cc, q), BestFirst(q),
           \E k \in 1 .. Len(servers) : servers[k].country = cc
    PROVE  Matches(servers, cc, row, q)
<1>1. Len(q) = CountOf(servers, Len(servers), cc) /\ row.count = CountOf(servers, Len(servers), cc)
  BY DEF Pool, Tally
<1>2. DOMAIN servers = 1 .. Len(servers)
  OBVIOUS
<1>3. \A k \in DOMAIN servers : servers[k] \in Listed
  OBVIOUS
<1>4. \A k \in DOMAIN servers : servers[k].score \in Int
  BY <1>3 DEF Listed
<1>5. Len(q) = Cardinality({k \in DOMAIN servers : servers[k].country = cc})
  BY <1>1, <1>2 DEF CountOf
<1>6. 1 \in DOMAIN q /\ DOMAIN q = 1 .. Len(q) /\ Len(q) \in Nat
  <2>1. q \in Seq(Listed)
    BY DEF Pool
  <2>2. \E i \in DOMAIN q : TRUE
    BY DEF Pool
  <2> QED
    BY <2>1, <2>2
<1>7. PICK k1 \in 1 .. Len(servers) : servers[k1].country = cc /\ q[1] = servers[k1]
  BY <1>6 DEF Pool
<1>8. ASSUME NEW k \in DOMAIN servers, servers[k].country = cc
      PROVE  servers[k].score <= q[1].score
  <2>1. PICK i \in DOMAIN q : q[i] = servers[k]
    BY <1>2, <1>8 DEF Pool
  <2>2. i = 1 \/ 1 < i
    BY <1>6
  <2>3. servers[k].score \in Int
    BY <1>4
  <2> QED
    BY <1>6, <2>1, <2>2, <2>3 DEF BestFirst
<1>9. row.best = IF q[1].score > 0 THEN q[1].score ELSE 0
  <2>1. q[1].score \in Int /\ q[1].score <= row.best /\ row.best \in Nat
    BY <1>2, <1>4, <1>7 DEF Tally
  <2>2. row.best = 0 \/ row.best <= q[1].score
    <3>1. row.best = 0
            \/ \E k \in 1 .. Len(servers) : servers[k].country = cc /\ servers[k].score = row.best
      BY DEF Tally
    <3> QED
      BY <1>2, <1>8, <3>1
  <2> QED
    BY <2>1, <2>2
<1> QED
  BY <1>1, <1>5, <1>8, <1>9 DEF Matches

\* When all are listed, the picker matches the pools.
LEMMA EntriesHolds == ASSUME EntriesInv PROVE PickerMatchesPool
<1> SUFFICES ASSUME Done("entries") PROVE
      /\ {output.entries[i].code : i \in DOMAIN output.entries} = DOMAIN output.groups \ {""}
      /\ \A i \in DOMAIN output.entries :
           LET e == output.entries[i]
               q == output.groups[e.code]
           IN /\ e.count = Len(q)
              /\ Len(q) = Cardinality({k \in DOMAIN input : input[k].country = e.code})
              /\ e.best = IF q[1].score > 0 THEN q[1].score ELSE 0
              /\ \A k \in DOMAIN input : input[k].country = e.code => input[k].score <= q[1].score
      /\ \A i, j \in DOMAIN output.entries :
           i < j => /\ output.entries[i].code # output.entries[j].code
                    /\ output.entries[i].count >= output.entries[j].count
  BY DEF PickerMatchesPool
<1>1. PICK groups, rows, list :
        /\ output = [groups |-> groups, entries |-> list]
        /\ Pooled(input, Len(input), groups) /\ InOrder(groups)
        /\ Tallied(input, Len(input), rows) /\ Listing(rows, list)
        /\ \A cc \in DOMAIN rows : \E i \in DOMAIN list : list[i].code = cc
        /\ \A i, j \in DOMAIN list : i < j => list[i].count >= list[j].count
  BY DEF EntriesInv, Done
<1>2. input \in Seq(Listed) /\ output.groups = groups /\ output.entries = list
  BY <1>1 DEF EntriesInv, Done
<1>3. {list[i].code : i \in DOMAIN list} = DOMAIN groups \ {""}
  <2>1. \A cc : cc \in DOMAIN groups <=> \E k \in 1 .. Len(input) : input[k].country = cc
    BY <1>1 DEF Pooled
  <2>2. \A cc : cc \in DOMAIN rows
                  <=> cc # Blank /\ \E k \in 1 .. Len(input) : input[k].country = cc
    BY <1>1 DEF Tallied
  <2>3. DOMAIN rows = DOMAIN groups \ {Blank}
    BY <2>1, <2>2
  <2>4. \A i \in DOMAIN list : list[i].code \in DOMAIN rows
    BY <1>1 DEF Listing
  <2>5. {list[i].code : i \in DOMAIN list} = DOMAIN rows
    BY <1>1, <2>4
  <2> QED
    BY <2>3, <2>5, Zenon DEF Blank
<1>4. ASSUME NEW i \in DOMAIN list
      PROVE  LET e == list[i]
                 q == groups[e.code]
             IN /\ e.count = Len(q)
                /\ Len(q) = Cardinality({k \in DOMAIN input : input[k].country = e.code})
                /\ e.best = IF q[1].score > 0 THEN q[1].score ELSE 0
                /\ \A k \in DOMAIN input : input[k].country = e.code => input[k].score <= q[1].score
  <2>1. PICK cc \in DOMAIN rows : list[i].code = cc /\ list[i] = rows[cc]
    BY <1>1 DEF Listing
  <2>2. \E k \in 1 .. Len(input) : input[k].country = cc
    BY <1>1 DEF Tallied
  <2>3. cc \in DOMAIN groups /\ Pool(input, Len(input), cc, groups[cc]) /\ BestFirst(groups[cc])
    BY <1>1, <2>2 DEF Pooled, InOrder
  <2>4. Tally(input, Len(input), cc, rows[cc])
    BY <1>1 DEF Tallied
  <2>5. PICK row, q : row = rows[cc] /\ q = groups[cc]
    OBVIOUS
  <2>6. Tally(input, Len(input), cc, row) /\ Pool(input, Len(input), cc, q) /\ BestFirst(q)
    BY <2>3, <2>4, <2>5
  <2>7. Matches(input, cc, row, q)
    BY <1>2, <2>2, <2>6, RowMatchesPool
  <2> QED
    BY <2>1, <2>5, <2>7 DEF Matches
<1>5. ASSUME NEW i \in DOMAIN list, NEW j \in DOMAIN list, i < j
      PROVE  list[i].code # list[j].code /\ list[i].count >= list[j].count
  <2>1. i # j
    <3>1. list \in Seq({rows[cc] : cc \in DOMAIN rows})
      BY <1>1 DEF Listing
    <3>2. i \in Int /\ j \in Int
      BY <3>1
    <3> QED
      BY <1>5, <3>2
  <2> QED
    BY <1>1, <1>5, <2>1 DEF Listing
<1> QED
  BY <1>2, <1>3, <1>4, <1>5

-----------------------------------------------------------------------------

\* For any rows and address, the ASN that DetectByIP answers is that of a row
\* that spans the address, and of the one of its own family that covers it
\* when rows do not overlap (asncheck.go:132-183).
THEOREM LookupIsRight == Spec => []LookupFindsCover
<1>1. Init => Stages /\ DetectInv
  BY StagesInit, DetectInit
<1>2. (Stages /\ DetectInv) /\ [Next]_vars => (Stages /\ DetectInv)'
  BY StagesStep, DetectStep
<1>3. DetectInv => LookupFindsCover
  BY DetectHolds
<1> QED
  BY <1>1, <1>2, <1>3, PTL DEF Spec

\* The configuration made of any URI that Parse accepts has its protocol, server
\* and port, and TLS, SNI and ALPN where it must (parser.go:69-340,
\* runner.go:170-370).
THEOREM OutboundIsFaithful == Spec => []OutboundFaithful
<1>1. Init => Stages /\ BuildInv
  BY StagesInit, BuildInit
<1>2. (Stages /\ BuildInv) /\ [Next]_vars => (Stages /\ BuildInv)'
  BY StagesStep, BuildStep
<1>3. BuildInv => OutboundFaithful
  BY BuildFaithful
<1> QED
  BY <1>1, <1>2, <1>3, PTL DEF Spec

\* Exactly the whole rows of any sound table give a server, with the fields of
\* their row whatever the order of the columns (vpngate.go:80-154).
THEOREM RowsGiveServers == Spec => []VpnGateRows
<1>1. Init => Stages /\ TableInv
  BY StagesInit, TableInit
<1>2. (Stages /\ TableInv) /\ [Next]_vars => (Stages /\ TableInv)'
  BY StagesStep, TableStep
<1>3. TableInv => VpnGateRows
  BY TableHolds
<1> QED
  BY <1>1, <1>2, <1>3, PTL DEF Spec

\* What comes out of a body are URIs of it, in their order and each once; of one
\* that is plain or decodes, all that the limits on the body and on a line let
\* through (ssaggregator.go:227-266).
THEOREM UrisAreKept == Spec => []SourceKeepsUris
<1>1. Init => Stages /\ SourceInv
  BY StagesInit, SourceInit
<1>2. (Stages /\ SourceInv) /\ [Next]_vars => (Stages /\ SourceInv)'
  BY StagesStep, SourceStep
<1>3. SourceInv => SourceKeepsUris
  BY SourceKept
<1> QED
  BY <1>1, <1>2, <1>3, PTL DEF Spec

\* Of any gateway, bestTransport takes a transport that is offered on a named
\* port, before which the documented order puts no other of its protocol, and
\* gives up only what is disputed (riseup.go:171-197).
THEOREM TransportIsBest == Spec => []TransportOrder
<1>1. Init => Stages /\ TransportInv
  BY StagesInit, TransportInit
<1>2. (Stages /\ TransportInv) /\ [Next]_vars => (Stages /\ TransportInv)'
  BY StagesStep, TransportStep
<1>3. TransportInv => TransportOrder
  BY TransportHolds
<1> QED
  BY <1>1, <1>2, <1>3, PTL DEF Spec

\* For any list of servers, what the picker shows of a country is what its
\* pool holds (backend.go:119-128, picker.go:22-50).
THEOREM PickerIsTrue == Spec => []PickerMatchesPool
<1>1. Init => Stages /\ EntriesInv
  BY StagesInit, EntriesInit
<1>2. (Stages /\ EntriesInv) /\ [Next]_vars => (Stages /\ EntriesInv)'
  BY StagesStep, EntriesStep
<1>3. EntriesInv => PickerMatchesPool
  BY EntriesHolds
<1> QED
  BY <1>1, <1>2, <1>3, PTL DEF Spec
====
