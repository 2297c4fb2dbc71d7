----------------------------- MODULE InboundForm -----------------------------
(***************************************************************************)
(* An inbound of the 3x-ui panel on its way from the form to a client: the *)
(* modal that edits it (web/html/modals/inbound_modal.html), the JSON the  *)
(* panel stores and reads back (web/assets/js/model/inbound.js,            *)
(* dbinbound.js), the share links it generates, and the outbound another   *)
(* panel builds from such a link (web/assets/js/model/outbound.js).        *)
(*                                                                         *)
(* A section of the stream settings is reduced to what a client must know  *)
(* of it: key is the path, the gRPC service name or the mKCP MTU; host is  *)
(* the host field, or the gRPC authority; header is the Host header; opt   *)
(* says that TCP wears an HTTP header, that gRPC is in multi mode, that    *)
(* XHTTP has a mode of its own.  A link is the function of its parameters, *)
(* so that a missing parameter is missing.  Secrets are the generated ones *)
(* (letters, digits, UUIDs), which no encoding changes.                    *)
(*                                                                         *)
(* The page works on its row of the inbound list, which requests under way *)
(* bring up to date in any order.  A copy of an inbound shares its array   *)
(* of external proxies with the original, because toJson hands it out.     *)
(* The form an inbound was stored from goes with it, as a history, to be   *)
(* compared with what a link says.                                         *)
(***************************************************************************)
EXTENDS Naturals, Sequences, FiniteSets

CONSTANTS
    MaxEdits,   \* bounds the changes made in forms, protocol and flow aside
    MaxLoads,   \* bounds the lists under way
    None

ASSUME InboundFormAssumption == MaxEdits \in Nat /\ MaxLoads \in Nat

VARIABLES
    modal,      \* inModal.inbound, None when the modal is closed
    isEdit,     \* inModal.isEdit
    shared,     \* the modal's external proxies are the array of the row
    db,         \* what the server has stored: the JSON and its form
    row,        \* the page's DBInbound: what it was loaded from, and the
                \* inbound toInbound() keeps
    loads,      \* lists on their way to setInbounds
    imported,   \* an imported outbound, with the row its link came from
    staleWrite, \* a client was saved from a row that was out of date
    edits       \* changes so far

vars == <<modal, isEdit, shared, db, row, loads, imported, staleWrite, edits>>

-----------------------------------------------------------------------------
\* An empty field of the form.
Blank == ""

Protocols  == {"vmess", "vless", "trojan", "shadowsocks", "hysteria"}
Networks   == {"tcp", "kcp", "ws", "grpc", "httpupgrade", "xhttp"}
Securities == {"none", "tls", "reality"}
Methods    == {"legacy", "2022", "2022single"}

Section == [key : {Blank, "dflt", "typed"}, host : {Blank, "host"},
            header : {Blank, "header"}, opt : BOOLEAN]
Tls     == [sni : {Blank, "sni"}, alpn : {Blank, "h2", "h3"},
            fp : {Blank, "chrome"}]
Reality == [names : {<<"a", "b">>, <<"c">>}, sids : {<<"1", "2">>, <<"3">>},
            pbk : {Blank, "key"}]
SwitchedOn == <<[forceTls |-> "same", dest |-> "hostname"]>>
Proxies == {<<>>, SwitchedOn,
            <<[forceTls |-> "tls", dest |-> "proxy"],
              [forceTls |-> "none", dest |-> "other"]>>}
Listens == {Blank, "0.0.0.0", "addr"}

\* null is neither.
ASSUME NoneAssumption == None \notin Tls \cup Reality

-----------------------------------------------------------------------------
(* The form: constructors and what it allows.                              *)

NewSection == [n \in Networks \cup {"hysteria"} |->
    [key |-> "dflt", host |-> Blank, header |-> Blank, opt |-> FALSE]]
NewTls     == [sni |-> Blank, alpn |-> "h2", fp |-> "chrome"]
NewReality == [names |-> <<"a", "b">>, sids |-> <<"1", "2">>, pbk |-> Blank]

\* new StreamSettings().
NewStream ==
    [network |-> "tcp", security |-> "none", proxy |-> <<>>, tls |-> NewTls,
     reality |-> NewReality, section |-> NewSection, udpMask |-> FALSE]

\* new Inbound().
NewInbound ==
    [protocol |-> "vless", listen |-> Blank, flow |-> Blank, method |-> "2022",
     stream |-> NewStream]

\* The setter of Inbound.protocol: settings and stream start again.
setProtocol(f, p) ==
    [f EXCEPT !.protocol = p, !.flow = Blank, !.method = "2022",
              !.stream = IF p = "hysteria"
                         THEN [NewStream EXCEPT !.network = "hysteria",
                                                !.security = "tls",
                                                !.tls.alpn = "h3"]
                         ELSE NewStream]

canEnableTls(f) ==
    f.protocol = "hysteria" \/ f.stream.network # "kcp"

canEnableTlsFlow(f) ==
    /\ f.stream.security \in {"tls", "reality"}
    /\ f.stream.network = "tcp" /\ f.protocol = "vless"

canEnableReality(f) ==
    /\ f.protocol \in {"vless", "trojan"}
    /\ f.stream.network \in {"tcp", "grpc", "xhttp"}

isSSMultiUser(f) == f.method # "2022single"
isSS2022(f) == f.method \in {"2022", "2022single"}

\* What both watchers of the form end with.
clearFlow(f) ==
    IF f.protocol = "vless" /\ ~canEnableTlsFlow(f)
    THEN [f EXCEPT !.flow = Blank] ELSE f

\* Mutant: the flow outlives the network it needs.
streamNetworkChangeKeepsFlow(f, n) ==
    LET g == [f EXCEPT !.stream.network = n]
        h == IF canEnableTls(g) THEN g ELSE [g EXCEPT !.stream.security = "none"]
    IN  IF n = "kcp" THEN h ELSE [h EXCEPT !.stream.udpMask = FALSE]

\* The select of the network and streamNetworkChange.  The reset of REALITY
\* there writes a property nothing reads: the security stays.
streamNetworkChange(f, n) ==
    LET g == [f EXCEPT !.stream.network = n]
        h == IF canEnableTls(g) THEN g ELSE [g EXCEPT !.stream.security = "none"]
        k == clearFlow(h)
    IN  IF n = "kcp" THEN k ELSE [k EXCEPT !.stream.udpMask = FALSE]

\* The radio group of the security and the watcher of stream.security.
setSecurity(f, s) == clearFlow([f EXCEPT !.stream.security = s])

\* What is typed in the form of network n: the path alone or with a Host
\* header, with a host of its own beside the header, and the option in one of
\* two cases.
Typed(n) ==
    {s \in Section :
        /\ s.key = "typed"
        /\ s.host # Blank => n \in {"ws", "httpupgrade", "xhttp", "grpc"}
        /\ n \in {"ws", "httpupgrade", "xhttp"} => s.header # Blank
        /\ n \in {"kcp", "grpc"} => s.header = Blank
        /\ s.opt = (n = "tcp" \/ (n \in {"grpc", "xhttp"} /\ s.host # Blank))}

TypedTls == {[sni |-> "sni", alpn |-> "h3", fp |-> Blank],
             [sni |-> Blank, alpn |-> Blank, fp |-> "chrome"]}

-----------------------------------------------------------------------------
(* Storing and reading.                                                    *)

\* TcpStreamSettings.toJson writes the request only of an HTTP header; the
\* other sections write what they have.
sectionToJson(n, s) ==
    IF n = "tcp" /\ ~s.opt THEN NewSection[n] ELSE s

\* Inbound.toJson and StreamSettings.toJson: of the sections only the active
\* network's, of TLS and REALITY only the one in force.
toJson(f) ==
    LET st == f.stream
    IN  [protocol |-> f.protocol, listen |-> f.listen, flow |-> f.flow,
         method |-> f.method, network |-> st.network, security |-> st.security,
         proxy |-> st.proxy,
         tls |-> IF st.security = "tls" THEN st.tls ELSE None,
         reality |-> IF st.security = "reality" THEN st.reality ELSE None,
         section |-> sectionToJson(st.network, st.section[st.network]),
         udpMask |-> st.udpMask]

\* Mutant: a missing TLS section is not replaced.
fromJsonBare(j) ==
    [protocol |-> j.protocol, listen |-> j.listen, flow |-> j.flow,
     method |-> j.method,
     stream |-> [network |-> j.network, security |-> j.security,
                 proxy |-> j.proxy, tls |-> j.tls,
                 reality |-> IF j.reality = None THEN NewReality ELSE j.reality,
                 section |-> [NewSection EXCEPT ![j.network] = j.section],
                 udpMask |-> j.udpMask]]

\* Mutant: a positional argument is forgotten, the external proxies are lost.
fromJsonNoProxy(j) ==
    [protocol |-> j.protocol, listen |-> j.listen, flow |-> j.flow,
     method |-> j.method,
     stream |-> [network |-> j.network, security |-> j.security,
                 proxy |-> <<>>,
                 tls |-> IF j.tls = None THEN NewTls ELSE j.tls,
                 reality |-> IF j.reality = None THEN NewReality ELSE j.reality,
                 section |-> [NewSection EXCEPT ![j.network] = j.section],
                 udpMask |-> j.udpMask]]

\* Inbound.fromJson and StreamSettings.fromJson: what is missing is new.
fromJson(j) ==
    [protocol |-> j.protocol, listen |-> j.listen, flow |-> j.flow,
     method |-> j.method,
     stream |-> [network |-> j.network, security |-> j.security,
                 proxy |-> j.proxy,
                 tls |-> IF j.tls = None THEN NewTls ELSE j.tls,
                 reality |-> IF j.reality = None THEN NewReality ELSE j.reality,
                 section |-> [NewSection EXCEPT ![j.network] = j.section],
                 udpMask |-> j.udpMask]]

-----------------------------------------------------------------------------
(* Links.                                                                  *)

\* One parameter, and the parameters of f and g: the operators of TLC, in terms
\* the provers can reason about.
p :> v == [x \in {p} |-> v]
f @@ g == [x \in DOMAIN f \cup DOMAIN g |-> IF x \in DOMAIN f THEN f[x] ELSE g[x]]

\* The parameter p with value v, unless v is empty.
Optional(p, v) == IF v = Blank THEN <<>> ELSE p :> v

\* ws.host, or else the Host header (getHeader).
hostOf(s) == IF s.host # Blank THEN s.host ELSE s.header

\* The part of genVLESSLink, genTrojanLink and genSSLink about the network.
networkParams(n, s) ==
    CASE n = "tcp" -> IF ~s.opt THEN <<>>
                      ELSE "path" :> s.key @@ "headerType" :> "http"
                               @@ Optional("host", s.header)
      [] n = "kcp" -> "mtu" :> s.key
      [] n = "grpc" -> "serviceName" :> s.key @@ "authority" :> s.host
                           @@ (IF s.opt THEN "mode" :> "multi" ELSE <<>>)
      [] n = "xhttp" -> "path" :> s.key @@ "host" :> hostOf(s)
                            @@ "mode" :> (IF s.opt THEN "typed" ELSE "auto")
      [] OTHER -> "path" :> s.key @@ "host" :> hostOf(s)

\* The UDP masks, as one JSON payload (applyFinalMaskToParams,
\* applyFinalMaskToObj).
maskParams(f) == IF f.stream.udpMask THEN "fm" :> "mask" ELSE <<>>

\* What those three say of the stream.
streamParams(f) ==
    networkParams(f.stream.network, f.stream.section[f.stream.network])
        @@ maskParams(f)

\* The TLS part of the same; nothing of it when only an external proxy speaks
\* TLS.
tlsParams(f) ==
    "security" :> "tls" @@
    (IF f.stream.security # "tls" THEN <<>>
     ELSE "fp" :> f.stream.tls.fp @@ "alpn" :> f.stream.tls.alpn
              @@ Optional("sni", f.stream.tls.sni))

realityParams(f) ==
    LET r == f.stream.reality
    IN  "security" :> "reality" @@ "pbk" :> r.pbk @@ "sni" :> Head(r.names)
            @@ "sid" :> Head(r.sids)

\* Mutant: the flow goes into every TLS link, whoever ends the TLS.
genVLESSLinkFlow(f, address, sec) ==
    "scheme" :> "vless" @@ "user" :> <<"client">> @@ "address" :> address
        @@ "type" :> f.stream.network
        @@ streamParams(f)
        @@ (CASE sec = "tls" -> tlsParams(f)
              [] sec = "reality" -> realityParams(f)
              [] OTHER -> "security" :> "none")
        @@ (IF sec = "none" THEN <<>> ELSE Optional("flow", f.flow))

genVLESSLink(f, address, sec) ==
    LET flow == IF f.stream.network = "tcp" THEN Optional("flow", f.flow) ELSE <<>>
    IN  "scheme" :> "vless" @@ "user" :> <<"client">> @@ "address" :> address
            @@ "type" :> f.stream.network
            @@ streamParams(f)
            @@ (CASE sec = "tls" ->
                       tlsParams(f) @@ (IF f.stream.security = "tls" THEN flow ELSE <<>>)
                  [] sec = "reality" -> realityParams(f) @@ flow
                  [] OTHER -> "security" :> "none")

genTrojanLink(f, address, sec) ==
    "scheme" :> "trojan" @@ "user" :> <<"client">> @@ "address" :> address
        @@ "type" :> f.stream.network
        @@ streamParams(f)
        @@ (CASE sec = "tls" -> tlsParams(f)
              [] sec = "reality" -> realityParams(f)
              [] OTHER -> "security" :> "none")

\* The user part is the method and up to two passwords, between colons.
genSSLink(f, address, sec) ==
    "scheme" :> "ss"
        @@ "user" :> (<<f.method>> \o (IF isSS2022(f) THEN <<"server">> ELSE <<>>)
                         \o (IF isSSMultiUser(f) THEN <<"client">> ELSE <<>>))
        @@ "address" :> address @@ "type" :> f.stream.network
        @@ streamParams(f)
        @@ (IF sec = "tls" THEN tlsParams(f) ELSE <<>>)

\* The JSON object of a VMess link.
genVmessLink(f, address, sec) ==
    LET n == f.stream.network
        s == f.stream.section[n]
    IN  "scheme" :> "vmess" @@ "id" :> <<"client">> @@ "add" :> address
        @@ "net" :> n @@ "tls" :> sec
        @@ ((CASE n = "tcp" -> "type" :> (IF s.opt THEN "http" ELSE "none")
                      @@ (IF s.opt THEN "path" :> s.key @@ Optional("host", s.header)
                          ELSE <<>>)
              [] n = "kcp" -> "mtu" :> s.key
              [] n = "grpc" -> "path" :> s.key @@ "authority" :> s.host
                                   @@ (IF s.opt THEN "type" :> "multi" ELSE <<>>)
              [] n = "xhttp" -> "path" :> s.key @@ "host" :> hostOf(s)
                                    @@ "type" :> (IF s.opt THEN "typed" ELSE "auto")
              [] OTHER -> "path" :> s.key @@ "host" :> hostOf(s))
            @@ maskParams(f))
        @@ (IF sec # "tls" THEN <<>>
            ELSE Optional("sni", f.stream.tls.sni) @@ Optional("fp", f.stream.tls.fp)
                     @@ Optional("alpn", f.stream.tls.alpn))

genHysteriaLink(f, address) ==
    "scheme" :> "hysteria2" @@ "user" :> <<"client">> @@ "address" :> address
        @@ "security" :> "tls" @@ Optional("fp", f.stream.tls.fp)
        @@ Optional("alpn", f.stream.tls.alpn) @@ Optional("sni", f.stream.tls.sni)
        @@ (IF f.stream.udpMask THEN "obfs" :> "salamander" ELSE <<>>)
        @@ maskParams(f)

genLink(f, address, forceTls) ==
    LET sec == IF forceTls = "same" THEN f.stream.security ELSE forceTls
    IN  CASE f.protocol = "vmess" -> genVmessLink(f, address, sec)
          [] f.protocol = "vless" -> genVLESSLink(f, address, sec)
          [] f.protocol = "shadowsocks" -> genSSLink(f, address, sec)
          [] f.protocol = "trojan" -> genTrojanLink(f, address, sec)
          [] OTHER -> genHysteriaLink(f, address)

\* The entries genAllLinks makes a link of: the external proxies, or the
\* inbound itself.
linkEntries(f) ==
    IF f.stream.proxy # <<>> THEN f.stream.proxy
    ELSE <<[forceTls |-> "same",
            dest |-> IF f.listen \in {Blank, "0.0.0.0"} THEN "hostname" ELSE f.listen]>>

\* genAllLinks, one link for each entry.
genAllLinks(f) ==
    [i \in DOMAIN linkEntries(f) |->
        genLink(f, linkEntries(f)[i].dest, linkEntries(f)[i].forceTls)]

-----------------------------------------------------------------------------
(* Import.                                                                 *)

\* searchParams.get(p) ?? v.
param(l, p, v) == IF p \in DOMAIN l THEN l[p] ELSE v

\* The outbound of a stream, as Outbound.toJson writes it: the sections not in
\* force are left out.  No importer reads "fm" or "obfs": the masks are those of
\* a new FinalMaskStreamSettings.
outbound(protocol, address, user, flow, network, security, section, tls, reality) ==
    [protocol |-> protocol, address |-> address, user |-> user, flow |-> flow,
     network |-> network, security |-> security, section |-> section,
     tls |-> IF security = "tls" THEN tls ELSE None,
     reality |-> IF security = "reality" THEN reality ELSE None,
     udpMask |-> FALSE]

\* The network part of fromParamLink.
paramSection(l, n) ==
    CASE n = "tcp" -> [key |-> param(l, "path", "dflt"), host |-> param(l, "host", Blank),
                       opt |-> param(l, "headerType", "none") = "http"]
      [] n = "kcp" -> [key |-> param(l, "mtu", "dflt"), host |-> Blank, opt |-> FALSE]
      [] n = "grpc" -> [key |-> param(l, "serviceName", Blank),
                        host |-> param(l, "authority", Blank),
                        opt |-> param(l, "mode", Blank) = "multi"]
      [] OTHER -> [key |-> param(l, "path", "dflt"), host |-> param(l, "host", Blank),
                   opt |-> n = "xhttp" /\ param(l, "mode", Blank) = "typed"]

\* vless, trojan and ss; the user part of ss is decoded and its method split
\* off.
fromParamLink(l) ==
    outbound(IF l.scheme = "ss" THEN "shadowsocks" ELSE l.scheme,
             l.address, l.user,
             IF l.scheme = "vless" THEN param(l, "flow", Blank) ELSE Blank,
             param(l, "type", "tcp"), param(l, "security", "none"),
             paramSection(l, param(l, "type", "tcp")),
             [sni |-> param(l, "sni", Blank), alpn |-> param(l, "alpn", Blank),
              fp |-> param(l, "fp", "none")],
             [sni |-> param(l, "sni", Blank), sid |-> param(l, "sid", Blank),
              pbk |-> param(l, "pbk", Blank)])

\* A VMess link.  The mode of XHTTP is looked for under "mode", where
\* genVmessLink has not put it.
fromVmessLink(l) ==
    LET n == l.net
        section ==
            CASE n = "tcp" -> [key |-> param(l, "path", "dflt"),
                               host |-> param(l, "host", Blank), opt |-> l.type = "http"]
              [] n = "kcp" -> [key |-> param(l, "mtu", "dflt"), host |-> Blank,
                               opt |-> FALSE]
              [] n = "grpc" -> [key |-> param(l, "path", Blank),
                                host |-> param(l, "authority", Blank),
                                opt |-> param(l, "type", Blank) = "multi"]
              [] OTHER -> [key |-> param(l, "path", "dflt"),
                           host |-> param(l, "host", Blank),
                           opt |-> n = "xhttp" /\ param(l, "mode", Blank) = "typed"]
    IN  outbound("vmess", l.add, l.id, Blank, n, l.tls, section,
                 [sni |-> param(l, "sni", Blank), alpn |-> param(l, "alpn", Blank),
                  fp |-> param(l, "fp", Blank)],
                 [sni |-> Blank, sid |-> Blank, pbk |-> Blank])

\* A hysteria2 link: the TLS parameters are not read.
fromHysteriaLink(l) ==
    outbound("hysteria", l.address, l.user, Blank, "hysteria", "none",
             [key |-> "dflt", host |-> Blank, opt |-> FALSE],
             [sni |-> Blank, alpn |-> Blank, fp |-> Blank],
             [sni |-> Blank, sid |-> Blank, pbk |-> Blank])

fromLink(l) ==
    CASE l.scheme = "vmess" -> fromVmessLink(l)
      [] l.scheme = "hysteria2" -> fromHysteriaLink(l)
      [] OTHER -> fromParamLink(l)

-----------------------------------------------------------------------------
(* The panel's pages.                                                      *)

Init ==
    /\ modal = None /\ isEdit = FALSE /\ shared = FALSE
    /\ db = None /\ row = None /\ loads = {}
    /\ imported = None /\ staleWrite = FALSE /\ edits = 0

openAddInbound ==
    /\ modal = None /\ db = None
    /\ modal' = NewInbound /\ isEdit' = FALSE
    /\ UNCHANGED <<shared, db, row, loads, imported, staleWrite, edits>>

\* toInbound, and the copy inModal.show takes of it.  The watcher of the
\* security runs when the inbound before it in the modal had another one.
openEditInbound ==
    /\ modal = None /\ row # None
    /\ LET f == fromJson(toJson(row.inbound)) IN modal' \in {f, clearFlow(f)}
    /\ isEdit' = TRUE
    /\ shared' = TRUE
    /\ imported' = None
    /\ UNCHANGED <<db, row, loads, staleWrite, edits>>

\* One change in the form.
Edit(f) ==
    /\ edits < MaxEdits
    /\ modal' = f /\ edits' = edits + 1
    /\ UNCHANGED <<isEdit, db, loads, imported, staleWrite>>

\* A change that leaves the external proxies alone.
EditCopy(f) == Edit(f) /\ UNCHANGED <<shared, row>>

\* Not counted as a change, because it starts the form again.
ChangeProtocol ==
    /\ modal # None /\ ~isEdit
    /\ \E p \in Protocols \ {modal.protocol} : modal' = setProtocol(modal, p)
    /\ UNCHANGED <<isEdit, shared, db, row, loads, imported, staleWrite, edits>>

ChangeNetwork ==
    /\ modal # None /\ modal.protocol # "hysteria"
    /\ \E n \in Networks \ {modal.stream.network} :
          EditCopy(streamNetworkChange(modal, n))

\* The group is shown where TLS can be enabled, its REALITY button where
\* REALITY can.
ChangeSecurity ==
    /\ modal # None /\ modal.protocol # "hysteria" /\ canEnableTls(modal)
    /\ \E s \in Securities \ {modal.stream.security} :
          /\ s = "reality" => canEnableReality(modal)
          /\ EditCopy(setSecurity(modal, s))

\* The client of a new inbound is part of the form.  Its flow is one of two
\* values and not counted.
ChangeFlow ==
    /\ modal # None /\ ~isEdit /\ canEnableTlsFlow(modal)
    /\ \E x \in {Blank, "vision"} \ {modal.flow} : modal' = [modal EXCEPT !.flow = x]
    /\ UNCHANGED <<isEdit, shared, db, row, loads, imported, staleWrite, edits>>

TypeSection ==
    /\ modal # None /\ modal.stream.network \in Networks
    /\ \E s \in Typed(modal.stream.network) :
          EditCopy([modal EXCEPT !.stream.section[modal.stream.network] = s])

TypeSecurity ==
    /\ modal # None
    /\ \/ /\ modal.stream.security = "tls"
          /\ \E t \in TypedTls : EditCopy([modal EXCEPT !.stream.tls = t])
       \/ /\ modal.stream.security = "reality" /\ canEnableTls(modal)
          /\ EditCopy([modal EXCEPT !.stream.reality =
                      [names |-> <<"c">>, sids |-> <<"3">>, pbk |-> "key"]])

\* Listen address, SSMethodChange, UDP masks.
TypeOther ==
    /\ modal # None
    /\ \/ \E x \in Listens \ {modal.listen} : EditCopy([modal EXCEPT !.listen = x])
       \/ /\ modal.protocol = "shadowsocks"
          /\ \E x \in Methods \ {modal.method} :
                EditCopy([modal EXCEPT !.method = x])
       \/ /\ modal.stream.network \in {"kcp", "hysteria"}
          /\ EditCopy([modal EXCEPT !.stream.udpMask = ~@])

\* The switch of the external proxies makes a new array.
externalProxy ==
    /\ modal # None
    /\ Edit([modal EXCEPT !.stream.proxy = IF @ = <<>> THEN SwitchedOn ELSE <<>>])
    /\ shared' = FALSE
    /\ UNCHANGED row

\* Their rows are changed, added and removed in place.
TypeProxy ==
    /\ modal # None /\ modal.stream.proxy # <<>>
    /\ \E x \in Proxies \ {modal.stream.proxy} :
          /\ Edit([modal EXCEPT !.stream.proxy = x])
          /\ row' = IF shared THEN [row EXCEPT !.inbound.stream.proxy = x] ELSE row
    /\ UNCHANGED shared

\* addInbound or updateInbound succeeds, the modal closes, and submit asks for
\* the list.
confirm ==
    /\ modal # None /\ Cardinality(loads) < MaxLoads
    /\ db' = [json |-> toJson(modal), form |-> modal]
    /\ loads' = loads \cup {db'}
    /\ modal' = None /\ shared' = FALSE
    /\ UNCHANGED <<isEdit, row, imported, staleWrite, edits>>

close ==
    /\ modal # None
    /\ modal' = None /\ shared' = FALSE
    /\ UNCHANGED <<isEdit, db, row, loads, imported, staleWrite, edits>>

\* A refresh, or the server's push of the list, takes what is stored now.
getDBInbounds ==
    /\ db # None /\ Cardinality(loads) < MaxLoads
    /\ loads' = loads \cup {db}
    /\ UNCHANGED <<modal, isEdit, shared, db, row, imported, staleWrite, edits>>

\* New rows, whichever list arrives; an open modal keeps its old array.
setInbounds ==
    /\ \E d \in loads :
          /\ row' = [from |-> d, inbound |-> fromJson(d.json)]
          /\ loads' = loads \ {d}
    /\ shared' = FALSE
    /\ imported' = None
    /\ UNCHANGED <<modal, isEdit, db, staleWrite, edits>>

\* The client modal of a row.
editClientFlow ==
    /\ modal = None /\ row # None /\ canEnableTlsFlow(row.inbound)
    /\ edits < MaxEdits /\ Cardinality(loads) < MaxLoads
    /\ \E x \in {Blank, "vision"} \ {row.inbound.flow} :
          db' = [db EXCEPT !.json.flow = x, !.form.flow = x]
    /\ loads' = loads \cup {db'}
    /\ staleWrite' = (staleWrite \/ row.from # db)
    /\ edits' = edits + 1
    /\ imported' = None
    /\ UNCHANGED <<modal, isEdit, shared, row>>

\* convertLink of the outbound modal, with a link copied from the row's QR
\* codes (qrModal.show).
convertLink ==
    /\ modal = None /\ row # None
    /\ \E i \in DOMAIN genAllLinks(row.inbound) :
          imported' = [row |-> row, entry |-> i,
                       out |-> fromLink(genAllLinks(row.inbound)[i])]
    /\ UNCHANGED <<modal, isEdit, shared, db, row, loads, staleWrite, edits>>

Next ==
    \/ openAddInbound \/ openEditInbound \/ ChangeProtocol \/ ChangeNetwork
    \/ ChangeSecurity \/ ChangeFlow \/ TypeSection \/ TypeSecurity \/ TypeOther
    \/ externalProxy \/ TypeProxy \/ confirm \/ close \/ editClientFlow
    \/ getDBInbounds \/ setInbounds \/ convertLink

Spec == Init /\ [][Next]_vars

-----------------------------------------------------------------------------
(* Properties.                                                             *)

Form == [protocol : Protocols, listen : Listens, flow : {Blank, "vision"},
         method : Methods,
         stream : [network : Networks \cup {"hysteria"}, security : Securities,
                   proxy : Proxies, tls : Tls, reality : Reality,
                   section : [Networks \cup {"hysteria"} -> Section],
                   udpMask : BOOLEAN]]

\* What a client must use to reach the inbound f through its i-th address: the
\* reference the links are compared with.
secretOf(f) ==
    IF f.protocol # "shadowsocks" THEN <<"client">>
    ELSE CASE f.method = "legacy" -> <<f.method, "client">>
           [] f.method = "2022" -> <<f.method, "server", "client">>
           [] f.method = "2022single" -> <<f.method, "server">>

securityAt(f, i) ==
    LET force == linkEntries(f)[i].forceTls
    IN  IF force = "same" THEN f.stream.security ELSE force

\* Reachable with the outbound o: same protocol, address, secret and network,
\* the network's parameters as typed, whether they were typed as a field or as
\* a header, and the same masks.
SameTransport(f, i, o) ==
    LET n == f.stream.network
        s == f.stream.section[n]
    IN  /\ o.protocol = f.protocol /\ o.network = n
        /\ o.address = linkEntries(f)[i].dest
        /\ o.user = secretOf(f)
        /\ n = "tcp" /\ s.opt => o.section = [key |-> s.key, host |-> s.header,
                                              opt |-> TRUE]
        /\ n = "tcp" /\ ~s.opt => ~o.section.opt
        /\ n \notin {"tcp", "hysteria"} => o.section.key = s.key
        /\ n \in {"ws", "httpupgrade", "xhttp"} =>
              o.section.host = IF s.host # Blank THEN s.host ELSE s.header
        /\ n = "grpc" => o.section.host = s.host /\ o.section.opt = s.opt
        /\ o.udpMask = f.stream.udpMask

\* And the security its address speaks, with the flow only where the inbound's
\* own TLS or REALITY is spoken and can carry one.
SameSecurity(f, i, o) ==
    LET sec == securityAt(f, i)
        own == sec = f.stream.security
    IN  /\ o.security = sec
        /\ o.flow = IF own /\ canEnableTlsFlow(f) THEN f.flow ELSE Blank
        /\ sec = "tls" /\ own => o.tls = f.stream.tls
        /\ sec = "tls" /\ ~own => o.tls.sni = Blank
        /\ sec = "reality" =>
              /\ o.reality.sni \in {f.stream.reality.names[k] :
                                      k \in DOMAIN f.stream.reality.names}
              /\ o.reality.sid \in {f.stream.reality.sids[k] :
                                      k \in DOMAIN f.stream.reality.sids}
              /\ o.reality.pbk = f.stream.reality.pbk

\* A form is well formed, stored or not, after every change.
TypeOK ==
    /\ modal # None => modal \in Form
    /\ db # None => db.form \in Form /\ fromJson(db.json) \in Form
    /\ row # None => row.inbound \in Form
    /\ {isEdit, shared, staleWrite} \subseteq BOOLEAN /\ edits \in 0..MaxEdits

\* The form a row was stored from, with the external proxies the row has now.
RowForm(r) == [r.from.form EXCEPT !.stream.proxy = r.inbound.stream.proxy]

\* An outbound imported from a share link of an inbound without masks reaches
\* the inbound as the form described it, through storing, reading back, link
\* and import (genAllLinks and Outbound.fromLink).  Three things are lost on
\* import and not asked for here: the masks, which a link carries as `fm' and no
\* importer reads, so that a masked inbound is not reached; the mode of XHTTP
\* for VMess, written as `type' and read as `mode'; and the TLS of Hysteria.
ImportDials ==
    imported # None =>
        LET f == RowForm(imported.row)
        IN  f.stream.udpMask
            \/ /\ SameTransport(f, imported.entry, imported.out)
               /\ f.protocol # "hysteria" =>
                     SameSecurity(f, imported.entry, imported.out)
               /\ f.stream.network = "xhttp" /\ f.protocol # "vmess" =>
                     imported.out.section.opt = f.stream.section["xhttp"].opt

\* A stored inbound never has TLS where there is none, and never a flow its
\* transport cannot carry, whatever the order in which protocol, network,
\* security and flow were chosen (streamNetworkChange and the watcher of the
\* security), unless a client was saved from a row that was out of date.
StoredIsCoherent ==
    db # None =>
        /\ db.json.flow # Blank => staleWrite \/ canEnableTlsFlow(fromJson(db.json))
        /\ db.json.security # "none" => canEnableTls(fromJson(db.json))
        /\ db.json.udpMask => db.json.network \in {"kcp", "hysteria"}

\* Confirming a form that shows what is stored changes nothing stored: what
\* toJson leaves out, fromJson and toJson leave out again.
ReopenKeepsStored ==
    [][isEdit /\ modal # None /\ modal = fromJson(db.json) /\ modal' = None
       => db'.json = db.json]_vars
=============================================================================
