-------------------------- MODULE InboundFormProofs --------------------------
(***************************************************************************)
(* Safety of InboundForm for any number of changes and of lists under way. *)
(*                                                                         *)
(* StoredIsCoherent is about what confirm stores, so it rests on every     *)
(* form being coherent at every moment (Coherent), and, because a form may *)
(* be opened from a row, on every stored inbound, every list under way and *)
(* the row being the JSON of some coherent form (Stored).  The flow is     *)
(* apart: it fits (FlowFits) until a client is saved from a stale row.     *)
(*                                                                         *)
(* ImportDials needs the same of the row a link is copied from.  The row   *)
(* shows the form it was stored from (Shows); a link is the union of parts *)
(* with disjoint parameters (Link, VmessLink), so each part is read back   *)
(* by itself, and the import says of the form what the parts say.          *)
(***************************************************************************)
EXTENDS InboundForm, TLAPS

\* What the form allows, after every change of it.
Coherent(f) ==
    /\ f.stream.security # "none" => canEnableTls(f)
    /\ f.stream.udpMask => f.stream.network \in {"kcp", "hysteria"}
    /\ f.protocol = "hysteria" <=> f.stream.network = "hysteria"
    /\ f.stream.security = "reality" => f.protocol \in {"vless", "trojan"}

FlowFits(f) == f.flow # Blank => canEnableTlsFlow(f)

\* A form, when s says whether the flow is excused.
GoodForm(f, s) == f \in Form /\ Coherent(f) /\ (s \/ FlowFits(f))

\* What the server stores and lists.
Stored(d, s) ==
    /\ DOMAIN d = {"json", "form"}
    /\ d.json = toJson(d.form)
    /\ GoodForm(d.form, s)

\* The row is the inbound it was loaded from, up to its external proxies,
\* which an open modal may have changed in place.
Loaded(r, s) ==
    /\ r = [from |-> r.from, inbound |-> r.inbound]
    /\ Stored(r.from, s)
    /\ r.inbound \in Form
    /\ r.inbound = [fromJson(r.from.json) EXCEPT !.stream.proxy = r.inbound.stream.proxy]

ModalInv == modal # None => GoodForm(modal, staleWrite)
DbInv == db # None => Stored(db, staleWrite)
RowInv == row # None => Loaded(row, staleWrite) /\ Stored(db, staleWrite)
LoadsInv == \A d \in loads : Stored(d, staleWrite) /\ Stored(db, staleWrite)
FlagsInv ==
    /\ isEdit \in BOOLEAN /\ shared \in BOOLEAN /\ staleWrite \in BOOLEAN
    /\ edits \in 0..MaxEdits
    /\ shared => Loaded(row, staleWrite) /\ Stored(db, staleWrite)
    /\ isEdit /\ modal # None => Stored(db, staleWrite)

IInv == ModalInv /\ DbInv /\ RowInv /\ LoadsInv /\ FlagsInv

-----------------------------------------------------------------------------
(* Forms.                                                                  *)

AllNetworks == Networks \cup {"hysteria"}

StreamSet == [network : AllNetworks, security : Securities, proxy : Proxies, tls : Tls,
              reality : Reality, section : [AllNetworks -> Section], udpMask : BOOLEAN]

\* The fields of a form and their types.
LEMMA FormFields ==
    ASSUME NEW f \in Form
    PROVE  /\ f.protocol \in Protocols /\ f.listen \in Listens
           /\ f.flow \in {Blank, "vision"} /\ f.method \in Methods
           /\ f.stream \in StreamSet
           /\ f.stream.network \in AllNetworks /\ f.stream.security \in Securities
           /\ f.stream.proxy \in Proxies /\ f.stream.tls \in Tls
           /\ f.stream.reality \in Reality
           /\ f.stream.section \in [AllNetworks -> Section]
           /\ f.stream.udpMask \in BOOLEAN
BY DEF Form, StreamSet, AllNetworks

\* A record of such fields is a form.
LEMMA FormMade ==
    ASSUME NEW p \in Protocols, NEW l \in Listens, NEW x \in {Blank, "vision"},
           NEW m \in Methods, NEW st \in StreamSet
    PROVE  [protocol |-> p, listen |-> l, flow |-> x, method |-> m, stream |-> st] \in Form
BY DEF Form, StreamSet, AllNetworks

\* Likewise its stream settings.
LEMMA StreamMade ==
    ASSUME NEW n \in AllNetworks, NEW s \in Securities, NEW p \in Proxies, NEW t \in Tls,
           NEW r \in Reality, NEW c \in [AllNetworks -> Section], NEW u \in BOOLEAN
    PROVE  [network |-> n, security |-> s, proxy |-> p, tls |-> t, reality |-> r,
            section |-> c, udpMask |-> u] \in StreamSet
BY DEF StreamSet

\* A new inbound.
LEMMA NewInboundGood ==
    ASSUME NEW s
    PROVE  GoodForm(NewInbound, s) /\ NewStream \in StreamSet /\ NewTls \in Tls
           /\ NewReality \in Reality /\ NewSection \in [AllNetworks -> Section]
<1>1. NewTls \in Tls /\ NewReality \in Reality
  BY DEF NewTls, Tls, NewReality, Reality
<1>2. NewSection \in [AllNetworks -> Section]
  BY DEF NewSection, Section, AllNetworks
<1>3. NewStream \in StreamSet
  BY <1>1, <1>2, StreamMade DEF NewStream, AllNetworks, Networks, Securities, Proxies
<1>4. NewInbound \in Form
  BY <1>3, FormMade DEF NewInbound, Protocols, Listens, Methods
<1>5. Coherent(NewInbound) /\ FlowFits(NewInbound)
  BY DEF Coherent, FlowFits, NewInbound, NewStream, canEnableTls
<1> QED
  BY <1>1, <1>2, <1>3, <1>4, <1>5 DEF GoodForm

\* Changing one field keeps a form a form, and the other fields: the network,
LEMMA NetworkSet ==
    ASSUME NEW f \in Form, NEW n \in AllNetworks
    PROVE  LET g == [f EXCEPT !.stream.network = n]
           IN  /\ g \in Form /\ g.protocol = f.protocol /\ g.flow = f.flow
               /\ g.stream.network = n /\ g.stream.security = f.stream.security
               /\ g.stream.udpMask = f.stream.udpMask
BY DEF Form, AllNetworks

\* the security,
LEMMA SecuritySet ==
    ASSUME NEW f \in Form, NEW s \in Securities
    PROVE  LET g == [f EXCEPT !.stream.security = s]
           IN  /\ g \in Form /\ g.protocol = f.protocol /\ g.flow = f.flow
               /\ g.stream.network = f.stream.network /\ g.stream.security = s
               /\ g.stream.udpMask = f.stream.udpMask
BY DEF Form

\* the mask of UDP,
LEMMA MaskSet ==
    ASSUME NEW f \in Form, NEW u \in BOOLEAN
    PROVE  LET g == [f EXCEPT !.stream.udpMask = u]
           IN  /\ g \in Form /\ g.protocol = f.protocol /\ g.flow = f.flow
               /\ g.stream.network = f.stream.network
               /\ g.stream.security = f.stream.security
               /\ g.stream.udpMask = u
BY DEF Form

\* the flow.
LEMMA FlowSet ==
    ASSUME NEW f \in Form, NEW x \in {Blank, "vision"}
    PROVE  LET g == [f EXCEPT !.flow = x]
           IN  /\ g \in Form /\ g.protocol = f.protocol /\ g.flow = x
               /\ g.listen = f.listen /\ g.method = f.method /\ g.stream = f.stream
BY DEF Form

\* What coherence does not depend on may change.
LEMMA OtherSet ==
    ASSUME NEW f, NEW g \in Form, NEW s, GoodForm(f, s),
           g.protocol = f.protocol, g.flow = f.flow,
           g.stream.network = f.stream.network, g.stream.security = f.stream.security,
           g.stream.udpMask = f.stream.udpMask
    PROVE  GoodForm(g, s)
BY DEF GoodForm, Coherent, FlowFits, canEnableTls, canEnableTlsFlow

\* Choosing a protocol starts the form again.
LEMMA SetProtocolGood ==
    ASSUME NEW f \in Form, NEW p \in Protocols, NEW s
    PROVE  GoodForm(setProtocol(f, p), s)
<1> DEFINE st == IF p = "hysteria"
                 THEN [NewStream EXCEPT !.network = "hysteria", !.security = "tls",
                                        !.tls.alpn = "h3"]
                 ELSE NewStream
<1>1. /\ st \in StreamSet /\ st.udpMask = FALSE
      /\ p = "hysteria" => st.network = "hysteria" /\ st.security = "tls"
      /\ p # "hysteria" => st.network = "tcp" /\ st.security = "none"
  <2>1. CASE p = "hysteria"
    BY <2>1 DEF NewStream, NewTls, NewReality, NewSection, StreamSet, AllNetworks,
       Securities, Proxies, Tls, Reality, Section, Networks
  <2>2. CASE p # "hysteria"
    BY <2>2, NewInboundGood DEF NewStream
  <2> QED
    BY <2>1, <2>2
<1>2. setProtocol(f, p) = [f EXCEPT !.protocol = p, !.flow = Blank, !.method = "2022",
                                    !.stream = st]
  BY DEF setProtocol
<1> HIDE DEF st
<1>3. "2022" \in Methods
  BY DEF Methods
<1>4. /\ setProtocol(f, p) \in Form /\ setProtocol(f, p).protocol = p
      /\ setProtocol(f, p).flow = Blank /\ setProtocol(f, p).stream = st
  <2>1. Blank \in {Blank, "vision"} /\ st \in StreamSet
    BY <1>1
  <2> QED
    BY <1>2, <1>3, <2>1 DEF Form, StreamSet, AllNetworks
<1> QED
  BY <1>1, <1>4 DEF GoodForm, Coherent, FlowFits, canEnableTls

\* The flow is cleared where it no longer fits.
LEMMA ClearFlowGood ==
    ASSUME NEW f \in Form, f.protocol # "vless" => f.flow = Blank
    PROVE  /\ clearFlow(f) \in Form /\ FlowFits(clearFlow(f))
           /\ clearFlow(f).protocol = f.protocol /\ clearFlow(f).stream = f.stream
<1>1. CASE f.protocol = "vless" /\ ~canEnableTlsFlow(f)
  BY <1>1, FlowSet DEF clearFlow, FlowFits
<1>2. CASE ~(f.protocol = "vless" /\ ~canEnableTlsFlow(f))
  BY <1>2 DEF clearFlow, FlowFits
<1> QED
  BY <1>1, <1>2

\* It is cleared, or excused and left.
LEMMA ClearFlowExcused ==
    ASSUME NEW f \in Form
    PROVE  /\ clearFlow(f) \in Form
           /\ clearFlow(f).protocol = f.protocol /\ clearFlow(f).stream = f.stream
BY FlowSet DEF clearFlow

\* A good form stays good.
LEMMA ClearFlowKeeps ==
    ASSUME NEW f, NEW s, GoodForm(f, s)
    PROVE  GoodForm(clearFlow(f), s)
<1> DEFINE g == clearFlow(f)
<1>1. f \in Form /\ g \in Form /\ g.protocol = f.protocol /\ g.stream = f.stream
  BY ClearFlowExcused DEF GoodForm
<1>2. s \/ FlowFits(g)
  <2>1. ~s /\ f.protocol # "vless" => f.flow = Blank
    BY DEF GoodForm, FlowFits, canEnableTlsFlow
  <2> QED
    BY <1>1, <2>1, ClearFlowGood
<1> HIDE DEF g
<1>3. Coherent(g)
  BY <1>1 DEF GoodForm, Coherent, canEnableTls
<1>4. GoodForm(g, s)
  BY <1>1, <1>2, <1>3 DEF GoodForm
<1> QED
  BY <1>4 DEF g

\* Choosing a network.
LEMMA StreamNetworkChangeGood ==
    ASSUME NEW f, NEW n \in Networks, NEW s \in BOOLEAN, GoodForm(f, s),
           f.protocol # "hysteria"
    PROVE  GoodForm(streamNetworkChange(f, n), s)
<1> DEFINE g == [f EXCEPT !.stream.network = n]
           h == IF canEnableTls(g) THEN g ELSE [g EXCEPT !.stream.security = "none"]
           k == clearFlow(h)
           r == IF n = "kcp" THEN k ELSE [k EXCEPT !.stream.udpMask = FALSE]
<1>1. f \in Form /\ Coherent(f)
  BY DEF GoodForm
<1>2. /\ g \in Form /\ g.protocol = f.protocol /\ g.flow = f.flow
      /\ g.stream.network = n /\ g.stream.security = f.stream.security
      /\ g.stream.udpMask = f.stream.udpMask
  BY <1>1, NetworkSet DEF AllNetworks
<1> HIDE DEF g
<1>3. /\ h \in Form /\ h.protocol = f.protocol /\ h.flow = f.flow
      /\ h.stream.network = n /\ h.stream.security \in {f.stream.security, "none"}
      /\ h.stream.udpMask = f.stream.udpMask
      /\ n = "kcp" => h.stream.security = "none"
  BY <1>2, SecuritySet DEF Securities, canEnableTls
<1> HIDE DEF h
<1>4. k \in Form /\ k.protocol = f.protocol /\ k.stream = h.stream
  BY <1>3, ClearFlowExcused
<1>5. ~s => FlowFits(k)
  <2>1. ~s /\ f.protocol # "vless" => f.flow = Blank
    BY DEF GoodForm, FlowFits, canEnableTlsFlow
  <2> QED
    BY <1>3, <2>1, ClearFlowGood
<1> HIDE DEF k
<1>6. /\ r \in Form /\ r.protocol = f.protocol /\ r.flow = k.flow
      /\ r.stream.network = n /\ r.stream.security = h.stream.security
      /\ n # "kcp" => r.stream.udpMask = FALSE
  BY <1>3, <1>4, MaskSet
<1> HIDE DEF r
<1>7. n # "hysteria"
  BY DEF Networks
<1>8. Coherent(r)
  BY <1>1, <1>3, <1>6, <1>7 DEF Coherent, canEnableTls
<1>9. ~s => FlowFits(r)
  BY <1>3, <1>4, <1>5, <1>6 DEF FlowFits, canEnableTlsFlow
<1>10. r = streamNetworkChange(f, n)
  BY DEF streamNetworkChange, g, h, k, r
<1> QED
  BY <1>6, <1>8, <1>9, <1>10 DEF GoodForm

\* Choosing a security where the form offers it.
LEMMA SetSecurityGood ==
    ASSUME NEW f, NEW x \in Securities, NEW s \in BOOLEAN, GoodForm(f, s),
           f.protocol # "hysteria", canEnableTls(f), x = "reality" => canEnableReality(f)
    PROVE  GoodForm(setSecurity(f, x), s)
<1> DEFINE g == [f EXCEPT !.stream.security = x]
           k == clearFlow(g)
<1>1. f \in Form /\ Coherent(f)
  BY DEF GoodForm
<1>2. /\ g \in Form /\ g.protocol = f.protocol /\ g.flow = f.flow
      /\ g.stream.network = f.stream.network /\ g.stream.security = x
      /\ g.stream.udpMask = f.stream.udpMask
  BY <1>1, SecuritySet
<1> HIDE DEF g
<1>3. k \in Form /\ k.protocol = f.protocol /\ k.stream = g.stream
  BY <1>2, ClearFlowExcused
<1>4. ~s => FlowFits(k)
  <2>1. ~s /\ f.protocol # "vless" => f.flow = Blank
    BY DEF GoodForm, FlowFits, canEnableTlsFlow
  <2> QED
    BY <1>2, <2>1, ClearFlowGood
<1>5. Coherent(k)
  BY <1>1, <1>2, <1>3 DEF Coherent, canEnableTls, canEnableReality
<1> QED
  BY <1>3, <1>4, <1>5 DEF GoodForm, setSecurity, g

-----------------------------------------------------------------------------
(* Storing and reading back.                                               *)

\* The section that is stored.
LEMMA SectionStored ==
    ASSUME NEW n \in AllNetworks, NEW c \in Section
    PROVE  /\ sectionToJson(n, c) \in Section
           /\ sectionToJson(n, sectionToJson(n, c)) = sectionToJson(n, c)
<1>1. NewSection[n] \in Section
  BY NewInboundGood
<1>2. NewSection[n].opt = FALSE
  BY DEF NewSection, AllNetworks
<1> QED
  BY <1>1, <1>2 DEF sectionToJson

\* What a stored form reads back as.
LEMMA ReadBack ==
    ASSUME NEW f \in Form
    PROVE  LET g == fromJson(toJson(f))
               n == f.stream.network
           IN  /\ g \in Form
               /\ g.protocol = f.protocol /\ g.listen = f.listen /\ g.flow = f.flow
               /\ g.method = f.method
               /\ g.stream.network = n /\ g.stream.security = f.stream.security
               /\ g.stream.proxy = f.stream.proxy /\ g.stream.udpMask = f.stream.udpMask
               /\ g.stream.tls = IF f.stream.security = "tls" THEN f.stream.tls ELSE NewTls
               /\ g.stream.reality = IF f.stream.security = "reality" THEN f.stream.reality
                                     ELSE NewReality
               /\ g.stream.section[n] = sectionToJson(n, f.stream.section[n])
<1> DEFINE g == fromJson(toJson(f))
           n == f.stream.network
           t == IF f.stream.security = "tls" THEN f.stream.tls ELSE NewTls
           r == IF f.stream.security = "reality" THEN f.stream.reality ELSE NewReality
           c == [NewSection EXCEPT ![n] = sectionToJson(n, f.stream.section[n])]
           st == [network |-> n, security |-> f.stream.security, proxy |-> f.stream.proxy,
                  tls |-> t, reality |-> r, section |-> c, udpMask |-> f.stream.udpMask]
<1>1. f.stream.tls # None /\ f.stream.reality # None
  BY FormFields, NoneAssumption
<1>2. g = [protocol |-> f.protocol, listen |-> f.listen, flow |-> f.flow,
           method |-> f.method, stream |-> st]
  BY <1>1 DEF fromJson, toJson
<1>3. n \in AllNetworks /\ sectionToJson(n, f.stream.section[n]) \in Section
  BY FormFields, SectionStored
<1>4. c \in [AllNetworks -> Section] /\ c[n] = sectionToJson(n, f.stream.section[n])
  BY <1>3, NewInboundGood
<1>5. t \in Tls /\ r \in Reality
  BY FormFields, NewInboundGood
<1> HIDE DEF t, r, c
<1>6. st \in StreamSet
  BY <1>4, <1>5, FormFields, StreamMade
<1> HIDE DEF st
<1>7. g \in Form
  BY <1>2, <1>6, FormFields, FormMade
<1> HIDE DEF g
<1>8. /\ g.stream.network = n /\ g.stream.security = f.stream.security
      /\ g.stream.proxy = f.stream.proxy /\ g.stream.udpMask = f.stream.udpMask
      /\ g.stream.tls = t /\ g.stream.reality = r /\ g.stream.section = c
  BY <1>2 DEF st
<1> QED
  BY <1>2, <1>4, <1>7, <1>8 DEF g, t, r

\* Reading back and storing again changes nothing stored, whatever the external
\* proxies are by then.
LEMMA StoreAgain ==
    ASSUME NEW f \in Form
    PROVE  toJson(fromJson(toJson(f))) = toJson(f)
<1> DEFINE g == fromJson(toJson(f))
           n == f.stream.network
<1>1. /\ g.protocol = f.protocol /\ g.listen = f.listen /\ g.flow = f.flow
      /\ g.method = f.method
      /\ g.stream.network = n /\ g.stream.security = f.stream.security
      /\ g.stream.proxy = f.stream.proxy /\ g.stream.udpMask = f.stream.udpMask
      /\ g.stream.tls = IF f.stream.security = "tls" THEN f.stream.tls ELSE NewTls
      /\ g.stream.reality = IF f.stream.security = "reality" THEN f.stream.reality
                            ELSE NewReality
      /\ g.stream.section[n] = sectionToJson(n, f.stream.section[n])
  BY ReadBack
<1>2. n \in AllNetworks /\ f.stream.section[n] \in Section
  BY FormFields
<1>3. sectionToJson(n, g.stream.section[n]) = sectionToJson(n, f.stream.section[n])
  BY <1>1, <1>2, SectionStored
<1> HIDE DEF g
<1>4. toJson(g) = toJson(f)
  BY <1>1, <1>3 DEF toJson
<1> QED
  BY <1>4 DEF g

\* A good form reads back good.
LEMMA ReadBackGood ==
    ASSUME NEW f, NEW s, GoodForm(f, s)
    PROVE  GoodForm(fromJson(toJson(f)), s)
<1>1. f \in Form
  BY DEF GoodForm
<1> DEFINE g == fromJson(toJson(f))
<1>2. /\ g \in Form /\ g.protocol = f.protocol /\ g.flow = f.flow
      /\ g.stream.network = f.stream.network /\ g.stream.security = f.stream.security
      /\ g.stream.udpMask = f.stream.udpMask
  BY <1>1, ReadBack
<1> HIDE DEF g
<1>3. GoodForm(g, s)
  BY <1>2, OtherSet
<1> QED
  BY <1>3 DEF g

\* Any external proxies may take the place of others.
LEMMA ProxySet ==
    ASSUME NEW f \in Form, NEW x \in Proxies
    PROVE  LET g == [f EXCEPT !.stream.proxy = x]
           IN  /\ g \in Form /\ g.protocol = f.protocol /\ g.flow = f.flow
               /\ g.stream.network = f.stream.network /\ g.stream.security = f.stream.security
               /\ g.stream.udpMask = f.stream.udpMask
               /\ g.stream.proxy = x /\ g.listen = f.listen /\ g.method = f.method
               /\ g.stream.tls = f.stream.tls /\ g.stream.reality = f.stream.reality
               /\ g.stream.section = f.stream.section
BY DEF Form

\* What is stored stays good when more is excused.
LEMMA MoreExcused ==
    ASSUME NEW d, NEW s, NEW t, s => t
    PROVE  /\ GoodForm(d, s) => GoodForm(d, t)
           /\ Stored(d, s) => Stored(d, t)
           /\ Loaded(d, s) => Loaded(d, t)
BY DEF GoodForm, Stored, Loaded

-----------------------------------------------------------------------------
(* Links: what a parameter is in a link.                                   *)

\* Which parameters there are in one parameter,
LEMMA OneDomain ==
    ASSUME NEW k, NEW x, NEW p
    PROVE  p \in DOMAIN (k :> x) <=> p = k
BY DEF :>

\* in two sets of them,
LEMMA TwoDomain ==
    ASSUME NEW f, NEW g, NEW p
    PROVE  p \in DOMAIN (f @@ g) <=> p \in DOMAIN f \/ p \in DOMAIN g
BY DEF @@

\* in none,
LEMMA NoDomain ==
    ASSUME NEW p
    PROVE  p \notin DOMAIN <<>>
OBVIOUS

\* in one that is left out when it is empty.
LEMMA OptionalDomain ==
    ASSUME NEW k, NEW x, NEW p
    PROVE  p \in DOMAIN Optional(k, x) => p = k
BY OneDomain, NoDomain DEF Optional

\* And their values: in one parameter,
LEMMA OneParam ==
    ASSUME NEW k, NEW x, NEW p, NEW v
    PROVE  param(k :> x, p, v) = IF p = k THEN x ELSE v
BY DEF param, :>

\* in two sets of them, of which the first has precedence,
LEMMA TwoParams ==
    ASSUME NEW f, NEW g, NEW p, NEW v
    PROVE  param(f @@ g, p, v) = IF p \in DOMAIN f THEN param(f, p, v) ELSE param(g, p, v)
BY DEF param, @@

\* in none,
LEMMA NoParams ==
    ASSUME NEW p, NEW v
    PROVE  param(<<>>, p, v) = v
BY DEF param

\* in one that is left out when it is empty.
LEMMA OptionalParam ==
    ASSUME NEW k, NEW x, NEW p, NEW v
    PROVE  /\ x # Blank => param(Optional(k, x), p, v) = IF p = k THEN x ELSE v
           /\ x = Blank => param(Optional(k, x), p, v) = v
<1>1. CASE x = Blank
  <2>1. Optional(k, x) = <<>>
    BY <1>1 DEF Optional
  <2> QED
    BY <1>1, <2>1, NoParams
<1>2. CASE x # Blank
  <2>1. Optional(k, x) = k :> x
    BY <1>2 DEF Optional
  <2> QED
    BY <1>2, <2>1, OneParam
<1> QED
  BY <1>1, <1>2

\* A parameter that is there needs no default.
LEMMA FieldParam ==
    ASSUME NEW l, NEW p, p \in DOMAIN l, NEW v
    PROVE  l[p] = param(l, p, v)
BY DEF param

NetKeys == {"path", "host", "headerType", "mtu", "serviceName", "authority", "mode"}
SecKeys == {"security", "fp", "alpn", "sni", "pbk", "sid", "flow"}
MaskKeys == {"fm"}

\* A link of vless, trojan and ss: its fixed part, the network's, the
\* security's.  The three do not interfere.
Link(scheme, user, address, type, N, S) ==
    "scheme" :> scheme @@ "user" :> user @@ "address" :> address @@ "type" :> type @@ N @@ S

\* Looking up the parameters of such a link.
LEMMA LinkLookup ==
    ASSUME NEW scheme, NEW user, NEW address, NEW type, NEW N, NEW S,
           DOMAIN N \subseteq NetKeys \cup MaskKeys, DOMAIN S \subseteq SecKeys
    PROVE  LET l == Link(scheme, user, address, type, N, S)
           IN  /\ l["scheme"] = scheme /\ l["user"] = user /\ l["address"] = address
               /\ \A v : param(l, "type", v) = type
               /\ \A p \in NetKeys : \A v : param(l, p, v) = param(N, p, v)
               /\ \A p \in SecKeys : \A v : param(l, p, v) = param(S, p, v)
<1> DEFINE A == "scheme" :> scheme @@ "user" :> user @@ "address" :> address @@ "type" :> type
           l == A @@ N @@ S
<1>1. \A p : p \in DOMAIN A <=> p \in {"scheme", "user", "address", "type"}
  BY OneDomain, TwoDomain
<1>2. \A v : /\ param(A, "scheme", v) = scheme /\ param(A, "user", v) = user
             /\ param(A, "address", v) = address /\ param(A, "type", v) = type
  BY OneDomain, TwoDomain, OneParam, TwoParams
<1> HIDE DEF A
<1>3. \A p, v : p \in {"scheme", "user", "address", "type"} =>
         p \in DOMAIN l /\ param(l, p, v) = param(A, p, v)
  BY <1>1, TwoDomain, TwoParams
<1>4. \A p \in NetKeys : \A v : param(l, p, v) = param(N, p, v)
  <2> SUFFICES ASSUME NEW p \in NetKeys, NEW v PROVE param(l, p, v) = param(N, p, v)
    OBVIOUS
  <2>1. p \notin DOMAIN A /\ p \notin DOMAIN S
    BY <1>1 DEF NetKeys, SecKeys
  <2>2. CASE p \in DOMAIN N
    BY <2>1, <2>2, TwoDomain, TwoParams
  <2>3. CASE p \notin DOMAIN N
    <3>1. param(l, p, v) = v
      BY <2>1, <2>3, TwoDomain DEF param
    <3>2. param(N, p, v) = v
      BY <2>3 DEF param
    <3> QED
      BY <3>1, <3>2
  <2> QED
    BY <2>2, <2>3
<1>5. \A p \in SecKeys : \A v : param(l, p, v) = param(S, p, v)
  BY <1>1, TwoDomain, TwoParams DEF NetKeys, MaskKeys, SecKeys
<1>6. l = Link(scheme, user, address, type, N, S)
  BY DEF Link, A
<1> HIDE DEF l
<1>7. l["scheme"] = scheme /\ l["user"] = user /\ l["address"] = address
  BY <1>2, <1>3, FieldParam
<1> QED
  BY <1>2, <1>3, <1>4, <1>5, <1>6, <1>7

\* An empty field is no word.
LEMMA BlankIsNoWord == Blank # "multi" /\ Blank # "http" /\ Blank # "typed"
BY Zenon DEF Blank

\* What a client must know of a section s of network n.
SectionIs(n, s, o) ==
    /\ n = "tcp" /\ s.opt => o = [key |-> s.key, host |-> s.header, opt |-> TRUE]
    /\ n = "tcp" /\ ~s.opt => o.opt = FALSE
    /\ n # "tcp" => o.key = s.key
    /\ n \in {"ws", "httpupgrade", "xhttp"} => o.host = hostOf(s)
    /\ n = "grpc" => o.host = s.host /\ o.opt = s.opt

\* The network's part of a link is imported as the section it was made of.
LEMMA NetworkSection ==
    ASSUME NEW n \in Networks, NEW s \in Section
    PROVE  /\ DOMAIN networkParams(n, s) \subseteq NetKeys
           /\ \A l : (\A p \in NetKeys : \A v : param(l, p, v) = param(networkParams(n, s), p, v))
                 => /\ SectionIs(n, s, paramSection(l, n))
                    /\ n = "xhttp" => paramSection(l, n).opt = s.opt
<1> DEFINE N == networkParams(n, s)
<1>0. s.opt \in BOOLEAN
  BY DEF Section
<1>1. CASE n = "tcp" /\ ~s.opt
  <2>1. N = <<>>
    BY <1>1 DEF networkParams
  <2>2. SUFFICES ASSUME NEW l, \A p \in NetKeys : \A v : param(l, p, v) = param(N, p, v)
                 PROVE  paramSection(l, n).opt = FALSE
    BY <1>1, <2>1, NoDomain DEF SectionIs
  <2>3. param(l, "headerType", "none") = "none"
    BY <2>1, <2>2, NoParams DEF NetKeys
  <2> QED
    BY <1>1, <2>3 DEF paramSection
<1>2. CASE n = "tcp" /\ s.opt
  <2>1. N = "path" :> s.key @@ "headerType" :> "http" @@ Optional("host", s.header)
    BY <1>2 DEF networkParams
  <2>2. \A p : p \in DOMAIN N => p \in {"path", "headerType", "host"}
    BY <2>1, OneDomain, TwoDomain, OptionalDomain
  <2>3. /\ param(N, "path", "dflt") = s.key /\ param(N, "headerType", "none") = "http"
    BY <2>1, OneDomain, TwoDomain, OneParam, TwoParams
  <2>4. param(N, "host", Blank) = s.header
    <3>1. param(N, "host", Blank) = param(Optional("host", s.header), "host", Blank)
      BY <2>1, OneDomain, TwoDomain, TwoParams
    <3> QED
      BY <3>1, OptionalParam
  <2>5. ASSUME NEW l, \A p \in NetKeys : \A v : param(l, p, v) = param(N, p, v)
        PROVE  paramSection(l, n) = [key |-> s.key, host |-> s.header, opt |-> TRUE]
    <3>1. /\ param(l, "path", "dflt") = s.key /\ param(l, "headerType", "none") = "http"
          /\ param(l, "host", Blank) = s.header
      BY <2>3, <2>4, <2>5 DEF NetKeys
    <3> QED
      BY <1>2, <3>1 DEF paramSection
  <2> QED
    BY <1>2, <2>2, <2>5 DEF SectionIs, NetKeys
<1>3. CASE n = "kcp"
  <2>1. N = "mtu" :> s.key
    BY <1>3 DEF networkParams
  <2>2. \A p : p \in DOMAIN N => p = "mtu"
    BY <2>1, OneDomain
  <2>3. param(N, "mtu", "dflt") = s.key
    BY <2>1, OneParam
  <2>4. ASSUME NEW l, \A p \in NetKeys : \A v : param(l, p, v) = param(N, p, v)
        PROVE  paramSection(l, n).key = s.key
    <3>1. param(l, "mtu", "dflt") = s.key
      BY <2>3, <2>4 DEF NetKeys
    <3> QED
      BY <1>3, <3>1 DEF paramSection
  <2> QED
    BY <1>3, <2>2, <2>4 DEF SectionIs, NetKeys
<1>4. CASE n = "grpc"
  <2> DEFINE M == IF s.opt THEN "mode" :> "multi" ELSE <<>>
  <2>1. N = "serviceName" :> s.key @@ "authority" :> s.host @@ M
    BY <1>4 DEF networkParams
  <2>2. \A p : p \in DOMAIN M => p = "mode"
    BY OneDomain, NoDomain
  <2>3. param(M, "mode", Blank) = IF s.opt THEN "multi" ELSE Blank
    BY OneParam, NoParams
  <2> HIDE DEF M
  <2>4. \A p : p \in DOMAIN N => p \in {"serviceName", "authority", "mode"}
    BY <2>1, <2>2, OneDomain, TwoDomain
  <2>5. /\ param(N, "serviceName", Blank) = s.key /\ param(N, "authority", Blank) = s.host
        /\ param(N, "mode", Blank) = param(M, "mode", Blank)
    BY <2>1, OneDomain, TwoDomain, OneParam, TwoParams
  <2>6. ASSUME NEW l, \A p \in NetKeys : \A v : param(l, p, v) = param(N, p, v)
        PROVE  /\ paramSection(l, n).key = s.key /\ paramSection(l, n).host = s.host
               /\ paramSection(l, n).opt = s.opt
    <3>1. /\ param(l, "serviceName", Blank) = s.key /\ param(l, "authority", Blank) = s.host
          /\ param(l, "mode", Blank) = IF s.opt THEN "multi" ELSE Blank
      BY <2>3, <2>5, <2>6 DEF NetKeys
    <3> QED
      BY <1>0, <1>4, <3>1, BlankIsNoWord DEF paramSection
  <2> QED
    BY <1>4, <2>4, <2>6 DEF SectionIs, NetKeys
<1>5. CASE n = "xhttp"
  <2> DEFINE m == IF s.opt THEN "typed" ELSE "auto"
  <2>1. N = "path" :> s.key @@ "host" :> hostOf(s) @@ "mode" :> m
    BY <1>5 DEF networkParams
  <2> HIDE DEF m
  <2>2. \A p : p \in DOMAIN N => p \in {"path", "host", "mode"}
    BY <2>1, OneDomain, TwoDomain
  <2>3. /\ param(N, "path", "dflt") = s.key /\ param(N, "host", Blank) = hostOf(s)
        /\ param(N, "mode", Blank) = m
    BY <2>1, OneDomain, TwoDomain, OneParam, TwoParams
  <2>4. ASSUME NEW l, \A p \in NetKeys : \A v : param(l, p, v) = param(N, p, v)
        PROVE  /\ paramSection(l, n).key = s.key /\ paramSection(l, n).host = hostOf(s)
               /\ paramSection(l, n).opt = s.opt
    <3>1. /\ param(l, "path", "dflt") = s.key /\ param(l, "host", Blank) = hostOf(s)
          /\ param(l, "mode", Blank) = m
      BY <2>3, <2>4 DEF NetKeys
    <3> QED
      BY <1>0, <1>5, <3>1 DEF paramSection, m
  <2> QED
    BY <1>5, <2>2, <2>4 DEF SectionIs, NetKeys
<1>6. CASE n \in {"ws", "httpupgrade"}
  <2>1. N = "path" :> s.key @@ "host" :> hostOf(s)
    BY <1>6 DEF networkParams
  <2>2. \A p : p \in DOMAIN N => p \in {"path", "host"}
    BY <2>1, OneDomain, TwoDomain
  <2>3. /\ param(N, "path", "dflt") = s.key /\ param(N, "host", Blank) = hostOf(s)
    BY <2>1, OneDomain, TwoDomain, OneParam, TwoParams
  <2>4. ASSUME NEW l, \A p \in NetKeys : \A v : param(l, p, v) = param(N, p, v)
        PROVE  paramSection(l, n).key = s.key /\ paramSection(l, n).host = hostOf(s)
    <3>1. param(l, "path", "dflt") = s.key /\ param(l, "host", Blank) = hostOf(s)
      BY <2>3, <2>4 DEF NetKeys
    <3> QED
      BY <1>6, <3>1 DEF paramSection
  <2> QED
    BY <1>6, <2>2, <2>4 DEF SectionIs, NetKeys
<1> QED
  BY <1>1, <1>2, <1>3, <1>4, <1>5, <1>6 DEF Networks

\* The masks add one parameter, which is none of the importers'.
LEMMA MaskAside ==
    ASSUME NEW f, NEW N
    PROVE  /\ \A p : p \in DOMAIN (N @@ maskParams(f)) <=>
                     p \in DOMAIN N \/ (f.stream.udpMask /\ p = "fm")
           /\ \A p, v : p # "fm" => param(N @@ maskParams(f), p, v) = param(N, p, v)
<1> DEFINE M == maskParams(f)
<1>1. \A p : p \in DOMAIN M <=> f.stream.udpMask /\ p = "fm"
  BY OneDomain, NoDomain DEF maskParams
<1> HIDE DEF M
<1>2. \A p : p \in DOMAIN (N @@ M) <=> p \in DOMAIN N \/ (f.stream.udpMask /\ p = "fm")
  BY <1>1, TwoDomain
<1>3. ASSUME NEW p, NEW v, p # "fm"
      PROVE  param(N @@ M, p, v) = param(N, p, v)
  <2>1. CASE p \in DOMAIN N
    BY <2>1, TwoParams
  <2>2. CASE p \notin DOMAIN N
    <3>1. p \notin DOMAIN (N @@ M)
      BY <1>2, <1>3, <2>2
    <3> QED
      BY <2>2, <3>1 DEF param
  <2> QED
    BY <2>1, <2>2
<1> QED
  BY <1>2, <1>3 DEF M

\* What the stream's part N of a link must say of the section s of network n.
Carries(N, n, s) ==
    /\ DOMAIN N \subseteq NetKeys \cup MaskKeys
    /\ \A l : (\A p \in NetKeys : \A v : param(l, p, v) = param(N, p, v))
          => /\ SectionIs(n, s, paramSection(l, n))
             /\ n = "xhttp" => paramSection(l, n).opt = s.opt

\* The generators' says it, masked or not.
LEMMA StreamSection ==
    ASSUME NEW f, f.stream.network \in Networks,
           f.stream.section[f.stream.network] \in Section
    PROVE  Carries(streamParams(f), f.stream.network, f.stream.section[f.stream.network])
<1> DEFINE n == f.stream.network
           s == f.stream.section[n]
           N == networkParams(n, s)
<1>1. streamParams(f) = N @@ maskParams(f)
  BY DEF streamParams
<1>2. DOMAIN N \subseteq NetKeys
  BY NetworkSection
<1>3. \A l : (\A p \in NetKeys : \A v : param(l, p, v) = param(N, p, v))
         => /\ SectionIs(n, s, paramSection(l, n))
            /\ n = "xhttp" => paramSection(l, n).opt = s.opt
  BY NetworkSection
<1> HIDE DEF N, n, s
<1>4. \A p \in NetKeys : \A v : param(streamParams(f), p, v) = param(N, p, v)
  BY <1>1, MaskAside DEF NetKeys
<1>5. DOMAIN streamParams(f) \subseteq NetKeys \cup MaskKeys
  BY <1>1, <1>2, MaskAside DEF MaskKeys
<1>6. Carries(streamParams(f), n, s)
  BY <1>3, <1>4, <1>5 DEF Carries
<1> QED
  BY <1>6 DEF n, s

\* What the security's part S of a link must say, where R is the row and sec the
\* security of the address.
Speaks(S, R, sec) ==
    /\ DOMAIN S \subseteq SecKeys
    /\ param(S, "security", "none") = sec
    /\ sec = "tls" /\ R.stream.security = "tls" =>
          /\ param(S, "sni", Blank) = R.stream.tls.sni
          /\ param(S, "alpn", Blank) = R.stream.tls.alpn
          /\ param(S, "fp", "none") = R.stream.tls.fp
    /\ sec = "tls" /\ R.stream.security # "tls" => param(S, "sni", Blank) = Blank
    /\ sec = "reality" =>
          /\ param(S, "sni", Blank) = Head(R.stream.reality.names)
          /\ param(S, "sid", Blank) = Head(R.stream.reality.sids)
          /\ param(S, "pbk", Blank) = R.stream.reality.pbk

\* TLS, the inbound's own or an external proxy's.
LEMMA TlsSpeaks ==
    ASSUME NEW R \in Form
    PROVE  Speaks(tlsParams(R), R, "tls") /\ "flow" \notin DOMAIN tlsParams(R)
<1> DEFINE S == tlsParams(R)
<1>1. CASE R.stream.security # "tls"
  <2>1. S = "security" :> "tls" @@ <<>>
    BY <1>1 DEF tlsParams
  <2>2. \A p : p \in DOMAIN S => p = "security"
    BY <2>1, OneDomain, TwoDomain, NoDomain
  <2>3. /\ param(S, "security", "none") = "tls" /\ param(S, "sni", Blank) = Blank
    BY <2>1, OneDomain, OneParam, TwoParams, NoParams
  <2> HIDE DEF S
  <2>4. Speaks(S, R, "tls") /\ "flow" \notin DOMAIN S
    BY <1>1, <2>2, <2>3 DEF Speaks, SecKeys
  <2> QED
    BY <2>4 DEF S
<1>2. CASE R.stream.security = "tls"
  <2> DEFINE t == R.stream.tls
             T == "fp" :> t.fp @@ "alpn" :> t.alpn @@ Optional("sni", t.sni)
  <2>1. S = "security" :> "tls" @@ T
    BY <1>2 DEF tlsParams
  <2>2. \A p : p \in DOMAIN T => p \in {"fp", "alpn", "sni"}
    BY OneDomain, TwoDomain, OptionalDomain
  <2>3. param(T, "fp", "none") = t.fp /\ param(T, "alpn", Blank) = t.alpn
    BY OneDomain, TwoDomain, OneParam, TwoParams
  <2>4. param(T, "sni", Blank) = t.sni
    <3>1. param(T, "sni", Blank) = param(Optional("sni", t.sni), "sni", Blank)
      BY OneDomain, TwoDomain, TwoParams
    <3> QED
      BY <3>1, OptionalParam
  <2> HIDE DEF T
  <2>5. \A p : p \in DOMAIN S => p \in {"security", "fp", "alpn", "sni"}
    BY <2>1, <2>2, OneDomain, TwoDomain
  <2>6. /\ param(S, "security", "none") = "tls"
        /\ param(S, "fp", "none") = t.fp /\ param(S, "alpn", Blank) = t.alpn
        /\ param(S, "sni", Blank) = t.sni
    BY <2>1, <2>3, <2>4, OneDomain, OneParam, TwoParams
  <2> HIDE DEF S
  <2>7. Speaks(S, R, "tls") /\ "flow" \notin DOMAIN S
    BY <1>2, <2>5, <2>6 DEF Speaks, SecKeys
  <2> QED
    BY <2>7 DEF S
<1> QED
  BY <1>1, <1>2

\* REALITY.
LEMMA RealitySpeaks ==
    ASSUME NEW R \in Form
    PROVE  Speaks(realityParams(R), R, "reality") /\ "flow" \notin DOMAIN realityParams(R)
<1> DEFINE S == realityParams(R)
           r == R.stream.reality
<1>1. S = "security" :> "reality" @@ "pbk" :> r.pbk @@ "sni" :> Head(r.names)
             @@ "sid" :> Head(r.sids)
  BY DEF realityParams
<1>2. \A p : p \in DOMAIN S => p \in {"security", "pbk", "sni", "sid"}
  BY <1>1, OneDomain, TwoDomain
<1>3. /\ param(S, "security", "none") = "reality" /\ param(S, "pbk", Blank) = r.pbk
      /\ param(S, "sni", Blank) = Head(r.names) /\ param(S, "sid", Blank) = Head(r.sids)
  BY <1>1, OneDomain, TwoDomain, OneParam, TwoParams
<1> HIDE DEF S
<1>4. Speaks(S, R, "reality") /\ "flow" \notin DOMAIN S
  BY <1>2, <1>3 DEF Speaks, SecKeys
<1> QED
  BY <1>4 DEF S

\* Neither: said, or left out.
LEMMA NoneSpeaks ==
    ASSUME NEW R \in Form
    PROVE  /\ Speaks("security" :> "none", R, "none") /\ Speaks(<<>>, R, "none")
           /\ param("security" :> "none", "flow", Blank) = Blank
<1>1. Speaks("security" :> "none", R, "none")
  <2>1. \A p : p \in DOMAIN ("security" :> "none") => p \in SecKeys
    BY OneDomain DEF SecKeys
  <2>2. param("security" :> "none", "security", "none") = "none"
    BY OneParam
  <2> QED
    BY <2>1, <2>2 DEF Speaks
<1>2. Speaks(<<>>, R, "none")
  <2>1. \A p : p \in DOMAIN <<>> => p \in SecKeys
    BY NoDomain
  <2>2. param(<<>>, "security", "none") = "none"
    BY NoParams
  <2> QED
    BY <2>1, <2>2 DEF Speaks
<1>3. param("security" :> "none", "flow", Blank) = Blank
  BY OneParam
<1> QED
  BY <1>1, <1>2, <1>3

\* A flow may follow.
LEMMA FlowSpeaks ==
    ASSUME NEW B, NEW W, NEW R, NEW sec, Speaks(B, R, sec), "flow" \notin DOMAIN B,
           \A p : p \in DOMAIN W => p = "flow"
    PROVE  /\ Speaks(B @@ W, R, sec)
           /\ param(B @@ W, "flow", Blank) = param(W, "flow", Blank)
<1> DEFINE S == B @@ W
<1>1. \A p : p \in DOMAIN S => p \in SecKeys
  BY TwoDomain DEF Speaks, SecKeys
<1>2. ASSUME NEW p \in SecKeys \ {"flow"}, NEW v PROVE param(S, p, v) = param(B, p, v)
  <2>1. CASE p \in DOMAIN B
    BY <2>1, TwoParams
  <2>2. CASE p \notin DOMAIN B
    <3>1. param(S, p, v) = param(W, p, v)
      BY <2>2, TwoParams
    <3>2. param(W, p, v) = v /\ param(B, p, v) = v
      BY <1>2, <2>2 DEF param
    <3> QED
      BY <3>1, <3>2
  <2> QED
    BY <2>1, <2>2
<1>3. param(S, "flow", Blank) = param(W, "flow", Blank)
  BY TwoParams
<1>4. /\ param(S, "security", "none") = param(B, "security", "none")
      /\ param(S, "sni", Blank) = param(B, "sni", Blank)
      /\ param(S, "alpn", Blank) = param(B, "alpn", Blank)
      /\ param(S, "fp", "none") = param(B, "fp", "none")
      /\ param(S, "sid", Blank) = param(B, "sid", Blank)
      /\ param(S, "pbk", Blank) = param(B, "pbk", Blank)
  BY <1>2 DEF SecKeys
<1> HIDE DEF S
<1>5. Speaks(S, R, sec)
  BY <1>1, <1>4 DEF Speaks
<1> QED
  BY <1>3, <1>5 DEF S

\* The outbound o has the protocol, address, secret and network of the form F,
\* and no masks.
Reaches(F, address, o) ==
    /\ o.protocol = F.protocol /\ o.network = F.stream.network
    /\ o.address = address /\ o.user = secretOf(F) /\ o.udpMask = FALSE
    /\ F.stream.network # "hysteria" =>
          SectionIs(F.stream.network, F.stream.section[F.stream.network], o.section)

\* It speaks the security sec as F does.
Secured(F, sec, o) ==
    LET own == sec = F.stream.security
    IN  /\ o.security = sec
        /\ o.flow = IF own /\ canEnableTlsFlow(F) THEN F.flow ELSE Blank
        /\ sec = "tls" /\ own => o.tls = F.stream.tls
        /\ sec = "tls" /\ ~own => o.tls.sni = Blank
        /\ sec = "reality" =>
              /\ o.reality.sni \in {F.stream.reality.names[k] :
                                      k \in DOMAIN F.stream.reality.names}
              /\ o.reality.sid \in {F.stream.reality.sids[k] :
                                      k \in DOMAIN F.stream.reality.sids}
              /\ o.reality.pbk = F.stream.reality.pbk

\* The row R shows the form F: all that is in force in it.
Shows(R, F) ==
    LET n == F.stream.network
    IN  /\ R \in Form /\ F \in Form /\ Coherent(F)
        /\ R.protocol = F.protocol /\ R.listen = F.listen /\ R.flow = F.flow
        /\ R.method = F.method /\ R.stream.network = n
        /\ R.stream.security = F.stream.security /\ R.stream.proxy = F.stream.proxy
        /\ F.stream.security = "tls" => R.stream.tls = F.stream.tls
        /\ F.stream.security # "tls" => R.stream.tls = NewTls
        /\ F.stream.security = "reality" => R.stream.reality = F.stream.reality
        /\ R.stream.section[n] = sectionToJson(n, F.stream.section[n])

\* What is stored of a section is all a client must know of it.
LEMMA SectionKept ==
    ASSUME NEW n \in AllNetworks, NEW s \in Section, NEW o
    PROVE  /\ SectionIs(n, sectionToJson(n, s), o) => SectionIs(n, s, o)
           /\ n # "tcp" => sectionToJson(n, s) = s
<1>1. NewSection[n].opt = FALSE
  BY DEF NewSection, AllNetworks
<1>2. CASE n = "tcp" /\ ~s.opt
  BY <1>1, <1>2 DEF SectionIs, sectionToJson
<1>3. CASE ~(n = "tcp" /\ ~s.opt)
  BY <1>3 DEF sectionToJson
<1> QED
  BY <1>2, <1>3

\* A loaded row shows the form it was stored from, with the external proxies it
\* has by now.
LEMMA RowShows ==
    ASSUME NEW r, NEW s, Loaded(r, s)
    PROVE  Shows(r.inbound, RowForm(r))
<1> DEFINE f == r.from.form
           x == r.inbound.stream.proxy
           g == fromJson(toJson(f))
           F == [f EXCEPT !.stream.proxy = x]
           R == r.inbound
           n == f.stream.network
<1>1. f \in Form /\ Coherent(f) /\ r.from.json = toJson(f)
  BY DEF Loaded, Stored, GoodForm
<1>2. x \in Proxies
  BY FormFields DEF Loaded
<1>3. R = [g EXCEPT !.stream.proxy = x] /\ R \in Form
  BY <1>1 DEF Loaded
<1>4. /\ g \in Form
      /\ g.protocol = f.protocol /\ g.listen = f.listen /\ g.flow = f.flow
      /\ g.method = f.method
      /\ g.stream.network = n /\ g.stream.security = f.stream.security
      /\ f.stream.security = "tls" => g.stream.tls = f.stream.tls
      /\ f.stream.security # "tls" => g.stream.tls = NewTls
      /\ f.stream.security = "reality" => g.stream.reality = f.stream.reality
      /\ g.stream.section[n] = sectionToJson(n, f.stream.section[n])
  BY <1>1, ReadBack
<1>5. F = RowForm(r)
  BY DEF RowForm
<1> HIDE DEF g, x, f
<1>6. /\ F \in Form /\ F.protocol = f.protocol /\ F.flow = f.flow
      /\ F.stream.network = f.stream.network /\ F.stream.security = f.stream.security
      /\ F.stream.udpMask = f.stream.udpMask
      /\ F.stream.proxy = x /\ F.listen = f.listen /\ F.method = f.method
      /\ F.stream.tls = f.stream.tls /\ F.stream.reality = f.stream.reality
      /\ F.stream.section = f.stream.section
  BY <1>1, <1>2, ProxySet
<1>7. /\ R.protocol = g.protocol /\ R.flow = g.flow
      /\ R.stream.network = g.stream.network /\ R.stream.security = g.stream.security
      /\ R.stream.proxy = x /\ R.listen = g.listen /\ R.method = g.method
      /\ R.stream.tls = g.stream.tls /\ R.stream.reality = g.stream.reality
      /\ R.stream.section = g.stream.section
  BY <1>2, <1>3, <1>4, ProxySet
<1> HIDE DEF F, R
<1>8. Coherent(F)
  BY <1>1, <1>6 DEF Coherent, canEnableTls
<1>9. Shows(R, F)
  BY <1>3, <1>4, <1>6, <1>7, <1>8 DEF Shows
<1> QED
  BY <1>5, <1>9 DEF R

\* The first name and the first short id are among them.
LEMMA RealityHeads ==
    ASSUME NEW r \in Reality
    PROVE  /\ Head(r.names) \in {r.names[k] : k \in DOMAIN r.names}
           /\ Head(r.sids) \in {r.sids[k] : k \in DOMAIN r.sids}
<1>1. r.names \in {<<"a", "b">>, <<"c">>} /\ r.sids \in {<<"1", "2">>, <<"3">>}
  BY DEF Reality
<1>2. 1 \in DOMAIN r.names /\ Head(r.names) = r.names[1]
  BY <1>1
<1>3. 1 \in DOMAIN r.sids /\ Head(r.sids) = r.sids[1]
  BY <1>1
<1> QED
  BY <1>2, <1>3

\* The outbound o has the parts of a link: its transport,
TransportIs(scheme, user, address, n, c, o) ==
    /\ o.protocol = IF scheme = "ss" THEN "shadowsocks" ELSE scheme
    /\ o.address = address /\ o.user = user /\ o.network = n
    /\ o.udpMask = FALSE
    /\ SectionIs(n, c, o.section)
    /\ n = "xhttp" => o.section.opt = c.opt

\* and its security.
SecurityIs(scheme, S, sec, o) ==
    /\ o.security = sec
    /\ scheme = "vless" => o.flow = param(S, "flow", Blank)
    /\ scheme # "vless" => o.flow = Blank
    /\ sec = "tls" => o.tls = [sni |-> param(S, "sni", Blank),
                               alpn |-> param(S, "alpn", Blank),
                               fp |-> param(S, "fp", "none")]
    /\ sec = "reality" => o.reality = [sni |-> param(S, "sni", Blank),
                                       sid |-> param(S, "sid", Blank),
                                       pbk |-> param(S, "pbk", Blank)]

\* A link of vless, trojan or ss is imported as the parts it was made of.
LEMMA ParamImport ==
    ASSUME NEW scheme, scheme \in {"vless", "trojan", "ss"}, NEW user, NEW address,
           NEW n, NEW c, NEW N, Carries(N, n, c), NEW S, NEW R, NEW sec, Speaks(S, R, sec)
    PROVE  LET o == fromLink(Link(scheme, user, address, n, N, S))
           IN  TransportIs(scheme, user, address, n, c, o) /\ SecurityIs(scheme, S, sec, o)
<1> DEFINE l == Link(scheme, user, address, n, N, S)
           o == fromLink(l)
<1>1. DOMAIN N \subseteq NetKeys \cup MaskKeys
  BY DEF Carries
<1>2. /\ l["scheme"] = scheme /\ l["user"] = user /\ l["address"] = address
      /\ \A v : param(l, "type", v) = n
      /\ \A p \in NetKeys : \A v : param(l, p, v) = param(N, p, v)
      /\ \A p \in SecKeys : \A v : param(l, p, v) = param(S, p, v)
  BY <1>1, LinkLookup DEF Speaks
<1> HIDE DEF l
<1>3. SectionIs(n, c, paramSection(l, n)) /\ (n = "xhttp" => paramSection(l, n).opt = c.opt)
  BY <1>2 DEF Carries
<1>4. o = fromParamLink(l)
  BY <1>2 DEF fromLink
<1>5. /\ param(l, "type", "tcp") = n
      /\ param(l, "security", "none") = sec
      /\ param(l, "flow", Blank) = param(S, "flow", Blank)
      /\ param(l, "sni", Blank) = param(S, "sni", Blank)
      /\ param(l, "alpn", Blank) = param(S, "alpn", Blank)
      /\ param(l, "fp", "none") = param(S, "fp", "none")
      /\ param(l, "sid", Blank) = param(S, "sid", Blank)
      /\ param(l, "pbk", Blank) = param(S, "pbk", Blank)
  BY <1>2 DEF SecKeys, Speaks
<1>6. /\ o.protocol = (IF scheme = "ss" THEN "shadowsocks" ELSE scheme)
      /\ o.address = address /\ o.user = user /\ o.network = n /\ o.security = sec
      /\ o.section = paramSection(l, n) /\ o.udpMask = FALSE
      /\ o.flow = IF scheme = "vless" THEN param(S, "flow", Blank) ELSE Blank
      /\ o.tls = IF sec = "tls" THEN [sni |-> param(S, "sni", Blank),
                                      alpn |-> param(S, "alpn", Blank),
                                      fp |-> param(S, "fp", "none")] ELSE None
      /\ o.reality = IF sec = "reality" THEN [sni |-> param(S, "sni", Blank),
                                              sid |-> param(S, "sid", Blank),
                                              pbk |-> param(S, "pbk", Blank)] ELSE None
  BY <1>2, <1>4, <1>5 DEF fromParamLink, outbound
<1> HIDE DEF o
<1>7. TransportIs(scheme, user, address, n, c, o) /\ SecurityIs(scheme, S, sec, o)
  BY <1>3, <1>6 DEF TransportIs, SecurityIs
<1> QED
  BY <1>7 DEF l, o

\* A security's part that says what the row shows makes the import speak it.
LEMMA SecuredImport ==
    ASSUME NEW R, NEW F, Shows(R, F), NEW S, NEW sec, Speaks(S, R, sec),
           sec \in {F.stream.security, "tls", "none"}, NEW o, o.security = sec,
           o.flow = IF sec = F.stream.security /\ canEnableTlsFlow(F) THEN F.flow ELSE Blank,
           sec = "tls" => o.tls = [sni |-> param(S, "sni", Blank),
                                   alpn |-> param(S, "alpn", Blank),
                                   fp |-> param(S, "fp", "none")],
           sec = "reality" => o.reality = [sni |-> param(S, "sni", Blank),
                                           sid |-> param(S, "sid", Blank),
                                           pbk |-> param(S, "pbk", Blank)]
    PROVE  Secured(F, sec, o)
<1>1. F.stream.tls \in Tls /\ F.stream.reality \in Reality
  BY FormFields DEF Shows
<1>2. sec = "tls" /\ sec = F.stream.security => o.tls = F.stream.tls
  <2> SUFFICES ASSUME sec = "tls", sec = F.stream.security PROVE o.tls = F.stream.tls
    OBVIOUS
  <2> DEFINE t == F.stream.tls
  <2>1. o.tls = [sni |-> t.sni, alpn |-> t.alpn, fp |-> t.fp]
    BY DEF Speaks, Shows
  <2> QED
    BY <1>1, <2>1 DEF Tls
<1>3. sec = "tls" /\ sec # F.stream.security => o.tls.sni = Blank
  BY DEF Speaks, Shows
<1>4. sec = "reality" =>
         /\ o.reality.sni \in {F.stream.reality.names[k] :
                                 k \in DOMAIN F.stream.reality.names}
         /\ o.reality.sid \in {F.stream.reality.sids[k] :
                                 k \in DOMAIN F.stream.reality.sids}
         /\ o.reality.pbk = F.stream.reality.pbk
  <2> SUFFICES ASSUME sec = "reality"
               PROVE  /\ o.reality.sni \in {F.stream.reality.names[k] :
                                              k \in DOMAIN F.stream.reality.names}
                      /\ o.reality.sid \in {F.stream.reality.sids[k] :
                                              k \in DOMAIN F.stream.reality.sids}
                      /\ o.reality.pbk = F.stream.reality.pbk
    OBVIOUS
  <2>1. R.stream.reality = F.stream.reality
    BY DEF Shows
  <2>2. /\ o.reality.sni = Head(F.stream.reality.names)
        /\ o.reality.sid = Head(F.stream.reality.sids)
        /\ o.reality.pbk = F.stream.reality.pbk
    BY <2>1 DEF Speaks
  <2> QED
    BY <1>1, <2>2, RealityHeads
<1> QED
  BY <1>2, <1>3, <1>4 DEF Secured

\* The links of vless, trojan and ss reach the form.
LEMMA ParamReaches ==
    ASSUME NEW R, NEW F, Shows(R, F), NEW scheme \in {"vless", "trojan", "ss"}, NEW user,
           user = secretOf(F), NEW address,
           F.protocol = IF scheme = "ss" THEN "shadowsocks" ELSE scheme,
           NEW S, NEW sec, Speaks(S, R, sec)
    PROVE  LET n == R.stream.network
               o == fromLink(Link(scheme, user, address, n, streamParams(R), S))
           IN  /\ Reaches(F, address, o)
               /\ n = "xhttp" => o.section.opt = F.stream.section["xhttp"].opt
<1> DEFINE n == R.stream.network
           c == R.stream.section[n]
           N == streamParams(R)
           l == Link(scheme, user, address, n, N, S)
           o == fromLink(l)
<1>0. F.protocol # "hysteria"
  OBVIOUS
<1>1. n \in Networks /\ c \in Section /\ n \in AllNetworks
  BY <1>0, FormFields DEF Shows, Coherent, AllNetworks
<1>2. n = F.stream.network /\ c = sectionToJson(n, F.stream.section[n])
  BY DEF Shows
<1>3. F.stream.section[n] \in Section
  BY <1>1, <1>2, FormFields DEF Shows
<1>row. Carries(N, n, c)
  BY <1>1, StreamSection
<1> HIDE DEF n, c, N
<1>made. l = Link(scheme, user, address, n, N, S) /\ o = fromLink(l)
  OBVIOUS
<1> HIDE DEF l, o
<1>4. /\ o.protocol = IF scheme = "ss" THEN "shadowsocks" ELSE scheme
      /\ o.address = address /\ o.user = user /\ o.network = n
      /\ o.udpMask = FALSE
      /\ SectionIs(n, c, o.section)
      /\ n = "xhttp" => o.section.opt = c.opt
  <2>1. TransportIs(scheme, user, address, n, c, o)
    BY <1>row, <1>made, ParamImport
  <2> QED
    BY <2>1 DEF TransportIs
<1>5. SectionIs(n, F.stream.section[n], o.section)
  BY <1>1, <1>2, <1>3, <1>4, SectionKept
<1>6. n = "xhttp" => c = F.stream.section["xhttp"]
  BY <1>1, <1>2, <1>3, SectionKept
<1>7. o.protocol = F.protocol
  BY <1>4
<1>8. Reaches(F, address, o) /\ (n = "xhttp" => o.section.opt = F.stream.section["xhttp"].opt)
  BY <1>2, <1>4, <1>5, <1>6, <1>7 DEF Reaches
<1> QED
  BY <1>8 DEF n, c, N, l, o

\* And speak as it does.
LEMMA ParamSecured ==
    ASSUME NEW R, NEW F, Shows(R, F), NEW scheme \in {"vless", "trojan", "ss"}, NEW user,
           F.protocol # "hysteria", NEW address,
           NEW S, NEW sec, Speaks(S, R, sec), sec \in {F.stream.security, "tls", "none"},
           scheme = "vless" <=> F.protocol = "vless",
           scheme = "vless" => param(S, "flow", Blank) =
              IF sec = F.stream.security /\ canEnableTlsFlow(F) THEN F.flow ELSE Blank
    PROVE  LET n == R.stream.network
               o == fromLink(Link(scheme, user, address, n, streamParams(R), S))
           IN  Secured(F, sec, o)
<1> DEFINE n == R.stream.network
           c == R.stream.section[n]
           N == streamParams(R)
           l == Link(scheme, user, address, n, N, S)
           o == fromLink(l)
<1>1. n \in Networks /\ c \in Section
  BY FormFields DEF Shows, Coherent, AllNetworks
<1>row. Carries(N, n, c)
  BY <1>1, StreamSection
<1> HIDE DEF n, c, N
<1>made. l = Link(scheme, user, address, n, N, S) /\ o = fromLink(l)
  OBVIOUS
<1> HIDE DEF l, o
<1>2. /\ o.security = sec
      /\ scheme = "vless" => o.flow = param(S, "flow", Blank)
      /\ scheme # "vless" => o.flow = Blank
      /\ sec = "tls" => o.tls = [sni |-> param(S, "sni", Blank),
                                 alpn |-> param(S, "alpn", Blank),
                                 fp |-> param(S, "fp", "none")]
      /\ sec = "reality" => o.reality = [sni |-> param(S, "sni", Blank),
                                         sid |-> param(S, "sid", Blank),
                                         pbk |-> param(S, "pbk", Blank)]
  <2>1. SecurityIs(scheme, S, sec, o)
    BY <1>row, <1>made, ParamImport
  <2> QED
    BY <2>1 DEF SecurityIs
<1>3. o.flow = IF sec = F.stream.security /\ canEnableTlsFlow(F) THEN F.flow ELSE Blank
  BY <1>2 DEF canEnableTlsFlow
<1>4. Secured(F, sec, o)
  BY <1>2, <1>3, SecuredImport
<1> QED
  BY <1>4 DEF n, c, N, l, o

\* A VLESS link.
LEMMA VlessDials ==
    ASSUME NEW R, NEW F, Shows(R, F), F.protocol = "vless", NEW address,
           NEW sec \in {F.stream.security, "tls", "none"}
    PROVE  LET o == fromLink(genVLESSLink(R, address, sec))
           IN  /\ Reaches(F, address, o) /\ Secured(F, sec, o)
               /\ F.stream.network = "xhttp" =>
                     o.section.opt = F.stream.section["xhttp"].opt
<1> DEFINE n == R.stream.network
           N == streamParams(R)
           W == IF n = "tcp" THEN Optional("flow", R.flow) ELSE <<>>
           V == IF R.stream.security = "tls" THEN W ELSE <<>>
           S == CASE sec = "tls" -> tlsParams(R) @@ V
                  [] sec = "reality" -> realityParams(R) @@ W
                  [] OTHER -> "security" :> "none"
           o == fromLink(genVLESSLink(R, address, sec))
<1>1. genVLESSLink(R, address, sec) = Link("vless", <<"client">>, address, n, N, S)
  BY DEF genVLESSLink, Link
<1>2. /\ R \in Form /\ n = F.stream.network /\ R.stream.security = F.stream.security
      /\ R.flow = F.flow /\ F.stream.security \in Securities
  BY FormFields DEF Shows
<1>3. secretOf(F) = <<"client">>
  BY DEF secretOf
<1>4. /\ \A p : p \in DOMAIN W => p = "flow"
      /\ n = "tcp" => param(W, "flow", Blank) = F.flow
      /\ n # "tcp" => param(W, "flow", Blank) = Blank
  <2>1. \A p : p \in DOMAIN W => p = "flow"
    BY OptionalDomain, NoDomain
  <2>2. n = "tcp" => param(W, "flow", Blank) = F.flow
    BY <1>2, OptionalParam
  <2>3. n # "tcp" => param(W, "flow", Blank) = Blank
    BY NoParams
  <2> QED
    BY <2>1, <2>2, <2>3
<1> HIDE DEF W
<1>5. /\ \A p : p \in DOMAIN V => p = "flow"
      /\ R.stream.security = "tls" => V = W
      /\ R.stream.security # "tls" => param(V, "flow", Blank) = Blank
  BY <1>4, NoDomain, NoParams
<1> HIDE DEF V
<1>6. sec \in {"tls", "reality", "none"}
  BY <1>2 DEF Securities
<1>7. /\ Speaks(S, R, sec)
      /\ param(S, "flow", Blank) =
            IF sec = F.stream.security /\ canEnableTlsFlow(F) THEN F.flow ELSE Blank
  <2>1. CASE sec = "tls"
    <3>1. S = tlsParams(R) @@ V
      BY <2>1
    <3>2. Speaks(S, R, sec) /\ param(S, "flow", Blank) = param(V, "flow", Blank)
      BY <1>2, <1>5, <2>1, <3>1, TlsSpeaks, FlowSpeaks
    <3> HIDE DEF S
    <3> QED
      BY <1>2, <1>4, <1>5, <2>1, <3>2 DEF canEnableTlsFlow
  <2>2. CASE sec = "reality"
    <3>1. S = realityParams(R) @@ W
      BY <2>2
    <3>2. Speaks(S, R, sec) /\ param(S, "flow", Blank) = param(W, "flow", Blank)
      BY <1>2, <1>4, <2>2, <3>1, RealitySpeaks, FlowSpeaks
    <3> HIDE DEF S
    <3> QED
      BY <1>2, <1>4, <2>2, <3>2 DEF canEnableTlsFlow
  <2>3. CASE sec = "none"
    <3>1. S = "security" :> "none"
      BY <2>3
    <3> HIDE DEF S
    <3> QED
      BY <1>2, <2>3, <3>1, NoneSpeaks DEF canEnableTlsFlow
  <2> QED
    BY <1>6, <2>1, <2>2, <2>3
<1> HIDE DEF S
<1>8. Reaches(F, address, o) /\ (n = "xhttp" => o.section.opt = F.stream.section["xhttp"].opt)
  BY <1>1, <1>3, <1>7, ParamReaches
<1>9. Secured(F, sec, o)
  BY <1>1, <1>7, ParamSecured
<1> QED
  BY <1>2, <1>8, <1>9

\* A Trojan link.
LEMMA TrojanDials ==
    ASSUME NEW R, NEW F, Shows(R, F), F.protocol = "trojan", NEW address,
           NEW sec \in {F.stream.security, "tls", "none"}
    PROVE  LET o == fromLink(genTrojanLink(R, address, sec))
           IN  /\ Reaches(F, address, o) /\ Secured(F, sec, o)
               /\ F.stream.network = "xhttp" =>
                     o.section.opt = F.stream.section["xhttp"].opt
<1> DEFINE n == R.stream.network
           N == streamParams(R)
           S == CASE sec = "tls" -> tlsParams(R)
                  [] sec = "reality" -> realityParams(R)
                  [] OTHER -> "security" :> "none"
           o == fromLink(genTrojanLink(R, address, sec))
<1>1. genTrojanLink(R, address, sec) = Link("trojan", <<"client">>, address, n, N, S)
  BY DEF genTrojanLink, Link
<1>2. R \in Form /\ n = F.stream.network /\ F.stream.security \in Securities
  BY FormFields DEF Shows
<1>3. secretOf(F) = <<"client">>
  BY DEF secretOf
<1>4. Speaks(S, R, sec)
  BY <1>2, TlsSpeaks, RealitySpeaks, NoneSpeaks DEF Securities
<1> HIDE DEF S
<1>5. Reaches(F, address, o) /\ (n = "xhttp" => o.section.opt = F.stream.section["xhttp"].opt)
  BY <1>1, <1>3, <1>4, ParamReaches
<1>6. Secured(F, sec, o)
  BY <1>1, <1>4, ParamSecured
<1> QED
  BY <1>2, <1>5, <1>6

\* Sequences are equal when their elements are.
LEMMA SameElements ==
    ASSUME NEW X, NEW s \in Seq(X), NEW t \in Seq(X), Len(s) = Len(t),
           \A i \in 1..Len(s) : s[i] = t[i]
    PROVE  s = t
OBVIOUS

\* One password after the method,
LEMMA OneColon ==
    ASSUME NEW a, NEW b
    PROVE  <<a>> \o <<b>> = <<a, b>>
<1> DEFINE X == {a, b}
           s == <<a>> \o <<b>>
           t == <<a, b>>
<1>1. <<a>> \in Seq(X) /\ <<b>> \in Seq(X) /\ Len(<<a>>) = 1 /\ Len(<<b>>) = 1
  OBVIOUS
<1>2. t \in Seq(X) /\ Len(t) = 2 /\ t[1] = a /\ t[2] = b
  OBVIOUS
<1>3. Len(s) = 2
  BY <1>1
<1>4. s[1] = a /\ s[2] = b
  BY <1>1
<1>5. s \in Seq(X)
  BY <1>1
<1> HIDE DEF s, t
<1>6. s = t
  BY <1>2, <1>3, <1>4, <1>5, SameElements
<1> QED
  BY <1>6 DEF s, t

\* or two of them,
LEMMA TwoColons ==
    ASSUME NEW a, NEW b, NEW c
    PROVE  <<a>> \o <<b>> \o <<c>> = <<a, b, c>>
<1> DEFINE X == {a, b, c}
           s == <<a, b>> \o <<c>>
           t == <<a, b, c>>
<1>1. <<a, b>> \in Seq(X) /\ <<c>> \in Seq(X) /\ Len(<<a, b>>) = 2 /\ Len(<<c>>) = 1
  OBVIOUS
<1>2. t \in Seq(X) /\ Len(t) = 3 /\ t[1] = a /\ t[2] = b /\ t[3] = c
  OBVIOUS
<1>3. Len(s) = 3
  BY <1>1
<1>4. s[1] = a /\ s[2] = b /\ s[3] = c
  BY <1>1
<1>5. s \in Seq(X)
  BY <1>1
<1> HIDE DEF s, t
<1>6. s = t
  BY <1>2, <1>3, <1>4, <1>5, SameElements
<1> QED
  BY <1>6, OneColon DEF s, t

\* or one, where the other is left out.
LEMMA NoColon ==
    ASSUME NEW a, NEW b
    PROVE  <<a>> \o <<>> = <<a>> /\ <<a, b>> \o <<>> = <<a, b>>
<1>1. ASSUME NEW X, NEW s \in Seq(X) PROVE s \o <<>> = s
  OBVIOUS
<1>2. <<a>> \in Seq({a, b}) /\ <<a, b>> \in Seq({a, b})
  OBVIOUS
<1> QED
  BY <1>1, <1>2

\* A Shadowsocks link.
LEMMA ShadowsocksDials ==
    ASSUME NEW R, NEW F, Shows(R, F), F.protocol = "shadowsocks", NEW address,
           NEW sec \in {F.stream.security, "tls", "none"}
    PROVE  LET o == fromLink(genSSLink(R, address, sec))
           IN  /\ Reaches(F, address, o) /\ Secured(F, sec, o)
               /\ F.stream.network = "xhttp" =>
                     o.section.opt = F.stream.section["xhttp"].opt
<1> DEFINE n == R.stream.network
           N == streamParams(R)
           S == IF sec = "tls" THEN tlsParams(R) ELSE <<>>
           u == <<R.method>> \o (IF isSS2022(R) THEN <<"server">> ELSE <<>>)
                   \o (IF isSSMultiUser(R) THEN <<"client">> ELSE <<>>)
           o == fromLink(genSSLink(R, address, sec))
<1>1. genSSLink(R, address, sec)
         = "scheme" :> "ss" @@ "user" :> u @@ "address" :> address @@ "type" :> n @@ N @@ S
  BY DEF genSSLink
<1>2. /\ R \in Form /\ n = F.stream.network /\ F.stream.security \in Securities
      /\ R.method = F.method /\ F.method \in Methods
  BY FormFields DEF Shows
<1>3. u = secretOf(F)
  <2>1. CASE F.method = "legacy"
    <3>1. u = <<R.method>> \o <<>> \o <<"client">>
      BY <1>2, <2>1 DEF isSS2022, isSSMultiUser
    <3>2. secretOf(F) = <<R.method, "client">>
      BY <1>2, <2>1 DEF secretOf
    <3> QED
      BY <3>1, <3>2, OneColon, NoColon
  <2>2. CASE F.method = "2022"
    <3>1. u = <<R.method>> \o <<"server">> \o <<"client">>
      BY <1>2, <2>2 DEF isSS2022, isSSMultiUser
    <3>2. secretOf(F) = <<R.method, "server", "client">>
      BY <1>2, <2>2 DEF secretOf
    <3> QED
      BY <3>1, <3>2, TwoColons
  <2>3. CASE F.method = "2022single"
    <3>1. u = <<R.method>> \o <<"server">> \o <<>>
      BY <1>2, <2>3 DEF isSS2022, isSSMultiUser
    <3>2. secretOf(F) = <<R.method, "server">>
      BY <1>2, <2>3 DEF secretOf
    <3> QED
      BY <3>1, <3>2, OneColon, NoColon
  <2> QED
    BY <1>2, <2>1, <2>2, <2>3 DEF Methods
<1>4. sec # "reality"
  BY DEF Shows, Coherent
<1>5. Speaks(S, R, sec)
  BY <1>2, <1>4, TlsSpeaks, NoneSpeaks DEF Securities
<1> HIDE DEF S, u
<1>6. genSSLink(R, address, sec) = Link("ss", u, address, n, N, S)
  BY <1>1 DEF Link
<1>7. Reaches(F, address, o) /\ (n = "xhttp" => o.section.opt = F.stream.section["xhttp"].opt)
  BY <1>3, <1>5, <1>6, ParamReaches
<1>8. Secured(F, sec, o)
  BY <1>5, <1>6, ParamSecured
<1> QED
  BY <1>2, <1>7, <1>8

-----------------------------------------------------------------------------
(* VMess and Hysteria links.                                               *)

VmessNetKeys == {"type", "path", "host", "mtu", "authority"}
VmessTlsKeys == {"sni", "fp", "alpn"}

\* The parts of genVmessLink.
vmessNet(n, s) ==
    CASE n = "tcp" -> "type" :> (IF s.opt THEN "http" ELSE "none")
              @@ (IF s.opt THEN "path" :> s.key @@ Optional("host", s.header)
                  ELSE <<>>)
      [] n = "kcp" -> "mtu" :> s.key
      [] n = "grpc" -> "path" :> s.key @@ "authority" :> s.host
                           @@ (IF s.opt THEN "type" :> "multi" ELSE <<>>)
      [] n = "xhttp" -> "path" :> s.key @@ "host" :> hostOf(s)
                            @@ "type" :> (IF s.opt THEN "typed" ELSE "auto")
      [] OTHER -> "path" :> s.key @@ "host" :> hostOf(s)

vmessTls(t) == Optional("sni", t.sni) @@ Optional("fp", t.fp) @@ Optional("alpn", t.alpn)

VmessLink(address, n, sec, N, S) ==
    "scheme" :> "vmess" @@ "id" :> <<"client">> @@ "add" :> address
        @@ "net" :> n @@ "tls" :> sec @@ N @@ S

\* The section fromVmessLink reads.
vmessSection(l, n) ==
    CASE n = "tcp" -> [key |-> param(l, "path", "dflt"),
                       host |-> param(l, "host", Blank), opt |-> l.type = "http"]
      [] n = "kcp" -> [key |-> param(l, "mtu", "dflt"), host |-> Blank,
                       opt |-> FALSE]
      [] n = "grpc" -> [key |-> param(l, "path", Blank),
                        host |-> param(l, "authority", Blank),
                        opt |-> param(l, "type", Blank) = "multi"]
      [] OTHER -> [key |-> param(l, "path", "dflt"),
                   host |-> param(l, "host", Blank),
                   opt |-> n = "xhttp" /\ param(l, "mode", Blank) = "typed"]

\* Looking up the parameters of such a link.
LEMMA VmessLookup ==
    ASSUME NEW address, NEW n, NEW sec, NEW N, NEW S,
           DOMAIN N \subseteq VmessNetKeys \cup MaskKeys, DOMAIN S \subseteq VmessTlsKeys
    PROVE  LET l == VmessLink(address, n, sec, N, S)
           IN  /\ l["scheme"] = "vmess" /\ l["id"] = <<"client">> /\ l["add"] = address
               /\ l["net"] = n /\ l["tls"] = sec
               /\ \A p \in VmessNetKeys : \A v : param(l, p, v) = param(N, p, v)
               /\ \A p \in VmessTlsKeys : \A v : param(l, p, v) = param(S, p, v)
               /\ \A p \in DOMAIN N : p \in DOMAIN l
<1> DEFINE A == "scheme" :> "vmess" @@ "id" :> <<"client">> @@ "add" :> address
                    @@ "net" :> n @@ "tls" :> sec
           K == {"scheme", "id", "add", "net", "tls"}
           l == A @@ N @@ S
<1>1. \A p : p \in DOMAIN A <=> p \in K
  BY OneDomain, TwoDomain
<1>2. \A v : /\ param(A, "scheme", v) = "vmess" /\ param(A, "id", v) = <<"client">>
             /\ param(A, "add", v) = address /\ param(A, "net", v) = n
             /\ param(A, "tls", v) = sec
  BY OneDomain, TwoDomain, OneParam, TwoParams
<1> HIDE DEF A
<1>3. \A p, v : p \in K => p \in DOMAIN l /\ param(l, p, v) = param(A, p, v)
  BY <1>1, TwoDomain, TwoParams
<1>4. \A p \in VmessNetKeys : \A v : param(l, p, v) = param(N, p, v)
  <2> SUFFICES ASSUME NEW p \in VmessNetKeys, NEW v PROVE param(l, p, v) = param(N, p, v)
    OBVIOUS
  <2>1. p \notin DOMAIN A /\ p \notin DOMAIN S
    BY <1>1 DEF VmessNetKeys, VmessTlsKeys
  <2>2. CASE p \in DOMAIN N
    BY <2>1, <2>2, TwoDomain, TwoParams
  <2>3. CASE p \notin DOMAIN N
    <3>1. param(l, p, v) = v
      BY <2>1, <2>3, TwoDomain DEF param
    <3>2. param(N, p, v) = v
      BY <2>3 DEF param
    <3> QED
      BY <3>1, <3>2
  <2> QED
    BY <2>2, <2>3
<1>5. \A p \in VmessTlsKeys : \A v : param(l, p, v) = param(S, p, v)
  BY <1>1, TwoDomain, TwoParams DEF VmessNetKeys, MaskKeys, VmessTlsKeys
<1>6. l = VmessLink(address, n, sec, N, S)
  BY DEF VmessLink, A
<1>7. \A p \in DOMAIN N : p \in DOMAIN l
  BY TwoDomain
<1> HIDE DEF l
<1>8. /\ l["scheme"] = "vmess" /\ l["id"] = <<"client">> /\ l["add"] = address
      /\ l["net"] = n /\ l["tls"] = sec
  BY <1>2, <1>3, FieldParam
<1> QED
  BY <1>4, <1>5, <1>6, <1>7, <1>8

\* The network's part of a VMess link is imported as the section it was made of,
\* but for the mode of XHTTP.
LEMMA VmessSection ==
    ASSUME NEW n \in Networks, NEW s \in Section
    PROVE  /\ DOMAIN vmessNet(n, s) \subseteq VmessNetKeys
           /\ \A l : /\ \A p \in VmessNetKeys : \A v :
                           param(l, p, v) = param(vmessNet(n, s), p, v)
                     /\ \A p \in DOMAIN vmessNet(n, s) : p \in DOMAIN l
                 => SectionIs(n, s, vmessSection(l, n))
<1> DEFINE N == vmessNet(n, s)
<1>0. s.opt \in BOOLEAN
  BY DEF Section
<1>1. CASE n = "tcp" /\ ~s.opt
  <2>1. N = "type" :> "none" @@ <<>>
    BY <1>1 DEF vmessNet
  <2>2. \A p : p \in DOMAIN N <=> p = "type"
    BY <2>1, OneDomain, TwoDomain, NoDomain
  <2>3. \A v : param(N, "type", v) = "none"
    BY <2>1, OneDomain, TwoDomain, OneParam, TwoParams
  <2>4. ASSUME NEW l, \A p \in VmessNetKeys : \A v : param(l, p, v) = param(N, p, v),
               \A p \in DOMAIN N : p \in DOMAIN l
        PROVE  vmessSection(l, n).opt = FALSE
    <3>1. l["type"] = "none"
      BY <2>2, <2>3, <2>4, FieldParam DEF VmessNetKeys
    <3> QED
      BY <1>1, <3>1 DEF vmessSection
  <2> QED
    BY <1>1, <2>2, <2>4 DEF SectionIs, VmessNetKeys
<1>2. CASE n = "tcp" /\ s.opt
  <2> DEFINE P == "path" :> s.key @@ Optional("host", s.header)
  <2>1. N = "type" :> "http" @@ P
    BY <1>2 DEF vmessNet
  <2>2. \A p : p \in DOMAIN P => p \in {"path", "host"}
    BY OneDomain, TwoDomain, OptionalDomain
  <2>3. param(P, "path", "dflt") = s.key
    BY OneDomain, OneParam, TwoParams
  <2>4. param(P, "host", Blank) = s.header
    <3>1. param(P, "host", Blank) = param(Optional("host", s.header), "host", Blank)
      BY OneDomain, TwoParams
    <3> QED
      BY <3>1, OptionalParam
  <2> HIDE DEF P
  <2>5. /\ \A p : p \in DOMAIN N => p \in {"type", "path", "host"}
        /\ "type" \in DOMAIN N
    BY <2>1, <2>2, OneDomain, TwoDomain
  <2>6. /\ param(N, "path", "dflt") = s.key /\ param(N, "host", Blank) = s.header
        /\ \A v : param(N, "type", v) = "http"
    BY <2>1, <2>3, <2>4, OneDomain, OneParam, TwoParams
  <2>7. ASSUME NEW l, \A p \in VmessNetKeys : \A v : param(l, p, v) = param(N, p, v),
               \A p \in DOMAIN N : p \in DOMAIN l
        PROVE  vmessSection(l, n) = [key |-> s.key, host |-> s.header, opt |-> TRUE]
    <3>1. l["type"] = "http"
      BY <2>5, <2>6, <2>7, FieldParam DEF VmessNetKeys
    <3>2. param(l, "path", "dflt") = s.key /\ param(l, "host", Blank) = s.header
      BY <2>6, <2>7 DEF VmessNetKeys
    <3> QED
      BY <1>2, <3>1, <3>2 DEF vmessSection
  <2> QED
    BY <1>2, <2>5, <2>7 DEF SectionIs, VmessNetKeys
<1>3. CASE n = "kcp"
  <2>1. N = "mtu" :> s.key
    BY <1>3 DEF vmessNet
  <2>2. \A p : p \in DOMAIN N => p = "mtu"
    BY <2>1, OneDomain
  <2>3. param(N, "mtu", "dflt") = s.key
    BY <2>1, OneParam
  <2>4. ASSUME NEW l, \A p \in VmessNetKeys : \A v : param(l, p, v) = param(N, p, v)
        PROVE  vmessSection(l, n).key = s.key
    <3>1. param(l, "mtu", "dflt") = s.key
      BY <2>3, <2>4 DEF VmessNetKeys
    <3> QED
      BY <1>3, <3>1 DEF vmessSection
  <2> QED
    BY <1>3, <2>2, <2>4 DEF SectionIs, VmessNetKeys
<1>4. CASE n = "grpc"
  <2> DEFINE M == IF s.opt THEN "type" :> "multi" ELSE <<>>
  <2>1. N = "path" :> s.key @@ "authority" :> s.host @@ M
    BY <1>4 DEF vmessNet
  <2>2. \A p : p \in DOMAIN M => p = "type"
    BY OneDomain, NoDomain
  <2>3. param(M, "type", Blank) = IF s.opt THEN "multi" ELSE Blank
    BY OneParam, NoParams
  <2> HIDE DEF M
  <2>4. \A p : p \in DOMAIN N => p \in {"path", "authority", "type"}
    BY <2>1, <2>2, OneDomain, TwoDomain
  <2>5. /\ param(N, "path", Blank) = s.key /\ param(N, "authority", Blank) = s.host
        /\ param(N, "type", Blank) = param(M, "type", Blank)
    BY <2>1, OneDomain, TwoDomain, OneParam, TwoParams
  <2>6. ASSUME NEW l, \A p \in VmessNetKeys : \A v : param(l, p, v) = param(N, p, v)
        PROVE  /\ vmessSection(l, n).key = s.key /\ vmessSection(l, n).host = s.host
               /\ vmessSection(l, n).opt = s.opt
    <3>1. /\ param(l, "path", Blank) = s.key /\ param(l, "authority", Blank) = s.host
          /\ param(l, "type", Blank) = IF s.opt THEN "multi" ELSE Blank
      BY <2>3, <2>5, <2>6 DEF VmessNetKeys
    <3> QED
      BY <1>0, <1>4, <3>1, BlankIsNoWord DEF vmessSection
  <2> QED
    BY <1>4, <2>4, <2>6 DEF SectionIs, VmessNetKeys
<1>5. CASE n \in {"xhttp", "ws", "httpupgrade"}
  <2> DEFINE m == IF s.opt THEN "typed" ELSE "auto"
             B == "path" :> s.key @@ "host" :> hostOf(s)
  <2>1. N = B \/ N = B @@ "type" :> m
    BY <1>5 DEF vmessNet
  <2>2. \A p : p \in DOMAIN B <=> p \in {"path", "host"}
    BY OneDomain, TwoDomain
  <2>3. param(B, "path", "dflt") = s.key /\ param(B, "host", Blank) = hostOf(s)
    BY OneDomain, TwoDomain, OneParam, TwoParams
  <2> HIDE DEF m, B
  <2>4. \A p : p \in DOMAIN N => p \in {"path", "host", "type"}
    BY <2>1, <2>2, OneDomain, TwoDomain
  <2>5. param(N, "path", "dflt") = s.key /\ param(N, "host", Blank) = hostOf(s)
    BY <2>1, <2>2, <2>3, TwoParams
  <2>6. ASSUME NEW l, \A p \in VmessNetKeys : \A v : param(l, p, v) = param(N, p, v)
        PROVE  vmessSection(l, n).key = s.key /\ vmessSection(l, n).host = hostOf(s)
    <3>1. param(l, "path", "dflt") = s.key /\ param(l, "host", Blank) = hostOf(s)
      BY <2>5, <2>6 DEF VmessNetKeys
    <3> QED
      BY <1>5, <3>1 DEF vmessSection
  <2> QED
    BY <1>5, <2>4, <2>6 DEF SectionIs, VmessNetKeys
<1> QED
  BY <1>1, <1>2, <1>3, <1>4, <1>5 DEF Networks

\* And its TLS part as the TLS settings, an empty one by being left out.
LEMMA VmessTlsParams ==
    ASSUME NEW t
    PROVE  /\ DOMAIN vmessTls(t) \subseteq VmessTlsKeys
           /\ param(vmessTls(t), "sni", Blank) = t.sni
           /\ param(vmessTls(t), "fp", Blank) = t.fp
           /\ param(vmessTls(t), "alpn", Blank) = t.alpn
<1> DEFINE A == Optional("sni", t.sni)
           B == Optional("fp", t.fp)
           C == Optional("alpn", t.alpn)
           S == A @@ B @@ C
<1>1. /\ \A p : p \in DOMAIN A => p = "sni"
      /\ \A p : p \in DOMAIN B => p = "fp"
      /\ \A p : p \in DOMAIN C => p = "alpn"
  BY OptionalDomain
<1>2. /\ param(A, "sni", Blank) = t.sni /\ param(B, "fp", Blank) = t.fp
      /\ param(C, "alpn", Blank) = t.alpn
  BY OptionalParam
<1> HIDE DEF A, B, C
<1>3. \A p : p \in DOMAIN S => p \in VmessTlsKeys
  BY <1>1, TwoDomain DEF VmessTlsKeys
<1>4. \A f, p, v : p \notin DOMAIN f => param(f, p, v) = v
  BY DEF param
<1>5. param(S, "sni", Blank) = t.sni
  BY <1>1, <1>2, <1>4, TwoDomain, TwoParams
<1>6. param(S, "fp", Blank) = t.fp
  BY <1>1, <1>2, <1>4, TwoDomain, TwoParams
<1>7. param(S, "alpn", Blank) = t.alpn
  BY <1>1, <1>2, TwoDomain, TwoParams
<1> HIDE DEF S
<1>8. S = vmessTls(t)
  BY DEF S, A, B, C, vmessTls
<1> QED
  BY <1>3, <1>5, <1>6, <1>7, <1>8

\* A VMess link.
LEMMA VmessDials ==
    ASSUME NEW R, NEW F, Shows(R, F), F.protocol = "vmess", NEW address,
           NEW sec \in {F.stream.security, "tls", "none"},
           NEW o, o = fromLink(genVmessLink(R, address, sec))
    PROVE  Reaches(F, address, o) /\ Secured(F, sec, o)
<1> DEFINE n == R.stream.network
           c == R.stream.section[n]
           N == vmessNet(n, c)
           S == IF sec # "tls" THEN <<>> ELSE vmessTls(R.stream.tls)
           M == N @@ maskParams(R)
           l == VmessLink(address, n, sec, M, S)
<1>1. l = genVmessLink(R, address, sec)
  BY DEF genVmessLink, VmessLink, vmessNet, vmessTls
<1>2. n \in Networks /\ c \in Section /\ n \in AllNetworks
  BY FormFields DEF Shows, Coherent, AllNetworks
<1>3. n = F.stream.network /\ c = sectionToJson(n, F.stream.section[n])
  BY DEF Shows
<1>4. F.stream.section[n] \in Section /\ F.stream.tls \in Tls
  BY <1>2, <1>3, FormFields DEF Shows
<1>5. sec # "reality"
  BY DEF Shows, Coherent
<1>6. DOMAIN N \subseteq VmessNetKeys
  BY <1>2, VmessSection
<1>mask. /\ DOMAIN M \subseteq VmessNetKeys \cup MaskKeys
         /\ \A p \in DOMAIN N : p \in DOMAIN M
         /\ \A p \in VmessNetKeys : \A v : param(M, p, v) = param(N, p, v)
  BY <1>6, MaskAside DEF VmessNetKeys, MaskKeys
<1>7. /\ DOMAIN S \subseteq VmessTlsKeys
      /\ sec = "tls" => /\ param(S, "sni", Blank) = R.stream.tls.sni
                        /\ param(S, "fp", Blank) = R.stream.tls.fp
                        /\ param(S, "alpn", Blank) = R.stream.tls.alpn
  <2>1. CASE sec = "tls"
    <3>1. S = vmessTls(R.stream.tls)
      BY <2>1
    <3> QED
      BY <3>1, VmessTlsParams
  <2>2. CASE sec # "tls"
    <3>1. S = <<>>
      BY <2>2
    <3> QED
      BY <2>2, <3>1, NoDomain
  <2> QED
    BY <2>1, <2>2
<1> HIDE DEF n, c, S, M
<1>8. /\ l["scheme"] = "vmess" /\ l["id"] = <<"client">> /\ l["add"] = address
      /\ l["net"] = n /\ l["tls"] = sec
      /\ \A p \in VmessNetKeys : \A v : param(l, p, v) = param(N, p, v)
      /\ \A p \in VmessTlsKeys : \A v : param(l, p, v) = param(S, p, v)
      /\ \A p \in DOMAIN N : p \in DOMAIN l
  BY <1>mask, <1>7, VmessLookup
<1> HIDE DEF l
<1>9. SectionIs(n, c, vmessSection(l, n))
  BY <1>2, <1>8, VmessSection
<1> DEFINE T == [sni |-> param(l, "sni", Blank), alpn |-> param(l, "alpn", Blank),
                 fp |-> param(l, "fp", Blank)]
<1>10. /\ o.protocol = "vmess" /\ o.address = address /\ o.user = <<"client">>
       /\ o.flow = Blank /\ o.network = n /\ o.security = sec /\ o.udpMask = FALSE
       /\ o.section = vmessSection(l, n)
       /\ sec = "tls" => o.tls = T
  <2>1. fromLink(l) = fromVmessLink(l)
    BY <1>8 DEF fromLink
  <2>2. fromVmessLink(l) =
           outbound("vmess", address, <<"client">>, Blank, n, sec, vmessSection(l, n), T,
                    [sni |-> Blank, sid |-> Blank, pbk |-> Blank])
    BY <1>8 DEF fromVmessLink, vmessSection
  <2> HIDE DEF T
  <2>3. o = outbound("vmess", address, <<"client">>, Blank, n, sec, vmessSection(l, n), T,
                     [sni |-> Blank, sid |-> Blank, pbk |-> Blank])
    BY <1>1, <2>1, <2>2
  <2> QED
    BY <2>3 DEF outbound
<1>11. Reaches(F, address, o)
  <2>1. SectionIs(n, F.stream.section[n], o.section)
    BY <1>2, <1>3, <1>4, <1>9, <1>10, SectionKept
  <2>2. secretOf(F) = <<"client">>
    BY DEF secretOf
  <2> QED
    BY <1>3, <1>10, <2>1, <2>2 DEF Reaches
<1>12. Secured(F, sec, o)
  <2>1. sec = "tls" => o.tls = [sni |-> R.stream.tls.sni, alpn |-> R.stream.tls.alpn,
                                fp |-> R.stream.tls.fp]
    BY <1>7, <1>8, <1>10 DEF VmessTlsKeys
  <2>2. sec = "tls" /\ sec = F.stream.security => o.tls = F.stream.tls
    <3> SUFFICES ASSUME sec = "tls", sec = F.stream.security PROVE o.tls = F.stream.tls
      OBVIOUS
    <3> DEFINE t == F.stream.tls
    <3>1. R.stream.tls = t
      BY DEF Shows
    <3>2. o.tls = [sni |-> t.sni, alpn |-> t.alpn, fp |-> t.fp]
      BY <2>1, <3>1
    <3> QED
      BY <1>4, <3>2 DEF Tls
  <2>3. sec = "tls" /\ sec # F.stream.security => o.tls.sni = Blank
    BY <2>1 DEF Shows, NewTls
  <2> QED
    BY <1>5, <1>10, <2>2, <2>3 DEF Secured, canEnableTlsFlow
<1> QED
  BY <1>11, <1>12

\* A Hysteria link.
LEMMA HysteriaDials ==
    ASSUME NEW R, NEW F, Shows(R, F), F.protocol = "hysteria", NEW address,
           NEW o, o = fromLink(genHysteriaLink(R, address))
    PROVE  Reaches(F, address, o)
<1> DEFINE t == R.stream.tls
           A == "scheme" :> "hysteria2" @@ "user" :> <<"client">> @@ "address" :> address
           X == "security" :> "tls"
           B == Optional("fp", t.fp)
           C == Optional("alpn", t.alpn)
           D == Optional("sni", t.sni)
           E == IF R.stream.udpMask THEN "obfs" :> "salamander" ELSE <<>>
           G == maskParams(R)
           l == A @@ X @@ B @@ C @@ D @@ E @@ G
<1>1. l = genHysteriaLink(R, address)
  BY DEF genHysteriaLink
<1>2. \A p : p \in DOMAIN A <=> p \in {"scheme", "user", "address"}
  BY OneDomain, TwoDomain
<1>3. \A v : /\ param(A, "scheme", v) = "hysteria2" /\ param(A, "user", v) = <<"client">>
             /\ param(A, "address", v) = address
  BY OneDomain, TwoDomain, OneParam, TwoParams
<1> HIDE DEF A, X, B, C, D, E, G
<1>4. \A p, v : p \in DOMAIN A => p \in DOMAIN l /\ param(l, p, v) = param(A, p, v)
  BY TwoDomain, TwoParams
<1> HIDE DEF l
<1>5. l["scheme"] = "hysteria2" /\ l["user"] = <<"client">> /\ l["address"] = address
  BY <1>2, <1>3, <1>4, FieldParam
<1>6. fromLink(l) = fromHysteriaLink(l)
  BY <1>5 DEF fromLink
<1>7. /\ o.protocol = "hysteria" /\ o.network = "hysteria"
      /\ o.address = address /\ o.user = <<"client">> /\ o.udpMask = FALSE
  BY <1>1, <1>5, <1>6 DEF fromHysteriaLink, outbound
<1>8. F.stream.network = "hysteria"
  BY DEF Shows, Coherent
<1>9. secretOf(F) = <<"client">>
  BY DEF secretOf
<1> QED
  BY <1>7, <1>8, <1>9 DEF Reaches

\* Every link of a row, imported, reaches the form the row shows.
LEMMA LinkDials ==
    ASSUME NEW R, NEW F, Shows(R, F), NEW address, NEW force \in {"same", "tls", "none"},
           NEW o, o = fromLink(genLink(R, address, force))
    PROVE  /\ Reaches(F, address, o)
           /\ F.protocol # "hysteria" =>
                 Secured(F, IF force = "same" THEN F.stream.security ELSE force, o)
           /\ F.stream.network = "xhttp" /\ F.protocol # "vmess" =>
                 o.section.opt = F.stream.section["xhttp"].opt
<1> DEFINE sec == IF force = "same" THEN F.stream.security ELSE force
<1>1. sec \in {F.stream.security, "tls", "none"}
  OBVIOUS
<1>2. /\ R.protocol = F.protocol /\ R.stream.security = F.stream.security
      /\ F.protocol \in Protocols
  BY FormFields DEF Shows
<1>3. CASE F.protocol = "vmess"
  <2>1. o = fromLink(genVmessLink(R, address, sec))
    BY <1>2, <1>3 DEF genLink
  <2> HIDE DEF sec
  <2>2. Reaches(F, address, o) /\ Secured(F, sec, o)
    BY <1>1, <1>3, <2>1, VmessDials
  <2> QED
    BY <1>3, <2>2 DEF sec
<1>4. CASE F.protocol = "vless"
  <2>1. o = fromLink(genVLESSLink(R, address, sec))
    BY <1>2, <1>4 DEF genLink
  <2> HIDE DEF sec
  <2>2. /\ Reaches(F, address, o) /\ Secured(F, sec, o)
        /\ F.stream.network = "xhttp" => o.section.opt = F.stream.section["xhttp"].opt
    BY <1>1, <1>4, <2>1, VlessDials
  <2> QED
    BY <1>4, <2>2 DEF sec
<1>5. CASE F.protocol = "shadowsocks"
  <2>1. o = fromLink(genSSLink(R, address, sec))
    BY <1>2, <1>5 DEF genLink
  <2> HIDE DEF sec
  <2>2. /\ Reaches(F, address, o) /\ Secured(F, sec, o)
        /\ F.stream.network = "xhttp" => o.section.opt = F.stream.section["xhttp"].opt
    BY <1>1, <1>5, <2>1, ShadowsocksDials
  <2> QED
    BY <1>5, <2>2 DEF sec
<1>6. CASE F.protocol = "trojan"
  <2>1. o = fromLink(genTrojanLink(R, address, sec))
    BY <1>2, <1>6 DEF genLink
  <2> HIDE DEF sec
  <2>2. /\ Reaches(F, address, o) /\ Secured(F, sec, o)
        /\ F.stream.network = "xhttp" => o.section.opt = F.stream.section["xhttp"].opt
    BY <1>1, <1>6, <2>1, TrojanDials
  <2> QED
    BY <1>6, <2>2 DEF sec
<1>7. CASE F.protocol = "hysteria"
  <2>1. o = fromLink(genHysteriaLink(R, address))
    BY <1>2, <1>7 DEF genLink
  <2>2. Reaches(F, address, o)
    BY <1>7, <2>1, HysteriaDials
  <2>3. F.stream.network # "xhttp"
    BY <1>7 DEF Shows, Coherent
  <2> QED
    BY <1>7, <2>2, <2>3
<1> QED
  BY <1>2, <1>3, <1>4, <1>5, <1>6, <1>7 DEF Protocols

\* The entries of a row's links are those of the form it shows.
LEMMA SameEntries ==
    ASSUME NEW R, NEW F, Shows(R, F)
    PROVE  /\ linkEntries(R) = linkEntries(F)
           /\ \A i \in DOMAIN linkEntries(F) :
                 linkEntries(F)[i].forceTls \in {"same", "tls", "none"}
<1>1. R.stream.proxy = F.stream.proxy /\ R.listen = F.listen /\ F.stream.proxy \in Proxies
  BY FormFields DEF Shows
<1>2. linkEntries(R) = linkEntries(F)
  BY <1>1 DEF linkEntries
<1>3. ASSUME NEW i \in DOMAIN linkEntries(F)
      PROVE  linkEntries(F)[i].forceTls \in {"same", "tls", "none"}
  <2>1. CASE F.stream.proxy = <<>>
    BY <1>3, <2>1 DEF linkEntries
  <2>2. CASE F.stream.proxy # <<>>
    BY <1>1, <1>3, <2>2 DEF linkEntries, Proxies, SwitchedOn
  <2> QED
    BY <2>1, <2>2
<1> QED
  BY <1>2, <1>3

-----------------------------------------------------------------------------
(* The steps.                                                              *)

\* A change in the open form that leaves everything else alone, but may make
\* the external proxies its own.
LEMMA EditGood ==
    ASSUME IInv, modal # None, NEW f, GoodForm(f, staleWrite), modal' = f,
           edits' \in 0..MaxEdits, UNCHANGED <<isEdit, db, row, loads, staleWrite>>,
           shared' = shared \/ shared' = FALSE
    PROVE  IInv'
<1>1. ModalInv' /\ DbInv' /\ RowInv' /\ LoadsInv'
  BY DEF IInv, ModalInv, DbInv, RowInv, LoadsInv
<1>2. shared' \in BOOLEAN /\ (shared' => shared)
  <2>1. CASE shared' = shared
    BY <2>1 DEF IInv, FlagsInv
  <2>2. CASE shared' = FALSE
    BY <2>2
  <2> QED
    BY <2>1, <2>2
<1>3. FlagsInv'
  BY <1>2 DEF IInv, FlagsInv
<1> QED
  BY <1>1, <1>3 DEF IInv

\* Counting a change.
LEMMA EditCounts ==
    ASSUME IInv, NEW f, Edit(f)
    PROVE  edits' \in 0..MaxEdits
BY InboundFormAssumption DEF IInv, FlagsInv, Edit

\* The same for the changes that are counted.
LEMMA EditCopyGood ==
    ASSUME IInv, modal # None, NEW f, GoodForm(f, staleWrite), EditCopy(f)
    PROVE  IInv'
BY EditGood, EditCounts DEF EditCopy, Edit

\* Opening and closing the modal.
LEMMA OpenCloseStep ==
    ASSUME IInv, openAddInbound \/ openEditInbound \/ close
    PROVE  IInv'
<1>1. CASE openAddInbound
  BY <1>1, NewInboundGood DEF openAddInbound, IInv, ModalInv, DbInv, RowInv, LoadsInv, FlagsInv
<1>2. CASE openEditInbound
  <2>1. Loaded(row, staleWrite) /\ Stored(db, staleWrite)
    BY <1>2 DEF openEditInbound, IInv, RowInv
  <2>2. GoodForm(row.inbound, staleWrite)
    <3> DEFINE f == row.from.form
               g == fromJson(toJson(f))
               x == row.inbound.stream.proxy
               h == [g EXCEPT !.stream.proxy = x]
    <3>1. GoodForm(f, staleWrite) /\ row.from.json = toJson(f) /\ row.inbound \in Form
          /\ row.inbound = [fromJson(row.from.json) EXCEPT !.stream.proxy = x]
      BY <2>1 DEF Loaded, Stored
    <3>2. GoodForm(g, staleWrite)
      BY <3>1, ReadBackGood
    <3>3. g \in Form /\ x \in Proxies
      BY <3>1, <3>2, FormFields DEF GoodForm
    <3>4. row.inbound = h
      BY <3>1
    <3> HIDE DEF g, x
    <3>5. /\ h \in Form /\ h.protocol = g.protocol /\ h.flow = g.flow
          /\ h.stream.network = g.stream.network /\ h.stream.security = g.stream.security
          /\ h.stream.udpMask = g.stream.udpMask
      BY <3>3, ProxySet
    <3> HIDE DEF h
    <3>6. GoodForm(h, staleWrite)
      BY <3>2, <3>5, OtherSet
    <3> QED
      BY <3>4, <3>6
  <2>3. GoodForm(modal', staleWrite)
    <3> DEFINE f == fromJson(toJson(row.inbound))
    <3>1. GoodForm(f, staleWrite)
      BY <2>2, ReadBackGood
    <3>2. modal' \in {f, clearFlow(f)}
      BY <1>2 DEF openEditInbound
    <3> HIDE DEF f
    <3> QED
      BY <3>1, <3>2, ClearFlowKeeps
  <2> QED
    BY <1>2, <2>1, <2>3 DEF openEditInbound, IInv, ModalInv, DbInv, RowInv, LoadsInv, FlagsInv
<1>3. CASE close
  BY <1>3 DEF close, IInv, ModalInv, DbInv, RowInv, LoadsInv, FlagsInv
<1> QED
  BY <1>1, <1>2, <1>3

\* Choosing protocol, network, security and flow.
LEMMA ChooseStep ==
    ASSUME IInv, ChangeProtocol \/ ChangeNetwork \/ ChangeSecurity \/ ChangeFlow
    PROVE  IInv'
<1>1. modal # None
  BY DEF ChangeProtocol, ChangeNetwork, ChangeSecurity, ChangeFlow
<1>2. GoodForm(modal, staleWrite) /\ modal \in Form /\ staleWrite \in BOOLEAN
      /\ edits \in 0..MaxEdits
  BY <1>1 DEF IInv, ModalInv, GoodForm, FlagsInv
<1>3. CASE ChangeProtocol
  <2>1. PICK p \in Protocols : modal' = setProtocol(modal, p)
    BY <1>3 DEF ChangeProtocol
  <2>2. GoodForm(setProtocol(modal, p), staleWrite)
    BY <1>2, SetProtocolGood
  <2> QED
    BY <1>1, <1>2, <1>3, <2>1, <2>2, EditGood DEF ChangeProtocol
<1>4. CASE ChangeNetwork
  <2>1. PICK n \in Networks : EditCopy(streamNetworkChange(modal, n))
    BY <1>4 DEF ChangeNetwork
  <2>2. GoodForm(streamNetworkChange(modal, n), staleWrite)
    BY <1>2, <1>4, StreamNetworkChangeGood DEF ChangeNetwork
  <2> QED
    BY <1>1, <2>1, <2>2, EditCopyGood
<1>5. CASE ChangeSecurity
  <2>1. PICK x \in Securities : /\ x = "reality" => canEnableReality(modal)
                                /\ EditCopy(setSecurity(modal, x))
    BY <1>5 DEF ChangeSecurity
  <2>2. GoodForm(setSecurity(modal, x), staleWrite)
    BY <1>2, <1>5, <2>1, SetSecurityGood DEF ChangeSecurity
  <2> QED
    BY <1>1, <2>1, <2>2, EditCopyGood
<1>6. CASE ChangeFlow
  <2>1. PICK x \in {Blank, "vision"} : modal' = [modal EXCEPT !.flow = x]
    BY <1>6 DEF ChangeFlow
  <2> DEFINE g == [modal EXCEPT !.flow = x]
  <2>2. /\ g \in Form /\ g.protocol = modal.protocol /\ g.stream = modal.stream
    BY <1>2, FlowSet
  <2> HIDE DEF g
  <2>3. canEnableTlsFlow(modal)
    BY <1>6 DEF ChangeFlow
  <2>4. GoodForm(g, staleWrite)
    BY <1>2, <2>2, <2>3 DEF GoodForm, Coherent, FlowFits, canEnableTls, canEnableTlsFlow
  <2>5. modal' = g
    BY <2>1 DEF g
  <2> QED
    BY <1>1, <1>2, <1>6, <2>4, <2>5, EditGood DEF ChangeFlow
<1> QED
  BY <1>3, <1>4, <1>5, <1>6

\* Typing into the form.
LEMMA TypeStep ==
    ASSUME IInv, TypeSection \/ TypeSecurity \/ TypeOther
    PROVE  IInv'
<1>1. modal # None
  BY DEF TypeSection, TypeSecurity, TypeOther
<1>2. GoodForm(modal, staleWrite) /\ modal \in Form
  BY <1>1 DEF IInv, ModalInv, GoodForm
<1>3. CASE TypeSection
  <2> DEFINE n == modal.stream.network
  <2>1. PICK c \in Typed(n) : EditCopy([modal EXCEPT !.stream.section[n] = c])
    BY <1>3 DEF TypeSection
  <2> DEFINE g == [modal EXCEPT !.stream.section[n] = c]
  <2>2. c \in Section
    BY DEF Typed
  <2>3. /\ g \in Form /\ g.protocol = modal.protocol /\ g.flow = modal.flow
        /\ g.stream.network = modal.stream.network
        /\ g.stream.security = modal.stream.security
        /\ g.stream.udpMask = modal.stream.udpMask
    BY <1>2, <2>2 DEF Form
  <2>4. EditCopy(g)
    BY <2>1
  <2> HIDE DEF g
  <2>5. GoodForm(g, staleWrite)
    BY <1>2, <2>3, OtherSet
  <2> QED
    BY <1>1, <2>4, <2>5, EditCopyGood
<1>4. CASE TypeSecurity
  <2>1. ASSUME NEW t \in TypedTls, EditCopy([modal EXCEPT !.stream.tls = t])
        PROVE  IInv'
    <3> DEFINE g == [modal EXCEPT !.stream.tls = t]
    <3>1. t \in Tls
      BY DEF TypedTls, Tls
    <3>2. /\ g \in Form /\ g.protocol = modal.protocol /\ g.flow = modal.flow
          /\ g.stream.network = modal.stream.network
          /\ g.stream.security = modal.stream.security
          /\ g.stream.udpMask = modal.stream.udpMask
      BY <1>2, <3>1 DEF Form
    <3>3. EditCopy(g)
      BY <2>1
    <3> HIDE DEF g
    <3> QED
      BY <1>1, <1>2, <3>2, <3>3, OtherSet, EditCopyGood
  <2> DEFINE r == [names |-> <<"c">>, sids |-> <<"3">>, pbk |-> "key"]
  <2>2. ASSUME EditCopy([modal EXCEPT !.stream.reality = r])
        PROVE  IInv'
    <3>1. r \in Reality
      BY DEF Reality
    <3> HIDE DEF r
    <3> DEFINE g == [modal EXCEPT !.stream.reality = r]
    <3>2. /\ g \in Form /\ g.protocol = modal.protocol /\ g.flow = modal.flow
          /\ g.stream.network = modal.stream.network
          /\ g.stream.security = modal.stream.security
          /\ g.stream.udpMask = modal.stream.udpMask
      BY <1>2, <3>1 DEF Form
    <3>3. EditCopy(g)
      BY <2>2
    <3> HIDE DEF g
    <3> QED
      BY <1>1, <1>2, <3>2, <3>3, OtherSet, EditCopyGood
  <2> QED
    BY <1>4, <2>1, <2>2 DEF TypeSecurity
<1>5. CASE TypeOther
  <2>1. ASSUME NEW x \in Listens, EditCopy([modal EXCEPT !.listen = x])
        PROVE  IInv'
    <3> DEFINE g == [modal EXCEPT !.listen = x]
    <3>1. /\ g \in Form /\ g.protocol = modal.protocol /\ g.flow = modal.flow
          /\ g.stream = modal.stream
      BY <1>2 DEF Form
    <3>2. EditCopy(g)
      BY <2>1
    <3> HIDE DEF g
    <3> QED
      BY <1>1, <1>2, <3>1, <3>2, OtherSet, EditCopyGood
  <2>2. ASSUME NEW x \in Methods, EditCopy([modal EXCEPT !.method = x])
        PROVE  IInv'
    <3> DEFINE g == [modal EXCEPT !.method = x]
    <3>1. /\ g \in Form /\ g.protocol = modal.protocol /\ g.flow = modal.flow
          /\ g.stream = modal.stream
      BY <1>2 DEF Form
    <3>2. EditCopy(g)
      BY <2>2
    <3> HIDE DEF g
    <3> QED
      BY <1>1, <1>2, <3>1, <3>2, OtherSet, EditCopyGood
  <2>3. ASSUME modal.stream.network \in {"kcp", "hysteria"},
               EditCopy([modal EXCEPT !.stream.udpMask = ~@])
        PROVE  IInv'
    <3> DEFINE u == ~modal.stream.udpMask
               g == [modal EXCEPT !.stream.udpMask = u]
    <3>1. u \in BOOLEAN
      OBVIOUS
    <3>2. EditCopy(g)
      BY <2>3
    <3> HIDE DEF u
    <3>3. /\ g \in Form /\ g.protocol = modal.protocol /\ g.flow = modal.flow
          /\ g.stream.network = modal.stream.network
          /\ g.stream.security = modal.stream.security
      BY <1>2, <3>1, MaskSet
    <3> HIDE DEF g
    <3>4. GoodForm(g, staleWrite)
      BY <1>2, <2>3, <3>3 DEF GoodForm, Coherent, FlowFits, canEnableTls, canEnableTlsFlow
    <3> QED
      BY <1>1, <3>2, <3>4, EditCopyGood
  <2> QED
    BY <1>5, <2>1, <2>2, <2>3 DEF TypeOther
<1> QED
  BY <1>3, <1>4, <1>5

\* The external proxies: in place, in an array the row may share.
LEMMA ProxyStep ==
    ASSUME IInv, externalProxy \/ TypeProxy
    PROVE  IInv'
<1>1. modal # None
  BY DEF externalProxy, TypeProxy
<1>2. GoodForm(modal, staleWrite) /\ modal \in Form
  BY <1>1 DEF IInv, ModalInv, GoodForm
<1>3. ASSUME NEW x \in Proxies
      PROVE  GoodForm([modal EXCEPT !.stream.proxy = x], staleWrite)
  <2> DEFINE g == [modal EXCEPT !.stream.proxy = x]
  <2>1. /\ g \in Form /\ g.protocol = modal.protocol /\ g.flow = modal.flow
        /\ g.stream.network = modal.stream.network
        /\ g.stream.security = modal.stream.security
        /\ g.stream.udpMask = modal.stream.udpMask
    BY <1>2, ProxySet
  <2> HIDE DEF g
  <2>2. GoodForm(g, staleWrite)
    BY <1>2, <2>1, OtherSet
  <2> QED
    BY <2>2 DEF g
<1>4. CASE externalProxy
  <2> DEFINE x == IF modal.stream.proxy = <<>> THEN SwitchedOn ELSE <<>>
             g == [modal EXCEPT !.stream.proxy = x]
  <2>1. x \in Proxies
    BY DEF Proxies
  <2>2. Edit(g) /\ shared' = FALSE /\ UNCHANGED row
    BY <1>4 DEF externalProxy
  <2> HIDE DEF x
  <2>3. GoodForm(g, staleWrite)
    BY <1>3, <2>1
  <2> HIDE DEF g
  <2> QED
    BY <1>1, <2>2, <2>3, EditGood, EditCounts DEF Edit
<1>5. CASE TypeProxy
  <2>1. PICK x \in Proxies :
           /\ Edit([modal EXCEPT !.stream.proxy = x])
           /\ row' = IF shared THEN [row EXCEPT !.inbound.stream.proxy = x] ELSE row
    BY <1>5 DEF TypeProxy
  <2> DEFINE g == [modal EXCEPT !.stream.proxy = x]
  <2>2. Edit(g) /\ UNCHANGED shared
    BY <1>5, <2>1 DEF TypeProxy
  <2>3. GoodForm(g, staleWrite)
    BY <1>3
  <2> HIDE DEF g
  <2>4. edits' \in 0..MaxEdits
    BY <2>2, EditCounts
  <2>5. CASE ~shared
    <3>1. UNCHANGED row
      BY <2>1, <2>5
    <3> QED
      BY <1>1, <2>2, <2>3, <2>4, <3>1, EditGood DEF Edit
  <2>6. CASE shared
    <3>1. Loaded(row, staleWrite) /\ Stored(db, staleWrite)
      BY <2>6 DEF IInv, FlagsInv
    <3>2. row' = [row EXCEPT !.inbound.stream.proxy = x]
      BY <2>1, <2>6
    <3>3. Loaded(row', staleWrite)
      <4>1. /\ row = [from |-> row.from, inbound |-> row.inbound] /\ row.inbound \in Form
            /\ row.inbound = [fromJson(row.from.json) EXCEPT
                                 !.stream.proxy = row.inbound.stream.proxy]
        BY <3>1 DEF Loaded
      <4>2. row' = [from |-> row.from, inbound |-> [row.inbound EXCEPT !.stream.proxy = x]]
        BY <3>2, <4>1
      <4>3. /\ [row.inbound EXCEPT !.stream.proxy = x] \in Form
            /\ row'.inbound.stream.proxy = x
        BY <4>1, <4>2, ProxySet
      <4>4. fromJson(row.from.json) \in Form
        BY <3>1, ReadBack DEF Loaded, Stored, GoodForm
      <4>5. [row.inbound EXCEPT !.stream.proxy = x]
               = [fromJson(row.from.json) EXCEPT !.stream.proxy = x]
        BY <4>1, <4>4 DEF Form
      <4> QED
        BY <3>1, <4>2, <4>3, <4>5 DEF Loaded
    <3>4. RowInv' /\ Loaded(row', staleWrite')
      BY <2>2, <3>1, <3>3 DEF RowInv, Edit
    <3> QED
      BY <1>1, <2>2, <2>3, <2>4, <3>4 DEF IInv, ModalInv, DbInv, LoadsInv, FlagsInv, Edit
  <2> QED
    BY <2>5, <2>6
<1> QED
  BY <1>4, <1>5

\* What is stored and loaded, when more is excused and the row stays.
LEMMA ExcusedKept ==
    ASSUME IInv, staleWrite => staleWrite'
    PROVE  /\ \A d \in loads : Stored(d, staleWrite')
           /\ row # None => Loaded(row, staleWrite')
           /\ shared => Loaded(row, staleWrite')
BY MoreExcused DEF IInv, LoadsInv, RowInv, FlagsInv

\* The form is stored.
LEMMA ConfirmStep ==
    ASSUME IInv, confirm
    PROVE  IInv'
<1> USE DEF confirm
<1>1. GoodForm(modal, staleWrite)
  BY DEF IInv, ModalInv
<1>2. Stored(db', staleWrite')
  BY <1>1 DEF Stored
<1>3. ModalInv' /\ DbInv' /\ RowInv' /\ LoadsInv'
  BY <1>2 DEF IInv, ModalInv, DbInv, RowInv, LoadsInv
<1>4. FlagsInv'
  BY DEF IInv, FlagsInv
<1> QED
  BY <1>3, <1>4 DEF IInv

\* Lists are asked for and arrive.
LEMMA ListStep ==
    ASSUME IInv, getDBInbounds \/ setInbounds
    PROVE  IInv'
<1>1. CASE getDBInbounds
  BY <1>1 DEF getDBInbounds, IInv, ModalInv, DbInv, RowInv, LoadsInv, FlagsInv
<1>2. CASE setInbounds
  <2>1. PICK d \in loads : /\ row' = [from |-> d, inbound |-> fromJson(d.json)]
                           /\ loads' = loads \ {d}
    BY <1>2 DEF setInbounds
  <2>2. Stored(d, staleWrite) /\ Stored(db, staleWrite)
    BY DEF IInv, LoadsInv
  <2> DEFINE g == fromJson(d.json)
  <2>3. g \in Form
    BY <2>2, ReadBack DEF Stored, GoodForm
  <2>4. g = [g EXCEPT !.stream.proxy = g.stream.proxy]
    BY <2>3 DEF Form
  <2>5. Loaded(row', staleWrite)
    BY <2>1, <2>2, <2>3, <2>4 DEF Loaded
  <2> HIDE DEF g
  <2>6. UNCHANGED <<modal, isEdit, db, staleWrite, edits>> /\ shared' = FALSE
    BY <1>2 DEF setInbounds
  <2>7. RowInv' /\ LoadsInv'
    BY <2>1, <2>2, <2>5, <2>6 DEF IInv, RowInv, LoadsInv
  <2>8. FlagsInv'
    BY <2>6 DEF IInv, FlagsInv
  <2> QED
    BY <2>6, <2>7, <2>8 DEF IInv, ModalInv, DbInv
<1> QED
  BY <1>1, <1>2

\* The server changes the flow in what it has stored.
LEMMA FlowStored ==
    ASSUME NEW x, NEW d, DOMAIN d = {"json", "form"}
    PROVE  LET e == [d EXCEPT !.json.flow = x, !.form.flow = x]
           IN  /\ DOMAIN e = {"json", "form"}
               /\ e.json = [d.json EXCEPT !.flow = x]
               /\ e.form = [d.form EXCEPT !.flow = x]
OBVIOUS

\* A client's flow is saved from a row: where the row is what is stored, the
\* flow fits; where it is not, it is excused from now on.
LEMMA EditClientFlowStep ==
    ASSUME IInv, editClientFlow
    PROVE  IInv'
<1> USE DEF editClientFlow
<1>1. Loaded(row, staleWrite) /\ Stored(db, staleWrite) /\ modal = None
  BY DEF IInv, RowInv
<1>2. PICK x \in {Blank, "vision"} : db' = [db EXCEPT !.json.flow = x, !.form.flow = x]
  OBVIOUS
<1> DEFINE f == db.form
           g == [f EXCEPT !.flow = x]
<1>3. f \in Form /\ Coherent(f) /\ DOMAIN db = {"json", "form"} /\ db.json = toJson(f)
  BY <1>1 DEF Stored, GoodForm
<1>4. /\ g \in Form /\ g.protocol = f.protocol /\ g.flow = x /\ g.listen = f.listen
      /\ g.method = f.method /\ g.stream = f.stream
  <2> HIDE DEF f, editClientFlow
  <2> QED
    BY <1>3, FlowSet
<1>5. [toJson(f) EXCEPT !.flow = x] = toJson(g)
  <2> HIDE DEF g, f
  <2> QED
    BY <1>4 DEF toJson
<1>6. DOMAIN db' = {"json", "form"} /\ db'.json = toJson(g) /\ db'.form = g
  BY <1>2, <1>3, <1>5, FlowStored
<1>7. staleWrite' \/ FlowFits(g)
  <2>1. CASE row.from # db
    BY <2>1
  <2>2. CASE row.from = db
    <3> DEFINE h == fromJson(toJson(f))
    <3>1. row.inbound = [h EXCEPT !.stream.proxy = row.inbound.stream.proxy]
          /\ row.inbound \in Form
      BY <1>1, <1>3, <2>2 DEF Loaded
    <3>2. /\ h \in Form /\ h.protocol = f.protocol /\ h.stream.network = f.stream.network
          /\ h.stream.security = f.stream.security
      BY <1>3, ReadBack
    <3> HIDE DEF h
    <3>3. row.inbound.stream.proxy \in Proxies
      BY <3>1, FormFields
    <3>4. /\ row.inbound.protocol = f.protocol
          /\ row.inbound.stream.network = f.stream.network
          /\ row.inbound.stream.security = f.stream.security
      BY <3>1, <3>2, <3>3 DEF Form
    <3>5. canEnableTlsFlow(row.inbound)
      OBVIOUS
    <3> HIDE DEF g, f
    <3> QED
      BY <1>4, <3>4, <3>5 DEF FlowFits, canEnableTlsFlow
  <2> QED
    BY <2>1, <2>2
<1> HIDE DEF g
<1>8. Coherent(g)
  BY <1>3, <1>4 DEF Coherent, canEnableTls
<1>9. Stored(db', staleWrite')
  BY <1>4, <1>6, <1>7, <1>8 DEF Stored, GoodForm
<1>10. staleWrite' \in BOOLEAN /\ (staleWrite => staleWrite')
  BY DEF IInv, FlagsInv
<1>11. edits' \in 0..MaxEdits
  BY InboundFormAssumption DEF IInv, FlagsInv
<1>12. UNCHANGED <<modal, isEdit, shared, row>> /\ loads' = loads \cup {db'}
  OBVIOUS
<1> HIDE DEF editClientFlow
<1>13. ModalInv' /\ DbInv' /\ RowInv' /\ LoadsInv'
  BY <1>1, <1>9, <1>10, <1>12, ExcusedKept DEF ModalInv, DbInv, RowInv, LoadsInv
<1>14. FlagsInv'
  BY <1>1, <1>9, <1>10, <1>11, <1>12, ExcusedKept DEF IInv, FlagsInv
<1> QED
  BY <1>13, <1>14 DEF IInv

\* A link is copied from the row and imported.
LEMMA ConvertLinkDials ==
    ASSUME IInv, convertLink
    PROVE  ImportDials'
<1>1. PICK i \in DOMAIN genAllLinks(row.inbound) :
         imported' = [row |-> row, entry |-> i, out |-> fromLink(genAllLinks(row.inbound)[i])]
  BY DEF convertLink
<1>2. Loaded(row, staleWrite)
  BY DEF IInv, RowInv, convertLink
<1> DEFINE R == row.inbound
           F == RowForm(row)
           o == fromLink(genAllLinks(R)[i])
           address == linkEntries(F)[i].dest
           force == linkEntries(F)[i].forceTls
<1>3. Shows(R, F)
  BY <1>2, RowShows
<1>4. imported'.row = row /\ imported'.entry = i /\ imported'.out = o
  BY <1>1
<1>5. RowForm(imported'.row) = F
  BY <1>4
<1> HIDE DEF F, R
<1>6. i \in DOMAIN linkEntries(F) /\ force \in {"same", "tls", "none"}
  BY <1>3, SameEntries DEF genAllLinks, R
<1>7. o = fromLink(genLink(R, address, force))
  BY <1>3, <1>6, SameEntries DEF genAllLinks
<1> HIDE DEF o, address, force
<1>8. /\ Reaches(F, address, o)
      /\ F.protocol # "hysteria" =>
            Secured(F, IF force = "same" THEN F.stream.security ELSE force, o)
      /\ F.stream.network = "xhttp" /\ F.protocol # "vmess" =>
            o.section.opt = F.stream.section["xhttp"].opt
  BY <1>3, <1>6, <1>7, LinkDials
<1>mask. F.stream.udpMask \in BOOLEAN
  BY <1>3, FormFields DEF Shows
<1>9. ~F.stream.udpMask => SameTransport(F, i, o)
  BY <1>8, <1>mask DEF SameTransport, Reaches, SectionIs, hostOf, address
<1>10. F.protocol # "hysteria" => SameSecurity(F, i, o)
  BY <1>8 DEF SameSecurity, Secured, securityAt, force
<1> DEFINE P(f, k, x) ==
              f.stream.udpMask
              \/ /\ SameTransport(f, k, x)
                 /\ f.protocol # "hysteria" => SameSecurity(f, k, x)
                 /\ f.stream.network = "xhttp" /\ f.protocol # "vmess" =>
                       x.section.opt = f.stream.section["xhttp"].opt
<1>11. P(F, i, o)
  BY <1>8, <1>9, <1>10
<1>12. P(RowForm(imported'.row), imported'.entry, imported'.out)
  BY <1>4, <1>5, <1>11
<1> QED
  BY <1>12 DEF ImportDials

\* Nothing else makes an imported outbound.
LEMMA NextDials == IInv /\ ImportDials /\ [Next]_vars => ImportDials'
<1> SUFFICES ASSUME IInv, ImportDials, [Next]_vars PROVE ImportDials'
  OBVIOUS
<1>1. CASE convertLink
  BY <1>1, ConvertLinkDials
<1>2. CASE ~convertLink
  <2>1. imported' = imported \/ imported' = None
    BY <1>2 DEF Next, vars, openAddInbound, openEditInbound, ChangeProtocol, ChangeNetwork,
       ChangeSecurity, ChangeFlow, TypeSection, TypeSecurity, TypeOther, externalProxy,
       TypeProxy, confirm, close, editClientFlow, getDBInbounds, setInbounds, EditCopy, Edit
  <2> QED
    BY <2>1 DEF ImportDials
<1> QED
  BY <1>1, <1>2

-----------------------------------------------------------------------------
(* The specification.                                                      *)

\* The first state.
LEMMA InitIInv == Init => IInv
<1> SUFFICES ASSUME Init PROVE IInv
  OBVIOUS
<1>1. edits \in 0..MaxEdits
  BY InboundFormAssumption DEF Init
<1> QED
  BY <1>1, Zenon DEF Init, IInv, ModalInv, DbInv, RowInv, LoadsInv, FlagsInv

\* Every step preserves the invariant.
LEMMA NextIInv == IInv /\ [Next]_vars => IInv'
<1> SUFFICES ASSUME IInv, [Next]_vars PROVE IInv'
  OBVIOUS
<1>1. CASE convertLink
  BY <1>1 DEF convertLink, IInv, ModalInv, DbInv, RowInv, LoadsInv, FlagsInv
<1>2. CASE UNCHANGED vars
  BY <1>2 DEF vars, IInv, ModalInv, DbInv, RowInv, LoadsInv, FlagsInv
<1> QED
  BY <1>1, <1>2, OpenCloseStep, ChooseStep, TypeStep, ProxyStep, ConfirmStep, ListStep,
     EditClientFlowStep DEF Next

\* Every reachable state satisfies the inductive invariant.
THEOREM Invariance == Spec => []IInv
BY InitIInv, NextIInv, PTL DEF Spec

\* The types: every form is well formed, in the modal, stored, and read back.
THEOREM TypeCorrect == Spec => []TypeOK
<1>1. IInv => TypeOK
  <2> SUFFICES ASSUME IInv PROVE TypeOK
    OBVIOUS
  <2>1. modal # None => modal \in Form
    BY DEF IInv, ModalInv, GoodForm
  <2>2. db # None => db.form \in Form /\ fromJson(db.json) \in Form
    BY ReadBack DEF IInv, DbInv, Stored, GoodForm
  <2>3. row # None => row.inbound \in Form
    BY DEF IInv, RowInv, Loaded
  <2>4. {isEdit, shared, staleWrite} \subseteq BOOLEAN
    BY DEF IInv, FlagsInv
  <2>5. edits \in 0..MaxEdits
    BY DEF IInv, FlagsInv
  <2> QED
    BY <2>1, <2>2, <2>3, <2>4, <2>5 DEF TypeOK
<1> QED
  BY <1>1, Invariance, PTL

\* Whatever is chosen in whatever order, and however often a row is edited, a
\* stored inbound has TLS only where there can be, a mask only where it
\* applies, and, until a client is saved from a stale row, a flow only on a
\* transport that carries it.
THEOREM StoredStaysCoherent == Spec => []StoredIsCoherent
<1>1. IInv => StoredIsCoherent
  <2> SUFFICES ASSUME IInv, db # None PROVE StoredIsCoherent
    BY DEF StoredIsCoherent
  <2> DEFINE f == db.form
             g == fromJson(db.json)
  <2>1. GoodForm(f, staleWrite) /\ db.json = toJson(f) /\ f \in Form
    BY DEF IInv, DbInv, Stored, GoodForm
  <2>2. GoodForm(g, staleWrite)
    BY <2>1, ReadBackGood
  <2>3. /\ db.json.flow = f.flow /\ db.json.security = f.stream.security
        /\ db.json.udpMask = f.stream.udpMask /\ db.json.network = f.stream.network
    BY <2>1 DEF toJson
  <2>4. /\ g.flow = f.flow /\ g.stream.security = f.stream.security
        /\ g.stream.udpMask = f.stream.udpMask /\ g.stream.network = f.stream.network
    BY <2>1, ReadBack
  <2>5. /\ db.json.flow # Blank => staleWrite \/ canEnableTlsFlow(g)
        /\ db.json.security # "none" => canEnableTls(g)
        /\ db.json.udpMask => db.json.network \in {"kcp", "hysteria"}
    <3> HIDE DEF f, g
    <3> QED
      BY <2>2, <2>3, <2>4 DEF GoodForm, Coherent, FlowFits
  <2> QED
    BY <2>5 DEF StoredIsCoherent
<1> QED
  BY <1>1, Invariance, PTL

\* Confirming a form that shows what is stored changes nothing stored.
THEOREM ReopenedIsKept == Spec => ReopenKeepsStored
<1>1. IInv /\ [Next]_vars =>
         [isEdit /\ modal # None /\ modal = fromJson(db.json) /\ modal' = None
             => db'.json = db.json]_vars
  <2> SUFFICES ASSUME IInv, Next, isEdit, modal # None, modal = fromJson(db.json)
               PROVE  db'.json = db.json
    OBVIOUS
  <2>1. CASE confirm
    <3>1. db.json = toJson(db.form) /\ db.form \in Form
      BY DEF IInv, FlagsInv, Stored, GoodForm
    <3>2. toJson(modal) = db.json
      BY <3>1, StoreAgain
    <3> QED
      BY <2>1, <3>2 DEF confirm
  <2>2. CASE ~confirm
    <3>1. db' = db
      BY <2>2 DEF Next, openAddInbound, openEditInbound, ChangeProtocol, ChangeNetwork,
         ChangeSecurity, ChangeFlow, TypeSection, TypeSecurity, TypeOther, externalProxy,
         TypeProxy, close, editClientFlow, getDBInbounds, setInbounds, convertLink,
         EditCopy, Edit
    <3> QED
      BY <3>1
  <2> QED
    BY <2>1, <2>2
<1> QED
  BY <1>1, Invariance, PTL DEF Spec, ReopenKeepsStored

\* Whatever was typed, stored, read back and shared, an outbound imported from
\* one of the row's links reaches the inbound as its form described it: the
\* same protocol, address, secret and transport, the security its address
\* speaks, and a flow only where the inbound's own TLS or REALITY carries it.
THEOREM ImportedDials == Spec => []ImportDials
<1>1. Init => ImportDials
  BY DEF Init, ImportDials
<1> QED
  BY <1>1, Invariance, NextDials, PTL DEF Spec
=============================================================================
