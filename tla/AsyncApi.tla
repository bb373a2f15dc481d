------------------------------ MODULE AsyncApi ------------------------------
(***************************************************************************)
(* How kahea-ingest compiles one operation of an AsyncAPI document into    *)
(* the WebSocket session source that WsPlanning seals, and how kahea-plan  *)
(* calls it.                                                               *)
(*                                                                         *)
(* A document has its version, whether its references are local and        *)
(* resolve, its servers by name (in their order), its operations, the      *)
(* types of its security schemes and its limits.  What a document may      *)
(* leave out is Missing there.                                             *)
(***************************************************************************)
EXTENDS WsPlanning

CONSTANT Missing

Or(value, default) == IF value # Missing THEN value ELSE default

-----------------------------------------------------------------------------
(* load_asyncapi and resolve_asyncapi_operation.                           *)

Loadable(doc) == doc.version \in {"2.6", "3.0"} /\ doc.resolves

\* collect_v2, collect_v3: one operation that is not well formed spoils them
\* all.
WellFormed(doc) ==
    \A o \in doc.operations :
       /\ o.formed /\ o.action \in {"send", "receive"}
       /\ doc.version = "3.0" => o.messages # << >>

\* One message leaves the operation its name, several number its variants.
VariantId(o, i) == IF Len(o.messages) = 1 THEN <<o.name>> ELSE <<o.name, i>>

CollectOperations(doc) ==
    UNION {{[op |-> o, message |-> o.messages[i], id |-> VariantId(o, i)] :
               i \in DOMAIN o.messages} : o \in doc.operations}

\* A name without its number stands for every variant.
Matching(doc, selector) ==
    {v \in CollectOperations(doc) : v.id = selector \/ <<v.id[1]>> = selector}

-----------------------------------------------------------------------------
(* make_operation: what the finite subset cannot express.                  *)

\* scan_bindings.
Unsupported(bindings) == bindings # Missing /\ bindings.foreign

ServerNames(o, doc) == Or(o.servers, Or(o.channel.servers, doc.order))

Blocked(v, doc) ==
    LET o == v.op
        m == v.message
        servers == Elements(ServerNames(o, doc)) \cap DOMAIN doc.servers
    IN  \/ m.features # {}       \* headers, correlation, traits, schema format
        \/ o.traits
        \/ /\ o.actions = Missing
           /\ \/ o.reply
              \/ o.action = "send" /\ m.example = Missing
              \/ o.action = "receive" /\ m.example = Missing /\ m.payload = Missing
        \/ \E b \in {o.bindings, o.channel.bindings, m.bindings}
                       \cup {doc.servers[s].bindings : s \in servers} : Unsupported(b)

-----------------------------------------------------------------------------
(* The server and its URL.                                                 *)

\* select_server.
ServerSelectable(names, selector) ==
    IF selector # Missing THEN selector \in Elements(names) ELSE Len(names) = 1

SelectServer(names, selector) == IF selector # Missing THEN selector ELSE names[1]

ServerUrl(doc, server) ==
    IF doc.version = "2.6" THEN server.url
    ELSE [server.url EXCEPT !.scheme = Or(server.protocol, "")]

Protocol(doc, server) == Or(server.protocol, ServerUrl(doc, server).scheme)

\* substitute_variables: a value given by the caller, else a default.
Selected(name, definitions, prefix, values) ==
    IF <<prefix, name>> \in DOMAIN values THEN values[<<prefix, name>>]
    ELSE IF name \in DOMAIN definitions THEN definitions[name].default
    ELSE Missing

Substitutable(names, definitions, prefix, values) ==
    \A n \in names :
       LET value == Selected(n, definitions, prefix, values) IN
       /\ value \notin {Missing, "not-scalar"}
       /\ n \in DOMAIN definitions =>
             \/ definitions[n].enum = Missing
             \/ value \in definitions[n].enum

\* The host is a name or a variable; the address of the channel is appended.
Target(doc, server, channel, values) ==
    LET url == ServerUrl(doc, server) IN
    [url EXCEPT
       !.host = IF @ \in server.uses
                THEN Selected(@, server.variables, "server", values) ELSE @,
       !.clean = @ /\ channel.clean]

-----------------------------------------------------------------------------
(* collect_binding_headers, select_auth_profile and message_action.        *)

BindingHeaders(o, server) ==
    UNION {IF b = Missing THEN {} ELSE b.headers :
              b \in {server.bindings, o.channel.bindings, o.bindings}}

Concrete(headers) == {h \in headers : h.value # Missing}

\* A required header has a value, and nobody gives a header two values.
HeadersCollectable(headers) ==
    /\ \A h \in headers : h.required => h.value # Missing
    /\ \A g, h \in Concrete(headers) : g.spelling = h.spelling => g.value = h.value

Header(h) == [name |-> h.name, spelling |-> h.spelling, plain |-> h.plain]

Schemes(o, server) == Or(o.security, Or(server.security, {}))

AuthSelectable(doc, o, server, selector) ==
    Schemes(o, server) # {} =>
       /\ selector # Missing
       /\ selector.scheme \in Schemes(o, server)
       /\ selector.scheme \in DOMAIN doc.schemes
       /\ doc.schemes[selector.scheme] \in {"basic", "bearer", "X509"}

\* Without a security requirement the whole selector is the profile.
SelectAuthProfile(o, server, selector) ==
    IF selector = Missing THEN None
    ELSE IF Schemes(o, server) = {} THEN selector.raw ELSE selector.profile

\* A text sent as JSON carries its quotes.
EncodedLen(m) == IF m.example.text /\ m.json THEN m.example.len + 2 ELSE m.example.len

MessageRepresentable(o, m) ==
    IF o.action = "send" THEN m.example # Missing
    ELSE IF m.json THEN m.payload = Missing \/ ~m.payload.cyclic
    ELSE m.example # Missing /\ m.example.text

MessageAction(o, m) ==
    LET equals == IF m.example = Missing THEN Vals ELSE {m.example.val}
        schema == IF m.payload = Missing THEN Vals ELSE m.payload.accepts
        lens   == (IF m.example = Missing THEN {} ELSE {EncodedLen(m)})
                     \cup (IF m.payload = Missing THEN {} ELSE {m.payload.len})
        val    == CHOOSE x \in equals : TRUE
    IN  IF o.action = "send"
        THEN [type |-> "send-text", val |-> val, len |-> EncodedLen(m),
              accepts |-> {}, timeout |-> NoTimeout]
        ELSE IF m.json
        THEN [type |-> "expect-json", val |-> val, timeout |-> NoTimeout,
              len |-> CHOOSE n \in lens : \A k \in lens : k <= n,
              accepts |-> equals \cap schema]
        ELSE [type |-> "expect-text", val |-> val, len |-> m.example.len,
              accepts |-> equals, timeout |-> NoTimeout]

CompleteClose == [type |-> "close", val |-> CHOOSE x \in Vals : TRUE, len |-> 10,
                  accepts |-> {}, timeout |-> NoTimeout]

-----------------------------------------------------------------------------
(* compile_asyncapi_websocket.                                             *)

Compilable(doc, v, options) ==
    LET o == v.op
        names  == ServerNames(o, doc)
        server == doc.servers[SelectServer(names, options.server)]
    IN  /\ ~Blocked(v, doc)
        /\ ServerSelectable(names, options.server)
        /\ SelectServer(names, options.server) \in DOMAIN doc.servers
        /\ ~Unsupported(server.bindings)
        /\ Protocol(doc, server) \in {"ws", "wss"}
        /\ Substitutable(server.uses, server.variables, "server", options.values)
        /\ Substitutable(o.channel.uses, o.channel.parameters, "channel", options.values)
        /\ HeadersCollectable(BindingHeaders(o, server))
        /\ AuthSelectable(doc, o, server, options.auth)
        /\ o.parses
        /\ o.actions = Missing => MessageRepresentable(o, v.message)

Compile(doc, v, options, limits) ==
    LET o == v.op
        server == doc.servers[SelectServer(ServerNames(o, doc), options.server)]
    IN  [identified |-> TRUE, operation |-> v.id,
         url |-> Target(doc, server, o.channel, options.values),
         risk |-> IF o.action = "send" THEN "write" ELSE "unknown",
         headers |-> {Header(h) : h \in Concrete(BindingHeaders(o, server))},
         auth |-> SelectAuthProfile(o, server, options.auth),
         origin |-> Or(o.origin, Or(o.channel.origin, Or(server.origin, None))),
         subprotocols |-> Or(o.subprotocols, Or(o.channel.subprotocols,
                             Or(server.subprotocols, << >>))),
         limits |-> limits,
         actions |-> Or(o.actions, <<MessageAction(o, v.message), CompleteClose>>)]

\* build_asyncapi_websocket_plan_with_configuration: the limits are those of
\* the operation, of the document, or the most the policy allows.
BuildAsyncApiPlan(doc, selector, options, cfg) ==
    LET found == Matching(doc, selector)
        v == CHOOSE x \in found : TRUE
        limits == Or(v.op.limits, Or(doc.limits, cfg.maxima))
    IN  IF /\ ~options.http /\ Loadable(doc) /\ WellFormed(doc)
           /\ Cardinality(found) = 1 /\ ~options.stray
           /\ Compilable(doc, v, options)
        THEN SealWebSocketSource(Compile(doc, v, options, limits), cfg)
        ELSE Refused
=============================================================================
