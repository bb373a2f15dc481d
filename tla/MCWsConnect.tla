---------------------------- MODULE MCWsConnect -----------------------------
(***************************************************************************)
(* Small instances of WsInvoke for TLC: sessions planned from sources and  *)
(* from a small AsyncAPI document, and plan files from elsewhere.          *)
(***************************************************************************)
EXTENDS WsInvoke, TLC

Basic(tls) == {Plain("net"), Plain("connect")}
              \cup (IF tls THEN {} ELSE {Plain("insecure")})
P(tls, auth, required, offered) ==
    [tls |-> tls, auth |-> auth, secretRef |-> TRUE, required |-> required,
     checks |-> TRUE, clean |-> TRUE, offered |-> offered, literal |-> None]
Bare   == P(FALSE, None, Basic(FALSE), {})
WithHeader == P(FALSE, "header",
            Basic(FALSE) \cup {Plain("secret"), Cidr("loopback")}, {"chat"})
Mutual == P(TRUE, "client-cert",
            Basic(TRUE) \cup {Plain("secret"), Plain("client-cert")}, {"chat", "rpc"})

\* Plans from elsewhere: an address no literal stands for, something missing.
MCPlans ==
    {WithHeader, [Bare EXCEPT !.clean = FALSE],
     [WithHeader EXCEPT !.checks = FALSE], [Mutual EXCEPT !.secretRef = FALSE],
     P(TRUE, "unknown", Basic(TRUE) \cup {Plain("secret")}, {})}
    \cup {[p EXCEPT !.required = @ \ {Plain(k)}] :
             p \in {Mutual}, k \in {"net", "secret", "client-cert"}}
    \cup {[Bare EXCEPT !.required = @ \ {Plain("insecure")}]}

All == [sealed |-> TRUE, fingerprints |-> TRUE, grants |-> Grants,
        secret |-> "usable", roots |-> TRUE, cancellable |-> TRUE]

\* Invocations with everything, or with something missing.
Without(gs) == [All EXCEPT !.grants = @ \ gs, !.cancellable = FALSE]
MCInvocations ==
    {All, [All EXCEPT !.sealed = FALSE], [All EXCEPT !.fingerprints = FALSE],
     Without({Plain("net")}),
     [Without({Plain("secret")}) EXCEPT !.roots = FALSE],
     [Without({Cidr(a) : a \in Unsafe}) EXCEPT !.secret = "absent"]}

Good == [parses |-> TRUE, status |-> 101, http11 |-> TRUE, upgrade |-> TRUE,
         connection |-> TRUE, accepts |-> "expected", extensions |-> FALSE,
         selected |-> {}]

\* Responses with one thing wrong, or with none, one or two subprotocols.
MCResponses ==
    {[Good EXCEPT !.selected = s] : s \in {{}, {"chat"}, Subprotocols}}
    \cup {[Good EXCEPT !.parses = FALSE], [Good EXCEPT !.status = 200],
          [Good EXCEPT !.selected = {"chat"}, !.extensions = TRUE]}

-----------------------------------------------------------------------------
(* Configurations and sources.                                             *)

MCDefaultLimits ==
    [connect_timeout |-> 4, action_timeout |-> 4, idle_timeout |-> 4,
     close_timeout |-> 2, total_timeout |-> 8,
     max_frame_bytes |-> 12, max_message_bytes |-> 24,
     max_inbound_frames |-> 4, max_outbound_frames |-> 4,
     max_inbound_messages |-> 4, max_outbound_messages |-> 3,
     max_inbound_bytes |-> 24, max_outbound_bytes |-> 24]
Asked == [MCDefaultLimits EXCEPT !.max_frame_bytes = 20, !.action_timeout = 3,
                                 !.total_timeout = 20]

MCAddressOf == ("127.0.0.1" :> "loopback") @@ ("203.0.113.1" :> "reserved")
MCUnsafeLiteral == {"loopback"}
MCTokens == {"chat", "rpc", "x-trace", "x-key", "cookie"}

Config ==
    [denied |-> {}, allowed |-> {}, origins |-> {}, subprotocols |-> << >>,
     sensitive |-> {"x-key"}, auth |-> None, risk |-> << >>, approval |-> TRUE,
     profiles |-> [bearer |-> [type |-> "bearer", inline |-> FALSE],
                   mtls   |-> [type |-> "mtls", inline |-> FALSE],
                   inline |-> [type |-> "basic", inline |-> TRUE],
                   oauth  |-> [type |-> "oauth2", inline |-> FALSE]],
     servers |-> {[scheme |-> "https", host |-> "shop", production |-> TRUE],
                  [scheme |-> "ws", host |-> "lab", production |-> TRUE]},
     maxima |-> MCDefaultLimits, malformed |-> FALSE]

Act(type, len, accepts, timeout) ==
    [type |-> type, val |-> "v", len |-> len, accepts |-> accepts, timeout |-> timeout]
Hello  == Act("send-text", 5, {}, NoTimeout)
Expect(t) == Act("expect-text", 5, {"v"}, t)
Bye    == Act("close", 2, {}, NoTimeout)

WsUrl(scheme, host) == [scheme |-> scheme, host |-> host, clean |-> TRUE]

Session ==
    [identified |-> TRUE, operation |-> <<"chat">>, url |-> WsUrl("wss", "shop"),
     risk |-> None, headers |-> {}, auth |-> None, origin |-> None,
     subprotocols |-> <<"chat">>, limits |-> Asked,
     actions |-> <<Hello, Expect(NoTimeout), Bye>>]

MCHeader(name, spelling) == [name |-> name, spelling |-> spelling, plain |-> TRUE]

SourceJob(source, cfg) == [kind |-> "source", source |-> source, cfg |-> cfg]

\* Sessions that are planned ...
PlannedSources ==
    {SourceJob(Session, Config),
     SourceJob([Session EXCEPT !.url = WsUrl("ws", "lab"), !.risk = "read"], Config),
     SourceJob([Session EXCEPT !.url = WsUrl("ws", "127.0.0.1"), !.auth = "bearer"], Config),
     SourceJob([Session EXCEPT !.url = WsUrl("wss", "203.0.113.1"),
                               !.actions = <<Expect(2), Bye>>], Config),
     SourceJob([Session EXCEPT !.auth = "mtls", !.subprotocols = <<"chat", "rpc">>], Config),
     SourceJob([Session EXCEPT !.risk = "destructive", !.actions = <<Expect(9), Bye>>,
                               !.headers = {MCHeader("x-trace", 1)}],
               [Config EXCEPT !.auth = "bearer", !.origins = {"shop"}, !.approval = FALSE]),
     SourceJob([Session EXCEPT !.origin = "shop"],
               [Config EXCEPT !.origins = {"shop"}, !.subprotocols = <<"chat">>,
                              !.allowed = {"shop"}, !.risk = (<<"chat">> :> "read")])}

\* ... and sessions that are refused, one for each check.
RefusedSources ==
    {SourceJob(s, Config) :
       s \in {[Session EXCEPT !.identified = FALSE],
             [Session EXCEPT !.url.scheme = "https"], [Session EXCEPT !.url.clean = FALSE],
             [Session EXCEPT !.origin = "malformed"],
             [Session EXCEPT !.subprotocols = <<"chat", "chat">>],
             [Session EXCEPT !.subprotocols = <<"no token">>],
             [Session EXCEPT !.headers = {MCHeader("cookie", 1)}],
             [Session EXCEPT !.headers = {MCHeader("x-key", 1)}],
             [Session EXCEPT !.headers = {[MCHeader("x-trace", 1) EXCEPT !.plain = FALSE]}],
             [Session EXCEPT !.headers = {MCHeader("x-trace", 1), MCHeader("x-trace", 2)}],
             [Session EXCEPT !.auth = "nobody"], [Session EXCEPT !.auth = "inline"],
             [Session EXCEPT !.auth = "oauth"],
             [Session EXCEPT !.limits.action_timeout = 0],
             [Session EXCEPT !.limits.action_timeout = 30],
             [Session EXCEPT !.actions = <<Act("send-text", 13, {}, NoTimeout), Bye>>],
             [Session EXCEPT !.actions = <<Hello, Hello, Hello, Hello, Bye>>],
             [Session EXCEPT !.actions = <<Expect(0), Bye>>],
             [Session EXCEPT !.actions = <<Hello>>]}}
    \cup {SourceJob([Session EXCEPT !.origin = "shop"], c) :
            c \in {[Config EXCEPT !.denied = {"shop"}], [Config EXCEPT !.allowed = {"lab"}],
                  [Config EXCEPT !.origins = {"lab"}], [Config EXCEPT !.origins = {"malformed"}],
                  [Config EXCEPT !.subprotocols = <<"rpc">>],
                  [Config EXCEPT !.subprotocols = <<"rpc", "rpc">>],
                  [Config EXCEPT !.maxima.idle_timeout = 9], [Config EXCEPT !.malformed = TRUE]}}

-----------------------------------------------------------------------------
(* An AsyncAPI document.                                                   *)

Example == [val |-> "v", len |-> 5, text |-> TRUE]
Message ==
    [features |-> {}, example |-> Example, payload |-> Missing, json |-> TRUE,
     bindings |-> Missing]
Payload == [accepts |-> {"v", "w"}, len |-> 4, cyclic |-> FALSE]
Bound(headers) == [foreign |-> FALSE, headers |-> headers]
BoundHeader(value, required) ==
    [name |-> "x-trace", spelling |-> 1, plain |-> TRUE, value |-> value,
     required |-> required]

Send ==
    [name |-> "send", action |-> "send", formed |-> TRUE, parses |-> TRUE,
     messages |-> <<Message>>, traits |-> FALSE, reply |-> FALSE,
     actions |-> Missing, limits |-> Missing, servers |-> Missing,
     security |-> Missing, bindings |-> Missing, origin |-> Missing,
     subprotocols |-> Missing,
     channel |-> [servers |-> Missing, bindings |-> Missing, origin |-> Missing,
                  subprotocols |-> Missing, uses |-> {}, parameters |-> << >>,
                  clean |-> TRUE]]
Receive ==
    [Send EXCEPT !.name = "receive", !.action = "receive", !.servers = <<"lab">>,
       !.messages = <<[Message EXCEPT !.payload = Payload, !.example = Missing],
                      [Message EXCEPT !.json = FALSE]>>]

Server(protocol, host) ==
    [protocol |-> protocol, url |-> WsUrl("ws", host), uses |-> {},
     variables |-> << >>, bindings |-> Missing, security |-> Missing,
     origin |-> Missing, subprotocols |-> Missing]

\* Its first server names its host by a variable, its second is a lab.
Document ==
    [version |-> "3.0", resolves |-> TRUE, operations |-> {Send, Receive},
     order |-> <<"lab", "main">>, limits |-> Missing,
     schemes |-> [token |-> "bearer", key |-> "apiKey"],
     servers |-> [main |-> [Server("wss", "region") EXCEPT
                              !.uses = {"region"},
                              !.variables = [region |-> [default |-> "shop",
                                                         enum |-> {"shop", "lab"}]]],
                  lab |-> Server("ws", "lab")]]

Opts == [http |-> FALSE, stray |-> FALSE, server |-> "main", auth |-> Missing,
         values |-> << >>]
\* SCHEME=PROFILE, or a profile alone.
Named(scheme, profile) ==
    [raw |-> IF scheme = Missing THEN profile ELSE "scheme=profile",
     scheme |-> scheme, profile |-> profile]

DocJob(doc, selector, options, cfg) ==
    [kind |-> "asyncapi", doc |-> doc, selector |-> selector, options |-> options,
     cfg |-> cfg]

SendJob(op, options) ==
    DocJob([Document EXCEPT !.operations = {op, Receive}], <<"send">>, options, Config)
LabOf(server) ==
    DocJob([Document EXCEPT !.servers.lab = server], <<"receive", 1>>,
           [Opts EXCEPT !.server = Missing], Config)
Lab == Document.servers.lab

PlannedOperations ==
    {SendJob(Send, Opts),
     SendJob([Send EXCEPT !.limits = Asked, !.subprotocols = <<"rpc">>,
                          !.bindings = Bound({BoundHeader("1", TRUE)})],
             [Opts EXCEPT !.values = (<<"server", "region">> :> "lab")]),
     SendJob([Send EXCEPT !.security = {"token"}, !.channel.uses = {"room"}],
             [Opts EXCEPT !.auth = Named("token", "bearer"),
                          !.values = (<<"channel", "room">> :> "r")]),
     SendJob([Send EXCEPT !.reply = TRUE, !.actions = <<Hello, Expect(NoTimeout), Bye>>],
             [Opts EXCEPT !.auth = Named(Missing, "mtls")]),
     DocJob(Document, <<"receive", 2>>, [Opts EXCEPT !.server = "lab"], Config),
     LabOf(Lab),
     DocJob([Document EXCEPT !.version = "2.6"], <<"receive", 1>>,
            [Opts EXCEPT !.server = Missing], Config)}

RefusedOperations ==
    {DocJob([Document EXCEPT !.version = "2.0"], <<"send">>, Opts, Config),
     DocJob([Document EXCEPT !.resolves = FALSE], <<"send">>, Opts, Config),
     DocJob(Document, <<"receive">>, Opts, Config),
     DocJob(Document, <<"receive", 3>>, Opts, Config),
     DocJob([Document EXCEPT !.schemes = << >>,
               !.operations = {[Send EXCEPT !.security = {"token"}]}], <<"send">>,
            [Opts EXCEPT !.auth = Named("token", "bearer")], Config),
     LabOf([Lab EXCEPT !.bindings = [Bound({}) EXCEPT !.foreign = TRUE]]),
     LabOf([Lab EXCEPT !.protocol = "mqtt"]),
     SendJob([Send EXCEPT !.security = {"key"}], [Opts EXCEPT !.auth = Named("key", "bearer")]),
     SendJob([Send EXCEPT !.security = {"token"}], [Opts EXCEPT !.auth = Named(Missing, "bearer")]),
     LabOf([Lab EXCEPT !.bindings = Bound({BoundHeader(Missing, TRUE)})])}
    \cup {SendJob(o, Opts) :
       o \in {[Send EXCEPT !.formed = FALSE], [Send EXCEPT !.messages = << >>],
             [Send EXCEPT !.messages[1].features = {"correlationId"}],
             [Send EXCEPT !.traits = TRUE], [Send EXCEPT !.reply = TRUE],
             [Send EXCEPT !.messages[1].example = Missing],
             [Send EXCEPT !.parses = FALSE], [Send EXCEPT !.channel.uses = {"room"}],
             [Send EXCEPT !.channel.clean = FALSE], [Send EXCEPT !.security = {"token"}],
             [Send EXCEPT !.messages[1].example.len = 11],
             [Send EXCEPT !.bindings = Bound({BoundHeader("1", FALSE)}),
                          !.channel.bindings = Bound({BoundHeader("2", FALSE)})]}}
    \cup {SendJob(Send, o) :
       o \in {[Opts EXCEPT !.http = TRUE], [Opts EXCEPT !.stray = TRUE],
             [Opts EXCEPT !.server = Missing], [Opts EXCEPT !.server = "other"],
             [Opts EXCEPT !.values = (<<"server", "region">> :> "moon")],
             [Opts EXCEPT !.auth = Named("key", "bearer")]}}

MCJobs == PlannedSources \cup RefusedSources \cup PlannedOperations \cup RefusedOperations
=============================================================================
