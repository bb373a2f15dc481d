------------------------------- MODULE MCHttp -------------------------------
(***************************************************************************)
(* HttpInvoke over a small API: a public name, a name for the token server, *)
(* a loopback and a documentation literal; operations with and without      *)
(* parameters, bodies and authentication; configurations that differ in     *)
(* what the planner and the executor read.                                  *)
(***************************************************************************)
EXTENDS HttpInvoke

CONSTANTS api, issuer, local, example,        \* hosts
          public, private, loopback, reserved \* addresses

MCHosts == {api, issuer}
MCLiteral4 == {local, example}
MCAddresses == {public, private}
MCUnsafeLiteral == {private, loopback}
MCUnsafe == {private, loopback, reserved}
MCAddressOf == [h \in MCLiteral4 |-> IF h = local THEN loopback ELSE reserved]
MCExtra == {Cidr(private), ApproveProduction}

Url(scheme, host) == [scheme |-> scheme, host |-> host, port |-> 0,
                      base |-> FALSE, user |-> FALSE, vars |-> "none"]
Based(url) == [url EXCEPT !.base = TRUE]

NoServer == [tag |-> "none"]
At(url) == [tag |-> "url", url |-> url]
Named(name) == [tag |-> "name", name |-> name]
NoToken == [some |-> FALSE]
TokenAt(url) == [some |-> TRUE, url |-> url]

Param(in, name, required) ==
  [in |-> in, name |-> name, required |-> required, default |-> FALSE]
Field(in, name) == [in |-> in, name |-> name, shape |-> "good"]

Get ==
  [key |-> "get", method |-> "GET", risk |-> "read", absent |-> FALSE,
   servers |-> <<[name |-> "main", url |-> Url("https", api)]>>,
   params |-> {}, shared |-> {}, vars |-> {},
   body |-> [declared |-> FALSE], captured |-> NoBody,
   security |-> <<>>, schemes |-> <<>>, statuses |-> TRUE, checks |-> {}]

Scheme(type, in, name, flow, tok) ==
  [type |-> type, in |-> in, name |-> name, flow |-> flow, token |-> tok]

Post ==
  [Get EXCEPT !.key = "post", !.method = "POST", !.risk = "write",
     !.body = [declared |-> TRUE, required |-> TRUE,
               content |-> {"json", "form"}],
     !.params = {Param("path", "id", FALSE), Param("header", "trace", FALSE)},
     !.shared = {Param("path", "id", TRUE)}, !.vars = {"id"}]

Secured(op, scheme) ==
  [op EXCEPT !.security = <<"main">>, !.schemes = [main |-> scheme]]

OAuth(url) ==
  Secured(Get, Scheme("oauth2", "none", "none", "clientCredentials",
                      TokenAt(url)))

Options ==
  [server |-> NoServer, auth |-> NoAuth, media |-> "none", doc |-> {},
   set |-> {}, strayed |-> FALSE, body |-> NoBody, checks |-> {}]

As(profile) ==
  [Options EXCEPT !.auth = [some |-> TRUE, scheme |-> "none",
                            profile |-> profile]]

Body(shape, bytes) ==
  [some |-> TRUE, shape |-> shape, valid |-> TRUE, bytes |-> bytes]

Filled == [Options EXCEPT !.doc = {Field("path", "id")},
                          !.body = Body("fields", 2)]

Config ==
  [version |-> 1, inline |-> FALSE, server |-> NoServer, auth |-> NoAuth,
   servers |-> [prod |-> [url |-> Url("https", api), production |-> TRUE]],
   risk |-> <<>>,
   policy |-> [denied |-> {}, allowed |-> {}, maxBytes |-> 2,
               approval |-> TRUE, pointers |-> FALSE,
               malformed |-> FALSE]]

Pointing == [Config EXCEPT !.policy.pointers = TRUE]

\* No configuration at all.
Default == [Config EXCEPT !.version = 0, !.servers = <<>>]

MCConfigs == {Config, Pointing, Default}

Case(op, opt, cfg) ==
  [op |-> op, opt |-> opt, cfg |-> cfg, badHeader |-> FALSE, badBody |-> FALSE]

\* Plans that are made and run.
Planned ==
  {Case(Get, Options, Config), Case(Get, Options, Pointing),
   Case(Get, [Options EXCEPT !.server = At(Url("http", local)),
                             !.checks = {"header", "unknown"}], Config),
   Case(Get, [Options EXCEPT !.server = At(Url("https", example))], Config),
   Case(Post, Filled, Config),
   Case(Post, [Filled EXCEPT !.server = At(Based(Url("https", api))),
                             !.media = "form"], Config),
   Case(Post, [Filled EXCEPT !.server = Named("prod")], Config),
   Case(Post, Filled, Default),
   Case(OAuth(Url("https", issuer)), As("p"), Config),
   Case(OAuth(Url("http", local)), As("p"), Config),
   Case(Secured(Get, Scheme("http", "none", "bearer", "none", NoToken)),
        As("p"), Config),
   Case(Secured(Get, Scheme("http", "none", "digest", "none", NoToken)),
        As("p"), Config),
   Case(Secured(Get, Scheme("mutualTLS", "none", "none", "none", NoToken)),
        As("p"), Config),
   [Case(Get, Options, Config) EXCEPT !.badHeader = TRUE],
   [Case(Get, Options, Config) EXCEPT !.badBody = TRUE]}

\* Plans that are refused, one for each check of the planner.
Refused ==
  {Case(Get, Options, [Config EXCEPT !.version = 2]),
   Case(Get, Options, [Config EXCEPT !.policy.malformed = TRUE]),
   Case(Get, Options, [Config EXCEPT !.inline = TRUE]),
   Case([Get EXCEPT !.absent = TRUE], Options, Config),
   Case(Get, [Options EXCEPT !.strayed = TRUE], Config),
   Case(Get, [Options EXCEPT !.set = {Field("cell", "x")}], Config),
   Case(Get, [Options EXCEPT !.set = {Field("headers", "x")}], Config),
   Case([Get EXCEPT !.servers = <<>>], Options, Config),
   Case([Get EXCEPT !.servers = @ \o @], Options, Config),
   Case(Get, [Options EXCEPT !.server = Named("other")], Config),
   Case([Get EXCEPT !.vars = {"id"}], Options, Config),
   Case(Post, [Filled EXCEPT !.doc = {}], Config),
   Case(Post, [Filled EXCEPT !.body = NoBody], Config),
   Case(Post, [Filled EXCEPT !.body = Body("fields", 3)], Config),
   Case(Post, [Filled EXCEPT !.media = "text"], Config),
   Case(Get, [Options EXCEPT !.body = Body("text", 1)], Config),
   Case(Get, [Options EXCEPT
                !.server = At([Url("https", api) EXCEPT !.user = TRUE])],
        Config),
   Case(OAuth(Url("https", issuer)), Options, Config),
   Case(Get, Options, [Config EXCEPT !.policy.denied = {api}]),
   Case(Get, Options, [Config EXCEPT !.policy.allowed = {issuer}])}

MCCases == Planned \cup Refused

\* A client identity, and credentials whose strings are parts of one another.
MCProfiles ==
  {[some |-> FALSE],
   [some |-> TRUE, text |-> <<"s">>, strings |-> <<>>,
    parsed |-> FALSE, identity |-> TRUE],
   [some |-> TRUE, text |-> <<"q", "s", "x">>,
    strings |-> <<<<"s">>, <<"s", "x">>>>,
    parsed |-> TRUE, identity |-> FALSE]}

MCByte == {"a", "q", "s", "x", "t", "k", "B", "c", "e"}

Plain(bytes) == [json |-> FALSE, field |-> <<>>, rest |-> bytes]

MCBodies ==
  {Plain(<<>>), Plain(<<"a", "s", "x", "a">>), Plain(<<"q", "s", "x", "s">>),
   Plain(<<"s", "s", "x", "B">>), Plain(<<"B", "t", "k", "t">>),
   Plain(<<"a", "a", "a", "a", "a">>),
   [json |-> TRUE, field |-> <<"x">>, rest |-> <<"a", "s">>]}
=============================================================================
