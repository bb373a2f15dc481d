------------------------------ MODULE HttpPlan ------------------------------
(***************************************************************************)
(* How kahea-plan turns an OpenAPI operation, the caller's options and the  *)
(* project configuration into a sealed request plan.  Planning is pure: it  *)
(* reads no clock and no network, so the module is a set of operators.      *)
(* An error is the first failing check in the order of the code.            *)
(***************************************************************************)
EXTENDS Integers, Sequences, FiniteSets

CONSTANTS Literal4,     \* hosts written as IPv4 literals
          AddressOf,    \* the address such a literal denotes
          UnsafeLiteral \* what is_unsafe_address knows: loopback, private ...

(***************************************************************************)
(* A URL keeps what the checks read: scheme, host, the port in its text (0  *)
(* when there is none), whether a base path follows the origin, whether it  *)
(* holds userinfo, and whether its {variables} are "none", "declared" with  *)
(* a default in the document, or "open".                                    *)
(***************************************************************************)
KnownPort(scheme) == IF scheme = "http" THEN 80 ELSE 443

Port(url) == IF url.port = 0 THEN KnownPort(url.scheme) ELSE url.port

\* The origin as server_origin prints it: no default port and no path.
ServerOrigin(url) ==
  [url EXCEPT !.base = FALSE, !.user = FALSE, !.vars = "none",
              !.port = IF Port(url) = KnownPort(url.scheme) THEN 0 ELSE Port(url)]

(***************************************************************************)
(* ProjectConfiguration::load and the fingerprints the plan is sealed with. *)
(***************************************************************************)
LoadError(cfg) ==
  IF cfg.version \notin {0, 1} \/ cfg.inline THEN "Configuration" ELSE "ok"

ConfigFingerprint(cfg) ==
  IF cfg.version = 0 THEN [version |-> 0] ELSE cfg

\* The policy of WebSocket sessions is not part of the HTTP fingerprint.
PolicyFingerprint(cfg) ==
  [denied |-> cfg.policy.denied, allowed |-> cfg.policy.allowed,
   maxBytes |-> cfg.policy.maxBytes, approval |-> cfg.policy.approval,
   pointers |-> cfg.policy.pointers]

(***************************************************************************)
(* select_server and resolve_server_variables: a URL selector wins, then a  *)
(* configured name, then the servers the operation declares.                *)
(***************************************************************************)
Refuse(error) == [error |-> error]

Resolved(url, declared) ==
  IF url.vars = "open" \/ (url.vars = "declared" /\ ~declared)
    THEN Refuse("InvalidServer")
    ELSE [error |-> "ok", url |-> [url EXCEPT !.vars = "none"]]

SelectServer(op, selector, cfg) ==
  CASE selector.tag = "url" -> Resolved(selector.url, FALSE)
    [] selector.tag = "name" /\ selector.name \in DOMAIN cfg.servers ->
         Resolved(cfg.servers[selector.name].url, FALSE)
    [] op.servers = <<>> -> Refuse("MissingServer")
    [] selector.tag = "name" /\ selector.name \notin DOMAIN cfg.servers ->
         IF \E i \in DOMAIN op.servers : op.servers[i].name = selector.name
           THEN LET i == CHOOSE i \in DOMAIN op.servers :
                           /\ op.servers[i].name = selector.name
                           /\ \A j \in 1..(i - 1) :
                                op.servers[j].name # selector.name
                IN Resolved(op.servers[i].url, TRUE)
           ELSE Refuse("UnknownServer")
    [] OTHER -> IF Len(op.servers) = 1
                  THEN Resolved(op.servers[1].url, TRUE)
                  ELSE Refuse("AmbiguousServer")

\* build_target: what may not be a target at all.
TargetError(url) ==
  IF url.scheme \notin {"http", "https"} \/ url.user
    THEN "UnsafeTarget" ELSE "ok"

(***************************************************************************)
(* Inputs: the document's sections first, every explicit field over them.   *)
(* A field is [in, name, shape]; the shape says whether the value passes    *)
(* its schema ("good"), fails it ("bad") or is an object ("object").  The   *)
(* spellings headers and cookies are accepted, and stored without the s;    *)
(* an explicit field is declared as it was spelled.                         *)
(***************************************************************************)
Location(spelling) ==
  CASE spelling = "headers" -> "header"
    [] spelling = "cookies" -> "cookie"
    [] OTHER -> spelling

InputError(opt) ==
  IF opt.strayed THEN "UnknownInput"       \* a section of no known name
  ELSE IF \E f \in opt.set : Location(f.in) \notin
                               {"path", "query", "header", "cookie", "body"}
    THEN "InvalidExplicitField" ELSE "ok"

\* take: the value of a parameter, from one of the four places inputs have.
Given(opt, in, name) ==
  LET explicit == {f \in opt.set : Location(f.in) = in /\ f.name = name}
  IN IF in \notin {"path", "query", "header", "cookie"} THEN {}
     ELSE IF explicit # {} THEN explicit
     ELSE {f \in opt.doc : f.in = in /\ f.name = name}

Declared(opt) == {<<f.in, f.name>> : f \in opt.doc \cup opt.set}

\* parameters: an operation's declaration replaces its path item's.
Parameters(op) ==
  op.params \cup
    {p \in op.shared : ~ \E q \in op.params : q.in = p.in /\ q.name = p.name}

\* The loop over the parameters: missing, refused by its schema, an object
\* (scalar_wire), or at a place the wire does not have.
ParameterError(op, opt) ==
  LET refused(p) ==
        LET given == Given(opt, p.in, p.name) IN
        \/ given = {} /\ ~p.default /\ (p.required \/ p.in = "path")
        \/ \E f \in given : f.shape # "good"
        \/ p.in \notin {"path", "query", "header", "cookie"}
           /\ p.default
  IN IF \E p \in Parameters(op) : refused(p) THEN "Parameter"
     ELSE IF \E v \in op.vars :
               ~ \E p \in Parameters(op) : p.in = "path" /\ p.name = v
       THEN "OpenPath" ELSE "ok"

\* reject_unused: every declared field was taken under the name it was
\* declared with.  Body fields are exempt.
UnusedError(op, opt) ==
  LET used == {<<p.in, p.name>> : p \in Parameters(op)}
  IN IF \E k \in Declared(opt) : k[1] # "body" /\ k \notin used
       THEN "UnknownInput" ELSE "ok"

(***************************************************************************)
(* bind_body, select_content_type and serialize_body.                       *)
(***************************************************************************)
NoBody == [some |-> FALSE]

\* The body given by the caller, or captured from the imported source.
BodyInput(op, opt) ==
  IF opt.body.some THEN opt.body
  ELSE IF op.body.declared THEN op.captured ELSE NoBody

MediaType(op, opt) ==
  CASE opt.media # "none" ->
         IF opt.media \in op.body.content THEN opt.media ELSE "unknown"
    [] opt.media = "none" /\ "json" \in op.body.content -> "json"
    [] OTHER -> IF Cardinality(op.body.content) = 1
                  THEN CHOOSE m \in op.body.content : TRUE ELSE "ambiguous"

\* What each media type can carry.
Serializable(media, shape) ==
  CASE media = "json" -> TRUE
    [] media = "text" -> shape \in {"text", "base64"}
    [] media = "form" -> shape \in {"text", "base64", "fields"}
    [] media = "multipart" -> shape = "fields"
    [] OTHER -> shape = "base64"

BodyError(op, opt) ==
  LET body == BodyInput(op, opt) IN
  CASE ~op.body.declared -> IF body.some THEN "UnexpectedBody" ELSE "ok"
    [] op.body.declared /\ ~body.some ->
         IF op.body.required THEN "MissingBody" ELSE "ok"
    [] op.body.declared /\ body.some /\
         MediaType(op, opt) \in {"unknown", "ambiguous"} -> "ContentType"
    [] OTHER -> IF body.valid /\ Serializable(MediaType(op, opt), body.shape)
                  THEN "ok" ELSE "InvalidBody"

(***************************************************************************)
(* bind_auth: the requirement, the selected scheme and its placement.       *)
(***************************************************************************)
NoAuth == [some |-> FALSE]

\* The scheme a request names, or the first one the operation requires.
SchemeOf(op, requested) ==
  IF requested.scheme # "none" THEN requested.scheme
  ELSE IF op.security # <<>> THEN op.security[1] ELSE "bearer"

Placement(scheme) ==
  CASE scheme.type = "apiKey" -> scheme.in
    [] scheme.type = "http" -> scheme.name
    [] scheme.type = "oauth2" ->
         (CASE scheme.flow = "clientCredentials" -> "oauth2-client-credentials"
            [] scheme.flow = "authorizationCode" -> "oauth2-refresh-token"
            [] OTHER -> "none")
    [] scheme.type = "openIdConnect" -> "bearer"
    [] scheme.type = "mutualTLS" -> "tls-client-certificate"
    [] OTHER -> "none"

BindAuth(op, requested) ==
  IF op.security = <<>> /\ ~requested.some
    THEN [error |-> "ok", auth |-> NoAuth]
  ELSE IF ~requested.some THEN Refuse("MissingAuth")
  ELSE LET scheme == SchemeOf(op, requested)
           required == {op.security[i] : i \in DOMAIN op.security}
       IN IF \/ required # {} /\ scheme \notin required
             \/ scheme \notin DOMAIN op.schemes
            THEN Refuse("UnknownSecurityScheme")
          ELSE IF Placement(op.schemes[scheme]) = "none"
            THEN Refuse("UnsupportedSecurityScheme")
          ELSE [error |-> "ok",
                auth |-> [some |-> TRUE, profile |-> requested.profile,
                          placement |-> Placement(op.schemes[scheme]),
                          token |-> op.schemes[scheme].token]]

(***************************************************************************)
(* Policy and the grants a plan requires.                                   *)
(***************************************************************************)
PolicyError(cfg, url) ==
  IF \/ url.host \in cfg.policy.denied
     \/ cfg.policy.allowed # {} /\ url.host \notin cfg.policy.allowed
    THEN "PolicyDenied" ELSE "ok"

Risk(op, cfg) ==
  IF op.key \in DOMAIN cfg.risk THEN cfg.risk[op.key] ELSE op.risk

Net(url) == <<"net", url.host, Port(url)>>
Http(method) == <<"http", method>>
Insecure == <<"net-insecure-http">>
Cidr(address) == <<"net-cidr", address>>
ApproveDestructive == <<"approve:destructive">>
ApproveProduction == <<"approve:production-write">>
Secret(profile) == <<"secret", profile>>
ClientCert(profile) == <<"tls-client-cert", profile>>

TargetGrants(url, method) ==
  {Net(url), Http(method)}
    \cup (IF url.scheme = "http" THEN {Insecure} ELSE {})
    \cup (IF url.host \in Literal4 /\ AddressOf[url.host] \in UnsafeLiteral
            THEN {Cidr(AddressOf[url.host])} ELSE {})

\* Mutant of ProductionServer: the configured text against the whole target.
ProductionServerByUrl(cfg, url) ==
  \E s \in DOMAIN cfg.servers :
    cfg.servers[s].production /\ cfg.servers[s].url = url

\* A configured production server whose text is exactly the target's origin.
ProductionServer(cfg, url) ==
  \E s \in DOMAIN cfg.servers :
    /\ cfg.servers[s].production
    /\ cfg.servers[s].url = ServerOrigin(url)

ApprovalGrants(op, cfg, url) ==
  LET risk == Risk(op, cfg) IN
  (IF risk = "destructive" THEN {ApproveDestructive} ELSE {})
    \cup (IF /\ ProductionServer(cfg, url)
             /\ cfg.policy.approval
             /\ risk \in {"write", "destructive"}
            THEN {ApproveProduction} ELSE {})

\* Mutant of AuthGrants: the token exchange's method is forgotten.
AuthGrantsNoPost(auth) ==
  IF ~auth.some THEN {}
  ELSE {Secret(auth.profile)}
         \cup (IF auth.placement = "tls-client-certificate"
                 THEN {ClientCert(auth.profile)} ELSE {})
         \cup (IF auth.token.some
                 THEN {Net(auth.token.url)}
                        \cup (IF auth.token.url.scheme = "http"
                                THEN {Insecure} ELSE {})
                 ELSE {})

\* The token exchange asks for its own network grants.
AuthGrants(auth) ==
  IF ~auth.some THEN {}
  ELSE {Secret(auth.profile)}
         \cup (IF auth.placement = "tls-client-certificate"
                 THEN {ClientCert(auth.profile)} ELSE {})
         \cup (IF auth.token.some
                 THEN {Net(auth.token.url), Http("POST")}
                        \cup (IF auth.token.url.scheme = "http"
                                THEN {Insecure} ELSE {})
                 ELSE {})

\* default_checks, unless the caller names its own.
Checks(op, opt) ==
  IF opt.checks # {} THEN opt.checks
  ELSE (IF op.statuses THEN {"status"} ELSE {}) \cup {"schema"} \cup op.checks

(***************************************************************************)
(* build_plan_with_configuration.                                           *)
(***************************************************************************)
Selector(opt, cfg) == IF opt.server.tag = "none" THEN cfg.server ELSE opt.server
Requested(opt, cfg) == IF opt.auth.some THEN opt.auth ELSE cfg.auth

FirstError(errors) ==
  IF \A i \in DOMAIN errors : errors[i] = "ok" THEN "ok"
  ELSE errors[CHOOSE i \in DOMAIN errors :
                /\ errors[i] # "ok"
                /\ \A j \in 1..(i - 1) : errors[j] = "ok"]

PlanError(op, opt, cfg) ==
  LET server == SelectServer(op, Selector(opt, cfg), cfg)
      bound == BindAuth(op, Requested(opt, cfg))
      early == FirstError(<<LoadError(cfg),
                            IF op.absent THEN "BlockingAbsence" ELSE "ok",
                            InputError(opt), server.error,
                            ParameterError(op, opt)>>)
  IN IF early # "ok" THEN early
     ELSE FirstError(<<TargetError(server.url), BodyError(op, opt),
                       bound.error, UnusedError(op, opt),
                       PolicyError(cfg, server.url),
                       IF /\ BodyInput(op, opt).some
                          /\ BodyInput(op, opt).bytes > cfg.policy.maxBytes
                         THEN "PolicyDenied" ELSE "ok",
                       IF cfg.policy.malformed THEN "Configuration" ELSE "ok">>)

\* The sealed plan; its seal is intact until something alters the file.
BuildPlan(op, opt, cfg) ==
  LET url == SelectServer(op, Selector(opt, cfg), cfg).url
      auth == BindAuth(op, Requested(opt, cfg)).auth
  IN [config |-> ConfigFingerprint(cfg), policy |-> PolicyFingerprint(cfg),
      target |-> url, method |-> op.method, risk |-> Risk(op, cfg),
      required |-> TargetGrants(url, op.method)
                     \cup ApprovalGrants(op, cfg, url) \cup AuthGrants(auth),
      auth |-> auth, checks |-> Checks(op, opt),
      pointers |-> cfg.policy.pointers]
=============================================================================
