----------------------------- MODULE WsPlanning -----------------------------
(***************************************************************************)
(* How kahea-plan turns a finite WebSocket session source and the project  *)
(* configuration into a sealed WebSocket plan.  Planning is pure, so the   *)
(* module is a set of operators.  The code reports the first check that    *)
(* fails; here a source is refused or not.                                 *)
(***************************************************************************)
EXTENDS Integers, Sequences, FiniteSets, WsGrants

CONSTANTS Vals, MaxLen,     \* payloads and their lengths, as in WsPlan
          DefaultLimits,    \* WebSocketPolicyLimits::default
          Tokens,           \* RFC 7230 tokens
          AddressOf,        \* literal hosts, each with the address it denotes
          UnsafeLiteral     \* what is_unsafe_address knows

\* WebSocketPlan::validate.
Core == INSTANCE WsPlan WITH Limits <- DefaultLimits

ASSUME DefaultsAssumption ==
    /\ DefaultLimits \in [Core!LimitNames -> Nat]
    /\ Core!ValidateLimits(DefaultLimits)

Least(a, b) == IF a < b THEN a ELSE b

-----------------------------------------------------------------------------
(* Targets.  A URL keeps its scheme, its host, and whether it is without   *)
(* userinfo, without a fragment and within its bound.                      *)

IdentityValid(source) == source.identified

WebSocketTarget(url) == url.scheme \in {"ws", "wss"} /\ url.clean

HostAllowed(host, cfg) ==
    /\ host \notin cfg.denied
    /\ cfg.allowed # {} => host \in cfg.allowed

\* normalize_origin, by the site an origin names; None where it names none.
OriginAllowed(origin, cfg) ==
    /\ origin # "malformed"
    /\ "malformed" \notin cfg.origins
    /\ origin # None /\ cfg.origins # {} => origin \in cfg.origins

Unique(s) == \A i, j \in DOMAIN s : s[i] = s[j] => i = j

TokensOnly(s) == Elements(s) \subseteq Tokens /\ Unique(s)

SubprotocolsAllowed(offered, cfg) ==
    /\ TokensOnly(cfg.subprotocols)
    /\ TokensOnly(offered)
    /\ cfg.subprotocols # << >> => Elements(offered) \subseteq Elements(cfg.subprotocols)

-----------------------------------------------------------------------------
(* Headers.  A header has its name in lower case, the spelling it was      *)
(* given, and whether its value is free of line breaks.                    *)

Forbidden == {"authorization", "proxy-authorization", "cookie", "set-cookie",
              "host", "upgrade", "connection", "sec-websocket-key",
              "sec-websocket-version", "sec-websocket-protocol",
              "sec-websocket-extensions", "content-length", "transfer-encoding"}

\* websocket_headers.
HeadersAllowed(headers, cfg) ==
    /\ \A h \in headers :
          /\ h.name \in Tokens /\ h.plain
          /\ h.name \notin Forbidden \cup cfg.sensitive
    /\ \A g, h \in headers : g.name = h.name => g = h

-----------------------------------------------------------------------------
(* bind_websocket_configured_auth.                                         *)

NoAuth == [profile |-> None, placement |-> None]

Profile(source, cfg) == IF source.auth # None THEN source.auth ELSE cfg.auth

Placement(type) ==
    CASE type \in {"bearer", "basic"} -> "header"
      [] type = "mtls" -> "client-cert"
      [] OTHER -> None

AuthBinds(profile, cfg) ==
    profile # None =>
       /\ profile \in DOMAIN cfg.profiles
       /\ ~cfg.profiles[profile].inline
       /\ Placement(cfg.profiles[profile].type) # None

Auth(profile, cfg) ==
    IF profile = None THEN NoAuth
    ELSE [profile |-> profile, placement |-> Placement(cfg.profiles[profile].type)]

-----------------------------------------------------------------------------
(* Limits.                                                                 *)

\* Mutant: the frame bound is the requested one.
EffectiveLimitsFrame(requested, maximum) ==
    [n \in Core!LimitNames |->
       IF n = "max_frame_bytes" THEN requested[n] ELSE Least(requested[n], maximum[n])]

\* effective_websocket_limits, of limits that are valid on both sides.
EffectiveLimits(requested, maximum) ==
    [n \in Core!LimitNames |-> Least(requested[n], maximum[n])]

Expects(a) == a.type \in Core!ExpectTypes

NoTimeout == -1

\* tighten_websocket_action_timeouts.
Tightened(actions, maximum) ==
    [i \in DOMAIN actions |->
       IF ~Expects(actions[i]) THEN actions[i]
       ELSE [actions[i] EXCEPT !.timeout =
               IF @ = NoTimeout THEN maximum ELSE Least(@, maximum)]]

TimeoutValid(a, limits) ==
    a.timeout = NoTimeout \/ a.timeout \in 1 .. limits.action_timeout

-----------------------------------------------------------------------------
(* Risk and grants.                                                        *)

SendsData(actions) == \E a \in Elements(actions) : a.type \in Core!SendTypes

\* The configuration's word first; a source may not call a session that sends
\* data a read.
Risk(source, cfg) ==
    IF source.operation \in DOMAIN cfg.risk THEN cfg.risk[source.operation]
    ELSE IF source.risk \in {None, "read", "unknown"} /\ SendsData(source.actions)
    THEN "write"
    ELSE IF source.risk = None THEN "unknown" ELSE source.risk

\* origin_transport_scheme and configured_server_matches_target; ports are
\* those of the schemes.
OriginTransportScheme(scheme) ==
    CASE scheme = "wss" -> "https"
      [] scheme = "ws"  -> "http"
      [] OTHER          -> scheme

ProductionTarget(url, cfg) ==
    \E s \in cfg.servers :
       /\ s.production /\ s.host = url.host
       /\ OriginTransportScheme(s.scheme) = OriginTransportScheme(url.scheme)

When(condition, grant) == IF condition THEN {grant} ELSE {}

\* Mutant: a client certificate is a secret like any other.
AuthGrantsSecret(auth) == When(auth # NoAuth, Plain("secret"))

AuthGrants(auth) ==
    When(auth # NoAuth, Plain("secret"))
    \cup When(auth.placement = "client-cert", Plain("client-cert"))

\* A host that is an address needs its grant at once.
LiteralGrants(host) ==
    IF host \in DOMAIN AddressOf
    THEN When(AddressOf[host] \in UnsafeLiteral, Cidr(AddressOf[host])) ELSE {}

RequiredGrants(url, risk, auth, cfg) ==
    {Plain("net"), Plain("connect")}
    \cup When(url.scheme = "ws", Plain("insecure"))
    \cup LiteralGrants(url.host)
    \cup When(risk = "destructive", Plain("destructive"))
    \cup When(/\ cfg.approval /\ risk \in {"write", "destructive"}
              /\ ProductionTarget(url, cfg), Plain("production"))
    \cup AuthGrants(auth)

-----------------------------------------------------------------------------
(* seal_websocket_source.                                                  *)

Refused == [kind |-> "refused"]

\* Everything before the plan is put together.
Plannable(source, cfg) ==
    /\ IdentityValid(source)
    /\ WebSocketTarget(source.url)
    /\ HostAllowed(source.url.host, cfg)
    /\ OriginAllowed(source.origin, cfg)
    /\ SubprotocolsAllowed(source.subprotocols, cfg)
    /\ HeadersAllowed(source.headers, cfg)
    /\ AuthBinds(Profile(source, cfg), cfg)
    /\ Core!ValidateLimits(cfg.maxima) /\ Core!ValidateLimits(source.limits)
    /\ ~cfg.malformed

\* validate: markers, limits, headers and subprotocols hold already.
Sealable(plan) ==
    /\ Core!ValidateLimits(plan.limits)
    /\ Core!ValidatePlan(plan.actions, plan.limits)
    /\ \A a \in Elements(plan.actions) : TimeoutValid(a, plan.limits)

SealWebSocketSource(source, cfg) ==
    LET limits == EffectiveLimits(source.limits, cfg.maxima)
        auth   == Auth(Profile(source, cfg), cfg)
        risk   == Risk(source, cfg)
        plan   == [kind |-> "plan", target |-> source.url, risk |-> risk,
                   required |-> RequiredGrants(source.url, risk, auth, cfg),
                   auth |-> auth, origin |-> source.origin,
                   subprotocols |-> source.subprotocols,
                   headers |-> source.headers, limits |-> limits,
                   actions |-> Tightened(source.actions, limits.action_timeout)]
    IN  IF Plannable(source, cfg)
        THEN IF Sealable(plan) THEN plan ELSE Refused
        ELSE Refused
=============================================================================
