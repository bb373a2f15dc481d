----------------------------- MODULE HttpInvoke -----------------------------
(***************************************************************************)
(* One request of kahea-exec: planned by HttpPlan, then gated, resolved,    *)
(* authenticated, sent and observed by invoke.  Between the steps the name  *)
(* service may change its answers, either exchange may fail, and the store  *)
(* may refuse any record.                                                   *)
(***************************************************************************)
EXTENDS HttpPlan, SequencesExt

CONSTANTS Cases,       \* what is planned: operation, options, configuration
          Configs,     \* configurations an invocation may run under
          Hosts,       \* hosts that are names
          Addresses,   \* what names resolve to
          Unsafe,      \* what unsafe_address knows: reserved addresses as well
          Profiles,    \* the secrets of a run: profile -> a profile's content
          Extra,       \* grants a caller may add to the required ones
          Byte,        \* the bytes of bodies and secrets
          Bodies,      \* response bodies: [json, field, rest], byte sequences
          MaxResponse, \* max_response_bytes
          Marker       \* the [REDACTED] a removed secret leaves behind

\* Bodies and secrets are bytes; t and k are a token's, B, c and e those of the
\* scheme, the cookie's name and the base64 form in a header.  No secret has a
\* byte in common with what replaces it.
ASSUME BytesAssumption ==
  /\ Bodies \subseteq [json : BOOLEAN, field : Seq(Byte), rest : Seq(Byte)]
  /\ \A p \in Profiles : p.some => /\ p.text \in Seq(Byte)
                                   /\ ToSet(p.strings) \subseteq Seq(Byte)
  /\ {"t", "k", "B", "c", "e"} \subseteq Byte
  /\ Marker \notin Byte

\* Only ProjectConfiguration::default has version 0, load refuses it; the
\* default configures no servers.
ASSUME DefaultConfiguration ==
  \A c \in Configs : c.version = 0 => DOMAIN c.servers = {}

VARIABLES pc, case, plan, grants, config, secrets, sealed,
          dns,      \* the current answers of the name service
          pinned,   \* the addresses each exchange was resolved to
          wire,     \* the exchanges that reached the network
          stored,   \* evidence records in the order they were written
          token,    \* the access token, once there is one
          response, result

vars == <<pc, case, plan, grants, config, secrets, sealed, dns, pinned, wire,
          stored, token, response, result>>

inputs == <<case, plan, grants, config, secrets, sealed>>
outputs == <<wire, stored, token, response>>

None == [some |-> FALSE]
Err(error) == [some |-> TRUE, kind |-> "error", error |-> error]
Denied(grant) == [some |-> TRUE, kind |-> "denied", grant |-> grant]
Observation(passed) == [some |-> TRUE, kind |-> "observation", passed |-> passed]

Token == <<"t", "k">>

Init ==
  /\ case \in Cases
  /\ config \in Configs
  /\ secrets \in Profiles
  /\ dns \in [Hosts -> SUBSET Addresses]
  /\ sealed \in BOOLEAN
  /\ pc = "plan" /\ plan = None /\ grants = {} /\ pinned = <<>> /\ wire = <<>>
  /\ stored = <<>> /\ token = None /\ response = None /\ result = None

Return(r) == pc' = "done" /\ result' = r

\* kahea plan, then kahea invoke with the plan's grants, one of them missing,
\* or some the plan does not ask for.
Plan ==
  /\ pc = "plan"
  /\ LET error == PlanError(case.op, case.opt, case.cfg) IN
     \/ /\ error # "ok"
        /\ Return(Err(error))
        /\ UNCHANGED <<plan, grants>>
     \/ /\ error = "ok"
        /\ plan' = BuildPlan(case.op, case.opt, case.cfg)
        /\ \/ grants' = plan'.required
           \/ \E g \in plan'.required : grants' = plan'.required \ {g}
           \/ grants' = plan'.required \cup Extra
        /\ pc' = "gate"
        /\ UNCHANGED result
  /\ UNCHANGED <<case, config, secrets, sealed, dns, pinned, outputs>>

\* The gates of invoke, in order: seal, configuration, policy, grants.
Gate ==
  /\ pc = "gate"
  /\ LET missing == plan.required \ grants IN
     \/ ~sealed /\ Return(Err("InvalidSeal"))
     \/ /\ sealed /\ ConfigFingerprint(config) # plan.config
        /\ Return(Err("ConfigurationMismatch"))
     \/ /\ sealed /\ ConfigFingerprint(config) = plan.config
        /\ PolicyFingerprint(config) # plan.policy
        /\ Return(Err("PolicyMismatch"))
     \/ /\ sealed /\ ConfigFingerprint(config) = plan.config
        /\ PolicyFingerprint(config) = plan.policy
        /\ IF missing # {}
             THEN \E g \in missing : Return(Denied(g))
             ELSE pc' = "target" /\ UNCHANGED result
  /\ UNCHANGED <<inputs, dns, pinned, outputs>>

(***************************************************************************)
(* evaluate_runtime_target: the grants of one exchange, then one look at    *)
(* the name service; every address of the answer must be inside the         *)
(* boundary or granted, and the exchange is pinned to that answer.          *)
(***************************************************************************)
Answer(host) == IF host \in Literal4 THEN {AddressOf[host]} ELSE dns[host]

Outside(answer) == {a \in answer : a \in Unsafe /\ Cidr(a) \notin grants}

Evaluate(url, method, next) ==
  LET needed == (IF url.scheme = "http" THEN {Insecure} ELSE {})
                  \cup {Net(url), Http(method)}
      answer == Answer(url.host)
      usable == url.scheme \in {"http", "https"} /\ ~url.user
  IN \/ ~usable /\ Return(Err("InvalidTarget")) /\ UNCHANGED pinned
     \/ /\ usable
        /\ \E g \in needed \ grants : Return(Denied(g))
        /\ UNCHANGED pinned
     \/ /\ usable /\ needed \subseteq grants /\ answer = {}
        /\ Return(Err("Transport"))
        /\ UNCHANGED pinned
     \/ /\ usable /\ needed \subseteq grants
        /\ \E a \in Outside(answer) : Return(Denied(Cidr(a)))
        /\ UNCHANGED pinned
     \/ /\ usable /\ needed \subseteq grants
        /\ answer # {} /\ Outside(answer) = {}
        /\ pinned' = Append(pinned, answer)
        /\ pc' = next
        /\ UNCHANGED result

EvaluateTarget ==
  /\ pc = "target"
  /\ Evaluate(plan.target, plan.method, "prepare")
  /\ UNCHANGED <<inputs, dns, outputs>>

(***************************************************************************)
(* planned_headers, resolve_client_identity, then the token exchange or     *)
(* apply_auth.  A profile is [some, text, strings, parsed, identity]: its   *)
(* bytes, the strings of its JSON if it is JSON, and whether it holds the   *)
(* fields its placement needs.                                              *)
(***************************************************************************)
AuthPlacement == IF plan.auth.some THEN plan.auth.placement ELSE "none"

IsOAuth ==
  AuthPlacement \in {"oauth2-client-credentials", "oauth2-refresh-token"}

\* Why the identity or the credential of a placement cannot be used.
CredentialError ==
  CASE AuthPlacement = "none" \/ IsOAuth -> "ok"
    [] ~(AuthPlacement = "none" \/ IsOAuth) /\ ~secrets.some ->
         "MissingSecret"
    [] AuthPlacement = "tls-client-certificate" /\ secrets.some ->
         IF secrets.identity THEN "ok" ELSE "InvalidClientIdentity"
    [] OTHER -> IF AuthPlacement \in {"basic", "bearer", "header", "query",
                                      "cookie"}
                  THEN "ok" ELSE "UnsupportedAuth"

Prepare ==
  /\ pc = "prepare"
  /\ LET error == IF case.badHeader THEN "InvalidHeader" ELSE CredentialError IN
     \/ error # "ok" /\ Return(Err(error))
     \/ /\ error = "ok"
        /\ pc' = IF IsOAuth THEN "token" ELSE "body"
        /\ UNCHANGED result
  /\ UNCHANGED <<inputs, dns, pinned, outputs>>

EvaluateToken ==
  /\ pc = "token"
  /\ \/ /\ ~plan.auth.token.some
        /\ Return(Err("InvalidOAuthProfile")) /\ UNCHANGED pinned
     \/ /\ plan.auth.token.some
        /\ Evaluate(plan.auth.token.url, "POST", "exchange")
  /\ UNCHANGED <<inputs, dns, outputs>>

\* The exchange itself: the profile is read, the form is posted to one of the
\* pinned addresses, and the answer is a token or it is not.
ExchangeToken ==
  /\ pc = "exchange"
  /\ \/ /\ ~(secrets.some /\ secrets.parsed)
        /\ Return(Err("InvalidOAuthProfile"))
        /\ UNCHANGED <<wire, token>>
     \/ /\ secrets.some /\ secrets.parsed
        /\ \E a \in pinned[2] :
             wire' = Append(wire, [kind |-> "token", url |-> plan.auth.token.url,
                                   method |-> "POST", address |-> a])
        /\ \/ Return(Err("OAuthExchange")) /\ UNCHANGED token
           \/ /\ token' = [some |-> TRUE, text |-> Token]
              /\ pc' = "receipt" /\ UNCHANGED result
     \/ /\ secrets.some /\ secrets.parsed
        /\ Return(Err("Transport"))       \* nothing answered
        /\ UNCHANGED <<wire, token>>
  /\ UNCHANGED <<inputs, dns, pinned, stored, response>>

(***************************************************************************)
(* Writes to the evidence store.  A refused write ends the invocation.      *)
(***************************************************************************)
Put(kind, next) ==
  \/ /\ stored' = Append(stored, kind)
     /\ pc' = next /\ UNCHANGED result
  \/ Return(Err("Evidence")) /\ UNCHANGED stored

StoreReceipt ==
  /\ pc = "receipt"
  /\ Put("oauth-refresh", "body")
  /\ UNCHANGED <<inputs, dns, pinned, wire, token, response>>

\* The inlined body must still have the sealed length and digest, and the
\* client must come up.
CheckBody ==
  /\ pc = "body"
  /\ \/ case.badBody /\ Return(Err("InvalidSeal"))
     \/ ~case.badBody /\ Return(Err("Transport"))
     \/ ~case.badBody /\ pc' = "derive" /\ UNCHANGED result
  /\ UNCHANGED <<inputs, dns, pinned, outputs>>

StoreDerivation ==
  /\ pc = "derive"
  /\ Put("request-derivation", "send")
  /\ UNCHANGED <<inputs, dns, pinned, wire, token, response>>

\* Mutant of Send: the name is looked up again when the client connects.
SendUnpinned ==
  /\ pc = "send"
  /\ \/ /\ \E a \in Answer(plan.target.host) :
             wire' = Append(wire, [kind |-> "request", url |-> plan.target,
                                   method |-> plan.method, address |-> a])
        /\ \/ Return(Err("Transport"))
           \/ pc' = "read" /\ UNCHANGED result
     \/ Return(Err("Transport")) /\ UNCHANGED wire
  /\ UNCHANGED <<inputs, dns, pinned, stored, token, response>>

Send ==
  /\ pc = "send"
  /\ \/ /\ \E a \in pinned[1] :
             wire' = Append(wire, [kind |-> "request", url |-> plan.target,
                                   method |-> plan.method, address |-> a])
        /\ \/ Return(Err("Transport"))    \* no answer in time
           \/ pc' = "read" /\ UNCHANGED result
     \/ Return(Err("Transport")) /\ UNCHANGED wire
  /\ UNCHANGED <<inputs, dns, pinned, stored, token, response>>

(***************************************************************************)
(* observe_response: the bounded read, the checks on the raw bytes, the two *)
(* redactions, and the records in order.                                    *)
(***************************************************************************)
\* What a response body weighs and reads as.
Bytes(body) == body.rest \o body.field

\* The checks whose syntax validate_checks knows; what each one looks at
\* (status, headers, a selected value, a digest, a bound) the response decides.
Checkable == {"status", "content-type", "schema", "header", "json-pointer",
              "jsonpath", "xpath", "body-digest", "response-bytes",
              "latency-ms"}

\* validate_checks: unmet checks fail, and so does one of unknown syntax.
Failures(meets) == {c \in plan.checks : c \notin meets \/ c \notin Checkable}

\* The header a secret or a token was put in: its scheme or name before it,
\* or its base64 form.
SensitiveHeader ==
  CASE token.some -> {<<"B">> \o token.text}
    [] AuthPlacement = "bearer" -> {<<"B">> \o secrets.text}
    [] AuthPlacement = "basic" -> {<<"e">>}
    [] AuthPlacement = "cookie" -> {<<"c">> \o secrets.text}
    [] AuthPlacement = "header" -> {secrets.text}
    [] OTHER -> {}

\* secret_redactions: a profile's text and the strings of its JSON.
SecretTexts ==
  IF secrets.some THEN {secrets.text} \cup ToSet(secrets.strings) ELSE {}

\* With the token and the sensitive header; redact_bytes passes over empty ones.
Redactions ==
  (SecretTexts \cup (IF token.some THEN {token.text} ELSE {})
     \cup SensitiveHeader) \ {<<>>}

\* A byte of the response with its place, so that what survives can be told.
Placed(bytes) == [i \in DOMAIN bytes |-> [at |-> i, byte |-> bytes[i]]]
Removed == [at |-> 0, byte |-> Marker]

\* redact_json_pointers: the selected field of a JSON body becomes a marker.
RedactPointers(body) ==
  IF body.json /\ plan.pointers THEN Append(Placed(body.rest), Removed)
                                ELSE Placed(Bytes(body))

Read ==
  /\ pc = "read"
  /\ \/ Return(Err("Transport")) /\ UNCHANGED response
     \/ \E body \in Bodies, meets \in SUBSET plan.checks :
          IF Len(Bytes(body)) > MaxResponse
            THEN Return(Err("ResponseTooLarge")) /\ UNCHANGED response
            ELSE /\ response' = [some |-> TRUE, body |-> body,
                                 failures |-> Failures(meets),
                                 saved |-> RedactPointers(body),
                                 todo |-> Redactions, text |-> <<>>, from |-> 1]
                 /\ pc' = "redact" /\ UNCHANGED result
  /\ UNCHANGED <<inputs, dns, pinned, wire, stored, token>>

(***************************************************************************)
(* redact_bytes, one turn of its loops at a time: response.saved is the     *)
(* working copy, response.todo the secrets to come, response.text the one   *)
(* being removed and response.from the cursor.                              *)
(***************************************************************************)
\* Mutant of Longest: shortest first.
Shortest(texts) == {t \in texts : \A u \in texts : Len(t) <= Len(u)}

\* The order of sort_by_key; two that are equally long come in either order.
Longest(texts) == {t \in texts : \A u \in texts : Len(u) <= Len(t)}

NextSecret ==
  /\ pc = "redact"
  /\ \/ /\ response.todo = {}
        /\ pc' = "blob" /\ UNCHANGED response
     \/ \E t \in Longest(response.todo) :
          /\ response' = [response EXCEPT !.todo = @ \ {t}, !.text = t, !.from = 1]
          /\ pc' = "scan"
  /\ UNCHANGED <<inputs, dns, pinned, wire, stored, token, result>>

\* The windows of the copy that read as a text, from the cursor on.
Matches(data, text, from) ==
  {i \in from..(Len(data) - Len(text) + 1) :
     \A j \in 1..Len(text) : data[i + j - 1].byte = text[j]}

\* splice: n bytes at i become the marker.
Replace(data, i, n) ==
  [k \in 1..(Len(data) - n + 1) |-> IF k < i THEN data[k]
                                    ELSE IF k = i THEN Removed
                                    ELSE data[k + n - 1]]

\* The leftmost match is replaced and the cursor moves behind the marker.
ReplaceSecret ==
  /\ pc = "scan"
  /\ LET found == Matches(response.saved, response.text, response.from) IN
     \/ /\ found = {}
        /\ pc' = "redact" /\ UNCHANGED response
     \/ \E i \in found :
          /\ \A k \in found : i <= k
          /\ response' = [response EXCEPT
                            !.saved = Replace(@, i, Len(response.text)),
                            !.from = i + 1]
          /\ UNCHANGED pc
  /\ UNCHANGED <<inputs, dns, pinned, wire, stored, token, result>>

StoreBody ==
  /\ pc = "blob"
  /\ \/ /\ stored' = Append(stored, "body")
        /\ pc' = IF response.failures = {} THEN "trace" ELSE "failures"
        /\ UNCHANGED result
     \/ Return(Err("Evidence")) /\ UNCHANGED stored
  /\ UNCHANGED <<inputs, dns, pinned, wire, token, response>>

StoreFailures ==
  /\ pc = "failures"
  /\ Put("schema-error", "trace")
  /\ UNCHANGED <<inputs, dns, pinned, wire, token, response>>

\* Mutant of StoreTrace: the observation names a trace whose write was refused.
StoreTraceIgnored ==
  /\ pc = "trace"
  /\ pc' = "persist" /\ stored' \in {stored, Append(stored, "trace")}
  /\ UNCHANGED <<inputs, dns, pinned, wire, token, response, result>>

StoreTrace ==
  /\ pc = "trace"
  /\ Put("trace", "persist")
  /\ UNCHANGED <<inputs, dns, pinned, wire, token, response>>

Persist ==
  /\ pc = "persist"
  /\ \/ /\ stored' = Append(stored, "observation")
        /\ Return(Observation(response.failures = {}))
     \/ Return(Err("Evidence")) /\ UNCHANGED stored
  /\ UNCHANGED <<inputs, dns, pinned, wire, token, response>>

\* A name changes its addresses at any moment.
Rebind ==
  /\ pc # "done"
  /\ \E h \in Hosts, answer \in SUBSET Addresses :
       /\ answer # dns[h]
       /\ dns' = [dns EXCEPT ![h] = answer]
  /\ UNCHANGED <<pc, inputs, pinned, outputs, result>>

Returned == pc = "done" /\ UNCHANGED vars

Step ==
  \/ Plan \/ Gate \/ EvaluateTarget \/ Prepare \/ EvaluateToken
  \/ ExchangeToken \/ StoreReceipt \/ CheckBody \/ StoreDerivation \/ Send
  \/ Read \/ NextSecret \/ ReplaceSecret
  \/ StoreBody \/ StoreFailures \/ StoreTrace \/ Persist

Next == Step \/ Rebind \/ Returned

Spec == Init /\ [][Next]_vars
-----------------------------------------------------------------------------
(***************************************************************************)
(* Whatever the name service answers and whenever, an exchange that reaches *)
(* the network goes to an address that is inside the boundary or granted,   *)
(* under its own network and method grants, with every grant the plan       *)
(* requires, under the sealed policy, and with its derivation stored first. *)
(***************************************************************************)
RequestJustified ==
  wire # <<>> =>
    /\ sealed /\ plan.required \subseteq grants
    /\ PolicyFingerprint(config) = plan.policy
    /\ \A i \in DOMAIN wire :
         /\ {Net(wire[i].url), Http(wire[i].method)} \subseteq grants
         /\ wire[i].url.scheme = "http" => Insecure \in grants
         /\ wire[i].address \in Unsafe => Cidr(wire[i].address) \in grants
         /\ wire[i].kind = "request" => Contains(stored, "request-derivation")

(***************************************************************************)
(* The README's procedure works: an invocation that holds exactly what      *)
(* required_grants lists is denied only for an address that was not known   *)
(* when the plan was made (what a name resolved to), that belongs to the    *)
(* token exchange, whose literal hosts the planner does not look at, or     *)
(* that is reserved in a way only the executor knows.                       *)
(***************************************************************************)
GrantsSuffice ==
  (result.some /\ result.kind = "denied" /\ plan.required \subseteq grants) =>
    /\ result.grant \in {Cidr(a) : a \in Unsafe}
    /\ \/ plan.target.host \notin Literal4
       \/ AddressOf[plan.target.host] \notin UnsafeLiteral
       \/ Len(pinned) = 1

(***************************************************************************)
(* An observation is returned only after its request was sent, and only     *)
(* when everything it names is in the store: the derivation, the redacted   *)
(* body, the failures exactly when it failed, the trace, the receipt of its *)
(* token exchange, and last the observation; an error never leaves one.     *)
(***************************************************************************)
ObservationComplete ==
  /\ (result.some /\ result.kind = "observation") =>
       /\ \E i \in DOMAIN wire : wire[i].kind = "request"
       /\ stored = (IF IsOAuth THEN <<"oauth-refresh">> ELSE <<>>)
                     \o <<"request-derivation", "body">>
                     \o (IF result.passed THEN <<>> ELSE <<"schema-error">>)
                     \o <<"trace", "observation">>
  /\ Contains(stored, "observation") =>
       result.some /\ result.kind = "observation"

(***************************************************************************)
(* The stored body holds no secret of the run and no token, and no byte of  *)
(* an occurrence that overlaps no other secret except ones it contains: a   *)
(* secret that is part of another does not spoil the longer one's removal.  *)
(* An occurrence cut by the field redact_json_pointers replaced is not one  *)
(* that redact_bytes can see.                                               *)
(***************************************************************************)
Occurrences(text, bytes) ==
  {i \in 1..(Len(bytes) - Len(text) + 1) :
     \A j \in 1..Len(text) : bytes[i + j - 1] = text[j]}

Span(text, i) == i..(i + Len(text) - 1)

\* One stretch of the body is inside another, or apart from it.
Nested(inner, outer) == inner \subseteq outer \/ inner \cap outer = {}

\* The part of the body that the pointers select.
Pointed ==
  IF response.body.json /\ plan.pointers
    THEN (Len(response.body.rest) + 1)..Len(Bytes(response.body)) ELSE {}

Whole(t, i) ==
  /\ \A u \in Redactions : \A k \in Occurrences(u, Bytes(response.body)) :
       Nested(Span(u, k), Span(t, i))
  /\ Nested(Span(t, i), Pointed)

SecretsRemoved ==
  (response.some /\ Contains(stored, "body")) =>
    LET saved == [i \in DOMAIN response.saved |-> response.saved[i].byte]
        left == {response.saved[i].at : i \in DOMAIN response.saved}
    IN \A t \in Redactions :
         /\ Occurrences(t, saved) = {}
         /\ \A i \in Occurrences(t, Bytes(response.body)) :
              Whole(t, i) => Span(t, i) \cap left = {}

(***************************************************************************)
(* A write to a server configured as production carries the approval.  The  *)
(* planner recognises a production server by its text, so this is stated    *)
(* for servers configured by their bare origin.                             *)
(***************************************************************************)
WriteTo(url) ==
  \E i \in DOMAIN wire :
    /\ wire[i].kind = "request" /\ ServerOrigin(wire[i].url) = ServerOrigin(url)
    /\ plan.risk \in {"write", "destructive"}

ProductionApproved ==
  \A s \in DOMAIN config.servers :
    /\ config.servers[s].production /\ config.policy.approval
    /\ ServerOrigin(config.servers[s].url) = config.servers[s].url
    /\ WriteTo(config.servers[s].url)
    => ApproveProduction \in grants
=============================================================================
