----------------------------- MODULE WsConnect ------------------------------
(***************************************************************************)
(* connect_websocket_resolving_cancellable of kahea-exec: everything from  *)
(* a sealed WebSocket plan to the upgraded stream that WsSession starts    *)
(* with.  Gates and grants, one name resolution, the boundary check of     *)
(* every address, the request and its trace, the dial of the pinned        *)
(* addresses, TLS, the upgrade and its checks, and the observation a       *)
(* failure leaves behind.                                                  *)
(*                                                                         *)
(* now is the time since started, in the units of the timeouts.  It passes *)
(* in the resolver, which no deadline bounds, in the dials and in the      *)
(* blocked calls of the upgrade, which DeadlineStream bounds by the        *)
(* connect deadline.                                                       *)
(***************************************************************************)
EXTENDS Integers, Sequences, FiniteSets, WsGrants

CONSTANTS Addresses,       (* what a name can resolve to                    *)
          Unsafe,          (* those unsafe_address answers true for         *)
          Subprotocols,
          Plans,           (* sealed plans                                  *)
          Invocations,     (* InvokeOptions, and what the gates find        *)
          MaxAddresses,    (* addresses in one answer of the resolver       *)
          ConnectTimeout,  (* the connect deadline, tightened by the total  *)
          MaxDns,          (* TLC's bound on the time the resolver takes    *)
          MaxHandshake,    (* MAX_HANDSHAKE_BYTES, in pieces                *)
          MaxPiece,        (* the read buffer of the upgrade, in pieces     *)
          Responses        (* upgrade responses a peer may send             *)

Grants == {Plain(k) : k \in GrantKinds} \cup {Cidr(a) : a \in Addresses}

\* A sealed and validated plan.  Validation does not look at the target or at
\* the handshake checks: clean is a target without userinfo and fragment,
\* checks that they are the ones the subprotocols imply, literal the address
\* a host denotes that is one.
Plan == [tls : BOOLEAN, auth : {None, "header", "client-cert", "unknown"},
         secretRef : BOOLEAN, required : SUBSET Grants, checks : BOOLEAN,
         clean : BOOLEAN, offered : SUBSET Subprotocols,
         literal : Addresses \cup {None}]

Invocation == [sealed : BOOLEAN, fingerprints : BOOLEAN,
               grants : SUBSET Grants, secret : {"absent", "usable", "broken"},
               roots : BOOLEAN, cancellable : BOOLEAN]

\* The fields of an upgrade response that are checked; accepts and selected
\* stand for the values of the accept and the subprotocol headers.
Response == [parses : BOOLEAN, status : Nat, http11 : BOOLEAN,
             upgrade : BOOLEAN, connection : BOOLEAN,
             accepts : {"none", "expected", "other", "several"},
             extensions : BOOLEAN, selected : SUBSET Subprotocols]

NoResponse == [parses |-> FALSE, status |-> 0, http11 |-> FALSE,
               upgrade |-> FALSE, connection |-> FALSE, accepts |-> "none",
               extensions |-> FALSE, selected |-> {}]

ASSUME ConnectAssumption ==
    /\ None \notin Addresses /\ Unsafe \subseteq Addresses
    /\ Plans \subseteq Plan /\ Invocations \subseteq Invocation
    /\ ConnectTimeout \in Nat \ {0} /\ MaxDns \in Nat /\ MaxAddresses \in Nat
    /\ MaxHandshake \in Nat \ {0} /\ MaxPiece \in Nat \ {0}
    /\ Responses \subseteq Response

VARIABLES
    plan, inv,
    pc,
    now,        \* started.elapsed()
    cancelled,  \* the cancellation flag
    resolved,   \* the addresses of the one resolution
    next,       \* the next address connect_pinned dials
    timedOut,   \* whether a dial timed out
    address,    \* the address connected to
    request,    \* what websocket_request has put in: nothing, no secret, one
    received,   \* pieces of the response read so far
    head,       \* history: pieces the peer's response header has
    response,   \* the header the peer sent
    buffered,   \* pieces of frames read with the header
    failure,    \* what failed_observation is called with
    stored,     \* evidence this invocation has stored
    result,     \* what the call returns
    dialled,    \* history: addresses dialled
    lastDial    \* history: when the last dial began

vars == <<plan, inv, pc, now, cancelled, resolved, next, timedOut, address,
          request, received, head, response, buffered, failure, stored, result,
          dialled, lastDial>>

Pending   == [kind |-> "none", cause |-> None, exit |-> 0, names |-> {}]
Denied    == [kind |-> "denied", cause |-> None, exit |-> 4, names |-> {}]
Err       == [kind |-> "err", cause |-> None, exit |-> 3, names |-> {}]
Connected == [kind |-> "connected", cause |-> None, exit |-> 0,
              names |-> {"trace", "handshake"}]
Observed  == [kind |-> "observation", cause |-> failure.cause,
              exit |-> failure.exit, names |-> failure.names \cup {"transcript"}]

NoFailure == [cause |-> None, exit |-> 0, response |-> FALSE, names |-> {}]

\* An error with no response: exit 3.  A failed check of the upgrade: exit 1.
Error(c)      == [cause |-> c, exit |-> 3, response |-> FALSE,
                  names |-> stored \cap {"trace"}]
CheckFailure  == [Error("handshake-check-failed") EXCEPT !.exit = 1]

\* Nothing has happened yet.
Fresh ==
    /\ now = 0 /\ cancelled = FALSE
    /\ resolved = << >> /\ next = 1 /\ timedOut = FALSE /\ address = None
    /\ request = None /\ received = 0 /\ buffered = 0
    /\ head = 0 /\ response = NoResponse
    /\ failure = NoFailure /\ stored = {} /\ result = Pending
    /\ dialled = {} /\ lastDial = 0

Init == plan \in Plans /\ inv \in Invocations /\ pc = "start" /\ Fresh

peerVars    == <<received, head, response, buffered>>
dialVars    == <<resolved, next, timedOut, address, dialled, lastDial>>
endVars     == <<failure, stored, result>>

Return(r) == pc' = "done" /\ result' = r /\ UNCHANGED <<failure, stored>>
Goto(l)   == pc' = l /\ UNCHANGED endVars

\* failed_observation, and the handshake it may store before.
Fail(f) == /\ failure' = f
           /\ pc' = IF f.response THEN "fail-handshake" ELSE "fail-transcript"
           /\ UNCHANGED <<stored, result>>

-----------------------------------------------------------------------------
(* Gates.                                                                  *)

AddressDependent(g) == g.kind = "net-cidr"

\* Seal, fingerprints, the grants that depend on no address, cancellation.
CheckPlan ==
    /\ pc = "start"
    /\ IF ~inv.sealed \/ ~inv.fingerprints THEN Return(Err)
       ELSE IF \E g \in plan.required : ~AddressDependent(g) /\ g \notin inv.grants
       THEN Return(Denied)
       ELSE IF cancelled THEN Fail(Error("cancelled"))
       ELSE Goto("binding")
    /\ UNCHANGED <<plan, inv, now, cancelled, dialVars, request, peerVars>>

\* What the transport and the authentication of a plan must require.
BindingGrants(p) ==
    {Plain("net"), Plain("connect")}
    \cup (IF p.tls THEN {} ELSE {Plain("insecure")})
    \cup (IF p.auth # None THEN {Plain("secret")} ELSE {})
    \cup (IF p.auth = "client-cert" THEN {Plain("client-cert")} ELSE {})

\* validate_transport_binding
Bind ==
    /\ pc = "binding"
    /\ IF /\ plan.auth # None => plan.secretRef
          /\ BindingGrants(plan) \subseteq plan.required
          /\ plan.checks
       THEN Goto("target") ELSE Return(Err)
    /\ UNCHANGED <<plan, inv, now, cancelled, dialVars, request, peerVars>>

TargetGrants == {Plain("net"), Plain("connect")}
                \cup (IF plan.tls THEN {} ELSE {Plain("insecure")})

\* Mutant: it is enough that one address of the answer is inside the boundary.
InsideBoundaryOne(answer) ==
    \E a \in Elements(answer) : a \in Unsafe => Cidr(a) \in inv.grants

\* Every unsafe address of the answer needs its own grant.
InsideBoundary(answer) ==
    \A a \in Elements(answer) : a \in Unsafe => Cidr(a) \in inv.grants

\* A literal resolves to itself.
Answers == IF plan.literal # None THEN {<<plan.literal>>}
           ELSE UNION {[1 .. n -> Addresses] : n \in 1 .. MaxAddresses}

\* evaluate_runtime_target: the resolver is called once, may take any time,
\* and may fail or answer with nothing or with another port.
Resolve ==
    /\ pc = "target"
    /\ IF ~plan.clean \/ ~(TargetGrants \subseteq inv.grants)
       THEN Return(Denied) /\ UNCHANGED <<now, resolved>>
       ELSE \E d \in 0 .. MaxDns :
               /\ now' = now + d
               /\ \/ Fail(Error("dns-failure")) /\ UNCHANGED resolved
                  \/ \E answer \in Answers :
                        IF InsideBoundary(answer)
                        THEN Goto("grants") /\ resolved' = answer
                        ELSE Return(Denied) /\ UNCHANGED resolved
    /\ UNCHANGED <<plan, inv, cancelled, next, timedOut, address, dialled,
                   lastDial, request, peerVars>>

\* Now all the required grants, the address-dependent ones with them.
CheckGrants ==
    /\ pc = "grants"
    /\ IF plan.required \subseteq inv.grants THEN Goto("request") ELSE Return(Denied)
    /\ UNCHANGED <<plan, inv, now, cancelled, dialVars, request, peerVars>>

-----------------------------------------------------------------------------
(* The request and the connection.                                         *)

\* websocket_request: the secret of a header is read here.
BuildRequest ==
    /\ pc = "request"
    /\ IF \/ plan.auth = "header" /\ inv.secret # "usable"
          \/ plan.auth = "unknown"
       THEN Return(Err) /\ UNCHANGED request
       ELSE /\ request' = IF plan.auth = "header" THEN "secret" ELSE "bare"
            /\ Goto("trace")
    /\ UNCHANGED <<plan, inv, now, cancelled, dialVars, peerVars>>

\* Evidence is stored, or the call returns the store's error.
Store(what, l) ==
    \/ /\ stored' = stored \cup {what} /\ pc' = l
       /\ UNCHANGED <<failure, result>>
    \/ Return(Err)

\* store_websocket_trace, before anything is sent.
StoreTrace ==
    /\ pc = "trace"
    /\ Store("trace", IF plan.tls THEN "tls-config" ELSE "dial")
    /\ UNCHANGED <<plan, inv, now, cancelled, dialVars, request, peerVars>>

\* build_tls_config: roots, then the client identity.
BuildTls ==
    /\ pc = "tls-config"
    /\ IF ~inv.roots \/ (plan.auth = "client-cert" /\ inv.secret # "usable")
       THEN Return(Err) ELSE Goto("dial")
    /\ UNCHANGED <<plan, inv, now, cancelled, dialVars, request, peerVars>>

Deadline == ConnectTimeout

\* Mutant: the deadline is only looked at before the first dial.
LateFirst == next = 1 /\ now > Deadline

Late == now > Deadline

\* What is left for a dial, and never less than a millisecond.
DialTime == IF now < Deadline THEN Deadline - now ELSE 1

\* One turn of connect_pinned's loop: a dial that connects, times out (ours
\* or the kernel's) or fails.
Dial ==
    /\ pc = "dial" /\ next <= Len(resolved) /\ ~Late
    /\ dialled' = dialled \cup {resolved[next]}
    /\ lastDial' = now
    /\ next' = next + 1
    /\ \E d \in 0 .. DialTime : now' = now + d
    /\ \/ Goto("stream") /\ address' = resolved[next] /\ UNCHANGED timedOut
       \/ timedOut' = TRUE /\ UNCHANGED <<pc, address, endVars>>
       \/ UNCHANGED <<pc, timedOut, address, endVars>>
       \/ Fail(Error("connection-failure")) /\ UNCHANGED <<timedOut, address>>
    /\ UNCHANGED <<plan, inv, cancelled, resolved, request, peerVars>>

\* Mutant: with no time left the loop waits for the next address instead.
DialFailsExhausted ==
    /\ pc = "dial" /\ next > Len(resolved)
    /\ Fail(Error(IF timedOut THEN "connect-timeout" ELSE "connection-failure"))
    /\ UNCHANGED <<plan, inv, now, cancelled, dialVars, request, peerVars>>

\* No address is left, or no time.
DialFails ==
    /\ pc = "dial" /\ (next > Len(resolved) \/ Late)
    /\ Fail(Error(IF Late \/ timedOut \/ now >= Deadline THEN "connect-timeout"
                  ELSE "connection-failure"))
    /\ UNCHANGED <<plan, inv, now, cancelled, dialVars, request, peerVars>>

\* websocket_stream: a host that is no server name has no TLS connection.
OpenStream ==
    /\ pc = "stream"
    /\ \/ Goto("upgrade")
       \/ plan.tls /\ Fail(Error("tls-failure"))
    /\ UNCHANGED <<plan, inv, now, cancelled, dialVars, request, peerVars>>

-----------------------------------------------------------------------------
(* The upgrade.                                                            *)

\* io_handshake_failure, for what DeadlineStream or the record layer report.
IoCauses == {"connect-timeout", "unexpected-eof", "io-failure"}
            \cup (IF plan.tls THEN {"tls-failure"} ELSE {})
            \cup (IF cancelled THEN {"cancelled"} ELSE {})

\* A call that moves bytes does so before the connect deadline; one that does
\* not returns when it has passed.
Expiry == IF now < Deadline THEN Deadline ELSE now
MovesBytes == now < Deadline /\ now' \in now .. Deadline
IoFails ==
    \E c \in IoCauses :
       /\ Fail(Error(c))
       /\ CASE c = "connect-timeout" -> now' = Expiry
            [] c = "cancelled"       -> now' \in now .. Expiry
            [] OTHER                 -> MovesBytes

\* The request is written and flushed.  A request over the bound is refused
\* before; write_all retries an interrupted write on a plain stream for ever,
\* and a record layer may do the same, while a flush reports it.  head is how
\* long the header the peer answers with is, 0 if it has no end.
SendUpgrade ==
    /\ pc = "upgrade"
    /\ \/ /\ Goto("read") /\ MovesBytes
          /\ head' \in 0 .. (MaxHandshake + MaxPiece + 1)
       \/ Fail(CheckFailure) /\ UNCHANGED <<now, head>>
       \/ IoFails /\ UNCHANGED head
       \/ cancelled /\ Goto("spin") /\ UNCHANGED <<now, head>>
    /\ UNCHANGED <<plan, inv, cancelled, dialVars, request, received, response,
                   buffered>>

Complete == head # 0 /\ received >= head

\* Mutant: the bound is checked after the read it should prevent.
FullLate == received > MaxHandshake

Full == received >= MaxHandshake

\* One turn of the read loop: the end of the header is looked for before the
\* bound is.
ReadUpgrade ==
    /\ pc = "read" /\ ~Complete
    /\ IF Full
       THEN Fail(CheckFailure) /\ UNCHANGED <<now, received>>
       ELSE \/ /\ \E n \in 1 .. MaxPiece : received' = received + n
               /\ MovesBytes
               /\ UNCHANGED <<pc, endVars>>
            \/ Fail(Error("unexpected-eof")) /\ MovesBytes /\ UNCHANGED received
            \/ IoFails /\ UNCHANGED received
            \/ cancelled /\ plan.tls /\ Goto("spin") /\ UNCHANGED <<now, received>>
    /\ UNCHANGED <<plan, inv, cancelled, dialVars, request, head, response,
                   buffered>>

\* No header when nothing was offered, otherwise one that names an offer.
SubprotocolAgreed(r) ==
    IF r.selected = {} THEN plan.offered = {}
    ELSE Cardinality(r.selected) = 1 /\ r.selected \subseteq plan.offered

\* The checks of perform_upgrade on a response that parses.
Agreed(r) ==
    /\ r.status = 101 /\ r.http11 /\ r.upgrade /\ r.connection
    /\ r.accepts = "expected" /\ ~r.extensions /\ SubprotocolAgreed(r)

WithResponse(c, e) == [cause |-> c, exit |-> e, response |-> TRUE,
                       names |-> {"trace"}]

\* The header is complete: parse it, check it, and account the frames that
\* came with it.
CheckUpgrade ==
    /\ pc = "read" /\ Complete
    /\ \E r \in Responses :
          /\ response' = r
          /\ IF ~r.parses \/ head > MaxHandshake
             THEN Fail(CheckFailure) /\ UNCHANGED buffered
             ELSE IF ~Agreed(r)
             THEN /\ Fail(WithResponse("handshake-check-failed", 1))
                  /\ UNCHANGED buffered
             ELSE /\ buffered' = received - head
                  /\ \/ Goto("handshake")
                     \/ received > head /\ Fail(WithResponse("budget-exhausted", 1))
                     \/ received > head /\ Fail(WithResponse("protocol-violation", 3))
    /\ UNCHANGED <<plan, inv, now, cancelled, dialVars, request, received, head>>

\* store_handshake, and the connection is handed over with the total deadline.
StoreHandshake ==
    /\ pc = "handshake"
    /\ \/ /\ stored' = stored \cup {"handshake"}
          /\ pc' = "done" /\ result' = Connected /\ UNCHANGED failure
       \/ Return(Err)
    /\ UNCHANGED <<plan, inv, now, cancelled, dialVars, request, peerVars>>

-----------------------------------------------------------------------------
(* A failed connection.                                                    *)

\* The handshake of a refused response is evidence too.
FailHandshake ==
    /\ pc = "fail-handshake"
    /\ \/ /\ stored' = stored \cup {"handshake"}
          /\ failure' = [failure EXCEPT !.names = @ \cup {"handshake"}]
          /\ pc' = "fail-transcript" /\ UNCHANGED result
       \/ Return(Err)
    /\ UNCHANGED <<plan, inv, now, cancelled, dialVars, request, peerVars>>

\* Mutant: the transcript of a failed connection is empty and not stored.
FailTranscriptSkipped ==
    /\ pc = "fail-transcript" /\ pc' = "fail-observation" /\ UNCHANGED endVars
    /\ UNCHANGED <<plan, inv, now, cancelled, dialVars, request, peerVars>>

\* failed_observation stores an empty transcript first.
FailTranscript ==
    /\ pc = "fail-transcript"
    /\ Store("transcript", "fail-observation")
    /\ UNCHANGED <<plan, inv, now, cancelled, dialVars, request, peerVars>>

\* persist_websocket_observation
FailObservation ==
    /\ pc = "fail-observation"
    /\ \/ /\ stored' = stored \cup {"observation"}
          /\ pc' = "done" /\ result' = Observed /\ UNCHANGED failure
       \/ Return(Err)
    /\ UNCHANGED <<plan, inv, now, cancelled, dialVars, request, peerVars>>

-----------------------------------------------------------------------------
\* WebSocketCancellation::cancel, from another thread, at any point.
Cancel ==
    /\ inv.cancellable /\ ~cancelled /\ pc # "done"
    /\ cancelled' = TRUE
    /\ UNCHANGED <<plan, inv, pc, now, dialVars, request, peerVars, endVars>>

Spin     == pc = "spin" /\ UNCHANGED vars
Returned == pc = "done" /\ UNCHANGED vars

Step == \/ CheckPlan \/ Bind \/ Resolve \/ CheckGrants \/ BuildRequest
        \/ StoreTrace \/ BuildTls \/ Dial \/ DialFails \/ OpenStream
        \/ SendUpgrade \/ ReadUpgrade \/ CheckUpgrade
        \/ StoreHandshake \/ FailHandshake \/ FailTranscript \/ FailObservation

Next == Step \/ Cancel \/ Spin \/ Returned

Spec == Init /\ [][Next]_vars

\* One thread; the resolver returns, and every other call has a deadline.
FairSpec == Spec /\ WF_vars(Step)

-----------------------------------------------------------------------------
(* Properties.                                                             *)

\* Nothing is dialled unless the plan is the sealed one and the invocation
\* holds everything the plan and its transport and authentication require;
\* every address dialled is one of the single resolution, and all of that
\* resolution, not only what is dialled, is inside the network boundary.  A
\* secret is only ever in a request whose secret was granted.
NetworkJustified ==
    /\ dialled # {} =>
          /\ inv.sealed /\ inv.fingerprints
          /\ plan.required \cup BindingGrants(plan) \subseteq inv.grants
          /\ dialled \subseteq Elements(resolved)
          /\ \A a \in Elements(resolved) \cap Unsafe : Cidr(a) \in inv.grants
    /\ request = "secret" => Plain("secret") \in inv.grants

\* No dial begins after the connect deadline, however long the resolver took
\* and however many addresses it gave, and none ends more than the one
\* millisecond past it that a dial is always given.
DialsInTime ==
    /\ lastDial <= Deadline
    /\ pc \in {"dial", "stream", "upgrade", "read"} /\ dialled # {} => now <= Deadline + 1

\* A connection is only handed over for a response that meets the checks the
\* plan seals, from a header within its bound, and with every piece read after
\* the header and none of the header; no more than one read past the bound is
\* ever held.
UpgradeAsSealed ==
    /\ received < MaxHandshake + MaxPiece
    /\ result.kind = "connected" =>
          /\ response.status = 101 /\ ~response.extensions
          /\ response.selected \subseteq plan.offered
          /\ plan.offered # {} => response.selected # {}
          /\ head \in 1 .. MaxHandshake /\ head + buffered = received

\* What a result names has been stored: an observation is persisted after
\* the trace, the handshake and the transcript it names, and a call that has
\* persisted one returns it.  A denial leaves no evidence and has dialled
\* nothing, and every failure after the trace was stored names the trace.
ResultBacked ==
    pc = "done" =>
       /\ result.names \subseteq stored
       /\ result.kind = "observation" <=> "observation" \in stored
       /\ result.kind = "observation" =>
             /\ "transcript" \in result.names
             /\ "trace" \in stored => "trace" \in result.names
       /\ result.kind = "denied" => stored = {} /\ dialled = {}

\* Every connection attempt that is not cancelled returns.
ConnectReturns == <>(pc = "done" \/ cancelled)
=============================================================================
