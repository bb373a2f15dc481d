--------------------------- MODULE WsInvokeProofs ---------------------------
(***************************************************************************)
(* The safety properties of WsConnect and WsInvoke, for every set of       *)
(* addresses, plans, invocations and responses, for every timeout and      *)
(* bound: first of the connection, whatever is planned, then that the      *)
(* planner and the executor agree, for every source, document and          *)
(* configuration, and with it the theorems about a WebSocket session from  *)
(* its source to its connection.                                           *)
(***************************************************************************)
EXTENDS WsInvoke, FiniteSetTheorems, TLAPS

(* Where the call is, by what has been done already.                       *)
Checked == {"binding", "target", "grants", "request", "trace", "tls-config",
            "dial", "stream", "upgrade", "read", "handshake",
            "fail-handshake", "spin"}
Bound   == Checked \ {"binding"}
Granted == Bound \ {"target", "grants"}
Traced  == Granted \ {"request", "trace"}
Early   == {"plan", "planned", "start", "binding", "target", "grants",
            "request", "trace", "tls-config"}
Ending  == {"fail-handshake", "fail-transcript", "fail-observation"}

(* What the steps need to know of the shape of the state.                  *)
Shape ==
    /\ plan.literal \in Addresses \cup {None}
    /\ now \in Nat /\ resolved \in Seq(Addresses) /\ next \in Nat \ {0}
    /\ received \in Nat /\ head \in Nat /\ buffered \in Nat
    /\ "names" \in DOMAIN failure

(* Each gate stays passed.                                                 *)
GatesPassed ==
    /\ pc \in Checked => inv.sealed /\ inv.fingerprints
    /\ pc \in Bound => BindingGrants(plan) \subseteq plan.required
    /\ pc \in Granted => plan.required \subseteq inv.grants
    /\ InsideBoundary(resolved)

(* Nothing is dialled, and nothing stored, before its time.                *)
NothingYet ==
    /\ pc \in Early => dialled = {}
    /\ pc \in Early \ {"tls-config"} => stored = {}

(* The evidence on the way to a result.                                    *)
EvidenceSoFar ==
    /\ pc \in Traced => "trace" \in stored
    /\ pc \in Ending => /\ failure.names \subseteq stored
                        /\ "trace" \in stored => "trace" \in failure.names
    /\ pc = "fail-observation" => "transcript" \in stored
    /\ pc # "done" => result = Pending /\ "observation" \notin stored

(* The response of a connection that is about to be handed over.           *)
HandshakeAgreed ==
    pc = "handshake" =>
       /\ response.status = 101 /\ ~response.extensions
       /\ response.selected \subseteq plan.offered
       /\ plan.offered # {} => response.selected # {}
       /\ head \in 1 .. MaxHandshake /\ head + buffered = received

ConnectInv ==
    /\ Shape /\ GatesPassed /\ NothingYet /\ EvidenceSoFar /\ HandshakeAgreed
    /\ NetworkJustified /\ DialsInTime /\ UpgradeAsSealed /\ ResultBacked

USE DEF None

-----------------------------------------------------------------------------
(* The three ways a step ends.                                             *)

\* An answer of the resolver is a sequence of addresses.
LEMMA AnswersTyped ==
    ASSUME plan.literal \in Addresses \cup {None}
    PROVE  \A answer \in Answers : answer \in Seq(Addresses)
<1>1. CASE plan.literal # None
  <2>1. plan.literal \in Addresses
    BY <1>1
  <2>2. <<plan.literal>> \in Seq(Addresses)
    BY <2>1
  <2> QED
    BY <1>1, <2>2 DEF Answers
<1>2. CASE plan.literal = None
  <2> SUFFICES ASSUME NEW n \in 1 .. MaxAddresses, NEW answer \in [1 .. n -> Addresses]
               PROVE  answer \in Seq(Addresses)
    BY <1>2 DEF Answers
  <2> n \in Nat
    BY ConnectAssumption
  <2> QED
    OBVIOUS
<1> QED
  BY <1>1, <1>2

\* The gates before anything is resolved preserve the invariant.
LEMMA GatesInv ==
    ASSUME ConnectInv, CheckPlan \/ Bind \/ CheckGrants
    PROVE  ConnectInv'
BY ConnectAssumption
DEF CheckPlan, Bind, CheckGrants, Return, Goto, Fail, Error, Err, Denied,
    Pending, dialVars, peerVars, endVars, ConnectInv, Shape, GatesPassed,
    NothingYet, EvidenceSoFar, HandshakeAgreed, NetworkJustified, DialsInTime,
    UpgradeAsSealed, ResultBacked, Checked, Bound, Granted, Traced, Early,
    Ending, BindingGrants, InsideBoundary, Deadline

\* Resolving preserves the invariant: the answer is inside the boundary.
LEMMA ResolveInv ==
    ASSUME ConnectInv, Resolve
    PROVE  ConnectInv'
<1>1. now' \in Nat
  BY ConnectAssumption DEF ConnectInv, Shape, Resolve
<1>2. resolved' \in Seq(Addresses) /\ InsideBoundary(resolved)'
  BY AnswersTyped
  DEF ConnectInv, Shape, GatesPassed, Resolve, InsideBoundary, Return, Goto, Fail
<1> QED
  BY <1>1, <1>2, ConnectAssumption
  DEF Resolve, Return, Goto, Fail, Error, Err, Denied,
    Pending, dialVars, peerVars, endVars, ConnectInv, Shape, GatesPassed,
    NothingYet, EvidenceSoFar, HandshakeAgreed, NetworkJustified, DialsInTime,
    UpgradeAsSealed, ResultBacked, Checked, Bound, Granted, Traced, Early,
    Ending, BindingGrants, InsideBoundary, Deadline

\* So do the request, its trace and the TLS configuration.
LEMMA RequestInv ==
    ASSUME ConnectInv, BuildRequest \/ StoreTrace \/ BuildTls
    PROVE  ConnectInv'
BY ConnectAssumption
DEF BuildRequest, StoreTrace, BuildTls, Store, Return, Goto, Error, Err,
    Pending, dialVars, peerVars, endVars, ConnectInv, Shape, GatesPassed,
    NothingYet, EvidenceSoFar, HandshakeAgreed, NetworkJustified, DialsInTime,
    UpgradeAsSealed, ResultBacked, Checked, Bound, Granted, Traced, Early,
    Ending, BindingGrants, InsideBoundary, Deadline

\* So does a dial: it takes an address of the resolution, in time.
LEMMA DialInv ==
    ASSUME ConnectInv, Dial
    PROVE  ConnectInv'
<1>1. resolved[next] \in Elements(resolved)
  BY DEF ConnectInv, Shape, Dial, Elements
<1>2. now' \in Nat /\ now <= Deadline /\ now' <= Deadline + 1 /\ now' >= now
  BY ConnectAssumption DEF ConnectInv, Shape, Dial, Late, DialTime, Deadline
<1> QED
  BY <1>1, <1>2, ConnectAssumption
  DEF Dial, Goto, Fail, Error,
    Pending, dialVars, peerVars, endVars, ConnectInv, Shape, GatesPassed,
    NothingYet, EvidenceSoFar, HandshakeAgreed, NetworkJustified, DialsInTime,
    UpgradeAsSealed, ResultBacked, Checked, Bound, Granted, Traced, Early,
    Ending, InsideBoundary

\* So does the end of the dials, and opening the stream.
LEMMA StreamInv ==
    ASSUME ConnectInv, DialFails \/ OpenStream
    PROVE  ConnectInv'
BY ConnectAssumption
DEF DialFails, OpenStream, Goto, Fail, Error,
    Pending, dialVars, peerVars, endVars, ConnectInv, Shape, GatesPassed,
    NothingYet, EvidenceSoFar, HandshakeAgreed, NetworkJustified, DialsInTime,
    UpgradeAsSealed, ResultBacked, Checked, Bound, Granted, Traced, Early,
    Ending, BindingGrants, InsideBoundary
\* A blocked call of the upgrade leaves the time a number, and in time when it
\* moved bytes.
LEMMA IoInTime ==
    ASSUME Shape
    PROVE  /\ MovesBytes => now' \in Nat /\ now' <= Deadline
           /\ IoFails => now' \in Nat
BY ConnectAssumption DEF Shape, MovesBytes, IoFails, Expiry, Deadline

\* Sending the request preserves the invariant.
LEMMA SendInv ==
    ASSUME ConnectInv, SendUpgrade
    PROVE  ConnectInv'
<1>1. now' \in Nat /\ (pc' = "read" => now' <= Deadline)
  BY IoInTime DEF ConnectInv, Shape, SendUpgrade, Goto, Fail, IoFails
<1>2. head' \in Nat
  BY ConnectAssumption DEF ConnectInv, Shape, SendUpgrade
<1>3. \/ pc' \in {"read", "spin"} /\ UNCHANGED endVars
      \/ /\ pc' = "fail-transcript" /\ UNCHANGED <<stored, result>>
         /\ "names" \in DOMAIN failure' /\ failure'.names = stored \cap {"trace"}
  BY DEF SendUpgrade, Goto, Fail, IoFails, CheckFailure, Error, endVars
<1>4. /\ pc = "upgrade"
      /\ UNCHANGED <<plan, inv, dialVars, request, received, response, buffered>>
  BY DEF SendUpgrade
<1>5. Shape' /\ GatesPassed' /\ NothingYet'
  BY <1>1, <1>2, <1>3, <1>4
  DEF dialVars, endVars, ConnectInv, Shape, GatesPassed, NothingYet, Checked,
      Bound, Granted, Early, InsideBoundary
<1>6. EvidenceSoFar' /\ HandshakeAgreed' /\ ResultBacked'
  BY <1>3, <1>4
  DEF endVars, ConnectInv, EvidenceSoFar, HandshakeAgreed, ResultBacked, Traced,
      Granted, Bound, Checked, Ending
<1>7. NetworkJustified' /\ DialsInTime'
  BY <1>1, <1>3, <1>4, ConnectAssumption
  DEF dialVars, ConnectInv, Shape, NetworkJustified, DialsInTime, Deadline
<1>8. UpgradeAsSealed'
  BY <1>3, <1>4
  DEF endVars, ConnectInv, UpgradeAsSealed, EvidenceSoFar, Pending
<1> QED
  BY <1>5, <1>6, <1>7, <1>8 DEF ConnectInv

\* So does reading a piece of the response: none is read once the bound is
\* reached.
LEMMA ReadInv ==
    ASSUME ConnectInv, ReadUpgrade
    PROVE  ConnectInv'
<1>1. now' \in Nat /\ (now' = now \/ pc' # "read" \/ now' <= Deadline)
  BY IoInTime DEF ConnectInv, Shape, ReadUpgrade, Goto, Fail, IoFails
<1>2. received' \in Nat /\ received' < MaxHandshake + MaxPiece
  BY ConnectAssumption
  DEF ConnectInv, Shape, UpgradeAsSealed, ReadUpgrade, Full
<1>3. \/ pc' \in {"read", "spin"} /\ UNCHANGED endVars
      \/ /\ pc' = "fail-transcript" /\ UNCHANGED <<stored, result>>
         /\ "names" \in DOMAIN failure' /\ failure'.names = stored \cap {"trace"}
  BY DEF ReadUpgrade, Goto, Fail, IoFails, CheckFailure, Error, endVars
<1> QED
  BY <1>1, <1>2, <1>3, ConnectAssumption
  DEF ReadUpgrade, Pending, dialVars, endVars, ConnectInv, Shape, GatesPassed,
    NothingYet, EvidenceSoFar, HandshakeAgreed, NetworkJustified, DialsInTime,
    UpgradeAsSealed, ResultBacked, Checked, Bound, Granted, Traced, Early,
    Ending, InsideBoundary, Deadline

\* So does checking the response: what is handed over has been agreed.
LEMMA CheckInv ==
    ASSUME ConnectInv, CheckUpgrade
    PROVE  ConnectInv'
<1>1. PICK r \in Responses :
         /\ response' = r
         /\ IF ~r.parses \/ head > MaxHandshake
            THEN Fail(CheckFailure) /\ UNCHANGED buffered
            ELSE IF ~Agreed(r)
            THEN /\ Fail(WithResponse("handshake-check-failed", 1))
                 /\ UNCHANGED buffered
            ELSE /\ buffered' = received - head
                 /\ \/ Goto("handshake")
                    \/ received > head /\ Fail(WithResponse("budget-exhausted", 1))
                    \/ received > head /\ Fail(WithResponse("protocol-violation", 3))
  BY DEF CheckUpgrade
<1>2. buffered' \in Nat
  BY <1>1 DEF ConnectInv, Shape, CheckUpgrade, Complete
<1>3. \/ /\ pc' = "handshake" /\ UNCHANGED endVars
         /\ Agreed(r) /\ head \in 1 .. MaxHandshake /\ head + buffered' = received
      \/ /\ pc' \in {"fail-transcript", "fail-handshake"} /\ UNCHANGED <<stored, result>>
         /\ "names" \in DOMAIN failure'
         /\ failure'.names \in {stored \cap {"trace"}, {"trace"}}
  BY <1>1, ConnectAssumption
  DEF CheckUpgrade, Complete, Goto, Fail, CheckFailure, Error, WithResponse,
      endVars, ConnectInv, Shape
<1>4. Agreed(r) => /\ r.status = 101 /\ ~r.extensions
                   /\ r.selected \subseteq plan.offered
                   /\ plan.offered # {} => r.selected # {}
  BY DEF Agreed, SubprotocolAgreed
<1> QED
  BY <1>1, <1>2, <1>3, <1>4, ConnectAssumption
  DEF CheckUpgrade, Pending, dialVars, endVars, ConnectInv, Shape, GatesPassed,
    NothingYet, EvidenceSoFar, HandshakeAgreed, NetworkJustified, DialsInTime,
    UpgradeAsSealed, ResultBacked, Checked, Bound, Granted, Traced, Early,
    Ending, InsideBoundary, Deadline

\* So do the steps that store evidence and return.
LEMMA EndInv ==
    ASSUME ConnectInv,
           StoreHandshake \/ FailHandshake \/ FailTranscript \/ FailObservation
    PROVE  ConnectInv'
<1>1. CASE StoreHandshake
  BY <1>1, ConnectAssumption
  DEF StoreHandshake, Return, Err, Connected,
    Pending, dialVars, peerVars, endVars, ConnectInv, Shape, GatesPassed,
    NothingYet, EvidenceSoFar, HandshakeAgreed, NetworkJustified, DialsInTime,
    UpgradeAsSealed, ResultBacked, Checked, Bound, Granted, Traced, Early,
    Ending, InsideBoundary, Deadline
<1>2. CASE FailHandshake
  BY <1>2, ConnectAssumption
  DEF FailHandshake, Return, Err,
    Pending, dialVars, peerVars, endVars, ConnectInv, Shape, GatesPassed,
    NothingYet, EvidenceSoFar, HandshakeAgreed, NetworkJustified, DialsInTime,
    UpgradeAsSealed, ResultBacked, Checked, Bound, Granted, Traced, Early,
    Ending, InsideBoundary, Deadline
<1>3. CASE FailTranscript
  BY <1>3, ConnectAssumption
  DEF FailTranscript, Store, Return, Err,
    Pending, dialVars, peerVars, endVars, ConnectInv, Shape, GatesPassed,
    NothingYet, EvidenceSoFar, HandshakeAgreed, NetworkJustified, DialsInTime,
    UpgradeAsSealed, ResultBacked, Checked, Bound, Granted, Traced, Early,
    Ending, InsideBoundary, Deadline
<1>4. CASE FailObservation
  BY <1>4, ConnectAssumption
  DEF FailObservation, Return, Err, Observed,
    Pending, dialVars, peerVars, endVars, ConnectInv, Shape, GatesPassed,
    NothingYet, EvidenceSoFar, HandshakeAgreed, NetworkJustified, DialsInTime,
    UpgradeAsSealed, ResultBacked, Checked, Bound, Granted, Traced, Early,
    Ending, InsideBoundary, Deadline
<1> QED
  BY <1>1, <1>2, <1>3, <1>4

\* The invariant reads neither the cancellation nor the history of planning.
LEMMA FrameInv ==
    ASSUME ConnectInv,
           UNCHANGED <<plan, inv, pc, now, dialVars, request, peerVars, endVars>>
    PROVE  ConnectInv'
BY DEF dialVars, peerVars, endVars, ConnectInv, Shape, GatesPassed,
    NothingYet, EvidenceSoFar, HandshakeAgreed, NetworkJustified, DialsInTime,
    UpgradeAsSealed, ResultBacked, InsideBoundary, Deadline

\* Every step of a connection preserves the invariant.
LEMMA ConnectStepInv ==
    ASSUME ConnectInv, [Next]_vars
    PROVE  ConnectInv'
<1>1. CASE Step
  BY <1>1, GatesInv, ResolveInv, RequestInv, DialInv, StreamInv, SendInv,
     ReadInv, CheckInv, EndInv DEF Step
<1>2. CASE Cancel \/ Spin \/ Returned \/ UNCHANGED vars
  BY <1>2, FrameInv
  DEF Cancel, Spin, Returned, vars, dialVars, peerVars, endVars
<1> QED
  BY <1>1, <1>2 DEF Next

\* Nothing has happened in a fresh state.
LEMMA FreshInv ==
    ASSUME Fresh, pc \in {"plan", "start"}, plan.literal \in Addresses \cup {None}
    PROVE  ConnectInv
<1>1. resolved \in Seq(Addresses) /\ Elements(resolved) = {}
  BY DEF Fresh, Elements
<1> QED
  BY <1>1, ConnectAssumption
  DEF Fresh, NoFailure, NoResponse, Pending, ConnectInv, Shape, GatesPassed,
    NothingYet, EvidenceSoFar, HandshakeAgreed, NetworkJustified, DialsInTime,
    UpgradeAsSealed, ResultBacked, Checked, Bound, Granted, Traced, Early,
    Ending, InsideBoundary, Deadline

-----------------------------------------------------------------------------
(* The planner and the executor agree.                                     *)

(* What the executor asks of a plan, and the planner writes into it.       *)
Runs(p) ==
    /\ BindingGrants(p) \subseteq p.required
    /\ p.auth # None => p.secretRef
    /\ p.checks /\ p.clean
    /\ p.literal \in UnsafeLiteral => Cidr(p.literal) \in p.required
    /\ p.literal \in Addresses \cup {None}

(* What a sealed plan promises to a configuration.                         *)
WithinPolicy(p, c) ==
    /\ p.target.host \notin c.denied
    /\ c.allowed # {} => p.target.host \in c.allowed
    /\ c.origins # {} => p.origin \in c.origins \cup {None}
    /\ c.subprotocols # << >> =>
          Elements(p.subprotocols) \subseteq Elements(c.subprotocols)
    /\ \A h \in p.headers : h.name \notin c.sensitive
    /\ \A n \in DOMAIN p.limits : p.limits[n] \in 1 .. c.maxima[n]
    /\ Core!ValidateLimits(p.limits)
    /\ \A a \in Elements(p.actions) :
          Expects(a) => a.timeout \in 1 .. p.limits.action_timeout
    /\ Core!ValidateTotals(p.actions, p.limits)
    /\ SendsData(p.actions) /\ c.risk = << >> => p.risk \in {"write", "destructive"}
    /\ /\ p.risk \in {"write", "destructive"} /\ c.approval
       /\ \E s \in c.servers : s.production /\ s.host = p.target.host
                               /\ <<s.scheme, p.target.scheme>> \in
                                    {<<"https", "wss">>, <<"wss", "wss">>,
                                     <<"http", "ws">>, <<"ws", "ws">>}
       => Plain("production") \in p.required

USE DEF None

-----------------------------------------------------------------------------
(* The planner.                                                            *)

\* What is sealed is plannable and sealable, and is the plan that the
\* definition puts together.
LEMMA SealedParts ==
    ASSUME NEW source, NEW cfg,
           NEW p, p = SealWebSocketSource(source, cfg), p.kind # "refused"
    PROVE  /\ Plannable(source, cfg) /\ Sealable(p)
           /\ p.target = source.url /\ p.risk = Risk(source, cfg)
           /\ p.auth = Auth(Profile(source, cfg), cfg)
           /\ p.required = RequiredGrants(source.url, p.risk, p.auth, cfg)
           /\ p.origin = source.origin /\ p.subprotocols = source.subprotocols
           /\ p.headers = source.headers
           /\ p.limits = EffectiveLimits(source.limits, cfg.maxima)
           /\ p.actions = Tightened(source.actions, p.limits.action_timeout)
BY DEF SealWebSocketSource, Refused

\* The executor runs what the planner seals: the grants its transport and its
\* authentication ask for are among the ones the plan requires.
LEMMA SealedRuns ==
    ASSUME NEW source, NEW cfg,
           NEW p, p = SealWebSocketSource(source, cfg), p.kind # "refused"
    PROVE  Runs(Executable(p))
<1>1. /\ source.url.scheme \in {"ws", "wss"} /\ source.url.clean
      /\ AuthBinds(Profile(source, cfg), cfg)
  BY SealedParts DEF Plannable, WebSocketTarget
<1>2. \/ p.auth = NoAuth
      \/ p.auth # NoAuth /\ p.auth.placement \in {"header", "client-cert"}
  <2> DEFINE profile == Profile(source, cfg)
             type    == cfg.profiles[profile].type
  <2>1. p.auth = Auth(profile, cfg)
    BY SealedParts
  <2>2. CASE profile = None
    BY <2>1, <2>2 DEF Auth
  <2>3. CASE profile # None
    <3>1. p.auth = [profile |-> profile, placement |-> Placement(type)]
      BY <2>1, <2>3 DEF Auth
    <3>2. Placement(type) \in {"header", "client-cert"}
      BY <1>1, <2>3 DEF AuthBinds, Placement
    <3>3. NoAuth.profile = None /\ p.auth.profile # None
      BY <3>1, <2>3 DEF NoAuth
    <3> QED
      BY <3>1, <3>2, <3>3
  <2> QED
    BY <2>2, <2>3
<1>3. p.required = RequiredGrants(source.url, p.risk, p.auth, cfg) /\ p.target = source.url
  BY SealedParts
<1> DEFINE e == Executable(p)
<1>a. /\ e.tls = (p.target.scheme = "wss") /\ e.auth = p.auth.placement
      /\ e.secretRef = (p.auth # NoAuth) /\ e.required = p.required
  BY Zenon DEF Executable
<1>b. NoAuth.placement = None
  BY DEF NoAuth
<1>4. BindingGrants(e) \subseteq p.required
  <2>1. {Plain("net"), Plain("connect")} \subseteq p.required
    BY <1>3 DEF RequiredGrants
  <2>2. ~e.tls => Plain("insecure") \in p.required
    BY <1>1, <1>3, <1>a DEF RequiredGrants, When
  <2>3. e.auth # None => Plain("secret") \in p.required
    BY <1>2, <1>3, <1>a, <1>b DEF RequiredGrants, AuthGrants, When
  <2>4. e.auth = "client-cert" => Plain("client-cert") \in p.required
    BY <1>3, <1>a DEF RequiredGrants, AuthGrants, When
  <2> QED
    BY <2>1, <2>2, <2>3, <2>4 DEF BindingGrants
<1>5. ASSUME Executable(p).literal \in UnsafeLiteral
      PROVE  Cidr(Executable(p).literal) \in p.required
  BY <1>3, <1>5, LiteralAssumption, ConnectAssumption
  DEF Executable, RequiredGrants, LiteralGrants, When
<1>6. Executable(p).literal \in Addresses \cup {None}
  BY LiteralAssumption DEF Executable
<1>7. Executable(p).auth # None => Executable(p).secretRef
  BY <1>2, <1>a, <1>b
<1> QED
  BY <1>1, <1>3, <1>4, <1>5, <1>6, <1>7 DEF Runs, Executable
\* Limits that are valid together are positive, and the lesser of two is not
\* looser than either.
LEMMA LimitsTightened ==
    ASSUME NEW requested \in LimitSets, NEW maximum \in LimitSets,
           Core!ValidateLimits(EffectiveLimits(requested, maximum))
    PROVE  /\ EffectiveLimits(requested, maximum) \in LimitSets
           /\ \A n \in Core!LimitNames :
                 EffectiveLimits(requested, maximum)[n] \in 1 .. maximum[n]
BY DEF LimitSets, EffectiveLimits, Least, Core!ValidateLimits

\* Tightening keeps the types of the actions and gives every expectation a
\* timeout.
LEMMA ActionsTightened ==
    ASSUME NEW actions, ActionsFormed(actions), NEW maximum \in Nat,
           NEW i \in DOMAIN actions
    PROVE  /\ Tightened(actions, maximum)[i].type = actions[i].type
           /\ Expects(Tightened(actions, maximum)[i]) =>
                 Tightened(actions, maximum)[i].timeout # NoTimeout
<1> DEFINE t == Tightened(actions, maximum)
           x == IF actions[i].timeout = NoTimeout THEN maximum
                ELSE Least(actions[i].timeout, maximum)
<1>1. {"type", "timeout"} \subseteq DOMAIN actions[i]
  BY DEF ActionsFormed
<1>3. CASE Expects(actions[i])
  <2>1. t[i] = [actions[i] EXCEPT !.timeout = x]
    BY <1>3 DEF Tightened
  <2>2. t[i].type = actions[i].type /\ t[i].timeout = x
    BY <2>1, <1>1
  <2>3. x # NoTimeout
    BY DEF Least, NoTimeout
  <2> QED
    BY <2>2, <2>3
<1>4. CASE ~Expects(actions[i])
  BY <1>4 DEF Tightened
<1> QED
  BY <1>3, <1>4

\* A sealed plan stays within the policy of its configuration.
LEMMA SealedWithinPolicy ==
    ASSUME NEW source, NEW cfg, SourceFormed(source), cfg.maxima \in LimitSets,
           NEW p, p = SealWebSocketSource(source, cfg), p.kind # "refused"
    PROVE  WithinPolicy(p, cfg)
<1>1. Plannable(source, cfg) /\ Sealable(p)
  BY SealedParts
<1>2. /\ p.target = source.url /\ p.risk = Risk(source, cfg)
      /\ p.required = RequiredGrants(source.url, p.risk, p.auth, cfg)
      /\ p.origin = source.origin /\ p.subprotocols = source.subprotocols
      /\ p.headers = source.headers
      /\ p.limits = EffectiveLimits(source.limits, cfg.maxima)
      /\ p.actions = Tightened(source.actions, p.limits.action_timeout)
  BY SealedParts
<1>3. /\ p.target.host \notin cfg.denied
      /\ cfg.allowed # {} => p.target.host \in cfg.allowed
      /\ cfg.origins # {} => p.origin \in cfg.origins \cup {None}
      /\ cfg.subprotocols # << >> =>
            Elements(p.subprotocols) \subseteq Elements(cfg.subprotocols)
      /\ \A h \in p.headers : h.name \notin cfg.sensitive
  BY <1>1, <1>2
  DEF Plannable, HostAllowed, OriginAllowed, SubprotocolsAllowed, HeadersAllowed
<1>4. /\ Core!ValidateLimits(p.limits) /\ p.limits \in LimitSets
      /\ \A n \in DOMAIN p.limits : p.limits[n] \in 1 .. cfg.maxima[n]
  <2>1. Core!ValidateLimits(p.limits)
    BY <1>1 DEF Sealable
  <2>2. p.limits \in LimitSets
    BY <1>2, <2>1, LimitsTightened DEF SourceFormed
  <2>3. \A n \in Core!LimitNames : p.limits[n] \in 1 .. cfg.maxima[n]
    BY <1>2, <2>1, LimitsTightened DEF SourceFormed
  <2> QED
    BY <2>1, <2>2, <2>3 DEF LimitSets
<1>5. p.limits.action_timeout \in Nat
  BY <1>4 DEF LimitSets, Core!LimitNames
<1>a. DOMAIN p.actions = DOMAIN source.actions /\ ActionsFormed(source.actions)
  BY <1>2 DEF Tightened, SourceFormed
<1>6. ASSUME NEW a \in Elements(p.actions), Expects(a)
      PROVE  a.timeout \in 1 .. p.limits.action_timeout
  <2>1. PICK i \in DOMAIN source.actions : a = p.actions[i]
    BY <1>a DEF Elements
  <2>2. a.timeout # NoTimeout
    BY <1>2, <1>5, <1>6, <1>a, <2>1, ActionsTightened
  <2> QED
    BY <1>1, <2>2 DEF Sealable, TimeoutValid
<1>7. Core!ValidateTotals(p.actions, p.limits)
  BY <1>1 DEF Sealable, Core!ValidatePlan
<1>8. ASSUME SendsData(p.actions), cfg.risk = << >>
      PROVE  p.risk \in {"write", "destructive"}
  <2>1. SendsData(source.actions)
    <3>1. PICK i \in DOMAIN source.actions : p.actions[i].type \in Core!SendTypes
      BY <1>8, <1>a DEF SendsData, Elements
    <3>2. p.actions[i].type = source.actions[i].type
      BY <1>2, <1>5, <1>a, ActionsTightened
    <3> QED
      BY <3>1, <3>2 DEF SendsData, Elements
  <2>2. source.operation \notin DOMAIN cfg.risk
    BY <1>8
  <2> QED
    BY <1>2, <2>1, <2>2 DEF Risk, SourceFormed
<1>9. ASSUME p.risk \in {"write", "destructive"}, cfg.approval,
             NEW s \in cfg.servers, s.production, s.host = p.target.host,
             <<s.scheme, p.target.scheme>> \in
                {<<"https", "wss">>, <<"wss", "wss">>,
                 <<"http", "ws">>, <<"ws", "ws">>}
      PROVE  Plain("production") \in p.required
  <2>1. OriginTransportScheme(s.scheme)
           = OriginTransportScheme(source.url.scheme)
    BY <1>2, <1>9 DEF OriginTransportScheme
  <2>2. ProductionTarget(source.url, cfg)
    BY <1>2, <1>9, <2>1 DEF ProductionTarget
  <2> QED
    BY <1>2, <1>9, <2>2 DEF RequiredGrants, When
<1> QED
  BY <1>3, <1>4, <1>6, <1>7, <1>8, <1>9 DEF WithinPolicy

\* A compiled operation is as well formed as a source that was written.
LEMMA CompiledFormed ==
    ASSUME NEW doc, DocumentFormed(doc), NEW v, v.op \in doc.operations,
           NEW options, NEW limits \in LimitSets
    PROVE  SourceFormed(Compile(doc, v, options, limits))
<1> DEFINE source == Compile(doc, v, options, limits)
<1>1. source.limits = limits /\ source.risk \in {"write", "unknown"}
  BY DEF Compile
<1>2. source.actions = Or(v.op.actions, <<MessageAction(v.op, v.message), CompleteClose>>)
  BY DEF Compile
<1>3. {"type", "timeout"} \subseteq DOMAIN MessageAction(v.op, v.message)
  BY DEF MessageAction
<1>4. {"type", "timeout"} \subseteq DOMAIN CompleteClose
  BY DEF CompleteClose
<1>5. ActionsFormed(source.actions)
  <2>1. CASE v.op.actions # Missing
    BY <1>2, <2>1 DEF Or, DocumentFormed
  <2>2. CASE v.op.actions = Missing
    <3>1. source.actions = <<MessageAction(v.op, v.message), CompleteClose>>
      BY <1>2, <2>2 DEF Or
    <3> QED
      BY <3>1, <1>3, <1>4 DEF ActionsFormed
  <2> QED
    BY <2>1, <2>2
<1> QED
  BY <1>1, <1>5 DEF SourceFormed

\* What BuildPlan builds, from a source or from a document, stays within its
\* policy and is a plan the executor runs.
LEMMA BuiltPlan ==
    ASSUME NEW j \in Jobs, NEW p, p = BuildPlan(j), p.kind # "refused"
    PROVE  WithinPolicy(p, j.cfg) /\ Runs(Executable(p))
<1>1. j.cfg.maxima \in LimitSets
  BY JobsAssumption
<1>2. CASE j.kind = "source"
  <2>1. SourceFormed(j.source) /\ p = SealWebSocketSource(j.source, j.cfg)
    BY <1>2, JobsAssumption DEF BuildPlan
  <2> QED
    BY <1>1, <2>1, SealedRuns, SealedWithinPolicy
<1>3. CASE j.kind # "source"
  <2> DEFINE doc    == j.doc
             found  == Matching(doc, j.selector)
             v      == CHOOSE x \in found : TRUE
             limits == Or(v.op.limits, Or(doc.limits, j.cfg.maxima))
             source == Compile(doc, v, j.options, limits)
  <2>1. DocumentFormed(doc) /\ p = BuildAsyncApiPlan(doc, j.selector, j.options, j.cfg)
    BY <1>3, JobsAssumption DEF BuildPlan
  <2>2. Cardinality(found) = 1 /\ p = SealWebSocketSource(source, j.cfg)
    BY <2>1 DEF BuildAsyncApiPlan, Refused
  <2>3. v \in found
    BY <2>2, FS_EmptySet
  <2>4. v.op \in doc.operations
    <3> HIDE DEF v
    <3>1. v \in CollectOperations(doc)
      BY <2>3 DEF Matching
    <3>2. PICK o \in doc.operations : \E i \in DOMAIN o.messages :
             v = [op |-> o, message |-> o.messages[i], id |-> VariantId(o, i)]
      BY <3>1 DEF CollectOperations
    <3> QED
      BY <3>2
  <2>5. limits \in LimitSets
    BY <1>1, <2>1, <2>4 DEF DocumentFormed, Or
  <2>6. SourceFormed(source)
    BY <2>1, <2>4, <2>5, CompiledFormed
  <2> QED
    BY <1>1, <2>2, <2>6, SealedRuns, SealedWithinPolicy
<1> QED
  BY <1>2, <1>3

-----------------------------------------------------------------------------
(* From the plan to the connection.                                        *)

(* Where a session that was planned stands.                                *)
Planning ==
    /\ pc \in {"plan", "planned"} => job \in Jobs /\ ~planned
    /\ pc = "planned" => WithinPolicy(sealedPlan, job.cfg)
                         /\ Runs(Executable(sealedPlan))
    /\ planned => Runs(plan)
    /\ planned \in BOOLEAN

(* What an error after the gates has behind it.                            *)
Reached ==
    /\ pc \in (Granted \ Ending) \cup {"grants"} => resolved # << >>
    /\ pc \in Ending => "cause" \in DOMAIN failure /\ failure.cause # None

InvokeInv == ConnectInv /\ Planning /\ Reached /\ PlannedExecutable

\* A step of the connection keeps what planning has settled.
LEMMA PlanningKept ==
    ASSUME Planning, [Next]_vars, UNCHANGED planning, pc \notin {"plan", "planned"}
    PROVE  Planning'
<1>1. UNCHANGED <<plan, planned>>
  BY DEF Next, Step, vars, planning, CheckPlan, Bind, Resolve, CheckGrants,
     BuildRequest, StoreTrace, BuildTls, Dial, DialFails, OpenStream,
     SendUpgrade, ReadUpgrade, CheckUpgrade, StoreHandshake, FailHandshake,
     FailTranscript, FailObservation, Cancel, Spin, Returned
<1>2. pc' \notin {"plan", "planned"}
  BY DEF Next, Step, vars, planning, CheckPlan, Bind, Resolve, CheckGrants,
     BuildRequest, StoreTrace, BuildTls, Dial, DialFails, OpenStream,
     SendUpgrade, ReadUpgrade, CheckUpgrade, StoreHandshake, FailHandshake,
     FailTranscript, FailObservation, Cancel, Spin, Returned, Store, Return,
     Goto, Fail, IoFails, endVars
<1> QED
  BY <1>1, <1>2 DEF Planning, Runs, BindingGrants

\* A failure that is reported has its cause.
LEMMA FailsWithCause ==
    ASSUME \/ \E c : c # None /\ Fail(Error(c))
           \/ Fail(CheckFailure)
           \/ \E c, e : c # None /\ Fail(WithResponse(c, e))
    PROVE  /\ pc' \in Ending /\ pc' # "fail-observation"
           /\ "cause" \in DOMAIN failure' /\ failure'.cause # None
<1>1. ASSUME NEW c, c # None, Fail(Error(c))
      PROVE  pc' = "fail-transcript" /\ "cause" \in DOMAIN failure' /\ failure'.cause = c
  BY <1>1 DEF Fail, Error
<1>2. ASSUME Fail(CheckFailure)
      PROVE  /\ pc' = "fail-transcript" /\ "cause" \in DOMAIN failure'
             /\ failure'.cause = "handshake-check-failed"
  BY <1>2 DEF Fail, CheckFailure, Error
<1>3. ASSUME NEW c, NEW e, c # None, Fail(WithResponse(c, e))
      PROVE  pc' = "fail-handshake" /\ "cause" \in DOMAIN failure' /\ failure'.cause = c
  BY <1>3 DEF Fail, WithResponse
<1> QED
  BY <1>1, <1>2, <1>3 DEF Ending

\* The gates refuse no plan of the planner for what it lacks.
LEMMA GatesReached ==
    ASSUME InvokeInv, CheckPlan \/ Bind \/ CheckGrants, UNCHANGED planning
    PROVE  Reached' /\ PlannedExecutable'
<1>1. CASE CheckPlan
  <2>1. CASE Fail(Error("cancelled"))
    BY <1>1, <2>1, FailsWithCause
    DEF Reached, PlannedExecutable, Granted, Bound, Checked, Ending
  <2>2. CASE Goto("binding") \/ Return(Err) \/ Return(Denied)
    BY <1>1, <2>2
    DEF CheckPlan, Return, Goto, Err, Denied, dialVars, endVars, planning,
        Reached, PlannedExecutable, Granted, Bound, Checked, Ending, Fail
  <2> QED
    BY <1>1, <2>1, <2>2 DEF CheckPlan
<1>2. CASE Bind
  BY <1>2
  DEF Bind, Return, Goto, Err, dialVars, peerVars, endVars, planning, InvokeInv,
      Planning, Runs, Reached, PlannedExecutable, Granted, Bound, Checked, Ending
<1>3. CASE CheckGrants
  BY <1>3
  DEF CheckGrants, Return, Goto, Denied, dialVars, peerVars, endVars, planning,
      InvokeInv, Reached, PlannedExecutable, Granted, Bound, Checked, Ending
<1> QED
  BY <1>1, <1>2, <1>3

\* A literal address the planner knew is inside the boundary of its grants.
LEMMA ResolveReached ==
    ASSUME InvokeInv, Resolve, UNCHANGED planning
    PROVE  Reached' /\ PlannedExecutable'
<1>1. \A answer \in Answers : answer # << >>
  BY ConnectAssumption DEF Answers
<1>2. Reached'
  <2>1. \/ Fail(Error("dns-failure")) \/ pc' = "done"
        \/ pc' = "grants" /\ resolved' # << >>
    BY <1>1 DEF Resolve, Return, Goto
  <2> QED
    BY <2>1, FailsWithCause DEF Reached, Granted, Bound, Checked, Ending
<1>3. ASSUME planned, inv.sealed, inv.fingerprints, plan.required \subseteq inv.grants,
             pc' = "done"
      PROVE  result'.kind # "err" /\ plan.literal \notin UnsafeLiteral
  <2>1. Runs(plan)
    BY <1>3 DEF InvokeInv, Planning
  <2>2. plan.clean /\ TargetGrants \subseteq inv.grants
    BY <1>3, <2>1 DEF Runs, TargetGrants, BindingGrants
  <2>3. PICK answer \in Answers : ~InsideBoundary(answer) /\ Return(Denied)
    BY <1>3, <2>2 DEF Resolve, Fail, Goto
  <2>4. ASSUME plan.literal \in UnsafeLiteral
        PROVE  FALSE
    <3>1. plan.literal # None
      BY <2>4, LiteralAssumption, ConnectAssumption
    <3>2. answer = <<plan.literal>>
      BY <3>1 DEF Answers
    <3>3. Elements(answer) = {plan.literal}
      BY <3>2 DEF Elements
    <3> QED
      BY <1>3, <2>1, <2>3, <2>4, <3>3 DEF Runs, InsideBoundary
  <2> QED
    BY <2>3, <2>4 DEF Return, Denied
<1> QED
  BY <1>2, <1>3 DEF Resolve, planning, PlannedExecutable

\* After the gates every error has a resolution or a cause behind it.
LEMMA StepReached ==
    ASSUME InvokeInv, Step, UNCHANGED planning
    PROVE  Reached' /\ PlannedExecutable'
<1>1. CASE CheckPlan \/ Bind \/ CheckGrants
  BY <1>1, GatesReached
<1>2. CASE Resolve
  BY <1>2, ResolveReached
<1>3. CASE BuildRequest \/ StoreTrace \/ BuildTls
  BY <1>3
  DEF BuildRequest, StoreTrace, BuildTls, Store, Return, Goto, Err, dialVars,
      endVars, planning, InvokeInv, Reached, PlannedExecutable, Granted, Bound,
      Checked, Ending
<1>4. CASE Dial \/ DialFails \/ OpenStream
  <2>1. /\ pc \in {"dial", "stream"} /\ UNCHANGED resolved
        /\ \/ pc' \in {"dial", "stream", "upgrade"}
           \/ \E c : c # None /\ Fail(Error(c))
    BY <1>4 DEF Dial, DialFails, OpenStream, Goto, endVars, dialVars
  <2> QED
    BY <2>1, FailsWithCause
    DEF InvokeInv, Reached, PlannedExecutable, Granted, Bound, Checked, Ending
<1>5. CASE SendUpgrade \/ ReadUpgrade \/ CheckUpgrade
  <2>1. \A c \in IoCauses : c # None
    BY DEF IoCauses
  <2>2. /\ pc \in {"upgrade", "read"} /\ UNCHANGED resolved
        /\ \/ pc' \in {"read", "spin", "handshake"}
           \/ \E c : c # None /\ Fail(Error(c))
           \/ Fail(CheckFailure)
           \/ \E c, e : c # None /\ Fail(WithResponse(c, e))
    BY <1>5, <2>1
    DEF SendUpgrade, ReadUpgrade, CheckUpgrade, Goto, IoFails, dialVars, endVars
  <2> QED
    BY <2>2, FailsWithCause
    DEF InvokeInv, Reached, PlannedExecutable, Granted, Bound, Checked, Ending
<1>6. CASE StoreHandshake
  BY <1>6
  DEF StoreHandshake, Return, Err, Connected, dialVars, planning, InvokeInv,
      Reached, PlannedExecutable, Granted, Bound, Checked, Ending
<1>7. CASE FailHandshake \/ FailTranscript \/ FailObservation
  <2>1. pc \in Ending /\ pc' \in Ending \cup {"done"}
    BY <1>7 DEF FailHandshake, FailTranscript, FailObservation, Store, Return, Ending
  <2>3. "cause" \in DOMAIN failure' /\ failure'.cause = failure.cause
    BY <1>7, <2>1
    DEF FailHandshake, FailTranscript, FailObservation, Store, Return, InvokeInv,
        Reached
  <2>2. pc' = "done" => result'.kind # "denied"
    BY <1>7 DEF FailHandshake, FailTranscript, FailObservation, Store, Return,
                Err, Observed
  <2> QED
    BY <2>1, <2>2, <2>3 DEF InvokeInv, Reached, PlannedExecutable, Granted, Bound,
                            Checked, Ending
<1> QED
  BY <1>1, <1>2, <1>3, <1>4, <1>5, <1>6, <1>7 DEF Step

\* Every step of an invocation preserves the invariant.
LEMMA InvokeStepInv ==
    ASSUME InvokeInv, [InvokeNext]_invokeVars
    PROVE  InvokeInv'
<1>1. CASE PlanSession
  <2>1. /\ pc = "plan" /\ job \in Jobs /\ ~planned
        /\ UNCHANGED <<plan, inv, now, cancelled, dialVars, request, peerVars, job, planned>>
    BY <1>1 DEF PlanSession, InvokeInv, Planning
  <2>2. \/ Return(Err) /\ UNCHANGED sealedPlan
        \/ /\ pc' = "planned" /\ UNCHANGED endVars
           /\ sealedPlan' = BuildPlan(job) /\ sealedPlan'.kind # "refused"
    BY <1>1 DEF PlanSession
  <2>3. ConnectInv'
    BY <2>1, <2>2, ConnectAssumption
    DEF Return, Err, Pending, dialVars, peerVars, endVars, InvokeInv, ConnectInv,
        Shape, GatesPassed, NothingYet, EvidenceSoFar, HandshakeAgreed,
        NetworkJustified, DialsInTime, UpgradeAsSealed, ResultBacked, Checked,
        Bound, Granted, Traced, Early, Ending, InsideBoundary, Deadline
  <2>4. Planning'
    <3>1. CASE Return(Err)
      BY <2>1, <3>1 DEF Return, InvokeInv, Planning
    <3>2. CASE /\ pc' = "planned"
               /\ sealedPlan' = BuildPlan(job) /\ sealedPlan'.kind # "refused"
      <4>1. WithinPolicy(sealedPlan', job.cfg) /\ Runs(Executable(sealedPlan'))
        BY <2>1, <3>2, BuiltPlan
      <4> QED
        BY <2>1, <3>2, <4>1 DEF InvokeInv, Planning
    <3> QED
      BY <2>2, <3>1, <3>2
  <2>5. Reached' /\ PlannedExecutable'
    BY <2>1, <2>2 DEF Return, Reached, PlannedExecutable, Granted, Bound, Checked,
                      Ending
  <2> QED
    BY <2>3, <2>4, <2>5 DEF InvokeInv
<1>2. CASE StorePlan
  <2>1. /\ pc = "planned" /\ ~planned /\ Runs(Executable(sealedPlan))
        /\ UNCHANGED <<inv, now, cancelled, dialVars, request, peerVars>>
    BY <1>2 DEF StorePlan, InvokeInv, Planning
  <2>2. CASE Return(Err) /\ UNCHANGED <<plan, planning>>
    <3>1. ConnectInv'
      BY <2>1, <2>2, ConnectAssumption
      DEF Return, Err, Pending, dialVars, peerVars, endVars, InvokeInv, ConnectInv,
          Shape, GatesPassed, NothingYet, EvidenceSoFar, HandshakeAgreed,
          NetworkJustified, DialsInTime, UpgradeAsSealed, ResultBacked, Checked,
          Bound, Granted, Traced, Early, Ending, InsideBoundary, Deadline
    <3>2. Planning' /\ Reached' /\ PlannedExecutable'
      BY <2>1, <2>2 DEF Return, planning, InvokeInv, Planning, Reached,
                        PlannedExecutable, Granted, Bound, Checked, Ending
    <3> QED
      BY <3>1, <3>2 DEF InvokeInv
  <2>3. CASE Goto("start") /\ plan' = Executable(sealedPlan) /\ planned' = TRUE
    <3>1. plan'.literal \in Addresses \cup {None} /\ Runs(plan')
      BY <2>1, <2>3 DEF Runs
    <3>2. ConnectInv'
      BY <2>1, <2>3, <3>1, ConnectAssumption
      DEF Goto, Pending, dialVars, peerVars, endVars, InvokeInv, ConnectInv,
          Shape, GatesPassed, NothingYet, EvidenceSoFar, HandshakeAgreed,
          NetworkJustified, DialsInTime, UpgradeAsSealed, ResultBacked, Checked,
          Bound, Granted, Traced, Early, Ending, InsideBoundary, Deadline
    <3>3. Planning' /\ Reached' /\ PlannedExecutable'
      BY <2>3, <3>1 DEF Goto, InvokeInv, Planning, Reached, PlannedExecutable,
                        Granted, Bound, Checked, Ending, Runs, BindingGrants
    <3> QED
      BY <3>2, <3>3 DEF InvokeInv
  <2> QED
    BY <1>2, <2>2, <2>3 DEF StorePlan
<1>3. CASE pc \notin {"plan", "planned"} /\ Connect(Next)
  <2>1. ConnectInv' /\ Planning'
    BY <1>3, ConnectStepInv, PlanningKept DEF Connect, InvokeInv
  <2>2. CASE Step
    BY <1>3, <2>1, <2>2, StepReached DEF Connect, InvokeInv
  <2>3. CASE Cancel \/ Spin \/ Returned
    BY <1>3, <2>1, <2>3
    DEF Connect, Cancel, Spin, Returned, vars, planning, dialVars, endVars,
        InvokeInv, Reached, PlannedExecutable
  <2> QED
    BY <1>3, <2>2, <2>3 DEF Connect, Next
<1>4. CASE UNCHANGED invokeVars
  <2>1. ConnectInv'
    BY <1>4, FrameInv DEF invokeVars, vars, dialVars, peerVars, endVars, InvokeInv
  <2>2. Planning'
    BY <1>4 DEF invokeVars, vars, planning, InvokeInv, Planning, Runs, BindingGrants
  <2>3. Reached' /\ PlannedExecutable'
    BY <1>4 DEF invokeVars, vars, planning, InvokeInv, Reached, PlannedExecutable
  <2> QED
    BY <2>1, <2>2, <2>3 DEF InvokeInv
<1> QED
  BY <1>1, <1>2, <1>3, <1>4 DEF InvokeNext

\* An invocation begins with nothing done.
LEMMA InvokeInitInv == InvokeInit => InvokeInv
<1> SUFFICES ASSUME InvokeInit PROVE InvokeInv
  OBVIOUS
<1>1. plan.literal \in Addresses \cup {None}
  BY ConnectAssumption DEF InvokeInit, NoPlan, Plan
<1>2. ConnectInv
  BY <1>1, FreshInv DEF InvokeInit
<1>3. Planning /\ Reached /\ PlannedExecutable
  BY DEF InvokeInit, Planning, Reached, PlannedExecutable, Granted, Bound, Checked,
         Ending
<1> QED
  BY <1>2, <1>3 DEF InvokeInv

-----------------------------------------------------------------------------
(* The theorems.                                                           *)

\* The inductive invariant holds of every invocation.
THEOREM InvokeInvariant == InvokeSpec => []InvokeInv
BY InvokeInitInv, InvokeStepInv, PTL DEF InvokeSpec

\* What is planned stays within its policy: seal_websocket_source, for every
\* source, document and configuration.
THEOREM PolicyHolds == InvokeSpec => []PlanWithinPolicy
<1>1. InvokeInv => PlanWithinPolicy
  BY DEF InvokeInv, Planning, WithinPolicy, PlanWithinPolicy
<1> QED
  BY <1>1, InvokeInvariant, PTL

\* The executor runs what the planner seals, given the grants it lists.
THEOREM PlannerAndExecutorAgree == InvokeSpec => []PlannedExecutable
<1>1. InvokeInv => PlannedExecutable
  BY DEF InvokeInv
<1> QED
  BY <1>1, InvokeInvariant, PTL

\* connect_websocket dials nothing it may not, for every set of addresses,
\* grants and plans, whoever made the plan.
THEOREM NetworkIsJustified == InvokeSpec => []NetworkJustified
<1>1. InvokeInv => NetworkJustified
  BY DEF InvokeInv, ConnectInv
<1> QED
  BY <1>1, InvokeInvariant, PTL

\* No dial of connect_pinned begins after the deadline, for every deadline and
\* however long the resolver takes.
THEOREM DialsAreInTime == InvokeSpec => []DialsInTime
<1>1. InvokeInv => DialsInTime
  BY DEF InvokeInv, ConnectInv
<1> QED
  BY <1>1, InvokeInvariant, PTL

\* perform_upgrade hands over what the plan seals, for every response and cut.
THEOREM UpgradeIsSealed == InvokeSpec => []UpgradeAsSealed
<1>1. InvokeInv => UpgradeAsSealed
  BY DEF InvokeInv, ConnectInv
<1> QED
  BY <1>1, InvokeInvariant, PTL

\* What a call returns is backed by evidence, whichever store fails.
THEOREM ResultsAreBacked == InvokeSpec => []ResultBacked
<1>1. InvokeInv => ResultBacked
  BY DEF InvokeInv, ConnectInv
<1> QED
  BY <1>1, InvokeInvariant, PTL

=============================================================================
