------------------------------ MODULE WsInvoke ------------------------------
(***************************************************************************)
(* A WebSocket session from its source to its connection: WsPlanning or    *)
(* AsyncApi seals a plan, the plan is stored and read back, and WsConnect  *)
(* runs it.  A plan file may also come from elsewhere: its seal is a       *)
(* digest anybody can compute.                                             *)
(***************************************************************************)
EXTENDS WsConnect, AsyncApi

CONSTANT Jobs   \* what is planned: a source or an operation of a document

\* The executor knows every address the planner knows to be unsafe.
ASSUME LiteralAssumption ==
    /\ \A h \in DOMAIN AddressOf : AddressOf[h] \in Addresses
    /\ UnsafeLiteral \subseteq Unsafe

LimitSets == [Core!LimitNames -> Nat]

\* What the deserializer sees to: numbers as limits, records as actions.
ActionsFormed(actions) ==
    \A i \in DOMAIN actions : {"type", "timeout"} \subseteq DOMAIN actions[i]

SourceFormed(source) ==
    /\ source.limits \in LimitSets /\ ActionsFormed(source.actions)
    /\ source.risk \in {None, "read", "write", "destructive", "unknown"}

DocumentFormed(doc) ==
    /\ doc.limits \in LimitSets \cup {Missing}
    /\ \A o \in doc.operations :
          /\ o.limits \in LimitSets \cup {Missing}
          /\ o.actions # Missing => ActionsFormed(o.actions)

ASSUME JobsAssumption ==
    \A j \in Jobs :
       /\ j.cfg.maxima \in LimitSets
       /\ j.kind = "source" => SourceFormed(j.source)
       /\ j.kind # "source" => DocumentFormed(j.doc)

VARIABLES job, sealedPlan,
          planned   \* whether the plan that is run is the planner's

planning   == <<job, sealedPlan, planned>>
invokeVars == <<vars, planning>>

NoJob  == [kind |-> "none"]
NoPlan == [tls |-> FALSE, auth |-> None, secretRef |-> FALSE, required |-> {},
           checks |-> FALSE, clean |-> FALSE, offered |-> {}, literal |-> None]

InvokeInit ==
    /\ Fresh /\ inv \in Invocations
    /\ \/ job \in Jobs /\ pc = "plan" /\ plan = NoPlan
       \/ job = NoJob /\ pc = "start" /\ plan \in Plans
    /\ sealedPlan = Refused /\ planned = FALSE

BuildPlan(j) ==
    IF j.kind = "source" THEN SealWebSocketSource(j.source, j.cfg)
    ELSE BuildAsyncApiPlan(j.doc, j.selector, j.options, j.cfg)

\* The command or tool call that plans the session.
PlanSession ==
    /\ pc = "plan"
    /\ LET p == BuildPlan(job) IN
       IF p.kind = "refused" THEN Return(Err) /\ UNCHANGED sealedPlan
       ELSE pc' = "planned" /\ sealedPlan' = p /\ UNCHANGED endVars
    /\ UNCHANGED <<plan, inv, now, cancelled, dialVars, request, peerVars, job,
                   planned>>

\* What WsConnect reads of a sealed plan; the secret reference and the
\* handshake checks are written from its profile and its subprotocols.
Executable(p) ==
    [tls |-> p.target.scheme = "wss", auth |-> p.auth.placement,
     secretRef |-> p.auth # NoAuth, required |-> p.required, checks |-> TRUE,
     clean |-> p.target.clean, offered |-> Elements(p.subprotocols),
     literal |-> IF p.target.host \in DOMAIN AddressOf
                 THEN AddressOf[p.target.host] ELSE None]

\* store_websocket_plan and load_websocket_plan, or one of them fails.
StorePlan ==
    /\ pc = "planned"
    /\ \/ /\ Goto("start") /\ plan' = Executable(sealedPlan)
          /\ job' = NoJob /\ sealedPlan' = Refused /\ planned' = TRUE
       \/ Return(Err) /\ UNCHANGED <<plan, planning>>
    /\ UNCHANGED <<inv, now, cancelled, dialVars, request, peerVars>>

Connect(step) == step /\ UNCHANGED planning

InvokeNext ==
    \/ PlanSession \/ StorePlan
    \/ pc \notin {"plan", "planned"} /\ Connect(Next)

InvokeSpec ==
    /\ InvokeInit /\ [][InvokeNext]_invokeVars
    /\ WF_invokeVars(PlanSession \/ StorePlan) /\ WF_invokeVars(Connect(Step))

-----------------------------------------------------------------------------
(* Properties.                                                             *)

\* A sealed plan stays within the policy it was planned under, whatever the
\* source or the document asks for: its host, origin and subprotocols are
\* allowed, no limit is looser than the policy's and together they still make
\* sense, no expectation waits longer than an action may and every one has a
\* timeout, what it sends fits, and a session that sends data is a write, to
\* be approved where the target is a production server under either scheme.
PlanWithinPolicy ==
    pc = "planned" =>
       LET p == sealedPlan
           c == job.cfg
       IN  /\ p.target.host \notin c.denied
           /\ c.allowed # {} => p.target.host \in c.allowed
           /\ c.origins # {} => p.origin \in c.origins \cup {None}
           /\ c.subprotocols # << >> =>
                 Elements(p.subprotocols) \subseteq Elements(c.subprotocols)
           /\ \A h \in p.headers : h.name \notin c.sensitive
           /\ \A n \in DOMAIN p.limits : p.limits[n] \in 1 .. c.maxima[n]
           /\ Core!ValidateLimits(p.limits)
           /\ \A a \in Elements(p.actions) :
                 Expects(a) => a.timeout \in 1 .. p.limits.action_timeout
           /\ Core!ValidateTotals(p.actions, p.limits)
           /\ SendsData(p.actions) /\ c.risk = << >> => p.risk \in {"write", "destructive"}
           /\ /\ p.risk \in {"write", "destructive"} /\ c.approval
              /\ \E s \in c.servers : s.production /\ s.host = p.target.host
                                      /\ <<s.scheme, p.target.scheme>> \in
                                           {<<"https", "wss">>, <<"wss", "wss">>,
                                            <<"http", "ws">>, <<"ws", "ws">>}
              => Plain("production") \in p.required

\* What the planner seals the executor runs: invoked with the grants the plan
\* lists, a plan of the planner is never refused as inconsistent, and it is
\* denied only for an address that was not known when it was planned or that
\* is reserved in a way only the executor knows.
PlannedExecutable ==
    /\ planned /\ pc = "done" /\ inv.sealed /\ inv.fingerprints
    /\ plan.required \subseteq inv.grants
    => /\ result.kind = "err" => resolved # << >> \/ failure.cause # None
       /\ result.kind = "denied" => plan.literal \notin UnsafeLiteral
=============================================================================
