-------------------------- MODULE HttpInvokeProofs --------------------------
(***************************************************************************)
(* The safety properties of HttpInvoke for every API, configuration, name   *)
(* service and set of grants.  HttpInv carries the gates, the pins, the     *)
(* wire and the records; RedactInv, on top of it, the redaction.            *)
(***************************************************************************)
EXTENDS HttpInvoke, SequenceTheorems, TLAPS

Points == {"plan", "gate", "target", "prepare", "token", "exchange", "receipt",
           "body", "derive", "send", "read", "redact", "scan", "blob",
           "failures", "trace", "persist", "done"}

\* Where the request is on its way or answered.
Sent == {"read", "redact", "scan", "blob", "failures", "trace", "persist"}
Derived == {"send"} \cup Sent
Bound == {"token", "exchange", "receipt", "body", "derive"} \cup Derived
Evaluated == {"prepare"} \cup Bound
Gated == {"target"} \cup Evaluated

\* The records an invocation stores.
Kinds == {"oauth-refresh", "request-derivation", "body", "schema-error",
          "trace", "observation"}

IsSeq(s) == s \in Seq({s[i] : i \in DOMAIN s})

TypeOK ==
  /\ pc \in Points /\ IsSeq(pinned) /\ IsSeq(wire) /\ stored \in Seq(Kinds)
  /\ pc # "done" => result = None
  /\ config \in Configs

\* What the gates of invoke have established.
Cleared ==
  /\ plan = BuildPlan(case.op, case.opt, case.cfg)
  /\ sealed /\ plan.required \subseteq grants
  /\ ConfigFingerprint(config) = plan.config
  /\ PolicyFingerprint(config) = plan.policy

\* What evaluate_runtime_target has established of the answer it pinned.
Admitted(url, method, answer) ==
  /\ {Net(url), Http(method)} \subseteq grants
  /\ url.scheme = "http" => Insecure \in grants
  /\ \A a \in answer : a \in Unsafe => Cidr(a) \in grants

\* The gates come first, the wire last.
Progress ==
  /\ pc = "plan" => plan = None
  /\ pc = "gate" => plan = BuildPlan(case.op, case.opt, case.cfg)
  /\ pc \in Gated \/ wire # <<>> => Cleared
  /\ pc \in {"plan", "gate", "target"} => pinned = <<>>
  /\ pc \in {"plan", "gate", "target", "prepare", "token", "exchange"} =>
       wire = <<>>
  /\ pc \in Sent => \E i \in DOMAIN wire : wire[i].kind = "request"

\* Every exchange is pinned to an answer that was evaluated for it.
Pins ==
  /\ pc \in Evaluated =>
       Len(pinned) >= 1 /\ Admitted(plan.target, plan.method, pinned[1])
  /\ pc \in {"prepare", "token"} => Len(pinned) = 1
  /\ pc \in {"token", "exchange", "receipt"} => IsOAuth
  /\ pc = "exchange" =>
       Len(pinned) = 2 /\ Admitted(plan.auth.token.url, "POST", pinned[2])

WireOK ==
  \A i \in DOMAIN wire :
    /\ Admitted(wire[i].url, wire[i].method, {wire[i].address})
    /\ wire[i].kind = "request" =>
         wire[i].url = plan.target /\ Contains(stored, "request-derivation")

\* The records of the evidence store by the point the invocation is at.
Receipt == IF IsOAuth THEN <<"oauth-refresh">> ELSE <<>>
Answered == (Receipt \o <<"request-derivation">>) \o <<"body">>
Reported ==
  Answered \o (IF response.failures = {} THEN <<>> ELSE <<"schema-error">>)

Records ==
  /\ pc \in {"plan", "gate", "target", "prepare", "token", "exchange",
             "receipt"} => stored = <<>>
  /\ pc \in {"body", "derive"} => stored = Receipt
  /\ pc \in {"send", "read", "redact", "scan", "blob"} =>
       stored = Receipt \o <<"request-derivation">>
  /\ pc \in Derived => Contains(stored, "request-derivation")
  /\ pc = "failures" => stored = Answered /\ response.failures # {}
  /\ pc = "trace" => stored = Reported
  /\ pc = "persist" => stored = Reported \o <<"trace">>
  /\ pc # "done" => ~Contains(stored, "observation")

HttpInv ==
  /\ TypeOK /\ Progress /\ Pins /\ WireOK /\ Records
  /\ GrantsSuffice /\ ObservationComplete
-----------------------------------------------------------------------------
LEMMA IsSeqEmpty == IsSeq(<<>>)
  BY EmptySeq DEF IsSeq

\* Appending to a sequence of whatever elements.
LEMMA AppendFacts ==
  ASSUME NEW s, IsSeq(s), NEW x
  PROVE  /\ IsSeq(Append(s, x))
         /\ Len(s) \in Nat /\ DOMAIN s = 1..Len(s)
         /\ Len(Append(s, x)) = Len(s) + 1
         /\ DOMAIN Append(s, x) = 1..(Len(s) + 1)
         /\ Append(s, x)[Len(s) + 1] = x
         /\ \A i \in 1..Len(s) : Append(s, x)[i] = s[i]
         /\ Append(s, x) # <<>>
  <1> DEFINE S == {s[i] : i \in DOMAIN s}
             T == S \cup {x}
             t == Append(s, x)
  <1>1. s \in Seq(S)
        BY DEF IsSeq
  <1>2. s \in Seq(T) /\ x \in T
        BY <1>1, SeqMonotonic
  <1> HIDE DEF S, T
  <1>3. /\ Len(s) \in Nat /\ DOMAIN s = 1..Len(s)
        /\ t \in Seq(T) /\ Len(t) = Len(s) + 1
        /\ t[Len(s) + 1] = x
        /\ \A i \in 1..Len(s) : t[i] = s[i]
        BY <1>2
  <1>4. DOMAIN t = 1..(Len(s) + 1)
        BY <1>3
  <1> HIDE DEF t
  <1> DEFINE R == {t[i] : i \in DOMAIN t}
  <1>5. t \in [1..(Len(s) + 1) -> R]
        <2>1. t \in [1..(Len(s) + 1) -> T]
              BY <1>3
        <2> QED
              BY <2>1, <1>4
  <1>6. t \in Seq(R)
        <2> HIDE DEF R
        <2>1. Len(s) + 1 \in Nat
              BY <1>3
        <2> QED
              BY <1>5, <2>1
  <1>7. t # <<>>
        BY <1>3, EmptySeq
  <1> QED
        BY <1>3, <1>4, <1>6, <1>7 DEF IsSeq, t

LEMMA SingletonFacts == \A x : Append(<<>>, x) = <<x>>
  OBVIOUS

LEMMA PairFacts == ASSUME NEW x, NEW y PROVE <<x>> \o <<y>> = <<x, y>>
  <1> DEFINE S == {x, y}
  <1>1. /\ <<x>> \in Seq(S) /\ <<y>> \in Seq(S) /\ <<x, y>> \in Seq(S)
        /\ Len(<<x>>) = 1 /\ Len(<<y>>) = 1 /\ Len(<<x, y>>) = 2
        /\ <<x>>[1] = x /\ <<y>>[1] = y /\ <<x, y>>[1] = x /\ <<x, y>>[2] = y
        OBVIOUS
  <1>2. /\ <<x>> \o <<y>> \in Seq(S) /\ Len(<<x>> \o <<y>>) = 2
        /\ \A i \in 1..2 : (<<x>> \o <<y>>)[i] =
             IF i <= 1 THEN <<x>>[i] ELSE <<y>>[i - 1]
        BY <1>1, ConcatProperties
  <1>3. \A i \in 1..2 : (<<x>> \o <<y>>)[i] = <<x, y>>[i]
        BY <1>1, <1>2
  <1> QED
        BY <1>1, <1>2, <1>3, SeqEqual

\* What Contains says of one more record.
LEMMA ContainsAppend ==
  ASSUME NEW S, NEW s \in Seq(S), NEW x \in S, NEW y
  PROVE  /\ Append(s, x) \in Seq(S)
         /\ Append(s, x) = s \o <<x>>
         /\ Contains(Append(s, x), y) <=> Contains(s, y) \/ x = y
  <1>1. /\ Append(s, x) \in Seq(S) /\ Len(s) \in Nat
        /\ Len(Append(s, x)) = Len(s) + 1
        /\ Append(s, x)[Len(s) + 1] = x
        /\ \A i \in 1..Len(s) : Append(s, x)[i] = s[i]
        OBVIOUS
  <1>2. Append(s, x) = s \o <<x>>
        <2>1. <<x>> \in Seq(S) /\ Len(<<x>>) = 1 /\ <<x>>[1] = x
              OBVIOUS
        <2>2. /\ s \o <<x>> \in Seq(S)
              /\ Len(s \o <<x>>) = Len(s) + 1
              /\ \A i \in 1..(Len(s) + 1) : (s \o <<x>>)[i] =
                     IF i <= Len(s) THEN s[i] ELSE <<x>>[i - Len(s)]
              BY <2>1, ConcatProperties
        <2>3. \A i \in 1..(Len(s) + 1) : (s \o <<x>>)[i] = Append(s, x)[i]
              BY <1>1, <2>1, <2>2
        <2> QED
              BY <1>1, <2>2, <2>3, SeqEqual
  <1>3. Contains(Append(s, x), y) <=> Contains(s, y) \/ x = y
        BY <1>1 DEF Contains
  <1> QED
        BY <1>1, <1>2, <1>3

LEMMA TwoRecords ==
  ASSUME NEW S, NEW s \in Seq(S), NEW x \in S, NEW y \in S
  PROVE  (s \o <<x>>) \o <<y>> = s \o <<x, y>>
  <1>1. <<x>> \in Seq(S) /\ <<y>> \in Seq(S)
        OBVIOUS
  <1>2. (s \o <<x>>) \o <<y>> = s \o (<<x>> \o <<y>>)
        BY <1>1, ConcatAssociative
  <1> QED
        BY <1>2, PairFacts

\* What depends only on the inputs of an invocation stays as it is.
LEMMA InputsKept ==
  ASSUME UNCHANGED inputs
  PROVE  /\ Cleared' <=> Cleared
         /\ IsOAuth' <=> IsOAuth
         /\ Receipt' = Receipt /\ Answered' = Answered
         /\ \A u, m, a : Admitted(u, m, a)' <=> Admitted(u, m, a)
  BY DEF inputs, Cleared, IsOAuth, AuthPlacement, Receipt, Answered, Admitted

\* The plan's own grants and those of its token exchange are required.
LEMMA RequiredGrants ==
  ASSUME plan = BuildPlan(case.op, case.opt, case.cfg)
  PROVE  /\ TargetGrants(plan.target, plan.method) \subseteq plan.required
         /\ AuthGrants(plan.auth) \subseteq plan.required
         /\ ApprovalGrants(case.op, case.cfg, plan.target)
               \subseteq plan.required
         /\ plan.risk = Risk(case.op, case.cfg)
         /\ plan.config = ConfigFingerprint(case.cfg)
  BY DEF BuildPlan

LEMMA InitInv == Init => HttpInv
  <1> SUFFICES ASSUME Init PROVE HttpInv
      OBVIOUS
  <1> USE DEF Init
  <1>1. TypeOK
        BY IsSeqEmpty, EmptySeq DEF TypeOK, Points
  <1>2. DOMAIN wire = {}
        BY EmptySeq, LenProperties
  <1>3. \A x : ~Contains(stored, x)
        BY EmptySeq DEF Contains
  <1>4. Progress /\ Pins
        BY DEF Progress, Pins, Gated, Evaluated, Bound, Derived, Sent
  <1>5. WireOK /\ Records
        BY <1>2, <1>3 DEF WireOK, Records, Derived, Sent
  <1>6. GrantsSuffice /\ ObservationComplete
        BY <1>3 DEF GrantsSuffice, ObservationComplete, None
  <1> QED
        BY <1>1, <1>4, <1>5, <1>6 DEF HttpInv

\* An error ends the invocation wherever it is and leaves no observation.
LEMMA ErrorStep ==
  ASSUME HttpInv, pc # "done", NEW e, Return(Err(e)),
         UNCHANGED <<inputs, pinned, wire, stored>>
  PROVE  HttpInv'
  <1>1. /\ pc' = "done" /\ result'.some /\ result'.kind = "error"
        /\ UNCHANGED inputs /\ pinned' = pinned /\ wire' = wire
        /\ stored' = stored
        BY DEF Return, Err
  <1>2. TypeOK'
        BY <1>1 DEF HttpInv, TypeOK, Points, inputs
  <1>3. Progress' /\ Pins'
        BY <1>1, InputsKept
           DEF HttpInv, Progress, Pins, Gated, Evaluated, Bound, Derived, Sent
  <1>4. WireOK'
        BY <1>1 DEF HttpInv, WireOK, Admitted, inputs
  <1>5. Records'
        BY <1>1 DEF Records, Derived, Sent
  <1>6. ~Contains(stored', "observation")
        BY <1>1 DEF HttpInv, Records
  <1>7. GrantsSuffice' /\ ObservationComplete'
        BY <1>1, <1>6 DEF GrantsSuffice, ObservationComplete
  <1> QED
        BY <1>2, <1>3, <1>4, <1>5, <1>7 DEF HttpInv

\* A step that leaves the invocation where it is.
LEMMA IdleStep ==
  ASSUME HttpInv,
         UNCHANGED <<pc, inputs, pinned, wire, stored, response, result>>
  PROVE  HttpInv'
  BY DEF HttpInv, TypeOK, Progress, Pins, WireOK, Records, GrantsSuffice,
         ObservationComplete, inputs, Cleared, IsOAuth, AuthPlacement, Receipt,
         Answered, Reported, Admitted

LEMMA PlanStep == ASSUME HttpInv, Plan PROVE HttpInv'
  <1>1. CASE \E e : Return(Err(e)) /\ UNCHANGED <<plan, grants>>
        <2>1. UNCHANGED <<inputs, pinned, wire, stored>> /\ pc # "done"
              BY <1>1 DEF Plan, inputs, outputs
        <2> QED
              BY <1>1, <2>1, ErrorStep
  <1>2. CASE pc' = "gate" /\ plan' = BuildPlan(case.op, case.opt, case.cfg)
        <2>1. /\ pc = "plan" /\ wire' = wire /\ pinned' = pinned
              /\ stored' = stored /\ result' = result /\ case' = case
              /\ config' = config
              BY <1>2 DEF Plan, Return, outputs
        <2>2. wire = <<>> /\ pinned = <<>> /\ stored = <<>> /\ result = None
              BY <2>1 DEF HttpInv, TypeOK, Progress, Records
        <2>3. DOMAIN wire' = {} /\ ~Contains(stored', "observation")
              BY <2>1, <2>2, EmptySeq, LenProperties DEF HttpInv, Records
        <2>4. TypeOK' /\ Progress' /\ Pins'
              BY <1>2, <2>1, <2>2
                 DEF HttpInv, TypeOK, Points, inputs, Progress, Pins, Gated,
                     Evaluated, Bound, Derived, Sent
        <2>5. WireOK' /\ Records'
              BY <1>2, <2>1, <2>2, <2>3 DEF WireOK, Records, Derived, Sent
        <2>6. GrantsSuffice' /\ ObservationComplete'
              BY <2>1, <2>2, <2>3 DEF GrantsSuffice, ObservationComplete, None
        <2> QED
              BY <2>4, <2>5, <2>6 DEF HttpInv
  <1> QED
        BY <1>1, <1>2 DEF Plan

\* A denial by the gate is for a grant the caller does not hold.
LEMMA GateStep == ASSUME HttpInv, Gate PROVE HttpInv'
  <1>0. /\ pc = "gate" /\ UNCHANGED inputs /\ pinned' = pinned
        /\ wire' = wire /\ stored' = stored
        BY DEF Gate, outputs
  <1>1. /\ wire = <<>> /\ pinned = <<>> /\ stored = <<>> /\ result = None
        /\ plan = BuildPlan(case.op, case.opt, case.cfg)
        /\ ~Contains(stored, "observation")
        BY <1>0 DEF HttpInv, TypeOK, Progress, Records
  <1>2. DOMAIN wire' = {}
        BY <1>0, <1>1, EmptySeq, LenProperties
  <1>3. CASE \E e : Return(Err(e))
        BY <1>0, <1>3, ErrorStep
  <1>4. CASE /\ plan.required \ grants # {}
             /\ \E g \in plan.required \ grants : Return(Denied(g))
        <2>1. pc' = "done" /\ result'.some /\ result'.kind = "denied"
              BY <1>4 DEF Return, Denied
        <2>2. TypeOK' /\ Progress' /\ Pins'
              BY <1>0, <1>1, <2>1
                 DEF HttpInv, TypeOK, Points, inputs, Progress, Pins, Gated,
                     Evaluated, Bound, Derived, Sent
        <2>3. WireOK' /\ Records'
              BY <1>0, <1>1, <1>2, <2>1 DEF WireOK, Records, Derived, Sent
        <2>4. GrantsSuffice' /\ ObservationComplete'
              BY <1>0, <1>1, <1>4, <2>1
                 DEF GrantsSuffice, ObservationComplete, inputs
        <2> QED
              BY <2>2, <2>3, <2>4 DEF HttpInv
  <1>5. CASE /\ sealed /\ ConfigFingerprint(config) = plan.config
             /\ PolicyFingerprint(config) = plan.policy
             /\ plan.required \ grants = {} /\ pc' = "target"
             /\ UNCHANGED result
        <2>1. Cleared'
              BY <1>0, <1>1, <1>5, InputsKept DEF Cleared
        <2>2. TypeOK' /\ Progress' /\ Pins'
              BY <1>0, <1>1, <1>5, <2>1
                 DEF HttpInv, TypeOK, Points, inputs, Progress, Pins, Gated,
                     Evaluated, Bound, Derived, Sent
        <2>3. WireOK' /\ Records'
              BY <1>0, <1>1, <1>2, <1>5 DEF WireOK, Records, Derived, Sent
        <2>4. GrantsSuffice' /\ ObservationComplete'
              BY <1>0, <1>1, <1>5 DEF GrantsSuffice, ObservationComplete, None
        <2> QED
              BY <2>2, <2>3, <2>4 DEF HttpInv
  <1> QED
        BY <1>3, <1>4, <1>5 DEF Gate

\* The exchanges a plan may have, with the grants it lists for them.
Exchange(url, method) ==
  \/ url = plan.target /\ method = plan.method
  \/ IsOAuth /\ plan.auth.token.some /\ url = plan.auth.token.url
     /\ method = "POST"

LEMMA ExchangeGranted ==
  ASSUME Cleared, NEW url, NEW method, Exchange(url, method)
  PROVE  /\ {Net(url), Http(method)} \subseteq grants
         /\ url.scheme = "http" => Insecure \in grants
  <1>1. CASE url = plan.target /\ method = plan.method
        BY <1>1, RequiredGrants DEF Cleared, TargetGrants
  <1>2. CASE IsOAuth /\ plan.auth.token.some /\ url = plan.auth.token.url
             /\ method = "POST"
        <2>1. plan.auth.some
              BY <1>2 DEF IsOAuth, AuthPlacement
        <2> QED
              BY <1>2, <2>1, RequiredGrants DEF Cleared, AuthGrants
  <1> QED
        BY <1>1, <1>2 DEF Exchange

\* Past the gates evaluate_runtime_target can only miss a grant for an address.
LEMMA EvaluateOutcome ==
  ASSUME Cleared, NEW url, NEW method, Exchange(url, method), NEW next,
         Evaluate(url, method, next)
  PROVE  \/ UNCHANGED pinned /\ \E e : Return(Err(e))
         \/ /\ UNCHANGED pinned
            /\ \E a \in Outside(Answer(url.host)) : Return(Denied(Cidr(a)))
         \/ /\ Admitted(url, method, Answer(url.host))
            /\ pinned' = Append(pinned, Answer(url.host))
            /\ pc' = next /\ UNCHANGED result
  <1> DEFINE needed == (IF url.scheme = "http" THEN {Insecure} ELSE {})
                         \cup {Net(url), Http(method)}
  <1>1. needed \subseteq grants
        BY ExchangeGranted
  <1>2. \/ UNCHANGED pinned /\ \E e : Return(Err(e))
        \/ /\ UNCHANGED pinned
           /\ \E a \in Outside(Answer(url.host)) : Return(Denied(Cidr(a)))
        \/ /\ Outside(Answer(url.host)) = {}
           /\ pinned' = Append(pinned, Answer(url.host))
           /\ pc' = next /\ UNCHANGED result
        BY <1>1, Zenon DEF Evaluate
  <1>3. Outside(Answer(url.host)) = {} =>
          Admitted(url, method, Answer(url.host))
        BY ExchangeGranted DEF Admitted, Outside
  <1> QED
        BY <1>2, <1>3

\* Such a denial is one the plan could not have listed.
LEMMA AddressDenied ==
  ASSUME HttpInv, Cleared, pc \in {"target", "token"},
         UNCHANGED <<inputs, pinned, wire, stored>>,
         NEW a, a \in Unsafe, Return(Denied(Cidr(a))),
         \/ plan.target.host \notin Literal4
         \/ AddressOf[plan.target.host] \notin UnsafeLiteral
         \/ Len(pinned) = 1
  PROVE  HttpInv'
  <1>1. /\ pc' = "done" /\ result'.some /\ result'.kind = "denied"
        /\ result'.grant = Cidr(a)
        /\ plan' = plan /\ UNCHANGED inputs
        /\ pinned' = pinned /\ wire' = wire /\ stored' = stored
        BY DEF Return, Denied, inputs
  <1>2. wire = <<>> /\ stored = <<>> /\ ~Contains(stored, "observation")
        BY DEF HttpInv, Progress, Records
  <1>3. DOMAIN wire' = {}
        BY <1>1, <1>2, EmptySeq, LenProperties
  <1>4. TypeOK' /\ Progress' /\ Pins'
        BY <1>1, <1>2, InputsKept
           DEF HttpInv, TypeOK, Points, inputs, Progress, Pins, Gated, Evaluated,
               Bound, Derived, Sent
  <1>5. WireOK' /\ Records'
        BY <1>1, <1>2, <1>3 DEF WireOK, Records, Derived, Sent
  <1>6. GrantsSuffice' /\ ObservationComplete'
        BY <1>1, <1>2 DEF GrantsSuffice, ObservationComplete
  <1> QED
        BY <1>4, <1>5, <1>6 DEF HttpInv

LEMMA EvaluateTargetStep == ASSUME HttpInv, EvaluateTarget PROVE HttpInv'
  <1>0. /\ pc = "target" /\ UNCHANGED inputs /\ wire' = wire
        /\ stored' = stored
        /\ Evaluate(plan.target, plan.method, "prepare")
        BY DEF EvaluateTarget, outputs
  <1> DEFINE answer == Answer(plan.target.host)
  <1>1. /\ Cleared /\ pinned = <<>> /\ wire = <<>> /\ stored = <<>>
        /\ result = None /\ ~Contains(stored, "observation")
        BY <1>0 DEF HttpInv, TypeOK, Progress, Records, Gated
  <1>2. Exchange(plan.target, plan.method)
        BY DEF Exchange
  <1>3. CASE UNCHANGED pinned /\ \E e : Return(Err(e))
        BY <1>0, <1>3, ErrorStep
  <1>4. CASE /\ UNCHANGED pinned
             /\ \E a \in Outside(answer) : Return(Denied(Cidr(a)))
        <2>1. PICK a \in Outside(answer) : Return(Denied(Cidr(a)))
              BY <1>4
        <2>2. a \in answer /\ a \in Unsafe /\ Cidr(a) \notin grants
              BY <2>1 DEF Outside
        <2>3. \/ plan.target.host \notin Literal4
              \/ AddressOf[plan.target.host] \notin UnsafeLiteral
              <3> SUFFICES ASSUME plan.target.host \in Literal4,
                                  AddressOf[plan.target.host] \in UnsafeLiteral
                           PROVE  FALSE
                  OBVIOUS
              <3>1. a = AddressOf[plan.target.host]
                    BY <2>2 DEF Answer
              <3>2. Cidr(a) \in plan.required
                    BY <1>1, <3>1, RequiredGrants DEF Cleared, TargetGrants
              <3> QED
                    BY <1>1, <2>2, <3>2 DEF Cleared
        <2> QED
              BY <1>0, <1>1, <1>4, <2>1, <2>2, <2>3, AddressDenied
  <1>5. CASE /\ Admitted(plan.target, plan.method, answer)
             /\ pinned' = Append(pinned, answer)
             /\ pc' = "prepare" /\ UNCHANGED result
        <2>1. /\ IsSeq(pinned') /\ Len(pinned') = 1 /\ pinned'[1] = answer
              <3>1. IsSeq(pinned) /\ Len(pinned) = 0
                    BY <1>1, EmptySeq DEF HttpInv, TypeOK
              <3> HIDE DEF answer
              <3>2. /\ IsSeq(pinned') /\ Len(pinned') = Len(pinned) + 1
                    /\ pinned'[Len(pinned) + 1] = answer
                    BY <1>5, <3>1, AppendFacts
              <3> QED
                    BY <3>1, <3>2
        <2>2. DOMAIN wire' = {}
              BY <1>0, <1>1, EmptySeq, LenProperties
        <2>3. Cleared'
              BY <1>0, <1>1, InputsKept
        <2>4. Admitted(plan.target, plan.method, pinned[1])'
              BY <1>0, <1>5, <2>1 DEF Admitted, inputs
        <2>5. TypeOK' /\ Progress' /\ Pins'
              BY <1>0, <1>1, <1>5, <2>1, <2>3, <2>4
                 DEF HttpInv, TypeOK, Points, inputs, Progress, Pins, Gated,
                     Evaluated, Bound, Derived, Sent
        <2>6. WireOK' /\ Records'
              BY <1>0, <1>1, <1>5, <2>2 DEF WireOK, Records, Derived, Sent
        <2>7. GrantsSuffice' /\ ObservationComplete'
              BY <1>0, <1>1, <1>5 DEF GrantsSuffice, ObservationComplete, None
        <2> QED
              BY <2>5, <2>6, <2>7 DEF HttpInv
  <1> HIDE DEF answer
  <1> QED
        BY <1>0, <1>1, <1>2, <1>3, <1>4, <1>5, EvaluateOutcome DEF answer

LEMMA PrepareStep == ASSUME HttpInv, Prepare PROVE HttpInv'
  <1>0. /\ pc = "prepare" /\ UNCHANGED inputs /\ wire' = wire
        /\ stored' = stored /\ pinned' = pinned
        BY DEF Prepare, outputs
  <1>1. CASE \E e : Return(Err(e))
        BY <1>0, <1>1, ErrorStep
  <1>2. CASE pc' = (IF IsOAuth THEN "token" ELSE "body") /\ UNCHANGED result
        <2>1. /\ wire = <<>> /\ stored = <<>> /\ result = None
              /\ Cleared' /\ ~Contains(stored, "observation")
              /\ pc' = "token" => IsOAuth /\ IsOAuth'
              /\ pc' = "body" => Receipt' = <<>>
              BY <1>0, <1>2, InputsKept
                 DEF HttpInv, TypeOK, Progress, Records, Gated, Evaluated,
                     Receipt
        <2>2. DOMAIN wire' = {}
              BY <1>0, <2>1, EmptySeq, LenProperties
        <2>3. Len(pinned') = 1 /\ Admitted(plan.target, plan.method, pinned[1])'
              BY <1>0 DEF HttpInv, Pins, Evaluated, Admitted, inputs
        <2>4. TypeOK' /\ Progress' /\ Pins'
              BY <1>0, <1>2, <2>1, <2>3
                 DEF HttpInv, TypeOK, Points, inputs, Progress, Pins, Gated,
                     Evaluated, Bound, Derived, Sent
        <2>5. WireOK' /\ Records'
              BY <1>0, <1>2, <2>1, <2>2 DEF WireOK, Records, Derived, Sent
        <2>6. GrantsSuffice' /\ ObservationComplete'
              BY <1>0, <1>2, <2>1 DEF GrantsSuffice, ObservationComplete, None
        <2> QED
              BY <2>4, <2>5, <2>6 DEF HttpInv
  <1> QED
        BY <1>1, <1>2 DEF Prepare

LEMMA EvaluateTokenStep == ASSUME HttpInv, EvaluateToken PROVE HttpInv'
  <1>0. /\ pc = "token" /\ UNCHANGED inputs /\ wire' = wire
        /\ stored' = stored
        BY DEF EvaluateToken, outputs
  <1> DEFINE url == plan.auth.token.url
             answer == Answer(url.host)
  <1>1. /\ Cleared /\ wire = <<>> /\ stored = <<>> /\ result = None
        /\ ~Contains(stored, "observation") /\ IsSeq(pinned)
        /\ IsOAuth /\ Len(pinned) = 1
        /\ Admitted(plan.target, plan.method, pinned[1])
        BY <1>0 DEF HttpInv, TypeOK, Progress, Pins, Records, Gated, Evaluated,
                    Bound
  <1>2. CASE UNCHANGED pinned /\ \E e : Return(Err(e))
        BY <1>0, <1>2, ErrorStep
  <1>3. CASE /\ UNCHANGED pinned
             /\ \E a \in Outside(answer) : Return(Denied(Cidr(a)))
        <2>1. PICK a \in Outside(answer) : Return(Denied(Cidr(a)))
              BY <1>3
        <2>2. a \in Unsafe
              BY <2>1 DEF Outside
        <2> QED
              BY <1>0, <1>1, <1>3, <2>1, <2>2, AddressDenied
  <1>4. CASE /\ Admitted(url, "POST", answer)
             /\ pinned' = Append(pinned, answer)
             /\ pc' = "exchange" /\ UNCHANGED result
        <2>1. /\ IsSeq(pinned') /\ Len(pinned') = 2 /\ pinned'[2] = answer
              /\ pinned'[1] = pinned[1]
              <3> HIDE DEF answer
              <3>0. IsSeq(pinned) /\ pinned' = Append(pinned, answer)
                    BY <1>1, <1>4
              <3>1. /\ IsSeq(pinned') /\ Len(pinned') = Len(pinned) + 1
                    /\ pinned'[Len(pinned) + 1] = answer
                    /\ \A i \in 1..Len(pinned) : pinned'[i] = pinned[i]
                    BY <3>0, AppendFacts
              <3>2. Len(pinned) = 1
                    BY <1>1
              <3> QED
                    BY <3>1, <3>2
        <2>2. DOMAIN wire' = {}
              BY <1>0, <1>1, EmptySeq, LenProperties
        <2>3. Cleared' /\ IsOAuth'
              BY <1>0, <1>1, InputsKept
        <2>4. /\ Admitted(plan.target, plan.method, pinned[1])'
              /\ Admitted(url, "POST", pinned[2])'
              BY <1>0, <1>1, <1>4, <2>1 DEF Admitted, inputs
        <2>5. TypeOK' /\ Progress' /\ Pins'
              BY <1>0, <1>1, <1>4, <2>1, <2>3, <2>4
                 DEF HttpInv, TypeOK, Points, inputs, Progress, Pins, Gated,
                     Evaluated, Bound, Derived, Sent
        <2>6. WireOK' /\ Records'
              BY <1>0, <1>1, <1>4, <2>2 DEF WireOK, Records, Derived, Sent
        <2>7. GrantsSuffice' /\ ObservationComplete'
              BY <1>0, <1>1, <1>4 DEF GrantsSuffice, ObservationComplete, None
        <2> QED
              BY <2>5, <2>6, <2>7 DEF HttpInv
  <1>5. CASE ~plan.auth.token.some
        BY <1>0, <1>2, <1>5 DEF EvaluateToken
  <1>6. CASE plan.auth.token.some
        <2>1. Exchange(url, "POST")
              BY <1>1, <1>6 DEF Exchange
        <2>2. Evaluate(url, "POST", "exchange")
              BY <1>6 DEF EvaluateToken
        <2> HIDE DEF url
        <2>3. \/ UNCHANGED pinned /\ \E e : Return(Err(e))
              \/ /\ UNCHANGED pinned
                 /\ \E a \in Outside(answer) : Return(Denied(Cidr(a)))
              \/ /\ Admitted(url, "POST", answer)
                 /\ pinned' = Append(pinned, answer)
                 /\ pc' = "exchange" /\ UNCHANGED result
              BY <1>1, <2>1, <2>2, EvaluateOutcome
        <2> QED
              BY <1>2, <1>3, <1>4, <2>3
  <1> QED
        BY <1>5, <1>6

\* One more exchange on the wire, with an address of what was pinned for it.
LEMMA WireGrows ==
  ASSUME HttpInv, Cleared, UNCHANGED inputs, stored' = stored,
         NEW e, wire' = Append(wire, e),
         Admitted(e.url, e.method, {e.address}),
         e.kind = "request" =>
           e.url = plan.target /\ Contains(stored, "request-derivation")
  PROVE  /\ IsSeq(wire') /\ WireOK' /\ wire' # <<>>
         /\ \E i \in DOMAIN wire' : wire'[i] = e
  <1>1. IsSeq(wire)
        BY DEF HttpInv, TypeOK
  <1>2. /\ IsSeq(wire') /\ Len(wire) \in Nat /\ wire' # <<>>
        /\ DOMAIN wire = 1..Len(wire) /\ DOMAIN wire' = 1..(Len(wire) + 1)
        /\ wire'[Len(wire) + 1] = e
        /\ \A i \in 1..Len(wire) : wire'[i] = wire[i]
        BY <1>1, AppendFacts
  <1>3. ASSUME NEW i \in DOMAIN wire'
        PROVE  /\ Admitted(wire[i].url, wire[i].method, {wire[i].address})'
               /\ wire'[i].kind = "request" =>
                    /\ wire'[i].url = plan.target
                    /\ Contains(stored, "request-derivation")
        <2>1. CASE i \in DOMAIN wire
              <3>1. wire'[i] = wire[i]
                    BY <1>2, <2>1
              <3> QED
                    BY <2>1, <3>1 DEF HttpInv, WireOK, Admitted, inputs
        <2>2. CASE i = Len(wire) + 1
              <3>1. wire'[i] = e
                    BY <1>2, <2>2
              <3> QED
                    BY <3>1 DEF Admitted, inputs
        <2>3. i \in DOMAIN wire \/ i = Len(wire) + 1
              BY <1>2
        <2> QED
              BY <2>1, <2>2, <2>3
  <1>4. WireOK'
        BY <1>3 DEF WireOK, inputs
  <1> QED
        BY <1>2, <1>4

LEMMA ExchangeTokenStep == ASSUME HttpInv, ExchangeToken PROVE HttpInv'
  <1>0. /\ pc = "exchange" /\ UNCHANGED inputs /\ pinned' = pinned
        /\ stored' = stored
        BY DEF ExchangeToken
  <1>1. /\ Cleared /\ stored = <<>> /\ result = None /\ IsOAuth
        /\ ~Contains(stored, "observation")
        /\ Len(pinned) = 2
        /\ Admitted(plan.target, plan.method, pinned[1])
        /\ Admitted(plan.auth.token.url, "POST", pinned[2])
        BY <1>0 DEF HttpInv, TypeOK, Progress, Pins, Records, Gated, Evaluated,
                    Bound
  <1>2. Cleared' /\ IsOAuth'
        BY <1>0, <1>1, InputsKept
  <1>3. CASE UNCHANGED wire /\ \E e : Return(Err(e))
        BY <1>0, <1>3, ErrorStep
  <1>4. CASE /\ \E a \in pinned[2] :
                  wire' = Append(wire, [kind |-> "token",
                                        url |-> plan.auth.token.url,
                                        method |-> "POST", address |-> a])
             /\ \/ \E e : Return(Err(e))
                \/ pc' = "receipt" /\ UNCHANGED result
        <2>1. PICK a \in pinned[2] :
                wire' = Append(wire, [kind |-> "token",
                                      url |-> plan.auth.token.url,
                                      method |-> "POST", address |-> a])
              BY <1>4
        <2>2. IsSeq(wire') /\ WireOK' /\ wire' # <<>>
              <3> DEFINE e == [kind |-> "token", url |-> plan.auth.token.url,
                               method |-> "POST", address |-> a]
              <3>1. Admitted(e.url, e.method, {e.address})
                    BY <1>1, <2>1 DEF Admitted
              <3>2. e.kind = "token" /\ wire' = Append(wire, e)
                    BY <2>1
              <3> HIDE DEF e
              <3> QED
                    BY <1>0, <1>1, <3>1, <3>2, WireGrows
        <2>3. /\ pc' \in {"done", "receipt"}
              /\ pc' = "receipt" => result' = None
              /\ result'.some => result'.kind = "error"
              BY <1>1, <1>4 DEF Return, Err, None
        <2>4. TypeOK' /\ Progress'
              BY <1>0, <1>1, <1>2, <2>2, <2>3
                 DEF HttpInv, TypeOK, Points, inputs, Progress, Gated, Evaluated,
                     Bound, Derived, Sent
        <2>5. Admitted(plan.target, plan.method, pinned[1])'
              BY <1>0, <1>1 DEF Admitted, inputs
        <2>6. Pins'
              BY <1>0, <1>1, <1>2, <2>3, <2>5
                 DEF Pins, Evaluated, Bound, Derived, Sent
        <2>7. Records'
              BY <1>0, <1>1, <2>3 DEF Records, Derived, Sent
        <2>8. GrantsSuffice' /\ ObservationComplete'
              BY <1>0, <1>1, <2>3 DEF GrantsSuffice, ObservationComplete, None
        <2> QED
              BY <2>2, <2>4, <2>6, <2>7, <2>8 DEF HttpInv
  <1> QED
        BY <1>3, <1>4 DEF ExchangeToken

\* A record that is stored leaves the wire and its justification alone.
LEMMA RecordStored ==
  ASSUME HttpInv, UNCHANGED inputs, wire' = wire, NEW x \in Kinds,
         stored' = Append(stored, x)
  PROVE  /\ WireOK' /\ stored' \in Seq(Kinds) /\ stored' = stored \o <<x>>
         /\ \A y : Contains(stored', y) <=> Contains(stored, y) \/ x = y
  <1>1. stored \in Seq(Kinds)
        BY DEF HttpInv, TypeOK
  <1>2. /\ stored' \in Seq(Kinds) /\ stored' = stored \o <<x>>
        /\ \A y : Contains(stored', y) <=> Contains(stored, y) \/ x = y
        BY <1>1, ContainsAppend
  <1>3. WireOK'
        BY <1>2 DEF HttpInv, WireOK, Admitted, inputs
  <1> QED
        BY <1>2, <1>3

LEMMA PutOutcome ==
  ASSUME HttpInv, NEW kind, NEW next, Put(kind, next), pc # "done",
         UNCHANGED <<inputs, pinned, wire>>,
         /\ stored' = Append(stored, kind) /\ pc' = next /\ UNCHANGED result
           => HttpInv'
  PROVE  HttpInv'
  BY ErrorStep DEF Put

LEMMA StoreReceiptStep == ASSUME HttpInv, StoreReceipt PROVE HttpInv'
  <1>0. /\ pc = "receipt" /\ UNCHANGED inputs /\ pinned' = pinned
        /\ wire' = wire /\ Put("oauth-refresh", "body")
        BY DEF StoreReceipt
  <1>1. /\ Cleared' /\ result = None /\ Receipt' = <<"oauth-refresh">>
        /\ ~Contains(stored, "observation") /\ stored = <<>>
        BY <1>0, InputsKept
           DEF HttpInv, TypeOK, Progress, Pins, Records, Gated, Evaluated,
               Bound, Receipt
  <1>2. Len(pinned') >= 1 /\ Admitted(plan.target, plan.method, pinned[1])'
        BY <1>0 DEF HttpInv, Pins, Evaluated, Bound, Admitted, inputs
  <1>3. ASSUME stored' = Append(stored, "oauth-refresh"), pc' = "body",
               UNCHANGED result
        PROVE  HttpInv'
        <2>1. /\ WireOK' /\ stored' \in Seq(Kinds)
              /\ stored' = stored \o <<"oauth-refresh">>
              /\ ~Contains(stored', "observation")
              <3>1. /\ WireOK' /\ stored' \in Seq(Kinds)
                    /\ stored' = stored \o <<"oauth-refresh">>
                    /\ \A y : Contains(stored', y) <=>
                               Contains(stored, y) \/ "oauth-refresh" = y
                    BY <1>0, <1>3, RecordStored DEF Kinds
              <3> QED
                    BY <1>1, <3>1
        <2>2. stored' = Receipt'
              <3>1. Append(<<>>, "oauth-refresh") = <<"oauth-refresh">>
                    BY SingletonFacts
              <3> QED
                    BY <1>1, <1>3, <3>1
        <2>3. TypeOK' /\ Progress' /\ Pins'
              BY <1>0, <1>1, <1>2, <1>3, <2>1
                 DEF HttpInv, TypeOK, Points, inputs, Progress, Pins, Gated,
                     Evaluated, Bound, Derived, Sent
        <2>4. Records'
              BY <1>3, <2>1, <2>2 DEF Records, Derived, Sent
        <2>5. GrantsSuffice' /\ ObservationComplete'
              BY <1>1, <1>3, <2>1 DEF GrantsSuffice, ObservationComplete, None
        <2> QED
              BY <2>1, <2>3, <2>4, <2>5 DEF HttpInv
  <1> QED
        BY <1>0, <1>3, PutOutcome

LEMMA CheckBodyStep == ASSUME HttpInv, CheckBody PROVE HttpInv'
  <1>0. /\ pc = "body" /\ UNCHANGED inputs /\ wire' = wire
        /\ stored' = stored /\ pinned' = pinned
        BY DEF CheckBody, outputs
  <1>1. CASE \E e : Return(Err(e))
        BY <1>0, <1>1, ErrorStep
  <1>2. CASE pc' = "derive" /\ UNCHANGED result
        <2>1. /\ result = None /\ Cleared' /\ ~Contains(stored, "observation")
              /\ stored' = Receipt'
              BY <1>0, InputsKept
                 DEF HttpInv, TypeOK, Progress, Records, Gated, Evaluated, Bound
        <2>2. Len(pinned') >= 1 /\ Admitted(plan.target, plan.method, pinned[1])'
              BY <1>0 DEF HttpInv, Pins, Evaluated, Bound, Admitted, inputs
        <2>3. TypeOK' /\ Progress' /\ Pins'
              BY <1>0, <1>2, <2>1, <2>2
                 DEF HttpInv, TypeOK, Points, inputs, Progress, Pins, Gated,
                     Evaluated, Bound, Derived, Sent
        <2>4. WireOK'
              BY <1>0 DEF HttpInv, WireOK, Admitted, inputs
        <2>5. Records'
              BY <1>0, <1>2, <2>1 DEF Records, Derived, Sent
        <2>6. GrantsSuffice' /\ ObservationComplete'
              BY <1>0, <1>2, <2>1 DEF GrantsSuffice, ObservationComplete, None
        <2> QED
              BY <2>3, <2>4, <2>5, <2>6 DEF HttpInv
  <1> QED
        BY <1>1, <1>2 DEF CheckBody

LEMMA StoreDerivationStep == ASSUME HttpInv, StoreDerivation PROVE HttpInv'
  <1>0. /\ pc = "derive" /\ UNCHANGED inputs /\ pinned' = pinned
        /\ wire' = wire /\ Put("request-derivation", "send")
        BY DEF StoreDerivation
  <1>1. /\ Cleared' /\ result = None /\ Receipt' = Receipt
        /\ ~Contains(stored, "observation") /\ stored = Receipt
        BY <1>0, InputsKept
           DEF HttpInv, TypeOK, Progress, Records, Gated, Evaluated, Bound
  <1>2. Len(pinned') >= 1 /\ Admitted(plan.target, plan.method, pinned[1])'
        BY <1>0 DEF HttpInv, Pins, Evaluated, Bound, Admitted, inputs
  <1>3. ASSUME stored' = Append(stored, "request-derivation"), pc' = "send",
               UNCHANGED result
        PROVE  HttpInv'
        <2>1. /\ WireOK' /\ stored' \in Seq(Kinds)
              /\ stored' = stored \o <<"request-derivation">>
              /\ ~Contains(stored', "observation")
              /\ Contains(stored', "request-derivation")
              <3>1. /\ WireOK' /\ stored' \in Seq(Kinds)
                    /\ stored' = stored \o <<"request-derivation">>
                    /\ \A y : Contains(stored', y) <=>
                               Contains(stored, y) \/ "request-derivation" = y
                    BY <1>0, <1>3, RecordStored DEF Kinds
              <3> QED
                    BY <1>1, <3>1
        <2>2. TypeOK' /\ Progress' /\ Pins'
              BY <1>0, <1>1, <1>2, <1>3, <2>1
                 DEF HttpInv, TypeOK, Points, inputs, Progress, Pins, Gated,
                     Evaluated, Bound, Derived, Sent
        <2>3. Records'
              BY <1>1, <1>3, <2>1 DEF Records, Derived, Sent
        <2>4. GrantsSuffice' /\ ObservationComplete'
              BY <1>1, <1>3, <2>1 DEF GrantsSuffice, ObservationComplete, None
        <2> QED
              BY <2>1, <2>2, <2>3, <2>4 DEF HttpInv
  <1> QED
        BY <1>0, <1>3, PutOutcome

LEMMA SendStep == ASSUME HttpInv, Send PROVE HttpInv'
  <1>0. /\ pc = "send" /\ UNCHANGED inputs /\ pinned' = pinned
        /\ stored' = stored
        BY DEF Send
  <1>1. /\ Cleared /\ Cleared' /\ result = None /\ Receipt' = Receipt
        /\ ~Contains(stored, "observation")
        /\ Contains(stored, "request-derivation")
        /\ stored = Receipt \o <<"request-derivation">>
        BY <1>0, InputsKept
           DEF HttpInv, TypeOK, Progress, Records, Gated, Evaluated, Bound,
               Derived
  <1>2. /\ Len(pinned) >= 1 /\ Admitted(plan.target, plan.method, pinned[1])
        /\ Admitted(plan.target, plan.method, pinned[1])'
        BY <1>0 DEF HttpInv, Pins, Evaluated, Bound, Derived, Admitted, inputs
  <1>3. CASE UNCHANGED wire /\ \E e : Return(Err(e))
        BY <1>0, <1>3, ErrorStep
  <1>4. CASE /\ \E a \in pinned[1] :
                  wire' = Append(wire, [kind |-> "request", url |-> plan.target,
                                        method |-> plan.method, address |-> a])
             /\ \/ \E e : Return(Err(e))
                \/ pc' = "read" /\ UNCHANGED result
        <2>1. PICK a \in pinned[1] :
                wire' = Append(wire, [kind |-> "request", url |-> plan.target,
                                      method |-> plan.method, address |-> a])
              BY <1>4
        <2>2. /\ IsSeq(wire') /\ WireOK' /\ wire' # <<>>
              /\ \E i \in DOMAIN wire' : wire'[i].kind = "request"
              <3> DEFINE e == [kind |-> "request", url |-> plan.target,
                               method |-> plan.method, address |-> a]
              <3>1. Admitted(e.url, e.method, {e.address})
                    BY <1>2, <2>1 DEF Admitted
              <3>2. /\ e.kind = "request" /\ e.url = plan.target
                    /\ wire' = Append(wire, e)
                    BY <2>1
              <3> HIDE DEF e
              <3>3. /\ IsSeq(wire') /\ WireOK' /\ wire' # <<>>
                    /\ \E i \in DOMAIN wire' : wire'[i] = e
                    BY <1>0, <1>1, <3>1, <3>2, WireGrows
              <3> QED
                    BY <3>2, <3>3
        <2>3. /\ pc' \in {"done", "read"}
              /\ pc' = "read" => result' = None
              /\ result'.some => result'.kind = "error"
              BY <1>1, <1>4 DEF Return, Err, None
        <2>4. TypeOK' /\ Progress'
              BY <1>0, <1>1, <2>2, <2>3
                 DEF HttpInv, TypeOK, Points, inputs, Progress, Gated, Evaluated,
                     Bound, Derived, Sent
        <2>5. Pins'
              BY <1>0, <1>2, <2>3 DEF Pins, Evaluated, Bound, Derived, Sent
        <2>6. Records'
              BY <1>0, <1>1, <2>3 DEF Records, Derived, Sent
        <2>7. GrantsSuffice' /\ ObservationComplete'
              BY <1>0, <1>1, <2>3 DEF GrantsSuffice, ObservationComplete, None
        <2> QED
              BY <2>2, <2>4, <2>5, <2>6, <2>7 DEF HttpInv
  <1> QED
        BY <1>3, <1>4 DEF Send

\* What holds at every point between the answer and the observation.
LEMMA AnsweredFacts ==
  ASSUME HttpInv, pc \in Sent, UNCHANGED inputs, pinned' = pinned
  PROVE  /\ Cleared' /\ result = None /\ Receipt' = Receipt
         /\ Answered' = Answered
         /\ ~Contains(stored, "observation")
         /\ Contains(stored, "request-derivation")
         /\ Len(pinned') >= 1
         /\ Admitted(plan.target, plan.method, pinned[1])'
         /\ \E i \in DOMAIN wire : wire[i].kind = "request"
  <1>1. /\ Cleared' /\ Receipt' = Receipt /\ Answered' = Answered
        BY InputsKept
           DEF HttpInv, Progress, Gated, Evaluated, Bound, Derived, Sent
  <1>2. /\ result = None /\ ~Contains(stored, "observation")
        /\ Contains(stored, "request-derivation")
        /\ \E i \in DOMAIN wire : wire[i].kind = "request"
        BY DEF HttpInv, TypeOK, Progress, Records, Derived, Sent
  <1>3. /\ Len(pinned') >= 1
        /\ Admitted(plan.target, plan.method, pinned[1])'
        BY DEF HttpInv, Pins, Evaluated, Bound, Derived, Sent, Admitted, inputs
  <1> QED
        BY <1>1, <1>2, <1>3

\* A step from one of these points to another.
LEMMA AnsweredStep ==
  ASSUME HttpInv, pc \in Sent, pc' \in Sent, UNCHANGED inputs,
         pinned' = pinned, wire' = wire, result' = result,
         stored' \in Seq(Kinds), ~Contains(stored', "observation"),
         Contains(stored', "request-derivation"), Records'
  PROVE  HttpInv'
  <1>1. TypeOK' /\ Progress' /\ Pins'
        BY AnsweredFacts
           DEF HttpInv, TypeOK, Points, inputs, Progress, Pins, Gated, Evaluated,
               Bound, Derived, Sent
  <1>2. WireOK'
        BY DEF HttpInv, WireOK, Admitted, inputs
  <1>3. GrantsSuffice' /\ ObservationComplete'
        BY AnsweredFacts DEF GrantsSuffice, ObservationComplete, None
  <1> QED
        BY <1>1, <1>2, <1>3 DEF HttpInv

\* A step of the reading and redacting of the answer.
LEMMA RedactingStep ==
  ASSUME HttpInv, pc \in {"read", "redact", "scan"},
         pc' \in {"redact", "scan", "blob"}, UNCHANGED inputs,
         pinned' = pinned, wire' = wire, stored' = stored, result' = result
  PROVE  HttpInv'
  <1>1. /\ ~Contains(stored', "observation") /\ stored' \in Seq(Kinds)
        /\ Contains(stored', "request-derivation")
        /\ stored' = Receipt' \o <<"request-derivation">>
        BY AnsweredFacts DEF HttpInv, TypeOK, Records, Sent
  <1>2. Records'
        BY <1>1 DEF Records, Derived, Sent
  <1> QED
        BY <1>1, <1>2, AnsweredStep DEF Sent

LEMMA ReadStep == ASSUME HttpInv, Read PROVE HttpInv'
  <1>0. /\ pc = "read" /\ UNCHANGED inputs /\ pinned' = pinned
        /\ stored' = stored /\ wire' = wire
        BY DEF Read
  <1>1. CASE \E e : Return(Err(e))
        BY <1>0, <1>1, ErrorStep
  <1>2. CASE pc' = "redact" /\ UNCHANGED result
        BY <1>0, <1>2, RedactingStep DEF Sent
  <1> QED
        BY <1>1, <1>2, Zenon DEF Read

LEMMA NextSecretStep == ASSUME HttpInv, NextSecret PROVE HttpInv'
  BY RedactingStep DEF NextSecret

LEMMA ReplaceSecretStep == ASSUME HttpInv, ReplaceSecret PROVE HttpInv'
  BY RedactingStep DEF ReplaceSecret

LEMMA StoreBodyStep == ASSUME HttpInv, StoreBody PROVE HttpInv'
  <1>0. /\ pc = "blob" /\ UNCHANGED inputs /\ pinned' = pinned
        /\ wire' = wire /\ response' = response
        BY DEF StoreBody
  <1>1. CASE UNCHANGED stored /\ \E e : Return(Err(e))
        BY <1>0, <1>1, ErrorStep
  <1>2. CASE /\ stored' = Append(stored, "body") /\ UNCHANGED result
             /\ pc' = IF response.failures = {} THEN "trace" ELSE "failures"
        <2>1. /\ stored' \in Seq(Kinds) /\ stored' = stored \o <<"body">>
              /\ \A y : Contains(stored', y) <=>
                         Contains(stored, y) \/ "body" = y
              BY <1>0, <1>2, RecordStored DEF Kinds
        <2>2. /\ ~Contains(stored', "observation")
              /\ Contains(stored', "request-derivation")
              /\ stored' = Answered' /\ Answered' \in Seq(Kinds)
              BY <1>0, <2>1, AnsweredFacts DEF HttpInv, Records, Sent, Answered
        <2>3. response'.failures = {} => Reported' = Answered'
              <3>1. Answered' \o <<>> = Answered'
                    BY <2>2, ConcatEmptySeq
              <3> QED
                    BY <3>1 DEF Reported
        <2>4. Records'
              BY <1>0, <1>2, <2>2, <2>3 DEF Records, Derived, Sent
        <2> QED
              BY <1>0, <1>2, <2>1, <2>2, <2>4, AnsweredStep DEF Sent
  <1> QED
        BY <1>1, <1>2 DEF StoreBody

LEMMA StoreFailuresStep == ASSUME HttpInv, StoreFailures PROVE HttpInv'
  <1>0. /\ pc = "failures" /\ UNCHANGED inputs /\ pinned' = pinned
        /\ wire' = wire /\ response' = response
        /\ Put("schema-error", "trace")
        BY DEF StoreFailures
  <1>1. ASSUME stored' = Append(stored, "schema-error"), pc' = "trace",
               UNCHANGED result
        PROVE  HttpInv'
        <2>1. /\ stored' \in Seq(Kinds) /\ stored' = stored \o <<"schema-error">>
              /\ \A y : Contains(stored', y) <=>
                         Contains(stored, y) \/ "schema-error" = y
              BY <1>0, <1>1, RecordStored DEF Kinds
        <2>2. /\ ~Contains(stored', "observation")
              /\ Contains(stored', "request-derivation")
              BY <1>0, <2>1, AnsweredFacts DEF Sent
        <2>3. stored' = Reported'
              BY <1>0, <2>1, AnsweredFacts DEF HttpInv, Records, Sent, Reported
        <2>4. Records'
              BY <1>1, <2>2, <2>3 DEF Records, Derived, Sent
        <2> QED
              BY <1>0, <1>1, <2>1, <2>2, <2>4, AnsweredStep DEF Sent
  <1> QED
        BY <1>0, <1>1, PutOutcome

LEMMA StoreTraceStep == ASSUME HttpInv, StoreTrace PROVE HttpInv'
  <1>0. /\ pc = "trace" /\ UNCHANGED inputs /\ pinned' = pinned
        /\ wire' = wire /\ response' = response
        /\ Put("trace", "persist")
        BY DEF StoreTrace
  <1>1. ASSUME stored' = Append(stored, "trace"), pc' = "persist",
               UNCHANGED result
        PROVE  HttpInv'
        <2>1. /\ stored' \in Seq(Kinds) /\ stored' = stored \o <<"trace">>
              /\ \A y : Contains(stored', y) <=>
                         Contains(stored, y) \/ "trace" = y
              BY <1>0, <1>1, RecordStored DEF Kinds
        <2>2. /\ ~Contains(stored', "observation")
              /\ Contains(stored', "request-derivation")
              BY <1>0, <2>1, AnsweredFacts DEF Sent
        <2>3. Reported' = Reported
              BY <1>0, AnsweredFacts DEF Sent, Reported
        <2>4. stored' = Reported' \o <<"trace">>
              BY <1>0, <2>1, <2>3 DEF HttpInv, Records
        <2>5. Records'
              BY <1>1, <2>2, <2>4 DEF Records, Derived, Sent
        <2> QED
              BY <1>0, <1>1, <2>1, <2>2, <2>5, AnsweredStep DEF Sent
  <1> QED
        BY <1>0, <1>1, PutOutcome

LEMMA PersistStep == ASSUME HttpInv, Persist PROVE HttpInv'
  <1>0. /\ pc = "persist" /\ UNCHANGED inputs /\ pinned' = pinned
        /\ wire' = wire
        BY DEF Persist
  <1>1. CASE UNCHANGED stored /\ \E e : Return(Err(e))
        BY <1>0, <1>1, ErrorStep
  <1>2. CASE /\ stored' = Append(stored, "observation")
             /\ Return(Observation(response.failures = {}))
        <2>1. /\ WireOK' /\ stored' \in Seq(Kinds)
              /\ stored' = stored \o <<"observation">>
              BY <1>0, <1>2, RecordStored DEF Kinds
        <2>2. /\ pc' = "done" /\ result'.some /\ result'.kind = "observation"
              /\ result'.passed <=> response.failures = {}
              BY <1>2 DEF Return, Observation
        <2>3. stored = Reported \o <<"trace">>
              BY <1>0 DEF HttpInv, Records
        <2> DEFINE opt == IF response.failures = {} THEN <<>>
                          ELSE <<"schema-error">>
        <2>4. /\ Receipt \in Seq(Kinds) /\ opt \in Seq(Kinds)
              /\ <<"request-derivation", "body">> \in Seq(Kinds)
              <3>1. \A k \in Kinds : <<k>> \in Seq(Kinds)
                    OBVIOUS
              <3>2. << >> \in Seq(Kinds)
                    OBVIOUS
              <3>3. \A k, l \in Kinds : <<k, l>> \in Seq(Kinds)
                    OBVIOUS
              <3>4. {"oauth-refresh", "request-derivation", "body",
                     "schema-error"} \subseteq Kinds
                    BY DEF Kinds
              <3>5. Receipt \in Seq(Kinds)
                    BY <3>1, <3>2, <3>4, Zenon DEF Receipt
              <3>6. opt \in Seq(Kinds)
                    BY <3>1, <3>2, <3>4, Zenon
              <3> QED
                    BY <3>3, <3>4, <3>5, <3>6, Zenon
        <2>5. Answered = Receipt \o <<"request-derivation", "body">>
              BY <2>4, TwoRecords DEF Answered, Kinds
        <2>6. Reported \in Seq(Kinds)
              BY <2>4, <2>5, ConcatProperties DEF Reported
        <2>7. stored' = Reported \o <<"trace", "observation">>
              BY <2>1, <2>3, <2>6, TwoRecords DEF Kinds
        <2>8. stored' = ((Receipt' \o <<"request-derivation", "body">>)
                          \o (IF result'.passed THEN <<>> ELSE <<"schema-error">>))
                          \o <<"trace", "observation">>
              BY <1>0, <2>2, <2>5, <2>7, InputsKept DEF Reported
        <2>9. \E i \in DOMAIN wire' : wire'[i].kind = "request"
              BY <1>0, AnsweredFacts DEF Sent
        <2>10. ObservationComplete'
              BY <2>2, <2>8, <2>9 DEF ObservationComplete, Receipt
        <2>11. GrantsSuffice' /\ Records'
              BY <2>2 DEF GrantsSuffice, Records, Derived, Sent
        <2>12. TypeOK' /\ Progress' /\ Pins'
              BY <1>0, <2>1, <2>2, AnsweredFacts
                 DEF HttpInv, TypeOK, Points, inputs, Progress, Pins, Gated,
                     Evaluated, Bound, Derived, Sent
        <2> QED
              BY <2>1, <2>10, <2>11, <2>12 DEF HttpInv
  <1> QED
        BY <1>1, <1>2 DEF Persist

LEMMA NextInv == HttpInv /\ [Next]_vars => HttpInv'
  <1> SUFFICES ASSUME HttpInv, [Next]_vars PROVE HttpInv'
      OBVIOUS
  <1>1. CASE Step
        BY <1>1, PlanStep, GateStep, EvaluateTargetStep, PrepareStep,
           EvaluateTokenStep, ExchangeTokenStep, StoreReceiptStep,
           CheckBodyStep, StoreDerivationStep, SendStep, ReadStep,
           NextSecretStep, ReplaceSecretStep, StoreBodyStep, StoreFailuresStep,
           StoreTraceStep, PersistStep
           DEF Step
  <1>2. CASE Rebind
        BY <1>2, IdleStep DEF Rebind, outputs
  <1>3. CASE Returned \/ UNCHANGED vars
        BY <1>3, IdleStep DEF Returned, vars, inputs
  <1> QED
        BY <1>1, <1>2, <1>3 DEF Next

\* The inductive invariant: the gates, the pins, the wire and the records at
\* every point of invoke.
THEOREM HttpInvariant == Spec => []HttpInv
  BY InitInv, NextInv, PTL DEF Spec

\* Whatever the names resolve to and whenever they change, no exchange leaves
\* for an address that was not evaluated under the caller's grants, and no
\* request before the gates and its derivation.
THEOREM RequestsJustified == Spec => []RequestJustified
  <1>1. HttpInv => RequestJustified
        BY DEF HttpInv, Progress, Cleared, WireOK, Admitted, RequestJustified
  <1> QED
        BY <1>1, HttpInvariant, PTL

\* The grants a plan lists are enough for every denial the planner could
\* foresee.
THEOREM RequiredGrantsSuffice == Spec => []GrantsSuffice
  <1>1. HttpInv => GrantsSuffice
        BY DEF HttpInv
  <1> QED
        BY <1>1, HttpInvariant, PTL

\* An observation is returned exactly with all its records, in their order.
THEOREM ObservationsComplete == Spec => []ObservationComplete
  <1>1. HttpInv => ObservationComplete
        BY DEF HttpInv
  <1> QED
        BY <1>1, HttpInvariant, PTL

\* A write to a production server has the approval of the caller, under the
\* configuration the plan was made with and no other.
THEOREM ProductionWritesApproved == Spec => []ProductionApproved
  <1>1. HttpInv => ProductionApproved
        <2> SUFFICES ASSUME HttpInv, NEW s \in DOMAIN config.servers,
                            config.servers[s].production,
                            config.policy.approval,
                            ServerOrigin(config.servers[s].url)
                              = config.servers[s].url,
                            WriteTo(config.servers[s].url)
                     PROVE  ApproveProduction \in grants
            BY DEF ProductionApproved
        <2>1. PICK i \in DOMAIN wire :
                /\ wire[i].kind = "request"
                /\ ServerOrigin(wire[i].url)
                     = ServerOrigin(config.servers[s].url)
                /\ plan.risk \in {"write", "destructive"}
              BY DEF WriteTo
        <2>2. wire[i].url = plan.target
              BY <2>1 DEF HttpInv, WireOK
        <2>3. Cleared
              <3>1. wire # <<>>
                    BY <2>1, EmptySeq, LenProperties
              <3> QED
                    BY <3>1 DEF HttpInv, Progress
        <2>4. config.version # 0
              BY DefaultConfiguration DEF HttpInv, TypeOK
        <2>5. config = ConfigFingerprint(case.cfg)
              BY <2>3, <2>4, RequiredGrants DEF Cleared, ConfigFingerprint
        <2>6. case.cfg = config
              BY <2>4, <2>5 DEF ConfigFingerprint
        <2>7. ApproveProduction
                \in ApprovalGrants(case.op, case.cfg, plan.target)
              BY <2>1, <2>2, <2>3, <2>6, RequiredGrants
                 DEF ApprovalGrants, ProductionServer, Cleared
        <2> QED
              BY <2>3, <2>7, RequiredGrants DEF Cleared
  <1> QED
        BY <1>1, HttpInvariant, PTL
-----------------------------------------------------------------------------
(* Redaction.  redact_bytes runs a step at a time, so what it leaves of the *)
(* body is an invariant of its loops and needs no induction over the bytes. *)

\* A byte of the working copy: where it was in the body, 0 for a marker.
Cell == [at : Nat, byte : Byte \cup {Marker}]

\* Every byte is the body's byte of its place, or a marker.
Traced(data, bytes) ==
  \A k \in 1..Len(data) :
    \/ data[k] = Removed
    \/ data[k].at \in 1..Len(bytes) /\ data[k].byte = bytes[data[k].at]

\* Bytes without a marker among them.
Run(data, k, l) == \A j \in k..l : data[j].at # 0

\* Bytes without a marker between them were neighbours in the body.
Runs(data) ==
  \A k, l \in 1..Len(data) :
    k <= l /\ Run(data, k, l) => data[l].at = data[k].at + (l - k)

\* The bytes that are left are in their order.
Rising(data) ==
  \A k, l \in 1..Len(data) :
    k < l /\ data[k].at # 0 /\ data[l].at # 0 => data[k].at < data[l].at

\* The copy is the body with some stretches cut out.
Faithful(data, bytes) == Traced(data, bytes) /\ Runs(data) /\ Rising(data)

\* No byte of a stretch is left, or all of it is, from p on.
Gone(data, S) == \A k \in 1..Len(data) : data[k].at \notin S
Intact(data, i, n, p) ==
  p \in 1..(Len(data) - n + 1) /\ \A j \in 1..n : data[p + j - 1].at = i + j - 1

\* What splice makes of n bytes at s.
Spliced(old, new, s, n) ==
  /\ n \in Nat \ {0} /\ s \in 1..Len(old) /\ s + n - 1 <= Len(old)
  /\ Len(old) \in Nat /\ Len(new) \in Nat /\ Len(new) = Len(old) - n + 1
  /\ \A k \in 1..Len(new) : k < s => new[k] = old[k]
  /\ \A k \in 1..Len(new) : k > s => new[k] = old[k + n - 1]
  /\ new[s] = Removed

\* Replace is a splice.
LEMMA ReplaceFacts ==
  ASSUME NEW data \in Seq(Cell), NEW n \in Nat \ {0},
         NEW s \in 1..(Len(data) - n + 1)
  PROVE  /\ Replace(data, s, n) \in Seq(Cell)
         /\ Spliced(data, Replace(data, s, n), s, n)
  <1> DEFINE m == Len(data) - n + 1
             new == Replace(data, s, n)
  <1>1. Len(data) \in Nat /\ m \in Nat /\ Removed \in Cell
        BY DEF Removed, Cell
  <1>2. \A k \in 1..Len(data) : data[k] \in Cell
        OBVIOUS
  <1>3. \A k \in 1..m : k > s => k + n - 1 \in 1..Len(data)
        BY <1>1
  <1>4. \A k \in 1..m : k < s => k \in 1..Len(data)
        BY <1>1
  <1>5. new \in [1..m -> Cell]
        BY <1>1, <1>2, <1>3, <1>4 DEF Replace
  <1>6. new \in Seq(Cell) /\ Len(new) = m
        BY <1>1, <1>5
  <1>7. /\ \A k \in 1..m : k < s => new[k] = data[k]
        /\ \A k \in 1..m : k > s => new[k] = data[k + n - 1]
        /\ new[s] = Removed
        BY <1>1 DEF Replace
  <1>8. s \in 1..Len(data) /\ s + n - 1 <= Len(data)
        BY <1>1
  <1> HIDE DEF new
  <1>9. Spliced(data, new, s, n)
        BY <1>1, <1>6, <1>7, <1>8 DEF Spliced
  <1> QED
        BY <1>6, <1>9 DEF new

\* A window that reads as a secret holds no marker.
LEMMA MatchFacts ==
  ASSUME NEW data, Len(data) \in Nat, NEW bytes, Traced(data, bytes),
         NEW t \in Seq(Byte), t # <<>>, NEW i \in Matches(data, t, 1)
  PROVE  /\ Len(t) \in Nat \ {0} /\ i \in 1..Len(data)
         /\ i + Len(t) - 1 \in 1..Len(data)
         /\ \A j \in 1..Len(t) : data[i + j - 1].byte = t[j] /\ t[j] \in Byte
         /\ Run(data, i, i + Len(t) - 1)
  <1>1. Len(t) \in Nat \ {0}
        BY EmptySeq
  <1>2. /\ i \in 1..Len(data) /\ i + Len(t) - 1 \in 1..Len(data)
        /\ \A j \in 1..Len(t) : data[i + j - 1].byte = t[j] /\ t[j] \in Byte
        BY <1>1 DEF Matches
  <1>3. ASSUME NEW j \in i..(i + Len(t) - 1) PROVE data[j].at # 0
        <2>1. j - i + 1 \in 1..Len(t) /\ i + (j - i + 1) - 1 = j /\ j \in 1..Len(data)
              BY <1>1, <1>2
        <2>2. data[j].byte \in Byte
              BY <1>2, <2>1
        <2>3. data[j] # Removed
              BY <2>2, BytesAssumption DEF Removed
        <2> QED
              BY <2>1, <2>3 DEF Traced
  <1> QED
        BY <1>1, <1>2, <1>3 DEF Run

\* A window of the copy after a splice was a window before it.
LEMMA MatchEarlier ==
  ASSUME NEW data, NEW new, NEW s, NEW n, Spliced(data, new, s, n),
         NEW bytes, Traced(new, bytes),
         NEW t \in Seq(Byte), t # <<>>, NEW i \in Matches(new, t, 1)
  PROVE  \/ i < s /\ i + Len(t) - 1 < s /\ i \in Matches(data, t, 1)
         \/ i > s /\ i + n - 1 \in Matches(data, t, 1)
  <1>0. Len(new) \in Nat /\ s \in Nat /\ n \in Nat \ {0} /\ Len(data) \in Nat
        BY DEF Spliced
  <1>1. /\ Len(t) \in Nat \ {0} /\ i \in 1..Len(new)
        /\ i + Len(t) - 1 \in 1..Len(new)
        /\ \A j \in 1..Len(t) : new[i + j - 1].byte = t[j] /\ t[j] \in Byte
        /\ \A j \in i..(i + Len(t) - 1) : new[j].at # 0
        BY <1>0, MatchFacts DEF Run
  <1>2. s \notin i..(i + Len(t) - 1)
        <2>1. new[s].at = 0
              BY DEF Spliced, Removed
        <2> QED
              BY <1>1, <2>1
  <1>3. CASE i + Len(t) - 1 < s
        <2>0. \A j \in 1..Len(t) : i + j - 1 \in 1..Len(new) /\ i + j - 1 < s
              BY <1>0, <1>1, <1>3
        <2>1. \A j \in 1..Len(t) : new[i + j - 1] = data[i + j - 1]
              BY <2>0 DEF Spliced
        <2>2. i \in 1..(Len(data) - Len(t) + 1)
              BY <1>0, <1>1, <1>3 DEF Spliced
        <2>3. i \in Matches(data, t, 1)
              BY <1>1, <2>1, <2>2 DEF Matches
        <2> QED
              BY <1>0, <1>1, <1>3, <2>3
  <1>4. CASE i > s
        <2>1. \A j \in 1..Len(t) : new[i + j - 1] = data[(i + j - 1) + n - 1]
              BY <1>0, <1>1, <1>4 DEF Spliced
        <2>2. \A j \in 1..Len(t) : (i + j - 1) + n - 1 = (i + n - 1) + j - 1
              BY <1>0, <1>1
        <2>3. i + n - 1 \in 1..(Len(data) - Len(t) + 1)
              BY <1>0, <1>1, <1>4 DEF Spliced
        <2>4. i + n - 1 \in Matches(data, t, 1)
              BY <1>1, <2>1, <2>2, <2>3 DEF Matches
        <2> QED
              BY <1>4, <2>4
  <1> QED
        BY <1>0, <1>1, <1>2, <1>3, <1>4

\* A splice keeps the copy faithful to the body.
LEMMA SplicedFaithful ==
  ASSUME NEW data, NEW new, NEW s, NEW n, Spliced(data, new, s, n),
         NEW bytes, Faithful(data, bytes)
  PROVE  Faithful(new, bytes)
  <1>0. /\ Len(new) \in Nat /\ s \in Nat /\ n \in Nat \ {0} /\ Len(data) \in Nat
        /\ s + n - 1 <= Len(data) /\ Len(new) = Len(data) - n + 1
        /\ new[s] = Removed /\ new[s].at = 0
        BY DEF Spliced, Removed
  <1> DEFINE was(k) == IF k < s THEN k ELSE k + n - 1
  <1>1. \A k \in 1..Len(new) : k # s =>
          /\ was(k) \in 1..Len(data) /\ new[k] = data[was(k)]
        BY <1>0 DEF Spliced
  <1>2. Traced(new, bytes)
        <2> HIDE DEF was
        <2> QED
              BY <1>0, <1>1 DEF Traced, Faithful
  <1>3. Rising(new)
        <2> SUFFICES ASSUME NEW k \in 1..Len(new), NEW l \in 1..Len(new), k < l,
                            new[k].at # 0, new[l].at # 0
                     PROVE  new[k].at < new[l].at
            BY DEF Rising
        <2>1. k # s /\ l # s
              BY <1>0
        <2>2. was(k) < was(l)
              BY <1>0
        <2> QED
              BY <1>1, <2>1, <2>2 DEF Rising, Faithful
  <1>4. Runs(new)
        <2> SUFFICES ASSUME NEW k \in 1..Len(new), NEW l \in 1..Len(new), k <= l,
                            \A j \in k..l : new[j].at # 0
                     PROVE  new[l].at = new[k].at + (l - k)
            BY DEF Runs, Run
        <2>1. s \notin k..l /\ k # s /\ l # s
              BY <1>0
        <2>2. was(k) \in 1..Len(data) /\ was(l) \in 1..Len(data)
              /\ new[k] = data[was(k)] /\ new[l] = data[was(l)]
              BY <1>1, <2>1
        <2>3. was(k) <= was(l) /\ was(l) - was(k) = l - k
              BY <1>0, <2>1
        <2>4. ASSUME NEW j \in was(k)..was(l) PROVE data[j].at # 0
              <3> DEFINE h == IF j < s THEN j ELSE j - n + 1
              <3>1. h \in k..l /\ was(h) = j /\ h # s /\ h \in 1..Len(new)
                    BY <1>0, <2>1, <2>4
              <3> QED
                    BY <1>1, <3>1
        <2> QED
              BY <2>2, <2>3, <2>4 DEF Runs, Run, Faithful
  <1> QED
        BY <1>2, <1>3, <1>4 DEF Faithful

\* What reads as a secret in the copy is an occurrence in the body.
LEMMA MatchIsOccurrence ==
  ASSUME NEW data, Len(data) \in Nat, NEW bytes, Len(bytes) \in Nat,
         Faithful(data, bytes),
         NEW t \in Seq(Byte), t # <<>>, NEW i \in Matches(data, t, 1)
  PROVE  /\ data[i].at \in Occurrences(t, bytes)
         /\ \A j \in 1..Len(t) : data[i + j - 1].at = data[i].at + j - 1
  <1> DEFINE a == data[i].at
  <1>1. /\ Len(t) \in Nat \ {0} /\ i \in 1..Len(data)
        /\ i + Len(t) - 1 \in 1..Len(data)
        /\ \A j \in 1..Len(t) : data[i + j - 1].byte = t[j] /\ t[j] \in Byte
        /\ \A j \in i..(i + Len(t) - 1) : data[j].at # 0
        BY MatchFacts DEF Run, Faithful
  <1>2. ASSUME NEW j \in 1..Len(t)
        PROVE  /\ data[i + j - 1].at = a + j - 1
               /\ data[i + j - 1].at \in 1..Len(bytes)
               /\ bytes[a + j - 1] = t[j]
        <2> DEFINE l == i + j - 1
        <2>1. l \in 1..Len(data) /\ i <= l /\ l \in i..(i + Len(t) - 1)
              BY <1>1
        <2>2. Run(data, i, l)
              BY <1>1, <2>1 DEF Run
        <2>3. data[l].at = a + (l - i)
              BY <1>1, <2>1, <2>2 DEF Faithful, Runs
        <2>4. data[l].at # 0 /\ data[l] # Removed
              BY <1>1, <2>1 DEF Removed
        <2>5. data[l].at \in 1..Len(bytes) /\ data[l].byte = bytes[data[l].at]
              BY <2>1, <2>4 DEF Faithful, Traced
        <2>6. a \in Nat
              <3>0. i \in i..(i + Len(t) - 1)
                    BY <1>1
              <3>1. data[i].at # 0 /\ data[i] # Removed
                    BY <1>1, <3>0 DEF Removed
              <3> QED
                    BY <1>1, <3>1 DEF Faithful, Traced
        <2>7. a + (l - i) = a + j - 1
              BY <1>1, <2>6
        <2> QED
              BY <1>1, <2>3, <2>5, <2>7
  <1>3. a \in 1..Len(bytes) /\ a + Len(t) - 1 \in 1..Len(bytes)
        <2>1. 1 \in 1..Len(t) /\ Len(t) \in 1..Len(t)
              BY <1>1
        <2>2. i + 1 - 1 = i
              BY <1>1
        <2> QED
              BY <1>2, <2>1, <2>2
  <1>4. a \in 1..(Len(bytes) - Len(t) + 1)
        BY <1>1, <1>3
  <1> QED
        BY <1>2, <1>4 DEF Occurrences

\* An occurrence that is intact in the copy reads as its text there.
LEMMA IntactMatches ==
  ASSUME NEW data, Len(data) \in Nat, NEW bytes, Len(bytes) \in Nat,
         Traced(data, bytes),
         NEW t \in Seq(Byte), t # <<>>, NEW i \in Occurrences(t, bytes),
         NEW p, Intact(data, i, Len(t), p)
  PROVE  p \in Matches(data, t, 1)
  <1>1. Len(t) \in Nat \ {0}
        BY EmptySeq
  <1>2. i \in Nat \ {0} /\ \A j \in 1..Len(t) : bytes[i + j - 1] = t[j]
        BY <1>1 DEF Occurrences
  <1>3. p \in 1..(Len(data) - Len(t) + 1)
        BY DEF Intact
  <1>4. ASSUME NEW j \in 1..Len(t) PROVE data[p + j - 1].byte = t[j]
        <2> DEFINE k == p + j - 1
        <2>1. k \in 1..Len(data)
              BY <1>1, <1>3
        <2>2. data[k].at = i + j - 1 /\ i + j - 1 # 0
              BY <1>1, <1>2 DEF Intact
        <2>3. data[k] # Removed
              BY <2>2 DEF Removed
        <2>4. data[k].byte = bytes[i + j - 1]
              BY <2>1, <2>2, <2>3 DEF Traced
        <2> QED
              BY <1>2, <2>4
  <1> QED
        BY <1>3, <1>4 DEF Matches

\* What is gone stays gone.
LEMMA GoneStays ==
  ASSUME NEW data, NEW new, NEW s, NEW n, Spliced(data, new, s, n),
         NEW S, 0 \notin S, Gone(data, S)
  PROVE  Gone(new, S)
  <1>0. /\ Len(new) \in Nat /\ s \in Nat /\ n \in Nat \ {0} /\ Len(data) \in Nat
        /\ s + n - 1 <= Len(data) /\ Len(new) = Len(data) - n + 1
        /\ new[s].at = 0
        BY DEF Spliced, Removed
  <1>1. ASSUME NEW k \in 1..Len(new) PROVE new[k].at \notin S
        <2>1. CASE k = s
              BY <1>0, <2>1
        <2>2. CASE k < s
              BY <1>0, <2>2 DEF Spliced, Gone
        <2>3. CASE k > s
              <3>1. k + n - 1 \in 1..Len(data) /\ new[k] = data[k + n - 1]
                    BY <1>0, <2>3 DEF Spliced
              <3> QED
                    BY <3>1 DEF Gone
        <2> QED
              BY <1>0, <2>1, <2>2, <2>3
  <1> QED
        BY <1>1 DEF Gone

\* The stretch a splice removes is gone: no other byte has one of its places.
LEMMA GoneNow ==
  ASSUME NEW data, NEW new, NEW s, NEW n, Spliced(data, new, s, n),
         Rising(data), NEW a \in Nat \ {0},
         \A j \in 1..n : data[s + j - 1].at = a + j - 1,
         \A k \in 1..Len(data) : data[k].at \in Nat
  PROVE  Gone(new, a..(a + n - 1))
  <1>0. /\ Len(new) \in Nat /\ s \in Nat \ {0} /\ n \in Nat \ {0} /\ Len(data) \in Nat
        /\ s + n - 1 <= Len(data) /\ Len(new) = Len(data) - n + 1
        /\ new[s].at = 0
        BY DEF Spliced, Removed
  <1>1. /\ data[s].at = a /\ s \in 1..Len(data)
        /\ data[s + n - 1].at = a + n - 1 /\ s + n - 1 \in 1..Len(data)
        <2>1. 1 \in 1..n /\ n \in 1..n /\ s + 1 - 1 = s /\ a + 1 - 1 = a
              BY <1>0
        <2>2. s \in 1..Len(data) /\ s + n - 1 \in 1..Len(data)
              BY <1>0
        <2> QED
              BY <2>1, <2>2
  <1>2. ASSUME NEW k \in 1..Len(new) PROVE new[k].at \notin a..(a + n - 1)
        <2>1. CASE k = s
              BY <1>0, <2>1
        <2>2. CASE k < s
              <3>1. k \in 1..Len(data) /\ new[k] = data[k]
                    BY <1>0, <2>2 DEF Spliced
              <3>2. data[k].at # 0 => data[k].at < data[s].at
                    BY <1>1, <2>2, <3>1 DEF Rising
              <3> QED
                    BY <1>0, <1>1, <3>1, <3>2
        <2>3. CASE k > s
              <3> DEFINE l == k + n - 1
              <3>1. l \in 1..Len(data) /\ new[k] = data[l] /\ s + n - 1 < l
                    BY <1>0, <2>3 DEF Spliced
              <3> DEFINE e == s + n - 1
              <3>2. e \in 1..Len(data) /\ e < l /\ data[e].at # 0
                    BY <1>0, <1>1, <3>1
              <3>3. data[e].at = a + n - 1 /\ data[l].at \in Nat
                    BY <1>1, <3>1
              <3> HIDE DEF l, e
              <3>4. data[l].at # 0 => data[e].at < data[l].at
                    BY <3>1, <3>2 DEF Rising
              <3> QED
                    BY <1>0, <3>1, <3>3, <3>4
        <2> QED
              BY <1>0, <2>1, <2>2, <2>3
  <1> QED
        BY <1>2 DEF Gone

\* A stretch apart from the splice moves with the bytes around it.
LEMMA IntactMoves ==
  ASSUME NEW data, NEW new, NEW s, NEW n, Spliced(data, new, s, n),
         NEW i, NEW m \in Nat \ {0}, NEW p, Intact(data, i, m, p)
  PROVE  /\ p + m - 1 < s => Intact(new, i, m, p)
         /\ p >= s + n => Intact(new, i, m, p - n + 1)
  <1>0. /\ Len(new) \in Nat /\ s \in Nat \ {0} /\ n \in Nat \ {0} /\ Len(data) \in Nat
        /\ s + n - 1 <= Len(data) /\ Len(new) = Len(data) - n + 1
        BY DEF Spliced
  <1>1. p \in 1..(Len(data) - m + 1) /\ \A j \in 1..m : data[p + j - 1].at = i + j - 1
        BY DEF Intact
  <1>2. ASSUME p + m - 1 < s PROVE Intact(new, i, m, p)
        <2>1. \A j \in 1..m : p + j - 1 \in 1..Len(new) /\ p + j - 1 < s
              BY <1>0, <1>1, <1>2
        <2>2. p \in 1..(Len(new) - m + 1)
              BY <1>0, <1>1, <1>2
        <2> QED
              BY <1>1, <2>1, <2>2 DEF Spliced, Intact
  <1>3. ASSUME p >= s + n PROVE Intact(new, i, m, p - n + 1)
        <2> DEFINE q == p - n + 1
        <2>1. \A j \in 1..m : /\ q + j - 1 \in 1..Len(new) /\ q + j - 1 > s
                              /\ (q + j - 1) + n - 1 = p + j - 1
              BY <1>0, <1>1, <1>3
        <2>2. q \in 1..(Len(new) - m + 1)
              BY <1>0, <1>1, <1>3
        <2> HIDE DEF q
        <2>3. \A j \in 1..m : new[q + j - 1] = data[p + j - 1]
              BY <2>1 DEF Spliced
        <2>4. Intact(new, i, m, q)
              BY <1>1, <2>2, <2>3 DEF Intact
        <2> QED
              BY <2>4 DEF q
  <1> QED
        BY <1>2, <1>3

\* Two stretches of which one contains the other and is not longer are one.
LEMMA SameSpan ==
  ASSUME NEW a \in Nat, NEW i \in Nat, NEW n \in Nat \ {0}, NEW m \in Nat \ {0},
         m <= n, a..(a + n - 1) \subseteq i..(i + m - 1)
  PROVE  a = i /\ n = m
  <1>0. a \in a..(a + n - 1) /\ a + n - 1 \in a..(a + n - 1)
        OBVIOUS
  <1>1. a \in i..(i + m - 1) /\ a + n - 1 \in i..(i + m - 1)
        BY <1>0
  <1> QED
        BY <1>1

\* A whole occurrence survives the removal of a text that is no shorter, or
\* goes with it.
LEMMA Survives ==
  ASSUME NEW data, NEW new, NEW s, NEW u \in Seq(Byte), u # <<>>,
         Spliced(data, new, s, Len(u)),
         NEW bytes, Len(bytes) \in Nat, Faithful(data, bytes),
         s \in Matches(data, u, 1),
         NEW t \in Seq(Byte), t # <<>>, Len(t) <= Len(u),
         NEW i \in Occurrences(t, bytes),
         \A k \in Occurrences(u, bytes) : Nested(Span(u, k), Span(t, i)),
         NEW p, Intact(data, i, Len(t), p)
  PROVE  \/ Gone(new, Span(t, i))
         \/ p + Len(t) - 1 < s /\ Intact(new, i, Len(t), p)
         \/ p >= s + Len(u) /\ Intact(new, i, Len(t), p - Len(u) + 1)
  <1> DEFINE n == Len(u)
             m == Len(t)
             a == data[s].at
  <1>0. /\ n \in Nat \ {0} /\ m \in Nat \ {0} /\ m <= n /\ Len(data) \in Nat
        /\ s \in Nat \ {0}
        BY EmptySeq DEF Spliced
  <1>1. /\ a \in Occurrences(u, bytes)
        /\ \A j \in 1..n : data[s + j - 1].at = a + j - 1
        BY <1>0, MatchIsOccurrence
  <1>2. a \in Nat \ {0} /\ i \in Nat \ {0}
        <2>1. \A v : \A k \in Occurrences(v, bytes) : k \in Nat \ {0}
              BY DEF Occurrences
        <2> QED
              BY <1>1, <2>1
  <1>3. p \in Nat \ {0} /\ \A j \in 1..m : data[p + j - 1].at = i + j - 1
        BY <1>0 DEF Intact
  <1>4. CASE a..(a + n - 1) \subseteq i..(i + m - 1)
        <2>1. a = i /\ n = m
              <3> HIDE DEF a, n, m
              <3> QED
                    BY <1>0, <1>2, <1>4, SameSpan
        <2>2. \A k \in 1..Len(data) : data[k].at \in Nat
              BY DEF Faithful, Traced, Removed
        <2>3. Gone(new, a..(a + n - 1))
              BY <1>1, <1>2, <2>2, GoneNow DEF Faithful
        <2> QED
              BY <2>1, <2>3 DEF Span
  <1>5. CASE a..(a + n - 1) \cap i..(i + m - 1) = {}
        <2>1. p + m - 1 < s \/ p >= s + n
              <3> SUFFICES ASSUME p + m - 1 >= s, p < s + n PROVE FALSE
                  BY <1>0, <1>3
              <3> DEFINE k == IF p >= s THEN p ELSE s
              <3>1. /\ k \in Nat /\ k - p + 1 \in 1..m /\ k - s + 1 \in 1..n
                    /\ p + (k - p + 1) - 1 = k /\ s + (k - s + 1) - 1 = k
                    BY <1>0, <1>3
              <3> HIDE DEF k
              <3>2. /\ data[k].at = i + (k - p + 1) - 1
                    /\ data[k].at = a + (k - s + 1) - 1
                    BY <1>1, <1>3, <3>1
              <3>3. ASSUME NEW b \in Nat, NEW l \in Nat, NEW x \in 1..l
                    PROVE  b + x - 1 \in b..(b + l - 1)
                    OBVIOUS
              <3>4. data[k].at \in i..(i + m - 1) /\ data[k].at \in a..(a + n - 1)
                    <4>1. i + (k - p + 1) - 1 \in i..(i + m - 1)
                          BY <1>0, <1>2, <3>1, <3>3
                    <4>2. a + (k - s + 1) - 1 \in a..(a + n - 1)
                          BY <1>0, <1>2, <3>1, <3>3
                    <4> QED
                          BY <3>2, <4>1, <4>2
              <3> QED
                    BY <1>5, <3>4
        <2> QED
              BY <1>0, <2>1, IntactMoves
  <1> QED
        BY <1>1, <1>4, <1>5 DEF Nested, Span

\* The state of redact_bytes.
Working ==
  [some : {TRUE}, body : Bodies, failures : SUBSET plan.checks,
   saved : Seq(Cell), todo : SUBSET Redactions,
   text : Redactions \cup {<<>>}, from : Nat \ {0}]

\* No window before the cursor reads as the text.
Passed(data, t, from) == \A i \in Matches(data, t, 1) : i >= from

\* The text of an occurrence at p is still to be looked for there.
Due(t, p) ==
  \/ t \in response.todo
  \/ pc = "scan" /\ t = response.text /\ p >= response.from

\* A whole occurrence is gone from the copy, or intact and due.
Settled(t, i) ==
  \/ Gone(response.saved, Span(t, i))
  \/ \E p : Intact(response.saved, i, Len(t), p) /\ Due(t, p)

\* The invariant of the loops of redact_bytes: the copy is faithful, secrets done
\* with are nowhere in it, the present one is not before the cursor, and every
\* whole occurrence is settled.
Scanning ==
  /\ response \in Working
  /\ Faithful(response.saved, Bytes(response.body))
  /\ pc = "scan" =>
       /\ response.text \in Redactions
       /\ \A t \in response.todo : Len(t) <= Len(response.text)
       /\ Passed(response.saved, response.text, response.from)
  /\ \A t \in Redactions \ response.todo :
       (pc = "scan" /\ t = response.text) \/ Matches(response.saved, t, 1) = {}
  /\ \A t \in Redactions : \A i \in Occurrences(t, Bytes(response.body)) :
       Whole(t, i) => Settled(t, i)

\* No secret is left.
Clean ==
  /\ response \in Working
  /\ \A t \in Redactions :
       /\ Matches(response.saved, t, 1) = {}
       /\ \A i \in Occurrences(t, Bytes(response.body)) :
            Whole(t, i) => Gone(response.saved, Span(t, i))

\* What is looked for are byte sequences: a credential that is used exists.
Credentials ==
  /\ secrets \in Profiles
  /\ token.some => token.text = Token
  /\ pc \in Bound => CredentialError = "ok"

\* The inductive invariant.
RedactInv ==
  /\ Credentials
  /\ pc \in {"redact", "scan"} => Scanning
  /\ pc = "blob" \/ Contains(stored, "body") => Clean

\* What is looked for depends on the inputs and the token.
LEMMA RedactionsKept ==
  ASSUME UNCHANGED inputs, token' = token
  PROVE  Redactions' = Redactions /\ CredentialError' = CredentialError
  BY DEF inputs, Redactions, SecretTexts, SensitiveHeader, AuthPlacement,
         CredentialError, IsOAuth

\* Which occurrences are whole depends on the body and what is looked for.
LEMMA WholeKept ==
  ASSUME UNCHANGED inputs, token' = token, response'.body = response.body,
         NEW t, NEW i
  PROVE  Whole(t, i)' <=> Whole(t, i)
  BY RedactionsKept DEF inputs, Whole, Pointed

\* The texts to remove are not empty.
LEMMA TextsTyped ==
  ASSUME Credentials, pc \in {"read", "redact", "scan"}
  PROVE  Redactions \subseteq Seq(Byte) \ {<<>>}
  <1>1. secrets.some => /\ secrets.text \in Seq(Byte)
                        /\ ToSet(secrets.strings) \subseteq Seq(Byte)
        BY BytesAssumption DEF Credentials
  <1>2. SecretTexts \subseteq Seq(Byte)
        BY <1>1 DEF SecretTexts
  <1>3. /\ <<"B">> \in Seq(Byte) /\ <<"c">> \in Seq(Byte) /\ <<"e">> \in Seq(Byte)
        /\ Token \in Seq(Byte)
        BY BytesAssumption DEF Token
  <1>4. token.some => token.text \in Seq(Byte)
        BY <1>3 DEF Credentials
  <1>5. AuthPlacement \in {"bearer", "cookie", "header"} => secrets.some
        BY DEF Credentials, CredentialError, IsOAuth, Bound, Derived, Sent
  <1>6. SensitiveHeader \subseteq Seq(Byte)
        <2>1. \A s \in Seq(Byte) : /\ <<"B">> \o s \in Seq(Byte)
                                   /\ <<"c">> \o s \in Seq(Byte)
              BY <1>3, ConcatProperties
        <2> QED
              BY <1>1, <1>3, <1>4, <1>5, <2>1 DEF SensitiveHeader
  <1> QED
        BY <1>2, <1>4, <1>6 DEF Redactions

\* The body is a sequence of bytes.
LEMMA BodyTyped ==
  ASSUME NEW b \in Bodies
  PROVE  /\ Bytes(b) \in Seq(Byte) /\ b.rest \in Seq(Byte)
         /\ Len(Bytes(b)) \in Nat /\ Len(b.rest) \in Nat
         /\ Len(b.rest) <= Len(Bytes(b))
         /\ \A i \in 1..Len(b.rest) : Bytes(b)[i] = b.rest[i]
  <1>1. b.rest \in Seq(Byte) /\ b.field \in Seq(Byte)
        BY BytesAssumption
  <1>2. /\ Bytes(b) \in Seq(Byte) /\ Len(Bytes(b)) = Len(b.rest) + Len(b.field)
        /\ \A i \in 1..(Len(b.rest) + Len(b.field)) : Bytes(b)[i] =
             IF i <= Len(b.rest) THEN b.rest[i] ELSE b.field[i - Len(b.rest)]
        BY <1>1, ConcatProperties DEF Bytes
  <1> DEFINE m == Len(b.rest)
             n == Len(b.field)
  <1>3. m \in Nat /\ n \in Nat
        BY <1>1
  <1>4. m <= m + n /\ m + n \in Nat /\ \A i \in 1..m : i \in 1..(m + n) /\ i <= m
        <2> HIDE DEF m, n
        <2>1. m <= m + n /\ m + n \in Nat
              BY <1>3
        <2>2. \A i \in 1..m : i \in 1..(m + n) /\ i <= m
              BY <1>3
        <2> QED
              BY <2>1, <2>2
  <1>5. \A i \in 1..m : Bytes(b)[i] = b.rest[i]
        BY <1>2, <1>4
  <1> QED
        BY <1>1, <1>2, <1>3, <1>4, <1>5

\* The first m bytes of the body, and perhaps a marker.
Copied(data, bytes, m) ==
  /\ m \in 0..Len(bytes) /\ Len(data) \in {m, m + 1}
  /\ \A k \in 1..m : data[k].at = k /\ data[k].byte = bytes[k]
  /\ \A k \in 1..Len(data) : k > m => data[k] = Removed

\* What redact_json_pointers leaves of a body.
LEMMA PointersCopy ==
  ASSUME NEW b \in Bodies
  PROVE  /\ RedactPointers(b) \in Seq(Cell)
         /\ \E m : /\ Copied(RedactPointers(b), Bytes(b), m)
                   /\ (IF b.json /\ plan.pointers
                         THEN (Len(b.rest) + 1)..Len(Bytes(b)) ELSE {})
                        = (m + 1)..Len(Bytes(b))
  <1> DEFINE B == Bytes(b)
             r == b.rest
             l == Len(B)
  <1>0. /\ B \in Seq(Byte) /\ r \in Seq(Byte) /\ l \in Nat
        /\ Len(r) \in Nat /\ Len(r) <= l
        /\ \A i \in 1..Len(r) : B[i] = r[i]
        BY BodyTyped
  <1>1. ASSUME NEW s \in Seq(Byte)
        PROVE  /\ Placed(s) \in Seq(Cell) /\ Len(Placed(s)) = Len(s)
               /\ \A k \in 1..Len(s) : Placed(s)[k].at = k /\ Placed(s)[k].byte = s[k]
        <2>1. Len(s) \in Nat /\ DOMAIN s = 1..Len(s) /\ \A k \in 1..Len(s) : s[k] \in Byte
              OBVIOUS
        <2>2. Placed(s) \in [1..Len(s) -> Cell]
              BY <2>1 DEF Placed, Cell
        <2>3. Placed(s) \in Seq(Cell) /\ Len(Placed(s)) = Len(s)
              BY <2>1, <2>2
        <2>4. \A k \in 1..Len(s) : Placed(s)[k].at = k /\ Placed(s)[k].byte = s[k]
              BY <2>1 DEF Placed
        <2> QED
              BY <2>3, <2>4
  <1>2. CASE b.json /\ plan.pointers
        <2> DEFINE d == Placed(r)
                   D == Append(d, Removed)
        <2>1. Removed \in Cell /\ d \in Seq(Cell) /\ Len(d) = Len(r)
              BY <1>0, <1>1 DEF Removed, Cell
        <2>2. /\ D \in Seq(Cell) /\ Len(D) = Len(r) + 1 /\ D[Len(r) + 1] = Removed
              /\ \A k \in 1..Len(r) : D[k] = d[k]
              BY <2>1, AppendProperties
        <2>3. \A k \in 1..Len(r) : D[k].at = k /\ D[k].byte = B[k]
              BY <1>0, <1>1, <2>2
        <2>4. \A k \in 1..(Len(r) + 1) : k > Len(r) => k = Len(r) + 1
              BY <1>0
        <2>5. Len(r) \in 0..Len(B)
              BY <1>0
        <2> HIDE DEF D, B, r
        <2>6. Copied(D, B, Len(r))
              BY <2>2, <2>3, <2>4, <2>5 DEF Copied
        <2> QED
              BY <1>2, <2>2, <2>6 DEF RedactPointers, D, B, r
  <1>3. CASE ~(b.json /\ plan.pointers)
        <2> DEFINE D == Placed(B)
        <2>1. /\ D \in Seq(Cell) /\ Len(D) = l
              /\ \A k \in 1..l : D[k].at = k /\ D[k].byte = B[k]
              BY <1>0, <1>1
        <2>2. (l + 1)..l = {} /\ l \in 0..l
              BY <1>0
        <2>3. \A k \in 1..l : ~(k > l)
              BY <1>0
        <2> HIDE DEF D
        <2>4. Copied(D, B, l)
              BY <2>1, <2>2, <2>3 DEF Copied
        <2> QED
              BY <1>3, <2>1, <2>2, <2>4 DEF RedactPointers, D
  <1> QED
        BY <1>2, <1>3

\* Such a copy is faithful, and an occurrence is in it or is not.
LEMMA CopyFacts ==
  ASSUME NEW data, NEW bytes, Len(bytes) \in Nat, NEW m, Copied(data, bytes, m)
  PROVE  /\ Faithful(data, bytes)
         /\ \A t \in Seq(Byte) \ {<<>>} : \A i \in Occurrences(t, bytes) :
              Nested(Span(t, i), (m + 1)..Len(bytes)) =>
                \/ Gone(data, Span(t, i))
                \/ Intact(data, i, Len(t), i)
  <1>0. /\ m \in Nat /\ m <= Len(bytes) /\ Len(data) \in Nat
        /\ m <= Len(data) /\ Len(data) <= m + 1
        /\ \A k \in 1..m : data[k].at = k /\ data[k].byte = bytes[k]
        /\ \A k \in 1..Len(data) : k > m => data[k] = Removed /\ data[k].at = 0
        BY DEF Copied, Removed
  <1>1. Traced(data, bytes)
        <2>1. \A k \in 1..Len(data) : k > m \/ (k \in 1..m /\ k \in 1..Len(bytes))
              BY <1>0
        <2> QED
              BY <1>0, <2>1 DEF Traced
  <1>2. \A k \in 1..Len(data) : data[k].at # 0 => k \in 1..m /\ data[k].at = k
        BY <1>0
  <1>3. Rising(data)
        BY <1>2 DEF Rising
  <1>4. Runs(data)
        <2> SUFFICES ASSUME NEW k \in 1..Len(data), NEW l \in 1..Len(data), k <= l,
                            Run(data, k, l)
                     PROVE  data[l].at = data[k].at + (l - k)
            BY DEF Runs
        <2>1. k \in k..l /\ l \in k..l
              OBVIOUS
        <2>2. data[k].at = k /\ data[l].at = l
              BY <1>2, <2>1 DEF Run
        <2> QED
              BY <2>2
  <1>5. ASSUME NEW t \in Seq(Byte) \ {<<>>}, NEW i \in Occurrences(t, bytes),
               Nested(Span(t, i), (m + 1)..Len(bytes))
        PROVE  Gone(data, Span(t, i)) \/ Intact(data, i, Len(t), i)
        <2> DEFINE n == Len(t)
        <2>1. n \in Nat \ {0}
              BY EmptySeq
        <2>2. i \in 1..(Len(bytes) - n + 1)
              BY DEF Occurrences
        <2> HIDE DEF n
        <2>3. i \in i..(i + n - 1) /\ i + n - 1 \in i..(i + n - 1)
              BY <2>1, <2>2
        <2>4. CASE i..(i + n - 1) \subseteq (m + 1)..Len(bytes)
              <3>1. i >= m + 1
                    BY <1>0, <2>3, <2>4
              <3>2. \A k \in 1..Len(data) : data[k].at = 0 \/ data[k].at \in 1..m
                    BY <1>2
              <3>3. \A k \in 1..Len(data) : data[k].at \notin i..(i + n - 1)
                    BY <1>0, <2>1, <2>2, <3>1, <3>2
              <3> QED
                    BY <3>3 DEF Gone, Span, n
        <2>5. CASE i..(i + n - 1) \cap (m + 1)..Len(bytes) = {}
              <3>1. i + n - 1 \notin (m + 1)..Len(bytes)
                    BY <2>3, <2>5
              <3>2. i + n - 1 <= m
                    BY <1>0, <2>1, <2>2, <3>1
              <3>3. i \in 1..(Len(data) - n + 1)
                    BY <1>0, <2>1, <2>2, <3>2
              <3>4. \A j \in 1..n : i + j - 1 \in 1..m
                    BY <1>0, <2>1, <2>2, <3>2
              <3>5. \A j \in 1..n : data[i + j - 1].at = i + j - 1
                    BY <1>0, <3>4
              <3> QED
                    BY <3>3, <3>5 DEF Intact, n
        <2> QED
              BY <1>5, <2>4, <2>5 DEF Nested, Span, n
  <1> QED
        BY <1>1, <1>3, <1>4, <1>5 DEF Faithful

\* The copy redact_bytes starts from.
LEMMA ReadScans ==
  ASSUME Credentials, pc = "read", pc' = "redact", UNCHANGED inputs,
         token' = token, NEW b \in Bodies, NEW f \in SUBSET plan.checks,
         response' = [some |-> TRUE, body |-> b, failures |-> f,
                      saved |-> RedactPointers(b), todo |-> Redactions,
                      text |-> <<>>, from |-> 1]
  PROVE  Scanning'
  <1> DEFINE D == RedactPointers(b)
             B == Bytes(b)
  <1>0. /\ Redactions' = Redactions /\ Redactions \subseteq Seq(Byte) \ {<<>>}
        /\ plan' = plan
        BY RedactionsKept, TextsTyped DEF inputs
  <1>1. /\ response'.body = b /\ response'.saved = D
        /\ response'.todo = Redactions
        OBVIOUS
  <1>2. PICK m : /\ Copied(D, B, m)
                 /\ (IF b.json /\ plan.pointers
                       THEN (Len(b.rest) + 1)..Len(Bytes(b)) ELSE {})
                      = (m + 1)..Len(Bytes(b))
        BY PointersCopy
  <1>3. D \in Seq(Cell) /\ Len(B) \in Nat
        BY PointersCopy, BodyTyped
  <1>4. Pointed' = (m + 1)..Len(B)
        BY <1>0, <1>1, <1>2 DEF Pointed
  <1>5. response' \in Working'
        BY <1>0, <1>1, <1>3 DEF Working
  <1> HIDE DEF D, B
  <1>6. /\ Faithful(D, B)
        /\ \A t \in Seq(Byte) \ {<<>>} : \A i \in Occurrences(t, B) :
              Nested(Span(t, i), (m + 1)..Len(B)) =>
                Gone(D, Span(t, i)) \/ Intact(D, i, Len(t), i)
        BY <1>2, <1>3, CopyFacts
  <1>7. ASSUME NEW t \in Redactions, NEW i \in Occurrences(t, B), Whole(t, i)'
        PROVE  Settled(t, i)'
        <2>1. Nested(Span(t, i), (m + 1)..Len(B))
              BY <1>4, <1>7 DEF Whole
        <2>2. Gone(D, Span(t, i)) \/ Intact(D, i, Len(t), i)
              BY <1>0, <1>6, <2>1
        <2> QED
              BY <1>1, <2>2 DEF Settled, Due
  <1>8. Bytes(response'.body) = B
        BY <1>1 DEF B
  <1> QED
        BY <1>0, <1>1, <1>5, <1>6, <1>7, <1>8 DEF Scanning

\* The fields of a working copy.
LEMMA WorkingFacts ==
  ASSUME response \in Working
  PROVE  /\ response.body \in Bodies /\ response.saved \in Seq(Cell)
         /\ response.todo \subseteq Redactions
         /\ response.text \in Redactions \cup {<<>>}
         /\ response.from \in Nat \ {0} /\ response.some
         /\ Len(response.saved) \in Nat /\ Len(Bytes(response.body)) \in Nat
  <1>1. /\ response.body \in Bodies /\ response.saved \in Seq(Cell)
        /\ response.todo \subseteq Redactions
        /\ response.text \in Redactions \cup {<<>>}
        /\ response.from \in Nat \ {0} /\ response.some
        BY DEF Working
  <1>2. Len(response.saved) \in Nat
        BY <1>1
  <1>3. Len(Bytes(response.body)) \in Nat
        BY <1>1, BodyTyped
  <1> QED
        BY <1>1, <1>2, <1>3

\* The next secret is taken, or none is left.
LEMMA NextSecretScans ==
  ASSUME Credentials, pc = "redact", Scanning, NextSecret
  PROVE  \/ pc' = "scan" /\ Scanning'
         \/ pc' = "blob" /\ Clean'
  <1> DEFINE D == response.saved
             B == Bytes(response.body)
             todo == response.todo
  <1>0. /\ UNCHANGED inputs /\ token' = token /\ plan' = plan
        /\ Redactions' = Redactions
        BY RedactionsKept DEF NextSecret, inputs
  <1>1. CASE todo = {} /\ pc' = "blob" /\ response' = response
        <2>1. Working' = Working
              BY <1>0 DEF Working
        <2>2. \A t \in Redactions : Matches(D, t, 1) = {}
              BY <1>1 DEF Scanning
        <2>3. ASSUME NEW t \in Redactions, NEW i \in Occurrences(t, B), Whole(t, i)'
              PROVE  Gone(D, Span(t, i))
              <3>1. Settled(t, i)
                    BY <1>0, <1>1, <2>3, WholeKept DEF Scanning
              <3> QED
                    BY <1>1, <3>1 DEF Settled, Due
        <2>4. Clean'
              BY <1>0, <1>1, <2>1, <2>2, <2>3 DEF Clean, Scanning
        <2> QED
              BY <1>1, <2>4
  <1>2. ASSUME NEW t \in Longest(todo), pc' = "scan",
               response' = [response EXCEPT !.todo = @ \ {t}, !.text = t, !.from = 1]
        PROVE  pc' = "scan" /\ Scanning'
        <2>1. t \in todo /\ todo \subseteq Redactions /\ \A u \in todo : Len(u) <= Len(t)
              BY WorkingFacts DEF Longest, Scanning
        <2>2. /\ response'.saved = D /\ response'.body = response.body
              /\ response'.todo = todo \ {t} /\ response'.text = t
              /\ response'.from = 1 /\ response' \in Working'
              <3>1. /\ todo \ {t} \in SUBSET Redactions' /\ 1 \in Nat \ {0}
                    /\ t \in Redactions' \cup {<<>>}
                    BY <1>0, <2>1
              <3>2. response \in Working
                    BY DEF Scanning
              <3> HIDE DEF D
              <3>3. response' \in Working'
                    BY <1>0, <1>2, <3>1, <3>2 DEF Working
              <3> QED
                    BY <1>2, <3>2, <3>3 DEF Working, D
        <2>3. Passed(D, t, 1)
              BY WorkingFacts DEF Passed, Matches
        <2>4. \A u \in Redactions \ (todo \ {t}) : u = t \/ Matches(D, u, 1) = {}
              BY DEF Scanning
        <2>5. ASSUME NEW u \in Redactions, NEW i \in Occurrences(u, B), Whole(u, i)'
              PROVE  Settled(u, i)'
              <3>1. Settled(u, i)
                    BY <1>0, <2>2, <2>5, WholeKept DEF Scanning
              <3>2. CASE Gone(D, Span(u, i))
                    BY <2>2, <3>2 DEF Settled
              <3>3. ASSUME NEW p, Intact(D, i, Len(u), p), Due(u, p)
                    PROVE  Settled(u, i)'
                    <4>1. u \in todo /\ p \in 1..(Len(D) - Len(u) + 1)
                          BY <3>3 DEF Due, Intact
                    <4>2. p >= 1
                          BY <4>1
                    <4>3. Due(u, p)'
                          BY <1>2, <2>2, <4>1, <4>2 DEF Due
                    <4> QED
                          BY <2>2, <3>3, <4>3 DEF Settled
              <3> QED
                    BY <3>1, <3>2, <3>3 DEF Settled
        <2> HIDE DEF D, B, todo
        <2>6. Bytes(response'.body) = B /\ Faithful(D, B)
              BY <2>2 DEF B, D, Scanning
        <2> QED
              BY <1>0, <1>2, <2>1, <2>2, <2>3, <2>4, <2>5, <2>6 DEF Scanning
  <1> QED
        BY <1>1, <1>2 DEF NextSecret

\* One occurrence is replaced, or the secret has none any more.
LEMMA ReplaceSecretScans ==
  ASSUME Credentials, pc = "scan", Scanning, ReplaceSecret
  PROVE  pc' \in {"redact", "scan"} /\ Scanning'
  <1> DEFINE D == response.saved
             B == Bytes(response.body)
             u == response.text
             n == Len(u)
             todo == response.todo
             from == response.from
             found == Matches(D, u, from)
  <1>0. /\ UNCHANGED inputs /\ token' = token /\ plan' = plan
        /\ Redactions' = Redactions
        /\ Redactions \subseteq Seq(Byte) \ {<<>>}
        BY RedactionsKept, TextsTyped DEF ReplaceSecret, inputs
  <1>1. /\ u \in Redactions /\ u \in Seq(Byte) /\ u # <<>> /\ n \in Nat \ {0}
        /\ D \in Seq(Cell) /\ Len(D) \in Nat /\ Len(B) \in Nat
        /\ from \in Nat \ {0} /\ Faithful(D, B)
        /\ todo \subseteq Redactions
        /\ \A t \in todo : Len(t) <= n
        /\ \A i \in Matches(D, u, 1) : i >= from
        BY <1>0, WorkingFacts, EmptySeq DEF Scanning, Passed
  <1>2. /\ \A i \in Matches(D, u, 1) : i \in found
        /\ \A i \in found : i \in Matches(D, u, 1) /\ i \in Nat /\ i >= from
        BY <1>1 DEF Matches
  <1>3. CASE found = {} /\ pc' = "redact" /\ response' = response
        <2>1. Working' = Working
              BY <1>0 DEF Working
        <2>2. \A t \in Redactions \ todo : Matches(D, t, 1) = {}
              BY <1>2, <1>3 DEF Scanning
        <2>3. ASSUME NEW t \in Redactions, NEW i \in Occurrences(t, B), Whole(t, i)'
              PROVE  Settled(t, i)'
              <3>1. Settled(t, i)
                    BY <1>0, <1>3, <2>3, WholeKept DEF Scanning
              <3>2. CASE Gone(D, Span(t, i))
                    BY <1>3, <3>2 DEF Settled
              <3>3. ASSUME NEW p, Intact(D, i, Len(t), p), Due(t, p)
                    PROVE  Settled(t, i)'
                    <4>1. t \in todo
                          <5>1. p \in Matches(D, t, 1)
                                BY <1>0, <1>1, <3>3, IntactMatches DEF Faithful
                          <5> QED
                                BY <1>2, <1>3, <3>3, <5>1 DEF Due
                    <4> QED
                          BY <1>3, <3>3, <4>1 DEF Settled, Due
              <3> QED
                    BY <3>1, <3>2, <3>3 DEF Settled
        <2>4. Scanning'
              BY <1>0, <1>3, <2>1, <2>2, <2>3 DEF Scanning
        <2> QED
              BY <1>3, <2>4
  <1>4. ASSUME NEW s \in found, \A k \in found : s <= k, pc' = pc,
               response' = [response EXCEPT !.saved = Replace(@, s, n), !.from = s + 1]
        PROVE  pc' \in {"redact", "scan"} /\ Scanning'
        <2> DEFINE E == Replace(D, s, n)
        <2>0. s \in Matches(D, u, 1) /\ s \in Nat /\ s >= from
              BY <1>2
        <2>1. s \in 1..(Len(D) - n + 1)
              BY <2>0 DEF Matches
        <2>2. E \in Seq(Cell) /\ Spliced(D, E, s, n) /\ Len(E) \in Nat
              BY <1>1, <2>1, ReplaceFacts
        <2>3. /\ response'.saved = E /\ response'.body = response.body
              /\ response'.todo = todo /\ response'.text = u
              /\ response'.from = s + 1 /\ response' \in Working'
              <3>1. s + 1 \in Nat \ {0}
                    BY <2>0
              <3> QED
                    BY <1>0, <1>4, <2>2, <3>1 DEF Scanning, Working
        <2> HIDE DEF D, E, B, u, n, todo, from, found
        <2>4. Faithful(E, B)
              BY <1>1, <2>2, SplicedFaithful
        <2>5. Passed(E, u, s + 1)
              <3> SUFFICES ASSUME NEW i \in Matches(E, u, 1) PROVE i >= s + 1
                  BY DEF Passed
              <3>1. i \in Nat /\ n \in Nat
                    BY <1>1 DEF Matches
              <3>2. \/ i < s /\ i \in Matches(D, u, 1)
                    \/ i > s
                    BY <1>1, <2>2, <2>4, MatchEarlier DEF Faithful
              <3>3. i \in Matches(D, u, 1) => s <= i
                    BY <1>2, <1>4
              <3> QED
                    BY <2>0, <3>1, <3>2, <3>3
        <2>6. ASSUME NEW t \in Redactions \ todo, t # u PROVE Matches(E, t, 1) = {}
              <3>1. Matches(D, t, 1) = {}
                    BY <2>6 DEF Scanning, D, u, todo
              <3>2. t \in Seq(Byte) /\ t # <<>>
                    BY <1>0
              <3>3. \A i \in Matches(E, t, 1) : FALSE
                    BY <2>2, <2>4, <3>1, <3>2, MatchEarlier DEF Faithful
              <3> QED
                    BY <3>3
        <2>7. ASSUME NEW t \in Redactions, NEW i \in Occurrences(t, B), Whole(t, i)'
              PROVE  Settled(t, i)'
              <3>0. Whole(t, i) /\ Settled(t, i)
                    BY <1>0, <2>3, <2>7, WholeKept DEF Scanning, B
              <3>1. t \in Seq(Byte) /\ t # <<>> /\ Len(t) \in Nat \ {0}
                    BY <1>0, EmptySeq
              <3>2. CASE Gone(D, Span(t, i))
                    <4>1. 0 \notin Span(t, i)
                          BY <3>1 DEF Span, Occurrences
                    <4>2. Gone(E, Span(t, i))
                          BY <2>2, <3>2, <4>1, GoneStays
                    <4> QED
                          BY <2>3, <4>2 DEF Settled
              <3>3. ASSUME NEW p, Intact(D, i, Len(t), p), Due(t, p)
                    PROVE  Settled(t, i)'
                    <4>1. Len(t) <= n
                          <5>1. t \in todo \/ t = u
                                BY <3>3 DEF Due, todo, u
                          <5>2. Len(u) <= n
                                BY <1>1 DEF n
                          <5> QED
                                BY <1>1, <5>1, <5>2
                    <4>2. \A k \in Occurrences(u, B) : Nested(Span(u, k), Span(t, i))
                          BY <1>1, <3>0 DEF Whole, B
                    <4>3. \/ Gone(E, Span(t, i))
                          \/ p + Len(t) - 1 < s /\ Intact(E, i, Len(t), p)
                          \/ p >= s + n /\ Intact(E, i, Len(t), p - n + 1)
                          BY <1>1, <2>0, <2>2, <3>1, <3>3, <4>1, <4>2, Survives DEF n
                    <4>4. p \in Nat
                          BY <1>1, <3>1, <3>3 DEF Intact
                    <4>5. t \in todo \/ (t = u /\ s <= p)
                          <5>1. CASE t \in todo
                                BY <5>1
                          <5>2. CASE t = u
                                <6>1. p \in Matches(D, t, 1)
                                      BY <1>1, <3>1, <3>3, IntactMatches DEF Faithful
                                <6> QED
                                      BY <1>2, <1>4, <5>2, <6>1
                          <5> QED
                                BY <3>3, <5>1, <5>2 DEF Due, todo, u
                    <4>6. CASE t \in todo
                          BY <2>3, <4>3, <4>6 DEF Settled, Due
                    <4>7. CASE t = u /\ s <= p
                          <5>1. ~(p + Len(t) - 1 < s)
                                BY <2>0, <3>1, <4>4, <4>7
                          <5>2. p >= s + n => p - n + 1 >= s + 1
                                BY <1>1, <2>0, <4>4
                          <5> QED
                                BY <1>4, <2>3, <4>3, <4>7, <5>1, <5>2 DEF Settled, Due
                    <4> QED
                          BY <4>5, <4>6, <4>7
              <3> QED
                    BY <3>0, <3>2, <3>3 DEF Settled, D
        <2>8. Bytes(response'.body) = B
              BY <2>3 DEF B
        <2>9. \A t \in todo : Len(t) <= Len(u)
              BY <1>1 DEF n
        <2> QED
              BY <1>0, <1>1, <1>4, <2>3, <2>4, <2>5, <2>6, <2>7, <2>8, <2>9 DEF Scanning
  <1> QED
        BY <1>3, <1>4 DEF ReplaceSecret

\* Where the answer has not been read.
Unread == {"plan", "gate", "target", "prepare", "token", "exchange", "receipt",
           "body", "derive", "send"}

\* The body is stored after the receipt and the derivation.
LEMMA FewRecords ==
  ASSUME NEW s, NEW r, r = <<>> \/ r = <<"oauth-refresh">>,
         s = <<>> \/ s = r \/ s = r \o <<"request-derivation">>
  PROVE  ~Contains(s, "body")
  <1> DEFINE d == <<"request-derivation">>
  <1>1. <<>> \o d = d
        OBVIOUS
  <1>2. <<"oauth-refresh">> \o d = <<"oauth-refresh", "request-derivation">>
        BY PairFacts
  <1>3. \/ s = <<>> \/ s = <<"oauth-refresh">> \/ s = d
        \/ s = <<"oauth-refresh", "request-derivation">>
        BY <1>1, <1>2
  <1> QED
        BY <1>3 DEF Contains

\* Until the body is stored no record is a body.
LEMMA NoBodyYet ==
  /\ HttpInv /\ pc \in Unread \cup {"read", "redact", "scan", "blob"}
       => ~Contains(stored, "body")
  /\ HttpInv' /\ pc' \in Unread => ~Contains(stored', "body")
  BY FewRecords DEF HttpInv, Records, Receipt, Unread

\* Before the answer, a step stores no body.
LEMMA UnreadStep ==
  ASSUME Plan \/ Gate \/ EvaluateTarget \/ Prepare \/ EvaluateToken
           \/ ExchangeToken \/ StoreReceipt \/ CheckBody \/ StoreDerivation \/ Send
  PROVE  /\ pc \in Unread /\ pc' \in Unread \cup {"read", "done"}
         /\ stored' = stored \/ pc' \in Unread
  BY DEF Plan, Gate, EvaluateTarget, Prepare, EvaluateToken, ExchangeToken,
         StoreReceipt, CheckBody, StoreDerivation, Send, Evaluate, Put, Return,
         outputs, Unread

\* A credential that is needed is there from prepare on, and stays.
LEMMA CredentialsStep ==
  ASSUME HttpInv, Credentials, [Next]_vars
  PROVE  Credentials'
  <1> USE DEF Credentials
  <1>1. secrets' = secrets
        BY DEF Next, Step, Plan, Gate, EvaluateTarget, Prepare, EvaluateToken,
               ExchangeToken, StoreReceipt, CheckBody, StoreDerivation, Send, Read,
               NextSecret, ReplaceSecret, StoreBody, StoreFailures, StoreTrace,
               Persist, Rebind, Returned, inputs, vars
  <1>2. token'.some => token'.text = Token
        <2>1. \/ token' = token
              \/ token' = [some |-> TRUE, text |-> Token]
              BY DEF Next, Step, Plan, Gate, EvaluateTarget, Prepare, EvaluateToken,
                     ExchangeToken, StoreReceipt, CheckBody, StoreDerivation, Send,
                     Read, NextSecret, ReplaceSecret, StoreBody, StoreFailures,
                     StoreTrace, Persist, Rebind, Returned, outputs, vars
        <2> QED
              BY <2>1
  <1>3. pc' \in Bound => CredentialError' = "ok"
        <2>1. CASE Plan \/ Gate \/ EvaluateTarget
              <3>1. pc' \in {"gate", "target", "prepare", "done"}
                    BY <2>1 DEF Plan, Gate, EvaluateTarget, Evaluate, Return
              <3> QED
                    BY <3>1 DEF Bound, Derived, Sent
        <2>2. CASE Prepare
              <3>1. pc' \in Bound => CredentialError = "ok"
                    BY <2>2 DEF Prepare, Return, Bound, Derived, Sent
              <3> QED
                    BY <2>2, <3>1
                       DEF Prepare, CredentialError, AuthPlacement, IsOAuth, inputs
        <2>3. CASE pc \in Bound \/ pc' = pc \/ pc' = "done"
              <3>1. CASE Plan
                    BY <2>1, <3>1
              <3>2. CASE ~Plan
                    <4>1. UNCHANGED inputs
                          BY <3>2 DEF Next, Step, Gate, EvaluateTarget, Prepare, EvaluateToken,
                             ExchangeToken, StoreReceipt, CheckBody, StoreDerivation, Send,
                             Read, NextSecret, ReplaceSecret, StoreBody, StoreFailures,
                             StoreTrace, Persist, Rebind, Returned, inputs, vars
                    <4>2. CredentialError' = CredentialError
                          BY <4>1 DEF CredentialError, AuthPlacement, IsOAuth, inputs
                    <4> QED
                          BY <2>3, <4>2 DEF Bound, Derived, Sent
              <3> QED
                    BY <3>1, <3>2
        <2>4. \/ Plan \/ Gate \/ EvaluateTarget \/ Prepare
              \/ pc \in Bound \/ pc' = pc \/ pc' = "done"
              BY DEF Next, Step, EvaluateToken, ExchangeToken, StoreReceipt,
                     CheckBody, StoreDerivation, Send, Read, NextSecret,
                     ReplaceSecret, StoreBody, StoreFailures, StoreTrace, Persist,
                     Rebind, Returned, vars, Bound, Derived, Sent
        <2> QED
              BY <2>1, <2>2, <2>3, <2>4
  <1> QED
        BY <1>1, <1>2, <1>3

\* A clean copy that is left alone stays clean.
LEMMA CleanStays ==
  ASSUME Clean, UNCHANGED inputs, token' = token, response' = response
  PROVE  Clean'
  <1>1. Redactions' = Redactions /\ Working' = Working
        BY RedactionsKept DEF Working, inputs
  <1>2. \A t, i : Whole(t, i)' <=> Whole(t, i)
        BY WholeKept
  <1> QED
        BY <1>1, <1>2 DEF Clean

\* Steps beside the redaction leave it where it is.
LEMMA ScanningStays ==
  ASSUME Scanning, UNCHANGED inputs, token' = token, response' = response, pc' = pc
  PROVE  Scanning'
  <1>1. Redactions' = Redactions /\ Working' = Working
        BY RedactionsKept DEF Working, inputs
  <1>2. \A t, i : Whole(t, i)' <=> Whole(t, i)
        BY WholeKept
  <1>3. \A t, i : Settled(t, i)' <=> Settled(t, i)
        BY DEF Settled, Due
  <1> QED
        BY <1>1, <1>2, <1>3 DEF Scanning

\* Every step keeps the invariant.
LEMMA RedactStep ==
  ASSUME HttpInv, HttpInv', RedactInv, [Next]_vars
  PROVE  RedactInv'
  <1>0. Credentials /\ Credentials'
        BY CredentialsStep DEF RedactInv
  <1>1. CASE Plan \/ Gate \/ EvaluateTarget \/ Prepare \/ EvaluateToken
           \/ ExchangeToken \/ StoreReceipt \/ CheckBody \/ StoreDerivation \/ Send
        <2>1. ~Contains(stored', "body")
              <3>1. CASE pc' \in Unread
                    BY <3>1, NoBodyYet
              <3>2. CASE stored' = stored
                    BY <1>1, <3>2, UnreadStep, NoBodyYet
              <3> QED
                    BY <1>1, <3>1, <3>2, UnreadStep
        <2>2. pc' \notin {"redact", "scan", "blob"}
              BY <1>1, UnreadStep DEF Unread
        <2> QED
              BY <1>0, <2>1, <2>2 DEF RedactInv
  <1>2. CASE Read
        <2>1. pc = "read" /\ stored' = stored /\ UNCHANGED inputs /\ token' = token
              BY <1>2 DEF Read
        <2>2. ~Contains(stored', "body")
              BY <2>1, NoBodyYet
        <2>3. CASE pc' = "done"
              BY <1>0, <2>2, <2>3 DEF RedactInv
        <2>4. ASSUME NEW b \in Bodies, NEW meets, pc' = "redact",
                     response' = [some |-> TRUE, body |-> b,
                                  failures |-> Failures(meets),
                                  saved |-> RedactPointers(b),
                                  todo |-> Redactions, text |-> <<>>, from |-> 1]
              PROVE  RedactInv'
              <3>1. Failures(meets) \in SUBSET plan.checks
                    BY DEF Failures
              <3>2. Scanning'
                    BY <1>0, <2>1, <2>4, <3>1, ReadScans
              <3> QED
                    BY <1>0, <2>2, <2>4, <3>2 DEF RedactInv
        <2> QED
              BY <1>2, <2>3, <2>4 DEF Read, Return
  <1>3. CASE NextSecret
        <2>1. pc = "redact" /\ stored' = stored
              BY <1>3 DEF NextSecret
        <2>2. ~Contains(stored', "body")
              BY <2>1, NoBodyYet
        <2>3. (pc' = "scan" /\ Scanning') \/ (pc' = "blob" /\ Clean')
              BY <1>0, <1>3, <2>1, NextSecretScans DEF RedactInv
        <2> QED
              BY <1>0, <2>2, <2>3 DEF RedactInv
  <1>4. CASE ReplaceSecret
        <2>1. pc = "scan" /\ stored' = stored
              BY <1>4 DEF ReplaceSecret
        <2>2. ~Contains(stored', "body")
              BY <2>1, NoBodyYet
        <2>3. pc' \in {"redact", "scan"} /\ Scanning'
              BY <1>0, <1>4, <2>1, ReplaceSecretScans DEF RedactInv
        <2> QED
              BY <1>0, <2>2, <2>3 DEF RedactInv
  <1>5. CASE StoreBody
        <2>1. /\ pc = "blob" /\ UNCHANGED inputs /\ token' = token
              /\ response' = response /\ pc' \notin {"redact", "scan", "blob"}
              BY <1>5 DEF StoreBody, Return
        <2>2. Clean'
              BY <2>1, CleanStays DEF RedactInv
        <2> QED
              BY <1>0, <2>1, <2>2 DEF RedactInv
  <1>6. CASE StoreFailures \/ StoreTrace \/ Persist
        <2>1. /\ pc \in {"failures", "trace", "persist"} /\ UNCHANGED inputs
              /\ token' = token /\ response' = response
              /\ pc' \notin {"redact", "scan", "blob"}
              BY <1>6 DEF StoreFailures, StoreTrace, Persist, Put, Return
        <2>2. \/ stored' = stored
              \/ \E x \in Kinds : stored' = Append(stored, x) /\ x # "body"
              <3>1. \/ stored' = stored \/ stored' = Append(stored, "schema-error")
                    \/ stored' = Append(stored, "trace")
                    \/ stored' = Append(stored, "observation")
                    BY <1>6 DEF StoreFailures, StoreTrace, Persist, Put
              <3> QED
                    BY <3>1, Zenon DEF Kinds
        <2>3. Contains(stored', "body") => Contains(stored, "body")
              <3>1. stored \in Seq(Kinds)
                    BY DEF HttpInv, TypeOK
              <3>2. \A x \in Kinds : Contains(Append(stored, x), "body")
                                      => Contains(stored, "body") \/ x = "body"
                    BY <3>1, ContainsAppend
              <3> QED
                    BY <2>2, <3>2
        <2> QED
              BY <1>0, <2>1, <2>3, CleanStays DEF RedactInv
  <1>7. CASE Rebind \/ Returned \/ UNCHANGED vars
        <2>1. /\ pc' = pc /\ UNCHANGED inputs /\ token' = token /\ stored' = stored
              /\ response' = response
              BY <1>7 DEF Rebind, Returned, vars, inputs, outputs
        <2> QED
              BY <1>0, <2>1, CleanStays, ScanningStays DEF RedactInv
  <1> QED
        BY <1>1, <1>2, <1>3, <1>4, <1>5, <1>6, <1>7 DEF Next, Step

\* The inductive invariant of the redaction.
THEOREM RedactInvariant == Spec => []RedactInv
  <1>1. Init => RedactInv
        <2> SUFFICES ASSUME Init PROVE RedactInv
            OBVIOUS
        <2>1. pc = "plan" /\ secrets \in Profiles /\ ~token.some /\ stored = <<>>
              BY DEF Init, None
        <2>2. ~Contains(stored, "body")
              BY <2>1, EmptySeq DEF Contains
        <2> QED
              BY <2>1, <2>2 DEF RedactInv, Credentials, Bound, Derived, Sent
  <1>2. HttpInv /\ HttpInv' /\ RedactInv /\ [Next]_vars => RedactInv'
        BY RedactStep
  <1> QED
        BY <1>1, <1>2, HttpInvariant, PTL DEF Spec

\* redact_bytes, longest secret first, leaves no secret in the stored body.
THEOREM SecretsAreRemoved == Spec => []SecretsRemoved
  <1>1. RedactInv => SecretsRemoved
        <2> SUFFICES ASSUME RedactInv, Contains(stored, "body") PROVE SecretsRemoved
            BY DEF SecretsRemoved
        <2> DEFINE D == response.saved
                   saved == [i \in DOMAIN D |-> D[i].byte]
                   left == {D[i].at : i \in DOMAIN D}
        <2>1. Clean
              BY DEF RedactInv
        <2>2. D \in Seq(Cell) /\ DOMAIN D = 1..Len(D) /\ Len(D) \in Nat
              BY <2>1, WorkingFacts DEF Clean
        <2>3. Len(saved) = Len(D) /\ \A k \in 1..Len(D) : saved[k] = D[k].byte
              BY <2>2
        <2>4. ASSUME NEW t \in Redactions
              PROVE  /\ Occurrences(t, saved) = {}
                     /\ \A i \in Occurrences(t, Bytes(response.body)) :
                          Whole(t, i) => Span(t, i) \cap left = {}
              <3>1. /\ Matches(D, t, 1) = {}
                    /\ \A i \in Occurrences(t, Bytes(response.body)) :
                         Whole(t, i) => Gone(D, Span(t, i))
                    BY <2>1 DEF Clean
              <3>2. \A S : Gone(D, S) => S \cap left = {}
                    BY <2>2 DEF Gone
              <3>3. Occurrences(t, saved) = {}
                    <4> SUFFICES ASSUME NEW i \in Occurrences(t, saved) PROVE FALSE
                        OBVIOUS
                    <4>1. i \in 1..(Len(D) - Len(t) + 1)
                          BY <2>3 DEF Occurrences
                    <4>2. ASSUME NEW j \in 1..Len(t) PROVE D[i + j - 1].byte = t[j]
                          <5>1. saved[i + j - 1] = t[j]
                                BY DEF Occurrences
                          <5>2. i + j - 1 \in 1..Len(D)
                                BY <2>2, <4>1
                          <5> QED
                                BY <2>3, <5>1, <5>2
                    <4>3. i \in Matches(D, t, 1)
                          BY <4>1, <4>2 DEF Matches
                    <4> QED
                          BY <3>1, <4>3
              <3> QED
                    BY <3>1, <3>2, <3>3
        <2> QED
              BY <2>4 DEF SecretsRemoved
  <1> QED
        BY <1>1, RedactInvariant, PTL
=============================================================================
