--------------------------- MODULE WorkflowProofs ---------------------------
(***************************************************************************)
(* The safety properties of Workflow, for every set of workflows that are  *)
(* valid, every set of statuses and every invocation timeout.              *)
(***************************************************************************)
EXTENDS Workflow, TLAPS

(* The phases of a step: it is tried only when its inputs are there, and   *)
(* the attempts are one ahead of the retries exactly after an attempt.     *)
Trying == {"timeout", "attempt", "judge"}
Attempted ==
    /\ pc \in {"start", "prepare"} => attempts = << >> /\ retries = 0
    /\ pc \in {"timeout", "attempt"} => Len(attempts) = retries
    /\ pc = "judge" => Len(attempts) = retries + 1
    /\ Len(attempts) <= retries + 1
    /\ retries = 0 \/ \E n \in RetryLimits(Current) : retries <= n

(* Every gate stays passed and every output comes from a step that passed. *)
Supplied ==
    /\ pc \notin {"start", "done"} \/ attempts # << >> => gate = "ok"
    /\ pc \in Trying \/ attempts # << >> => Current.reads \subseteq outputs
    /\ \A j \in outputs :
          \E k \in DOMAIN observed : observed[k].step = j /\ observed[k].exit = 0

(* The finished steps are the ones before the current one, all passed.     *)
InOrder ==
    /\ \A k \in DOMAIN observed : observed[k].step = k
    /\ pc # "done" => /\ Len(observed) = si - 1
                      /\ \A k \in DOMAIN observed : observed[k].exit = 0
    /\ pc # "done" => result = Pending

(* A retry action of the current step that asks for no delay and allows n   *)
(* retries.                                                                *)
AtOnce(n) == \E i \in DOMAIN Current.onFailure :
                LET a == Current.onFailure[i] IN
                a.type = "retry" /\ a.delay = 0 /\ n <= a.limit

(* A timeout is asked for at the first attempt and before each attempt of a *)
(* WebSocket step; an attempt about to be made then has what is left, and   *)
(* any other that comes too late is a retry without delay.                 *)
Timed ==
    /\ TimeoutHeld /\ began <= now
    /\ pc = "timeout" => OverSocket \/ retries = 0
    /\ pc = "attempt" /\ (OverSocket \/ retries = 0) =>
          now < WorkflowTimeout /\ now + stepTimeout <= WorkflowTimeout
    /\ pc = "attempt" /\ now >= WorkflowTimeout => retries > 0 /\ AtOnce(retries)

WorkflowInv ==
    /\ TypeOK /\ Attempted /\ Supplied /\ InOrder /\ Timed /\ VerdictOfLastStep

(* The current step is one of the sealed ones.                             *)
LEMMA CurrentIsStep ==
    ASSUME TypeOK
    PROVE  /\ ValidStep(Current)
           /\ Current.timeout \in Nat
           /\ Current.onFailure \in Seq(FailureAction)
           /\ Current.transport \in {"http", "websocket"}
    <1>1. Current \in Step /\ ValidStep(Current)
          BY DEF TypeOK, Current, ValidWorkflow
    <1> HIDE DEF Current
    <1> QED BY <1>1 DEF Step

(* An action that may retry is a retry action of the step below its limit. *)
LEMMA RetryIsListed ==
    ASSUME TypeOK, NEW a \in RetryWith
    PROVE  /\ retries < a.limit /\ a.limit \in RetryLimits(Current)
           /\ a.limit \in 0 .. MaxRetryLimit /\ a.delay \in Nat
           /\ a.delay = 0 => \A n \in Nat : n <= a.limit => AtOnce(n)
    <1> DEFINE s == Current
    <1>1. a \in FailureActions /\ a.type = "retry" /\ retries < a.limit
          BY DEF RetryWith
    <1>2. PICK k \in DOMAIN s.onFailure : a = s.onFailure[k]
          BY <1>1 DEF FailureActions, UnconditionalRetry, Selected
    <1>3. s.onFailure \in Seq(FailureAction) /\ ValidStep(s)
          BY CurrentIsStep
    <1> HIDE DEF s
    <1>4. a \in FailureAction
          BY <1>2, <1>3
    <1>5. a.limit \in Nat /\ a.delay \in Nat
          BY <1>4 DEF FailureAction
    <1>6. a.limit <= MaxRetryLimit
          BY <1>1, <1>2, <1>3 DEF ValidStep
    <1>7. a.limit \in RetryLimits(s)
          BY <1>1, <1>2 DEF RetryLimits
    <1>8. a.delay = 0 => \A n \in Nat : n <= a.limit => AtOnce(n)
          BY <1>1, <1>2 DEF AtOnce, s
    <1> QED BY <1>1, <1>5, <1>6, <1>7, <1>8 DEF MaxRetryLimit, s

(* Steps that take no time and make no attempt.                            *)
LEMMA TimedKept ==
    ASSUME Timed, workflow' = workflow, now' = now, si' = si, retries' = retries,
           stepTimeout' = stepTimeout, attempts' = attempts, history' = history,
           pc' # "attempt", pc' = "timeout" => retries = 0
    PROVE  Timed'
    <1>1. /\ Current' = Current /\ (OverSocket' <=> OverSocket) /\ Last' = Last
          /\ began' = began /\ resolved' = resolved
          BY DEF Current, OverSocket, Last, history
    <1>2. TimeoutHeld'
          BY <1>1 DEF Timed, TimeoutHeld, TimeoutsTighten, LateInResolver, LateRetries
    <1> QED BY <1>1, <1>2 DEF Timed

LEMMA InitInv == Init => WorkflowInv
    <1> SUFFICES ASSUME Init PROVE WorkflowInv
        OBVIOUS
    <1>1. TypeOK
          BY WorkflowAssumption
          DEF Init, TypeOK, Pending, Gates, ValidWorkflow, MaxRetryLimit
    <1>2. Attempted /\ Supplied /\ InOrder /\ VerdictOfLastStep
          BY DEF Init, Attempted, Supplied, InOrder, VerdictOfLastStep, Pending, Trying
    <1>3. Timed
          BY WorkflowAssumption DEF Init, Timed, TimeoutHeld, TimeoutsTighten,
             LateInResolver, LateRetries
    <1> QED BY <1>1, <1>2, <1>3 DEF WorkflowInv

(* The checks before the first step.                                       *)
LEMMA StartInv == ASSUME WorkflowInv, Start PROVE WorkflowInv'
    <1> USE DEF WorkflowInv
    <1>0. /\ pc = "start" /\ result = Pending
          /\ UNCHANGED <<workflow, gate, now, si, stepTimeout, retries, attempts,
                         observed, outputs, history>>
          /\ attempts = << >>
          /\ \/ gate = "ok" /\ pc' = "prepare" /\ result' = result
             \/ gate # "ok" /\ pc' = "done" /\ result' \in {Observation(4), Err}
          BY DEF Start, Return, InOrder, Attempted
    <1>c. Current' = Current
          BY <1>0 DEF Current
    <1>1. TypeOK'
          BY <1>0 DEF TypeOK, history, Observation, Err
    <1>2. Attempted' /\ Supplied' /\ InOrder'
          BY <1>0, <1>c DEF Attempted, Supplied, InOrder, Trying
    <1>t. Timed'
          BY <1>0, TimedKept
    <1>3. VerdictOfLastStep'
          BY <1>0 DEF VerdictOfLastStep, Pending
    <1> QED BY <1>1, <1>2, <1>3, <1>t

LEMMA PrepareInv == ASSUME WorkflowInv, Prepare PROVE WorkflowInv'
    <1> USE DEF WorkflowInv
    <1>0. /\ pc = "prepare" /\ result = Pending /\ gate = "ok"
          /\ attempts = << >> /\ retries = 0
          /\ UNCHANGED <<workflow, gate, now, si, stepTimeout, retries, attempts,
                         observed, outputs, history>>
          /\ \/ Current.reads \subseteq outputs /\ pc' = "timeout" /\ result' = result
             \/ pc' = "done" /\ result' = Err
          BY DEF Prepare, Return, InOrder, Attempted, Supplied
    <1>c. Current' = Current
          BY <1>0 DEF Current
    <1>1. TypeOK'
          BY <1>0 DEF TypeOK, history, Err
    <1>2. Attempted' /\ Supplied' /\ InOrder'
          BY <1>0, <1>c DEF Attempted, Supplied, InOrder, Trying
    <1>t. Timed'
          BY <1>0, TimedKept
    <1>3. VerdictOfLastStep'
          BY <1>0 DEF VerdictOfLastStep, Pending, Err
    <1> QED BY <1>1, <1>2, <1>3, <1>t

(* A step gets no more than what is left of the invocation's timeout.      *)
LEMMA TakeTimeoutInv == ASSUME WorkflowInv, TakeTimeout PROVE WorkflowInv'
    <1> USE DEF WorkflowInv
    <1>0. /\ pc = "timeout" /\ result = Pending
          /\ UNCHANGED <<workflow, gate, now, si, retries, attempts, observed, outputs,
                         history>>
          /\ \/ pc' = "done" /\ result' = Err /\ UNCHANGED stepTimeout
             \/ /\ now < WorkflowTimeout /\ pc' = "attempt" /\ result' = result
                /\ stepTimeout' \in Nat /\ now + stepTimeout' <= WorkflowTimeout
          <2>1. Current.timeout \in Nat /\ now \in Nat /\ WorkflowTimeout \in Nat
                BY CurrentIsStep, WorkflowAssumption DEF TypeOK
          <2> QED BY <2>1 DEF TakeTimeout, Return, InOrder, Tightened
    <1>c. Current' = Current
          BY <1>0 DEF Current
    <1>1. TypeOK'
          BY <1>0 DEF TypeOK, history, Err
    <1>2. Attempted' /\ Supplied' /\ InOrder'
          BY <1>0, <1>c DEF Attempted, Supplied, InOrder, Trying
    <1>3. VerdictOfLastStep'
          BY <1>0 DEF VerdictOfLastStep, Pending, Err
    <1>4. Timed'
          <2>1. CASE pc' = "done"
                BY <1>0, <2>1, TimedKept
          <2>2. CASE pc' = "attempt"
                <3>1. /\ now < WorkflowTimeout /\ now + stepTimeout' <= WorkflowTimeout
                      /\ stepTimeout' \in Nat
                      BY <1>0, <2>2
                <3>2. /\ (OverSocket' <=> OverSocket) /\ Last' = Last /\ began' = began
                      /\ resolved' = resolved
                      BY <1>0, <1>c DEF OverSocket, Last, history
                <3>3. began \in Nat /\ now \in Nat /\ WorkflowTimeout \in Nat
                      BY WorkflowAssumption DEF TypeOK
                <3>4. OverSocket \/ attempts = << >>
                      <4>1. OverSocket \/ Len(attempts) = 0
                            BY <1>0 DEF Timed, Attempted
                      <4>2. attempts \in Seq(Results("websocket"))
                            BY DEF TypeOK
                      <4> QED BY <4>1, <4>2
                <3>a. /\ attempts' = attempts /\ now' = now /\ retries' = retries
                      /\ OverSocket \/ retries = 0
                      BY <1>0 DEF Timed
                <3>b. began <= now /\ began' = began
                      BY <3>2 DEF Timed
                <3>5. TimeoutsTighten'
                      <4>1. CASE attempts = << >>
                            BY <3>a, <4>1 DEF TimeoutsTighten
                      <4>2. CASE attempts # << >>
                            <5>1. began < WorkflowTimeout
                                  BY <3>4, <4>2 DEF Timed, TimeoutHeld, TimeoutsTighten
                            <5>2. began' + stepTimeout' <= WorkflowTimeout
                                  <6> DEFINE t == stepTimeout'
                                  <6>1. t \in Nat /\ now + t <= WorkflowTimeout
                                        BY <3>1
                                  <6> HIDE DEF t
                                  <6>2. began + t <= WorkflowTimeout
                                        BY <3>3, <3>b, <6>1
                                  <6> QED BY <3>b, <6>2 DEF t
                            <5> QED BY <3>b, <5>1, <5>2 DEF TimeoutsTighten
                      <4> QED BY <4>1, <4>2
                <3>6. LateInResolver' /\ LateRetries'
                      BY <1>0, <1>c, <3>2, <3>4
                      DEF Timed, TimeoutHeld, LateInResolver, LateRetries
                <3>7. pc' # "timeout"
                      BY <2>2
                <3>8. now' < WorkflowTimeout /\ now' + stepTimeout' <= WorkflowTimeout
                      BY <3>1, <3>a, Zenon
                <3>9. ~(now' >= WorkflowTimeout)
                      BY <3>1, <3>3, <3>a
                <3>10. began' <= now'
                      BY <3>a, <3>b, Zenon
                <3>11. TimeoutHeld'
                      BY <3>5, <3>6 DEF TimeoutHeld
                <3> QED BY <3>7, <3>8, <3>9, <3>10, <3>11, Zenon DEF Timed
          <2> QED BY <2>1, <2>2, <1>0
    <1> QED BY <1>1, <1>2, <1>3, <1>4

(* What a WebSocket attempt and an HTTP attempt take.                      *)
LEMMA AttemptTakes ==
    ASSUME TypeOK, Attempt
    PROVE  /\ began' = now /\ now' \in Nat /\ resolved' \in Nat /\ now <= now'
           /\ \E a \in Results("websocket") :
                 /\ attempts' = Append(attempts, a)
                 /\ OverSocket /\ now' > now + stepTimeout =>
                       now' = resolved' /\ a.exit # 0
    <1>t. now \in Nat /\ resolved \in Nat /\ stepTimeout \in Nat /\ Slowest \in Nat
          BY WorkflowAssumption DEF TypeOK
    <1>b. began' = now
          BY DEF Attempt
    <1>1. CASE OverSocket
          <2>1. PICK r \in 0 .. Slowest, a \in Results("websocket") :
                   /\ r > stepTimeout => a.kind # "observation" \/ a.exit = 3
                   /\ \E d \in {r} \cup (r .. stepTimeout) : now' = now + d
                   /\ resolved' = now + r
                   /\ attempts' = Append(attempts, a)
                BY <1>1 DEF Attempt, OverWebSocket, OverSocket
          <2>2. PICK d \in {r} \cup (r .. stepTimeout) : now' = now + d
                BY <2>1
          <2>3. r \in Nat /\ d \in Nat /\ (d = r \/ d <= stepTimeout)
                BY <1>t, <2>1, <2>2
          <2>4. a.kind # "observation" \/ a.exit = 3 => a.exit # 0
                BY DEF Results
          <2>5. now' > now + stepTimeout => r > stepTimeout /\ now' = resolved'
                BY <1>t, <2>1, <2>2, <2>3
          <2>6. now' > now + stepTimeout => now' = resolved' /\ a.exit # 0
                BY <2>1, <2>4, <2>5
          <2>7. now' \in Nat /\ resolved' \in Nat /\ now <= now'
                BY <1>t, <2>1, <2>2, <2>3
          <2> QED BY <1>b, <2>1, <2>6, <2>7
    <1>2. CASE ~OverSocket
          <2>1. PICK d \in 0 .. Slowest : now' = now + d
                BY <1>2 DEF Attempt, OverHttp, OverSocket
          <2>2. PICK a \in Results("http") : attempts' = Append(attempts, a)
                BY <1>2 DEF Attempt, OverHttp, OverSocket
          <2>3. a \in Results("websocket")
                BY DEF Results
          <2>4. resolved' = resolved
                BY <1>2 DEF Attempt, OverHttp, OverSocket
          <2>5. now' \in Nat /\ now <= now'
                BY <1>t, <2>1
          <2> QED BY <1>2, <1>b, <1>t, <2>2, <2>3, <2>4, <2>5
    <1> QED BY <1>1, <1>2

(* An attempt that is late begins late, or its resolver was.               *)
LEMMA AttemptInv == ASSUME WorkflowInv, Attempt PROVE WorkflowInv'
    <1> USE DEF WorkflowInv
    <1>0. /\ pc = "attempt" /\ pc' = "judge" /\ result = Pending
          /\ UNCHANGED <<workflow, gate, si, stepTimeout, retries, observed, outputs,
                         result>>
          BY DEF Attempt, InOrder
    <1>c. Current' = Current /\ (OverSocket' <=> OverSocket)
          BY <1>0 DEF Current, OverSocket
    <1>t. /\ now \in Nat /\ retries \in Nat /\ stepTimeout \in Nat
          /\ WorkflowTimeout \in Nat
          BY WorkflowAssumption DEF TypeOK
    <1>d. began' = now /\ now' \in Nat /\ resolved' \in Nat /\ now <= now'
          BY AttemptTakes
    <1>e. PICK a \in Results("websocket") :
             /\ attempts' = Append(attempts, a)
             /\ OverSocket /\ now' > now + stepTimeout =>
                   now' = resolved' /\ a.exit # 0
          BY AttemptTakes
    <1>l. /\ Len(attempts') = retries + 1 /\ attempts' # << >> /\ Last' = a
          /\ attempts' \in Seq(Results("websocket"))
          <2> DEFINE R == Results("websocket")
          <2>1. attempts \in Seq(R) /\ a \in R /\ attempts' = Append(attempts, a)
                BY <1>e DEF TypeOK
          <2> HIDE DEF R
          <2>2. /\ attempts' \in Seq(R) /\ Len(attempts') = Len(attempts) + 1
                /\ Len(attempts) \in Nat
                BY <2>1
          <2>3. attempts' # << >>
                BY <2>2
          <2>4. Len(attempts) = retries
                BY <1>0 DEF Attempted
          <2>5. Last' = a
                BY <2>1, <2>2 DEF Last
          <2> QED BY <2>2, <2>3, <2>4, <2>5 DEF R
    <1>1. TypeOK'
          BY <1>0, <1>t, <1>d, <1>l DEF TypeOK, history
    <1>2. Attempted'
          BY <1>0, <1>c, <1>l, <1>t DEF Attempted
    <1>3. Supplied' /\ InOrder'
          BY <1>0, <1>c, <1>l DEF Supplied, InOrder, Trying
    <1>4. VerdictOfLastStep'
          BY <1>0 DEF VerdictOfLastStep, Pending
    <1>5. TimeoutsTighten'
          BY <1>0, <1>c, <1>d, <1>l, <1>t DEF Timed, TimeoutsTighten
    <1>6. LateInResolver'
          BY <1>0, <1>c, <1>d, <1>e, <1>l, <1>t DEF Timed, LateInResolver
    <1>7. LateRetries'
          <2> SUFFICES ASSUME ~OverSocket, now >= WorkflowTimeout PROVE LateRetries'
              BY <1>c, <1>d DEF LateRetries
          <2>1. retries > 0 /\ AtOnce(retries)
                BY <1>0 DEF Timed
          <2>2. PICK i \in DOMAIN Current.onFailure :
                   /\ Current.onFailure[i].type = "retry"
                   /\ Current.onFailure[i].delay = 0
                   /\ retries <= Current.onFailure[i].limit
                BY <2>1 DEF AtOnce
          <2>3. Current.onFailure[i].limit \in Nat
                <3> DEFINE q == Current.onFailure
                <3>1. q \in Seq(FailureAction)
                      BY CurrentIsStep
                <3> HIDE DEF q
                <3>2. ASSUME NEW k \in DOMAIN q PROVE q[k].limit \in Nat
                      <4>1. q[k] \in FailureAction
                            BY <3>1
                      <4> QED BY <4>1 DEF FailureAction
                <3> QED BY <3>2 DEF q
          <2>4. Len(attempts') > 1 /\ Len(attempts') <= Current.onFailure[i].limit + 1
                BY <1>l, <1>t, <2>1, <2>2, <2>3
          <2> QED BY <1>c, <2>2, <2>4 DEF LateRetries
    <1>8. Timed'
          BY <1>0, <1>d, <1>5, <1>6, <1>7 DEF Timed, TimeoutHeld
    <1> QED BY <1>1, <1>2, <1>3, <1>4, <1>8

(* A retry sleeps within the invocation's timeout, and only WebSocket steps *)
(* ask for their timeout again.                                            *)
LEMMA RetryInv == ASSUME WorkflowInv, Retry PROVE WorkflowInv'
    <1> USE DEF WorkflowInv
    <1>0. /\ pc = "judge" /\ result = Pending /\ retries' = retries + 1
          /\ UNCHANGED <<workflow, gate, si, stepTimeout, attempts, observed, outputs,
                         history>>
          BY DEF Retry, InOrder
    <1>c. Current' = Current
          BY <1>0 DEF Current
    <1>t. /\ now \in Nat /\ retries \in Nat /\ began \in Nat
          /\ WorkflowTimeout \in Nat /\ stepTimeout \in Nat
          /\ Current.transport \in {"http", "websocket"}
          BY CurrentIsStep, WorkflowAssumption DEF TypeOK
    <1>a. PICK a \in RetryWith :
             IF a.delay > 0 /\ now + a.delay >= WorkflowTimeout
             THEN Return(Err) /\ UNCHANGED now
             ELSE /\ now' = now + a.delay
                  /\ pc' = IF Current.transport = "websocket" THEN "timeout"
                           ELSE "attempt"
                  /\ UNCHANGED result
          BY DEF Retry
    <1>b. /\ retries < a.limit /\ a.limit \in RetryLimits(Current)
          /\ a.limit \in 0 .. MaxRetryLimit /\ a.delay \in Nat
          BY RetryIsListed
    <1>d. \/ pc' = "done" /\ result' = Err /\ now' = now
          \/ /\ now' = now \/ now' < WorkflowTimeout
             /\ now' \in Nat /\ result' = result
             /\ \/ pc' = "timeout" /\ Current.transport = "websocket"
                \/ pc' = "attempt" /\ Current.transport = "http"
          BY <1>a, <1>b, <1>t DEF Return
    <1>r. retries' \in 0 .. MaxRetryLimit /\ retries' <= a.limit
          BY <1>0, <1>b, <1>t DEF MaxRetryLimit
    <1>1. TypeOK'
          BY <1>0, <1>d, <1>r DEF TypeOK, history, Err
    <1>2. Attempted'
          <2>1. Len(attempts) = retries' /\ Len(attempts) <= retries' + 1
                BY <1>0, <1>t DEF Attempted
          <2>2. \E n \in RetryLimits(Current) : retries' <= n
                BY <1>b, <1>r
          <2> QED BY <2>1, <2>2, <1>0, <1>c, <1>d DEF Attempted
    <1>3. Supplied' /\ InOrder'
          BY <1>0, <1>c, <1>d DEF Supplied, InOrder, Trying
    <1>4. VerdictOfLastStep'
          BY <1>0, <1>d DEF VerdictOfLastStep, Pending, Err
    <1>5. Timed'
          <2>1. /\ (OverSocket' <=> OverSocket) /\ Last' = Last /\ began' = began
                /\ resolved' = resolved
                BY <1>0, <1>c DEF OverSocket, Last, history
          <2>2. /\ TimeoutsTighten' /\ LateRetries' /\ began <= now'
                /\ now' = now \/ now' < WorkflowTimeout
                BY <1>0, <1>c, <1>a, <1>b, <1>d, <1>t, <2>1
                DEF Timed, TimeoutHeld, TimeoutsTighten, LateRetries
          <2>3. LateInResolver'
                <3>1. now' > WorkflowTimeout => now' = now
                      BY <1>d, <1>t
                <3> QED BY <1>0, <2>1, <3>1 DEF Timed, TimeoutHeld, LateInResolver
          <2>4. pc' = "attempt" => ~OverSocket /\ retries' > 0
                BY <1>0, <1>d, <1>t DEF OverSocket
          <2>5. pc' = "attempt" /\ now' >= WorkflowTimeout => AtOnce(retries')
                <3> SUFFICES ASSUME pc' = "attempt", now' >= WorkflowTimeout
                             PROVE  AtOnce(retries')
                    OBVIOUS
                <3>1. a.delay = 0
                      BY <1>a, <1>b, <1>t DEF Return
                <3> QED BY <3>1, <1>b, <1>r, RetryIsListed
          <2>6. AtOnce(retries)' <=> AtOnce(retries')
                BY <1>c DEF AtOnce
          <2>7. pc' = "timeout" => OverSocket
                BY <1>d DEF OverSocket
          <2> QED BY <2>1, <2>2, <2>3, <2>4, <2>5, <2>6, <2>7, <1>t DEF Timed, TimeoutHeld
    <1> QED BY <1>1, <1>2, <1>3, <1>4, <1>5

LEMMA GiveUpInv == ASSUME WorkflowInv, GiveUp PROVE WorkflowInv'
    <1> USE DEF WorkflowInv
    <1>0. /\ pc = "judge" /\ pc' = "done" /\ result' = Err
          /\ UNCHANGED <<workflow, gate, now, si, stepTimeout, retries, attempts,
                         observed, outputs, history>>
          BY DEF GiveUp, Return
    <1>c. Current' = Current
          BY <1>0 DEF Current
    <1>1. TypeOK'
          BY <1>0 DEF TypeOK, history, Err
    <1>2. Attempted' /\ Supplied' /\ InOrder'
          BY <1>0, <1>c DEF Attempted, Supplied, InOrder, Trying
    <1>t. Timed'
          BY <1>0, TimedKept
    <1>3. VerdictOfLastStep'
          BY <1>0 DEF VerdictOfLastStep, Err
    <1> QED BY <1>1, <1>2, <1>3, <1>t

LEMMA AppendFacts ==
    ASSUME NEW T, NEW q \in Seq(T), NEW e \in T
    PROVE  /\ Append(q, e) \in Seq(T) /\ Len(q) \in Nat
           /\ Len(Append(q, e)) = Len(q) + 1
           /\ DOMAIN q = 1 .. Len(q) /\ DOMAIN Append(q, e) = 1 .. (Len(q) + 1)
           /\ \A k \in 1 .. Len(q) : Append(q, e)[k] = q[k]
           /\ Append(q, e)[Len(q) + 1] = e
    OBVIOUS

(* The current step is recorded after the ones before it.                  *)
LEMMA ObservedGrows ==
    ASSUME WorkflowInv, pc = "judge", observed' = Append(observed, StepObservation)
    PROVE  /\ observed' \in Seq([step : Nat, attempts : Nat, exit : Nat])
           /\ Last \in Results("websocket") /\ Last.exit \in Nat
           /\ Len(observed) = si - 1 /\ Len(observed') = si /\ si \in Nat \ {0}
           /\ DOMAIN observed' = 1 .. si /\ observed'[si].exit = Last.exit
           /\ \A k \in 1 .. si : observed'[k].step = k
           /\ \A k \in 1 .. (si - 1) : observed'[k].exit = 0
           /\ \A j \in outputs :
                 \E k \in 1 .. si : observed'[k].step = j /\ observed'[k].exit = 0
    <1> DEFINE R == Results("websocket")
               S == [step : Nat, attempts : Nat, exit : Nat]
    <1>1. /\ attempts \in Seq(R) /\ observed \in Seq(S) /\ retries \in Nat
          /\ Len(attempts) = retries + 1 /\ Len(observed) = si - 1 /\ si \in DOMAIN workflow
          /\ workflow \in Seq(Step)
          BY DEF WorkflowInv, TypeOK, Attempted, InOrder
    <1>2. Last \in R /\ Len(attempts) \in Nat
          <2> HIDE DEF R
          <2> QED BY <1>1 DEF Last
    <1>3. Last.exit \in Nat
          BY <1>2 DEF Results
    <1>4. si \in Nat \ {0}
          BY <1>1
    <1>5. /\ StepObservation \in S
          /\ StepObservation.step = si /\ StepObservation.exit = Last.exit
          BY <1>2, <1>3, <1>4 DEF StepObservation
    <1> HIDE DEF S
    <1>6. /\ observed' \in Seq(S) /\ Len(observed') = (si - 1) + 1
          /\ DOMAIN observed = 1 .. (si - 1) /\ DOMAIN observed' = 1 .. ((si - 1) + 1)
          /\ \A k \in 1 .. (si - 1) : observed'[k] = observed[k]
          /\ observed'[(si - 1) + 1] = StepObservation
          BY <1>1, <1>5, AppendFacts
    <1>7. (si - 1) + 1 = si
          BY <1>4
    <1>8. /\ \A k \in 1 .. (si - 1) : observed[k].step = k /\ observed[k].exit = 0
          /\ \A j \in outputs :
                \E k \in 1 .. (si - 1) : observed[k].step = j /\ observed[k].exit = 0
          BY <1>6 DEF WorkflowInv, InOrder, Supplied
    <1>9. ASSUME NEW k \in 1 .. si PROVE k = si \/ k \in 1 .. (si - 1)
          BY <1>4
    <1>10. \A k \in 1 .. (si - 1) : k \in 1 .. si
          BY <1>4
    <1> HIDE DEF R
    <1> QED BY <1>1, <1>2, <1>3, <1>4, <1>5, <1>6, <1>7, <1>8, <1>9, <1>10 DEF S, R

LEMMA StepFailsInv == ASSUME WorkflowInv, StepFails PROVE WorkflowInv'
    <1> USE DEF WorkflowInv
    <1>0. /\ pc = "judge" /\ pc' = "done" /\ result' = Observation(Last.exit)
          /\ observed' = Append(observed, StepObservation) /\ Last.exit # 0
          /\ UNCHANGED <<workflow, gate, now, si, stepTimeout, retries, attempts,
                         outputs, history>>
          BY DEF StepFails, Return
    <1>o. /\ observed' \in Seq([step : Nat, attempts : Nat, exit : Nat])
          /\ Last.exit \in Nat /\ Len(observed') = si /\ si \in Nat \ {0}
          /\ DOMAIN observed' = 1 .. si /\ observed'[si].exit = Last.exit
          /\ \A k \in 1 .. si : observed'[k].step = k
          /\ \A k \in 1 .. (si - 1) : observed'[k].exit = 0
          /\ \A j \in outputs :
                \E k \in 1 .. si : observed'[k].step = j /\ observed'[k].exit = 0
          BY <1>0, ObservedGrows
    <1>c. Current' = Current
          BY <1>0 DEF Current
    <1>1. TypeOK'
          BY <1>0, <1>o DEF TypeOK, history, Observation
    <1>2. Attempted' /\ Timed'
          BY <1>0, <1>c, TimedKept DEF Attempted
    <1>5. Supplied'
          <2>1. \A j \in outputs' : \E k \in DOMAIN observed' :
                   observed'[k].step = j /\ observed'[k].exit = 0
                <3>1. outputs' = outputs /\ DOMAIN observed' = 1 .. si
                      BY <1>0, <1>o
                <3>2. \A j \in outputs :
                         \E k \in 1 .. si : observed'[k].step = j /\ observed'[k].exit = 0
                      BY <1>o
                <3> QED BY <3>1, <3>2, Zenon
          <2> QED BY <2>1, <1>0, <1>c DEF Supplied, Trying
    <1>6. InOrder'
          BY <1>0, <1>o DEF InOrder
    <1>7. VerdictOfLastStep'
          BY <1>0, <1>o DEF VerdictOfLastStep, Observation
    <1> QED BY <1>1, <1>2, <1>5, <1>6, <1>7

LEMMA StepPassesInv == ASSUME WorkflowInv, StepPasses PROVE WorkflowInv'
    <1> USE DEF WorkflowInv
    <1>0. /\ pc = "judge" /\ Last.exit = 0 /\ result = Pending
          /\ UNCHANGED <<workflow, gate, now, stepTimeout, history>>
          /\ gate = "ok"
          BY DEF StepPasses, InOrder, Supplied
    <1>1. CASE Return(Err) /\ UNCHANGED <<observed, outputs, si, retries, attempts>>
          <2>0. pc' = "done" /\ result' = Err /\ Current' = Current
                BY <1>0, <1>1 DEF Return, Current
          <2>1. TypeOK'
                BY <1>0, <1>1, <2>0 DEF TypeOK, history, Err
          <2>2. Attempted' /\ Supplied' /\ InOrder'
                BY <1>0, <1>1, <2>0 DEF Attempted, Supplied, InOrder, Trying
          <2>3. VerdictOfLastStep'
                BY <2>0 DEF VerdictOfLastStep, Err
          <2>4. Timed'
                BY <1>0, <1>1, <2>0, TimedKept
          <2> QED BY <2>1, <2>2, <2>3, <2>4
    <1>2. ASSUME observed' = Append(observed, StepObservation),
                 outputs' = outputs \cup {si},
                 IF Stops
                 THEN Return(Observation(0)) /\ UNCHANGED <<si, retries, attempts>>
                 ELSE NextStep
          PROVE  WorkflowInv'
          <2>o. /\ observed' \in Seq([step : Nat, attempts : Nat, exit : Nat])
                /\ Len(observed') = si /\ si \in Nat \ {0}
                /\ DOMAIN observed' = 1 .. si /\ observed'[si].exit = 0
                /\ \A k \in 1 .. si : observed'[k].step = k
                /\ \A k \in 1 .. (si - 1) : observed'[k].exit = 0
                /\ \A j \in outputs :
                      \E k \in 1 .. si : observed'[k].step = j /\ observed'[k].exit = 0
                BY <1>0, <1>2, ObservedGrows
          <2>p. /\ si \in 1 .. Len(workflow) /\ Len(workflow) \in Nat
                /\ outputs' \subseteq Nat
                <3>1. workflow \in Seq(Step) /\ si \in DOMAIN workflow /\ outputs \subseteq Nat
                      BY DEF TypeOK
                <3>2. si \in 1 .. Len(workflow) /\ Len(workflow) \in Nat
                      BY <3>1
                <3>3. si \in Nat
                      BY <2>o
                <3> QED BY <3>1, <3>2, <3>3, <1>2
          <2>1. \A k \in 1 .. si : k = si \/ k \in 1 .. (si - 1)
                BY <2>o
          <2>2. \A k \in 1 .. si : observed'[k].exit = 0
                BY <2>o, <2>1
          <2>3. \A j \in outputs' : \E k \in DOMAIN observed' :
                   observed'[k].step = j /\ observed'[k].exit = 0
                <3>1. si \in 1 .. si
                      BY <2>o
                <3>2. ASSUME NEW j \in outputs'
                      PROVE  \E k \in 1 .. si : observed'[k].step = j /\ observed'[k].exit = 0
                      <4>1. CASE j \in outputs
                            BY <4>1, <2>o, Zenon
                      <4>2. CASE j = si
                            <5>1. observed'[si].step = si /\ observed'[si].exit = 0
                                  BY <2>o, <3>1, Zenon
                            <5> QED BY <4>2, <5>1, <3>1, Zenon
                      <4> QED BY <4>1, <4>2, <1>2
                <3>3. DOMAIN observed' = 1 .. si
                      BY <2>o
                <3> QED BY <3>2, <3>3, Zenon
          <2>4. CASE Stops
                <3>0. /\ pc' = "done" /\ result' = Observation(0)
                      /\ UNCHANGED <<si, retries, attempts>> /\ Current' = Current
                      BY <1>0, <1>2, <2>4 DEF Return, Current
                <3>1. TypeOK'
                      BY <1>0, <2>o, <2>p, <3>0 DEF TypeOK, history, Observation
                <3>2. Attempted' /\ Timed'
                      BY <1>0, <3>0, TimedKept DEF Attempted
                <3>3. Supplied' /\ InOrder'
                      BY <1>0, <1>2, <2>o, <2>1, <2>3, <3>0 DEF Supplied, InOrder, Trying
                <3>4. si < Len(workflow) => workflow[si].onSuccess # << >>
                      BY <2>p, <2>4 DEF Stops, Selected, Current
                <3>5. VerdictOfLastStep'
                      BY <1>0, <2>o, <2>1, <2>2, <3>0, <3>4
                      DEF VerdictOfLastStep, Observation
                <3> QED BY <3>1, <3>2, <3>3, <3>5
          <2>5. CASE ~Stops
                <3>0. /\ pc' = "prepare" /\ result' = Pending /\ si' = si + 1
                      /\ retries' = 0 /\ attempts' = << >> /\ si # Len(workflow)
                      BY <1>0, <1>2, <2>5 DEF NextStep, Stops
                <3>1. TypeOK'
                      BY <1>0, <2>o, <2>p, <3>0 DEF TypeOK, history, Pending, MaxRetryLimit
                <3>2. Attempted'
                      BY <1>0, <3>0 DEF Attempted
                <3>5. Timed'
                      BY <1>0, <3>0 DEF Timed, TimeoutHeld, TimeoutsTighten,
                         LateInResolver, LateRetries, history
                <3>3. Supplied' /\ InOrder'
                      BY <1>0, <2>o, <2>1, <2>2, <2>3, <3>0 DEF Supplied, InOrder, Trying
                <3>4. VerdictOfLastStep'
                      BY <3>0 DEF VerdictOfLastStep, Pending
                <3> QED BY <3>1, <3>2, <3>3, <3>4, <3>5
          <2> QED BY <2>4, <2>5
    <1> QED BY <1>1, <1>2 DEF StepPasses

LEMMA StepInv == WorkflowInv /\ [Next]_vars => WorkflowInv'
    <1> SUFFICES ASSUME WorkflowInv, [Next]_vars PROVE WorkflowInv'
        OBVIOUS
    <1>1. CASE UNCHANGED vars
          <2>1. TypeOK' /\ Attempted' /\ Supplied' /\ InOrder' /\ VerdictOfLastStep'
                BY <1>1 DEF vars, history, WorkflowInv, TypeOK, Attempted, Supplied,
                   InOrder, VerdictOfLastStep, Current
          <2>2. Timed'
                <3>1. /\ pc' = pc /\ now' = now /\ retries' = retries /\ began' = began
                      /\ resolved' = resolved /\ attempts' = attempts
                      /\ stepTimeout' = stepTimeout /\ Current' = Current
                      /\ (OverSocket' <=> OverSocket) /\ Last' = Last
                      BY <1>1 DEF vars, history, Current, OverSocket, Last
                <3> QED BY <3>1 DEF WorkflowInv, Timed, TimeoutHeld, TimeoutsTighten,
                           LateInResolver, LateRetries, AtOnce
          <2> QED BY <2>1, <2>2 DEF WorkflowInv
    <1> QED BY <1>1, StartInv, PrepareInv, TakeTimeoutInv, AttemptInv, RetryInv,
               GiveUpInv, StepFailsInv, StepPassesInv DEF Next, Returned

-----------------------------------------------------------------------------
\* The inductive invariant of invoke_workflow.
THEOREM WorkflowInvariant == Spec => []WorkflowInv
    BY InitInv, StepInv, PTL DEF Spec

\* The executor's variables keep their types, there is always a current step,
\* and no step is retried more than ten times.
THEOREM WorkflowTypes == Spec => []TypeOK
    <1>1. WorkflowInv => TypeOK
          BY DEF WorkflowInv
    <1> QED BY <1>1, WorkflowInvariant, PTL

\* invoke_workflow attempts a step only after every gate, on outputs of steps
\* that passed, and at most once more than a retry action of the step allows.
THEOREM AttemptsAreJustified == Spec => []AttemptsJustified
    <1>1. ASSUME WorkflowInv PROVE AttemptsJustified
          <2> SUFFICES ASSUME attempts # << >> PROVE AttemptsJustified
              BY DEF AttemptsJustified
          <2>1. /\ gate = "ok"
                /\ \A j \in Current.reads :
                      \E k \in DOMAIN observed :
                         observed[k].step = j /\ observed[k].exit = 0
                BY <1>1 DEF WorkflowInv, Supplied
          <2>2. Len(attempts) \in Nat /\ retries \in Nat
                BY <1>1 DEF WorkflowInv, TypeOK
          <2>3. /\ Len(attempts) <= retries + 1
                /\ retries = 0 \/ \E n \in RetryLimits(Current) : retries <= n
                BY <1>1 DEF WorkflowInv, Attempted
          <2>4. \A n \in RetryLimits(Current) : n \in Nat
                <3>1. Current.onFailure \in Seq(FailureAction)
                      BY <1>1, CurrentIsStep DEF WorkflowInv
                <3> DEFINE s == Current
                <3> HIDE DEF s
                <3>2. \A i \in DOMAIN s.onFailure : s.onFailure[i] \in FailureAction
                      BY <3>1 DEF s
                <3>3. \A i \in DOMAIN s.onFailure : s.onFailure[i].limit \in Nat
                      BY <3>2 DEF FailureAction
                <3> QED BY <3>3 DEF RetryLimits, s
          <2>5. Len(attempts) <= 1 \/ \E n \in RetryLimits(Current) : Len(attempts) <= n + 1
                BY <2>2, <2>3, <2>4
          <2> QED BY <2>1, <2>5 DEF AttemptsJustified
    <1> QED BY <1>1, WorkflowInvariant, PTL

\* The verdict invoke_workflow returns is that of the last step it ran, after
\* steps in order that all passed.
THEOREM VerdictIsLastSteps == Spec => []VerdictOfLastStep
    <1>1. WorkflowInv => VerdictOfLastStep
          BY DEF WorkflowInv
    <1> QED BY <1>1, WorkflowInvariant, PTL

\* However its steps are retried and delayed, a workflow passes its invocation
\* timeout only inside a call that began in time, where over WebSocket that call
\* is the resolver's and the session does not pass, or in retries of an HTTP
\* step without delay.
THEOREM TimeoutIsHeld == Spec => []TimeoutHeld
    <1>1. WorkflowInv => TimeoutHeld
          BY DEF WorkflowInv, Timed
    <1> QED BY <1>1, WorkflowInvariant, PTL
=============================================================================
