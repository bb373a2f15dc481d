------------------------------ MODULE Workflow ------------------------------
(***************************************************************************)
(* invoke_workflow of kahea-workflow: the steps of a sealed Arazzo plan in *)
(* order, each an HTTP request or a WebSocket session, retried by its      *)
(* onFailure actions, all under one invocation timeout.                    *)
(*                                                                         *)
(* now is the time since workflow_started.  It passes in the attempts and  *)
(* in the sleeps between retries.  The timeout an attempt is given bounds  *)
(* what a WebSocket session does after its name is resolved; neither the   *)
(* resolver nor an HTTP request as a whole is bounded by it.  What an      *)
(* attempt returns is the environment's choice: an observation, a denial   *)
(* or an error.                                                            *)
(***************************************************************************)
EXTENDS Integers, Sequences, FiniteSets

CONSTANTS Workflows,        (* candidate plans; the valid ones are run      *)
          Statuses,         (* response statuses that criteria tell apart   *)
          WorkflowTimeout,  (* InvokeOptions.timeout                        *)
          Slowest           (* the longest a resolver call or an HTTP       *)
                            (* attempt takes                                *)

MaxRetryLimit == 10

FailureAction == [type : {"retry", "end"}, criteria : BOOLEAN,
                  when : SUBSET Statuses, limit : Nat, delay : Nat]
SuccessAction == [criteria : BOOLEAN, when : SUBSET Statuses]

\* A step template: reads are the steps whose outputs its expressions name,
\* timeout 0 is an absent one.
Step == [transport : {"http", "websocket"}, reads : SUBSET Nat, timeout : Nat,
         onFailure : Seq(FailureAction), onSuccess : Seq(SuccessAction)]

\* validate_actions, and what build_workflow_plan asks of WebSocket steps.
ValidStep(s) ==
    /\ \A i \in DOMAIN s.onFailure :
          s.onFailure[i].type = "retry" => s.onFailure[i].limit <= MaxRetryLimit
    /\ s.transport = "websocket" =>
          /\ \A i \in DOMAIN s.onFailure : ~s.onFailure[i].criteria
          /\ \A i \in DOMAIN s.onSuccess : ~s.onSuccess[i].criteria

\* build_workflow_plan: between 1 and 100 steps.
ValidWorkflow(w) == /\ Len(w) \in 1 .. 100
                    /\ \A i \in DOMAIN w : ValidStep(w[i])

ASSUME WorkflowAssumption ==
    /\ Workflows \subseteq Seq(Step)
    /\ WorkflowTimeout \in Nat /\ Slowest \in Nat
    /\ Statuses \subseteq Nat

VARIABLES
    workflow,     \* the sealed steps
    gate,         \* what the checks before the first step find
    now,          \* workflow_started.elapsed()
    pc,
    si,           \* the current step
    stepTimeout,  \* InvokeOptions.timeout of the current attempts
    retries,
    attempts,     \* what the attempts of this step returned
    observed,     \* observations of the finished steps
    outputs,      \* step_outputs: the steps whose outputs are available
    result,       \* what invoke_workflow returns
    began,        \* history: when the last attempt began, ...
    resolved      \* ... and when its resolver returned, over WebSocket

history == <<began, resolved>>

vars == <<workflow, gate, now, pc, si, stepTimeout, retries, attempts,
          observed, outputs, result, history>>

Gates == {"ok", "invalid-seal", "fingerprint-mismatch", "missing-grant"}

\* An attempt's result; exit 3 is an error, as an observation (WebSocket) or
\* as an Err.
Results(t) ==
    [kind : {"observation"}, exit : {0, 1}, status : Statuses]
    \cup [kind : {"denied"}, exit : {4}, status : {0}]
    \cup [kind : {"error"}, exit : {3}, status : {0}]
    \cup IF t = "websocket" THEN [kind : {"observation"}, exit : {3}, status : {0}]
         ELSE {}

Pending  == [kind |-> "none", exit |-> 0]
Err      == [kind |-> "error", exit |-> 3]
Observation(e) == [kind |-> "observation", exit |-> e]

Init ==
    /\ workflow \in {w \in Workflows : ValidWorkflow(w)}
    /\ gate \in Gates
    /\ now = 0 /\ pc = "start" /\ si = 1 /\ stepTimeout = 0 /\ retries = 0
    /\ attempts = << >> /\ observed = << >> /\ outputs = {}
    /\ result = Pending /\ began = 0 /\ resolved = 0

Current == workflow[si]
Last    == attempts[Len(attempts)]

Return(r) == result' = r /\ pc' = "done"

-----------------------------------------------------------------------------
\* The seal, the fingerprints, then the grants, before anything is sent.
Start ==
    /\ pc = "start"
    /\ \/ gate = "ok" /\ pc' = "prepare" /\ UNCHANGED result
       \/ gate = "missing-grant" /\ Return(Observation(4))
       \/ gate \in {"invalid-seal", "fingerprint-mismatch"} /\ Return(Err)
    /\ UNCHANGED <<workflow, gate, now, si, stepTimeout, retries, attempts,
                   observed, outputs, history>>

\* Mutant: the step waits for outputs that are not there yet.
PrepareWaits ==
    /\ pc = "prepare"
    /\ pc' = IF Current.reads \subseteq outputs THEN "timeout" ELSE "prepare"
    /\ UNCHANGED <<workflow, gate, now, si, stepTimeout, retries, attempts,
                   observed, outputs, result, history>>

\* materialize the step's expressions, then plan the request or rebuild the
\* session, and store the plan: an unavailable output, or a plan that cannot
\* be built or stored, ends the workflow.
Prepare ==
    /\ pc = "prepare"
    /\ \/ Current.reads \subseteq outputs /\ pc' = "timeout" /\ UNCHANGED result
       \/ Return(Err)
    /\ UNCHANGED <<workflow, gate, now, si, stepTimeout, retries, attempts,
                   observed, outputs, history>>

\* Mutant: the step's own timeout replaces what is left of the workflow's.
TightenedOwn(t, left) == IF t = 0 THEN left ELSE t

\* A step's own timeout only tightens what is left of the workflow's.
Tightened(t, left) == IF t = 0 \/ left <= t THEN left ELSE t

\* remaining_step_timeout
TakeTimeout ==
    /\ pc = "timeout"
    /\ IF now >= WorkflowTimeout THEN Return(Err) /\ UNCHANGED stepTimeout
       ELSE /\ stepTimeout' = Tightened(Current.timeout, WorkflowTimeout - now)
            /\ pc' = "attempt" /\ UNCHANGED result
    /\ UNCHANGED <<workflow, gate, now, si, retries, attempts, observed, outputs,
                   history>>

\* execute_websocket: the name is resolved under no timeout.  What follows has
\* until the deadline taken from the step's timeout before that; past it no
\* address is dialled.
OverWebSocket ==
    \E r \in 0 .. Slowest, a \in Results("websocket") :
       /\ r > stepTimeout => a.kind # "observation" \/ a.exit = 3
       /\ \E d \in {r} \cup (r .. stepTimeout) : now' = now + d
       /\ resolved' = now + r
       /\ attempts' = Append(attempts, a)

\* invoke: resolves under no timeout, once or (for a token first) twice, and the
\* client's timeout starts anew with each request and each part of a body.
OverHttp ==
    /\ \E d \in 0 .. Slowest : now' = now + d
    /\ \E a \in Results("http") : attempts' = Append(attempts, a)
    /\ UNCHANGED resolved

Attempt ==
    /\ pc = "attempt"
    /\ IF Current.transport = "websocket" THEN OverWebSocket ELSE OverHttp
    /\ began' = now
    /\ pc' = "judge"
    /\ UNCHANGED <<workflow, gate, si, stepTimeout, retries, observed, outputs,
                   result>>

\* criteria_match: criteria only ever match an observation.
Matches(a, r) == ~a.criteria \/ (r.kind = "observation" /\ r.status \in a.when)

\* select_action: the first action whose criteria match, as a set.
Selected(as, r) ==
    {as[i] : i \in {j \in DOMAIN as : /\ Matches(as[j], r)
                                      /\ \A k \in 1 .. (j - 1) : ~Matches(as[k], r)}}

\* unconditional_retry: the first retry without criteria, as a set.
IsBareRetry(a) == a.type = "retry" /\ ~a.criteria
UnconditionalRetry(as) ==
    {as[i] : i \in {j \in DOMAIN as : /\ IsBareRetry(as[j])
                                      /\ \A k \in 1 .. (j - 1) : ~IsBareRetry(as[k])}}

\* The action that may retry the last attempt.  A denial of a WebSocket step
\* is final; an error has no response to hold criteria against.
FailureActions ==
    IF Last.exit = 0 THEN {}
    ELSE IF Last.kind = "error" THEN UnconditionalRetry(Current.onFailure)
    ELSE IF Current.transport = "http" THEN Selected(Current.onFailure, Last)
    ELSE IF Last.kind = "denied" THEN {}
    ELSE UnconditionalRetry(Current.onFailure)

\* Mutant: the limit counts attempts that have failed, not retries made.
RetryOneMore == {a \in FailureActions : a.type = "retry" /\ retries <= a.limit}

RetryWith == {a \in FailureActions : a.type = "retry" /\ retries < a.limit}

\* Retry: sleep_retry_delay, unless the delay does not fit what is left.  Only
\* a WebSocket step asks for its timeout again.
Retry ==
    /\ pc = "judge"
    /\ \E a \in RetryWith :
          IF a.delay > 0 /\ now + a.delay >= WorkflowTimeout
          THEN Return(Err) /\ UNCHANGED now
          ELSE /\ now' = now + a.delay
               /\ pc' = IF Current.transport = "websocket" THEN "timeout"
                        ELSE "attempt"
               /\ UNCHANGED result
    /\ retries' = retries + 1
    /\ UNCHANGED <<workflow, gate, si, stepTimeout, attempts, observed, outputs,
                   history>>

\* Criteria are held against the stored body, which may not be readable.
CriteriaRead ==
    /\ Current.transport = "http" /\ Last.kind = "observation" /\ Last.exit # 0
    /\ \E i \in DOMAIN Current.onFailure : Current.onFailure[i].criteria

\* An Err that is not retried, or criteria that cannot be evaluated, end the
\* workflow with an Err.
GiveUp ==
    /\ pc = "judge"
    /\ (Last.kind = "error" /\ RetryWith = {}) \/ CriteriaRead
    /\ Return(Err)
    /\ UNCHANGED <<workflow, gate, now, si, stepTimeout, retries, attempts,
                   observed, outputs, history>>

StepObservation == [step |-> si, attempts |-> Len(attempts), exit |-> Last.exit]

\* An end action, or the last step.
Stops == Selected(Current.onSuccess, Last) # {} \/ si = Len(workflow)

\* The loop goes on with a fresh attempt list and retry counter.
NextStep ==
    /\ si' = si + 1 /\ retries' = 0 /\ attempts' = << >>
    /\ pc' = "prepare" /\ UNCHANGED result

\* Mutant: the workflow goes on after a failed step.
StepFailsGoesOn ==
    /\ pc = "judge" /\ RetryWith = {} /\ Last.kind # "error" /\ Last.exit # 0
    /\ observed' = Append(observed, StepObservation)
    /\ IF si = Len(workflow)
       THEN Return(Observation(Last.exit)) /\ UNCHANGED <<si, retries, attempts>>
       ELSE NextStep
    /\ UNCHANGED <<workflow, gate, now, stepTimeout, outputs, history>>

\* A step that ends with a nonzero exit ends the workflow with it.
StepFails ==
    /\ pc = "judge" /\ RetryWith = {} /\ Last.kind # "error" /\ Last.exit # 0
    /\ observed' = Append(observed, StepObservation)
    /\ Return(Observation(Last.exit))
    /\ UNCHANGED <<workflow, gate, now, si, stepTimeout, retries, attempts,
                   outputs, history>>

\* A step that passes makes its outputs available, unless one of them cannot
\* be read; an end action stops the workflow there.
StepPasses ==
    /\ pc = "judge" /\ Last.kind = "observation" /\ Last.exit = 0
    /\ \/ /\ Return(Err)
          /\ UNCHANGED <<observed, outputs, si, retries, attempts>>
       \/ /\ observed' = Append(observed, StepObservation)
          /\ outputs' = outputs \cup {si}
          /\ IF Stops
             THEN Return(Observation(0)) /\ UNCHANGED <<si, retries, attempts>>
             ELSE NextStep
    /\ UNCHANGED <<workflow, gate, now, stepTimeout, history>>

Returned == pc = "done" /\ UNCHANGED vars

Next == \/ Start \/ Prepare \/ TakeTimeout \/ Attempt \/ Retry \/ GiveUp
        \/ StepFails \/ StepPasses \/ Returned

Spec == Init /\ [][Next]_vars

\* One thread runs the workflow, and every attempt returns: the resolver does,
\* and what a response may send is bounded.
FairSpec == Spec /\ WF_vars(Next)

-----------------------------------------------------------------------------
(* Properties.                                                             *)

\* Every variable has its type, and there is a current step.
TypeOK ==
    /\ workflow \in Seq(Step) /\ ValidWorkflow(workflow)
    /\ gate \in Gates /\ now \in Nat
    /\ pc \in {"start", "prepare", "timeout", "attempt", "judge", "done"}
    /\ si \in DOMAIN workflow
    /\ stepTimeout \in Nat /\ retries \in 0 .. MaxRetryLimit
    /\ attempts \in Seq(Results("websocket"))
    /\ observed \in Seq([step : Nat, attempts : Nat, exit : Nat])
    /\ outputs \subseteq Nat
    /\ result.kind \in {"none", "error", "observation"} /\ result.exit \in Nat
    /\ began \in Nat /\ resolved \in Nat

RetryLimits(s) == {s.onFailure[i].limit : i \in {j \in DOMAIN s.onFailure :
                                            s.onFailure[j].type = "retry"}}

\* Nothing is sent unless every check before the first step passed, a step is
\* only attempted when every step whose outputs it reads has passed, and it is
\* attempted at most once more than the largest limit of its retry actions,
\* however its failures alternate between them.
AttemptsJustified ==
    attempts # << >> =>
       /\ gate = "ok"
       /\ \A j \in Current.reads :
             \E k \in DOMAIN observed : observed[k].step = j /\ observed[k].exit = 0
       /\ Len(attempts) <= 1 \/ \E n \in RetryLimits(Current) : Len(attempts) <= n + 1

\* A workflow's verdict is that of its last step: the steps ran in order, each
\* once, none failed before the last, and a workflow that passes early does so
\* at a step with an end action.
VerdictOfLastStep ==
    result.kind = "observation" /\ gate = "ok" =>
       LET n == Len(observed) IN
       /\ n > 0 /\ observed[n].exit = result.exit
       /\ \A k \in 1 .. n : observed[k].step = k
       /\ \A k \in 1 .. (n - 1) : observed[k].exit = 0
       /\ result.exit = 0 /\ n < Len(workflow) => workflow[n].onSuccess # << >>

OverSocket == Current.transport = "websocket"

\* A step's first attempt, and every attempt of a WebSocket step, begins before
\* the invocation timeout and is given no more than what is left of it.
TimeoutsTighten ==
    Len(attempts) = 1 \/ (attempts # << >> /\ OverSocket) =>
       began < WorkflowTimeout /\ began + stepTimeout <= WorkflowTimeout

\* With all its retries and delays a WebSocket step passes the invocation
\* timeout only in the resolver, and then its session does not pass.
LateInResolver ==
    attempts # << >> /\ OverSocket /\ now > WorkflowTimeout =>
       now = resolved /\ Last.exit # 0

\* An HTTP attempt that begins after the invocation timeout is a retry by an
\* action that asks for no delay and allows that many.
LateRetries ==
    attempts # << >> /\ ~OverSocket /\ began >= WorkflowTimeout =>
       /\ Len(attempts) > 1
       /\ \E i \in DOMAIN Current.onFailure :
             LET a == Current.onFailure[i] IN
             a.type = "retry" /\ a.delay = 0 /\ Len(attempts) <= a.limit + 1

\* How a workflow may pass its invocation timeout: inside a call that began in
\* time, or in immediate retries of an HTTP step.
TimeoutHeld == TimeoutsTighten /\ LateInResolver /\ LateRetries

\* Every workflow returns.
WorkflowReturns == <>(pc = "done")

\* The invocation timeout is a deadline across all steps and retries: every
\* attempt is given at most what is left of it.
OuterDeadline == pc = "attempt" => now + stepTimeout <= WorkflowTimeout
=============================================================================
