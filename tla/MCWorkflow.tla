---------------------------- MODULE MCWorkflow -----------------------------
(* Small instances of Workflow for TLC.                                    *)
EXTENDS Workflow

S(t, reads, timeout, fail, success) ==
    [transport |-> t, reads |-> reads, timeout |-> timeout,
     onFailure |-> fail, onSuccess |-> success]
RetryAlways(n, delay) == [type |-> "retry", criteria |-> FALSE, when |-> {},
                          limit |-> n, delay |-> delay]
RetryOn(w, n, delay)  == [type |-> "retry", criteria |-> TRUE, when |-> w,
                          limit |-> n, delay |-> delay]
EndOn(w)   == [type |-> "end", criteria |-> TRUE, when |-> w, limit |-> 0,
               delay |-> 0]
SuccessOn(w) == [criteria |-> TRUE, when |-> w]
SuccessEnds  == [criteria |-> FALSE, when |-> {}]

\* Both transports, expressions that read earlier steps, none, or their own, retries
\* with and without criteria and delays, competing retry actions, end actions.
MCWorkflows ==
    {<<S("http", {}, 0, <<RetryOn({2}, 2, 1), RetryAlways(1, 0)>>, << >>),
       S("websocket", {1}, 2, <<RetryAlways(2, 1)>>, << >>)>>,
     <<S("websocket", {}, 3, <<RetryAlways(2, 0)>>, << >>),
       S("websocket", {1}, 0, << >>, <<SuccessEnds>>),
       S("websocket", {2}, 0, << >>, << >>)>>,
     <<S("http", {}, 2, <<EndOn({2}), RetryAlways(2, 0)>>, <<SuccessOn({1})>>),
       S("http", {}, 0, << >>, <<SuccessOn({2})>>),
       S("http", {1, 3}, 0, << >>, << >>)>>}

\* One plain HTTP request that is retried once.
OneRetry == {<<S("http", {}, 0, <<RetryAlways(1, 0)>>, << >>)>>}
=============================================================================
