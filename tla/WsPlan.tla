------------------------------- MODULE WsPlan -------------------------------
(***************************************************************************)
(* The sealed WebSocket plan of kahea-core: the finite list of actions a   *)
(* session runs, its limits, and what WebSocketPlan::validate accepts      *)
(* before it seals.  Payloads are abstract values; an expectation carries  *)
(* the set of payloads it accepts (one value for an exact comparison, any  *)
(* set for a JSON pointer/schema check, the allowed codes for a close).    *)
(***************************************************************************)
EXTENDS Integers, Sequences, FiniteSets

CONSTANTS Vals,     (* payloads, close codes included                       *)
          Limits,   (* the limits sealed into the plan                      *)
          MaxLen    (* longest payload a frame or an action may carry       *)

LimitNames == {"connect_timeout", "action_timeout", "idle_timeout",
               "close_timeout", "total_timeout",
               "max_frame_bytes", "max_message_bytes",
               "max_inbound_frames", "max_outbound_frames",
               "max_inbound_messages", "max_outbound_messages",
               "max_inbound_bytes", "max_outbound_bytes"}

\* validate_websocket_limits: everything positive, nothing above its total.
ValidateLimits(L) ==
    /\ \A n \in LimitNames : L[n] > 0
    /\ L.max_message_bytes >= L.max_frame_bytes
    /\ \A n \in {"connect_timeout", "action_timeout", "idle_timeout",
                 "close_timeout"} : L[n] <= L.total_timeout

ASSUME LimitsAssumption ==
    /\ Limits \in [LimitNames -> Nat]
    /\ ValidateLimits(Limits)

ASSUME MaxLenAssumption == MaxLen \in Nat

SendTypes   == {"send-text", "send-binary"}
ExpectTypes == {"expect-text", "expect-binary", "expect-json", "expect-pong",
                "expect-close"}
ActionTypes == SendTypes \cup ExpectTypes \cup {"ping", "close"}

\* One action of the plan.  Outbound actions carry the value and length of
\* their payload, expectations the set of payloads they accept.
Action == [type : ActionTypes, val : Vals, len : 0 .. MaxLen,
           accepts : SUBSET Vals]

Terminal(a)   == a.type \in {"close", "expect-close"}
IsOutbound(a) == a.type \in SendTypes \cup {"ping", "close"}

\* validate_websocket_action: inline data messages, sent or expected, fit the
\* frame and the message limit; ping, pong and close payloads are only held to
\* the 125 bytes of an RFC 6455 control frame (a close's len counts its code).
ValidateAction(a, L) ==
    /\ a.type \in SendTypes \cup {"expect-text", "expect-binary", "expect-json"}
          => a.len <= L.max_message_bytes /\ a.len <= L.max_frame_bytes
    /\ a.type \in {"ping", "expect-pong", "close", "expect-close"} => a.len <= 125
    /\ a.type = "expect-close" => a.accepts # {}

\* The frames, messages and bytes each action of p adds to the outbound totals.
FramesOf(p)   == [i \in DOMAIN p |-> IF IsOutbound(p[i]) THEN 1 ELSE 0]
MessagesOf(p) == [i \in DOMAIN p |-> IF p[i].type \in SendTypes THEN 1 ELSE 0]
BytesOf(p)    == [i \in DOMAIN p |-> IF IsOutbound(p[i]) THEN p[i].len ELSE 0]

\* The sum of f[i] over the i in S, counted unit by unit: unlike a fold, a
\* count can be reasoned about without an induction.
Total(f, S) == Cardinality(UNION {{i} \X (1 .. f[i]) : i \in S})

\* WebSocketPlan::validate: every action is valid, exactly one is terminal and
\* it is last, ...
ValidateActions(p, L) ==
    /\ p # << >>
    /\ \A i \in DOMAIN p : ValidateAction(p[i], L)
    /\ \A i \in DOMAIN p : Terminal(p[i]) <=> i = Len(p)

\* ... and the sealed outbound totals stay within the limits.
ValidateTotals(p, L) ==
    /\ Total(FramesOf(p), DOMAIN p) <= L.max_outbound_frames
    /\ Total(MessagesOf(p), DOMAIN p) <= L.max_outbound_messages
    /\ Total(BytesOf(p), DOMAIN p) <= L.max_outbound_bytes

ValidatePlan(p, L) == ValidateActions(p, L) /\ ValidateTotals(p, L)
=============================================================================
