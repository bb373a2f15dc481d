---------------------------- MODULE MCWsSession -----------------------------
(* Small instances of WsSession for TLC.                                   *)
EXTENDS WsSession

MCVals == {"a", "b"}
MCMaxLen == 3

Do(t, v, n)   == [type |-> t, val |-> v, len |-> n, accepts |-> {}]
Await(t, acc) == [type |-> t, val |-> "a", len |-> 1, accepts |-> acc]
Peer(o, v, n) == [op |-> o, val |-> v, len |-> n]

\* Both terminal actions, every action type, and payloads that match or not.
MCPlans ==
    {<<Do("send-text", "a", 1), Await("expect-text", {"a"}), Do("close", "a", 2)>>,
     <<Await("expect-json", {"a", "b"}), Await("expect-text", {"a", "b"}),
       Do("close", "a", 2)>>,
     <<Do("ping", "a", 1), Await("expect-pong", {"a"}),
       Await("expect-close", {"a"})>>,
     <<Do("send-binary", "b", 2), Await("expect-binary", {"b"}),
       Await("expect-close", {"a"})>>}

\* Limits a few frames reach: two data messages in, two bytes a frame, three
\* bytes a message, three frames each way.  Two messages that fit may have more
\* bytes together than one may have.
MCLimits ==
    [connect_timeout |-> 1, action_timeout |-> 1, idle_timeout |-> 1,
     close_timeout |-> 1, total_timeout |-> 1,
     max_frame_bytes |-> 2, max_message_bytes |-> 3,
     max_inbound_frames |-> 3, max_outbound_frames |-> 3,
     max_inbound_messages |-> 2, max_outbound_messages |-> 1,
     max_inbound_bytes |-> 5, max_outbound_bytes |-> 4]

MCPeerFrames ==
    {Peer("text", "a", 1), Peer("text", "b", 2), Peer("binary", "b", 1),
     Peer("part", "a", 2), Peer("ping", "a", 1), Peer("ping", "b", 2),
     Peer("pong", "a", 1), Peer("close", "a", 2), Peer("close", "b", 1),
     Peer("bad", "a", 0)}

\* Two inbound frames are enough to reach every handler of the read loops.
FewFrames == [MCLimits EXCEPT !.max_inbound_frames = 2]

Cancellable == [tls : BOOLEAN, cancellable : {TRUE}]

AllConnections == [tls : BOOLEAN, cancellable : BOOLEAN]

PlainCancellable == {[tls |-> FALSE, cancellable |-> TRUE]}
=============================================================================
