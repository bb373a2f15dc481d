----------------------------- MODULE WsSession ------------------------------
(***************************************************************************)
(* One connected WebSocket session of kahea-exec: the single thread that   *)
(* walks the sealed actions (execute_connected_websocket), the accounted   *)
(* transport under it (AccountedStream), the automatic answers of the      *)
(* protocol library, the cancellation flag another thread may raise, and   *)
(* the end that every path funnels into (finish_session).                  *)
(*                                                                         *)
(* The peer is the environment: whatever it sends only matters when a read *)
(* returns it, so a read returns any chunk of whole frames, an end of      *)
(* stream, an error or a timeout.  Frame headers split across reads are    *)
(* the subject of WireParser.  Deadlines are untimed here: a blocked call  *)
(* may report any deadline that applies to it.                             *)
(***************************************************************************)
EXTENDS WsPlan

CONSTANTS Plans,        (* candidate plans; the valid ones are run          *)
          PeerFrames,   (* frames the peer may send                         *)
          MaxChunk,     (* frames one read may return                       *)
          Connections   (* [tls, cancellable] of the connections considered *)

DataOps  == {"text", "binary"}
FrameOps == DataOps \cup {"part", "ping", "pong", "close", "bad"}

\* A complete frame; "part" is a non-final fragment of a data message (the
\* final one carries the message's kind and value), "bad" violates RFC 6455.
Frame == [op : FrameOps, val : Vals, len : 0 .. MaxLen]

ASSUME SessionAssumption ==
    /\ Plans \subseteq Seq(Action)
    /\ PeerFrames \subseteq Frame
    /\ MaxChunk \in Nat \ {0}
    /\ Connections \subseteq [tls : BOOLEAN, cancellable : BOOLEAN]

VARIABLES
    plan,        \* the sealed actions
    conn,        \* the connection's transport and whether it can be cancelled
    pc,          \* where the executor thread is
    ai,          \* index of the current action
    chunk,       \* frames of the last read not yet seen by WireParser
    staged,      \* frames of the last read WireParser has accepted
    inbuf,       \* frames the protocol library holds, not yet delivered
    partial,     \* bytes of the data message being reassembled
    state,       \* the library's WebSocketState
    wire,        \* WireAccounting: frames and bytes in both directions
    failure,     \* WireAccounting.failure
    counters,    \* the executor's copy, and its message counts
    pending,     \* the outbound frame being written, and why
    transcript,  \* Transcript.entries
    cancelled,   \* the shared cancellation flag
    terminal,    \* SessionTerminal
    stored,      \* evidence written: "transcript", "observation"
    result,      \* what execute_websocket returns
    peerSent,    \* history: every frame a read returned
    wireOut      \* history: every frame handed to the peer's TCP

wireVars == <<chunk, staged, inbuf, partial, state, wire, failure>>
endVars  == <<terminal, stored, result>>
history  == <<peerSent, wireOut>>
vars == <<plan, conn, pc, ai, wireVars, counters, pending, transcript,
          cancelled, endVars, history>>

PCs == {"upgraded", "next", "decode", "reading", "observe", "write", "writing", "flush",
        "spin", "finish", "persist", "done"}

None == "none"

TimeoutCauses == {"total-timeout", "idle-timeout", "action-timeout",
                  "close-timeout"}
Causes == TimeoutCauses \cup
          {"completed", "expectation-failed", "budget-exhausted",
           "protocol-violation", "unexpected-eof", "io-failure", "cancelled"}

NoTerminal == [outcome |-> None, cause |-> None, exit |-> 0, close |-> None]

\* SessionTerminal::{passed, failed, error}
Passed(initiator) == [outcome |-> "passed", cause |-> "completed", exit |-> 0,
                      close |-> initiator]
Failed(c)      == [outcome |-> "failed", cause |-> c, exit |-> 1, close |-> None]
Errored(c)     == [outcome |-> "error", cause |-> c, exit |-> 3, close |-> None]

ZeroWire     == [inF |-> 0, inB |-> 0, outF |-> 0, outB |-> 0]
ZeroCounters == [wire |-> ZeroWire, inM |-> 0, outM |-> 0]
NoFrame      == [op |-> None, val |-> None, len |-> 0, why |-> None]

Current == plan[ai]
Closing == Current.type = "close"

-----------------------------------------------------------------------------
(* Budgets.                                                                *)

\* Mutant: one frame more than the limit.
InboundFitsOneMore(n) ==
    /\ wire.inF <= Limits.max_inbound_frames
    /\ n <= Limits.max_frame_bytes
    /\ wire.inB + n <= Limits.max_inbound_bytes

\* WireParser::observe for one inbound or outbound frame of length n.
InboundFits(n) ==
    /\ wire.inF < Limits.max_inbound_frames
    /\ n <= Limits.max_frame_bytes
    /\ wire.inB + n <= Limits.max_inbound_bytes

OutboundFits(n) ==
    /\ wire.outF < Limits.max_outbound_frames
    /\ n <= Limits.max_frame_bytes
    /\ wire.outB + n <= Limits.max_outbound_bytes

\* Mutant: the frame budget is only noticed once it is overrun.
ExceedsOutboundLate(c, isData, n) ==
    \/ c.wire.outF > Limits.max_outbound_frames
    \/ c.wire.outB + n > Limits.max_outbound_bytes
    \/ isData /\ c.outM >= Limits.max_outbound_messages
    \/ n > Limits.max_frame_bytes

\* exceeds_outbound, on the executor's copy of the counters.
ExceedsOutbound(c, isData, n) ==
    \/ c.wire.outF >= Limits.max_outbound_frames
    \/ c.wire.outB + n > Limits.max_outbound_bytes
    \/ isData /\ c.outM >= Limits.max_outbound_messages
    \/ n > Limits.max_frame_bytes

\* The accounting after one more frame of length n.
InboundAdded(w, n) ==
    [inF |-> w.inF + 1, inB |-> w.inB + n, outF |-> w.outF, outB |-> w.outB]
OutboundAdded(w, n) ==
    [inF |-> w.inF, inB |-> w.inB, outF |-> w.outF + 1, outB |-> w.outB + n]

-----------------------------------------------------------------------------
(* Shared pieces of the handlers.                                          *)

End(t) ==
    /\ terminal' = t
    /\ pc' = "finish"
    /\ pending' = NoFrame

\* The SessionTerminal of an accounting failure (sync_wire_counters and the
\* head of socket_error).
FailureTerminal(c) ==
    IF c = "budget-exhausted" THEN Failed(c) ELSE Errored(c)

\* Mutant: the error of the call decides.
SocketErrorOfCall(fl, c) ==
    IF c = "budget-exhausted" THEN Failed(c) ELSE Errored(c)

\* socket_error: the accounting failure fl outranks the cause c of the call.
SocketError(fl, c) ==
    IF fl # None THEN FailureTerminal(fl)
    ELSE IF c = "budget-exhausted" THEN Failed(c) ELSE Errored(c)

\* sync_wire_counters: the copy the executor decides on.
Synced == [wire |-> wire, inM |-> counters.inM, outM |-> counters.outM]

Entry(d, f, check) ==
    [dir |-> d, op |-> f.op, val |-> f.val, len |-> f.len, ai |-> ai,
     check |-> check]

Record(e) == transcript' = Append(transcript, e)

\* The deadlines that can end a blocked call of the current action.
ApplicableTimeouts ==
    {"total-timeout", "idle-timeout",
     IF Closing THEN "close-timeout" ELSE "action-timeout"}

\* close_precedence: the close frame decides, whatever became of our reply.
ClosePrecedence(matched) ==
    IF matched THEN Passed("server")
    ELSE [Failed("expectation-failed") EXCEPT !.close = "server"]

\* close_matches
CloseMatches(val) == Current.type = "expect-close" /\ val \in Current.accepts

\* AccountedStream::write of a frame: observed against the budget before any
\* byte moves, then handed to the transport.
BeginWrite(f, why) ==
    IF OutboundFits(f.len)
    THEN /\ wire' = OutboundAdded(wire, f.len)
         /\ pending' = [op |-> f.op, val |-> f.val, len |-> f.len, why |-> why]
         /\ pc' = "write"
         /\ UNCHANGED <<failure, terminal>>
    ELSE /\ failure' = "budget-exhausted"
         /\ End(IF why = "ack" THEN ClosePrecedence(CloseMatches(f.val))
                ELSE SocketError("budget-exhausted", "io-failure"))
         /\ UNCHANGED wire

\* What one read may return, from least frames on.
Chunks(least) == UNION {[1 .. n -> PeerFrames] : n \in least .. MaxChunk}

-----------------------------------------------------------------------------
\* perform_upgrade has a valid response, and in chunk the frames that came in
\* the same reads.
Init ==
    /\ plan \in {p \in Plans : ValidatePlan(p, Limits)}
    /\ conn \in Connections
    /\ pc = "upgraded" /\ ai = 1
    /\ chunk \in Chunks(0) /\ staged = << >> /\ inbuf = << >> /\ partial = 0
    /\ state = "active"
    /\ wire = ZeroWire /\ failure = None
    /\ counters = ZeroCounters
    /\ pending = NoFrame
    /\ transcript = << >>
    /\ cancelled = FALSE
    /\ terminal = NoTerminal /\ stored = {} /\ result = None
    /\ peerSent = chunk /\ wireOut = << >>

-----------------------------------------------------------------------------
(* The frames that arrived with the upgrade response.                      *)

\* WireParser::observe takes the next frame of the slice, or refuses it.
Admit ==
    /\ InboundFits(Head(chunk).len)
    /\ wire' = InboundAdded(wire, Head(chunk).len)
    /\ staged' = Append(staged, Head(chunk))
    /\ chunk' = Tail(chunk)

Refuse ==
    /\ ~InboundFits(Head(chunk).len)
    /\ failure' = "budget-exhausted"
    /\ staged' = << >> /\ chunk' = << >>
    /\ UNCHANGED wire

\* observe_buffered_inbound: a frame over a budget fails the connection, with
\* an observation that has the wire's counters and an empty transcript.
ObserveBuffered ==
    /\ pc = "upgraded" /\ chunk # << >>
    /\ \/ Admit /\ UNCHANGED <<pc, failure, terminal, counters>>
       \/ /\ Refuse
          /\ terminal' = FailureTerminal("budget-exhausted")
          /\ counters' = Synced
          /\ pc' = "finish"
    /\ UNCHANGED <<plan, conn, ai, inbuf, partial, state, pending, transcript,
                   cancelled, stored, result, history>>

\* WebSocket::from_partially_read: the library starts with those frames.
Connected ==
    /\ pc = "upgraded" /\ chunk = << >>
    /\ inbuf' = staged
    /\ staged' = << >>
    /\ pc' = "next"
    /\ UNCHANGED <<plan, conn, ai, chunk, partial, state, wire, failure,
                   counters, pending, transcript, cancelled, endVars, history>>

-----------------------------------------------------------------------------
(* Walking the plan.                                                       *)

\* The frame an outbound action puts on the wire.
FrameOf(a) ==
    [op |-> CASE a.type = "send-text" -> "text"
              [] a.type = "send-binary" -> "binary"
              [] OTHER -> a.type,
     val |-> a.val, len |-> a.len]

\* send_recorded / the head of execute_client_close: check the budget on the
\* executor's counters, then hand the frame to the library.  A close makes the
\* library stop answering pings from here on.
StartSend ==
    /\ pc = "next" /\ IsOutbound(Current)
    /\ IF ExceedsOutbound(counters, Current.type \in SendTypes, Current.len)
       THEN /\ End(Failed("budget-exhausted"))
            /\ UNCHANGED <<wire, failure, state>>
       ELSE /\ BeginWrite(FrameOf(Current), "action")
            /\ state' = IF Closing THEN "closed-by-us" ELSE state
    /\ UNCHANGED <<plan, conn, ai, chunk, staged, inbuf, partial, counters,
                   transcript, cancelled, stored, result, history>>

\* An expectation: enter the read loop.
StartExpect ==
    /\ pc = "next" /\ Current.type \in ExpectTypes
    /\ pc' = "decode"
    /\ UNCHANGED <<plan, conn, ai, wireVars, counters, pending, transcript,
                   cancelled, endVars, history>>

-----------------------------------------------------------------------------
(* Reading.                                                                *)

\* DeadlineTcpStream::read, top of its loop: nothing buffered, so remaining()
\* looks at the cancellation flag and the thread blocks in read(2).  The flag is
\* reported as an interrupted call, which the record layer of TLS, not part of
\* kahea, may pass on or retry without end.
EnterRead ==
    /\ pc = "decode" /\ inbuf = << >>
    /\ \/ cancelled /\ End(SocketError(failure, "cancelled"))
       \/ /\ pc' = IF ~cancelled THEN "reading" ELSE "spin"
          /\ cancelled => conn.tls
          /\ UNCHANGED <<terminal, pending>>
    /\ UNCHANGED <<plan, conn, ai, wireVars, counters, transcript, cancelled,
                   stored, result, history>>

\* EINTR, a spurious EAGAIN or the 25 ms cancellation poll: go round again.
RetryRead ==
    /\ pc = "reading"
    /\ pc' = "decode"
    /\ UNCHANGED <<plan, conn, ai, wireVars, counters, pending, transcript,
                   cancelled, endVars, history>>

\* read(2) returns a chunk.
Receive ==
    /\ pc = "reading"
    /\ \E c \in Chunks(1) : chunk' = c /\ peerSent' = peerSent \o c
    /\ pc' = "observe"
    /\ UNCHANGED <<plan, conn, ai, staged, inbuf, partial, state, wire,
                   failure, counters, pending, transcript, cancelled, endVars,
                   wireOut>>

\* read(2) ends without bytes: end of stream before a close handshake is a
\* protocol error of the library, a reset an unexpected end, and an elapsed
\* deadline its own cause.
ReadFails ==
    /\ pc = "reading"
    /\ \E c \in {"protocol-violation", "unexpected-eof", "io-failure"}
                \cup ApplicableTimeouts : End(SocketError(failure, c))
    /\ UNCHANGED <<plan, conn, ai, wireVars, counters, transcript, cancelled,
                   stored, result, history>>

\* One round of WireParser::observe.  The first frame over a budget fails the
\* whole read: the frames accepted before it never reach the library.
Observe ==
    /\ pc = "observe" /\ chunk # << >>
    /\ \/ Admit /\ UNCHANGED <<pc, failure, terminal, pending>>
       \/ Refuse /\ End(SocketError("budget-exhausted", "io-failure"))
    /\ UNCHANGED <<plan, conn, ai, inbuf, partial, state, counters, transcript,
                   cancelled, stored, result, history>>

\* The read returns and the library takes the bytes.
ReadReturns ==
    /\ pc = "observe" /\ chunk = << >>
    /\ inbuf' = inbuf \o staged
    /\ staged' = << >>
    /\ pc' = "decode"
    /\ UNCHANGED <<plan, conn, ai, chunk, partial, state, wire, failure,
                   counters, pending, transcript, cancelled, endVars, history>>

-----------------------------------------------------------------------------
(* Messages the library delivers to read_expectation and                   *)
(* execute_client_close.                                                   *)

Delivers(ops) == pc = "decode" /\ inbuf # << >> /\ Head(inbuf).op \in ops

\* account_inbound on the synced counters.
Accounted(isData) ==
    [wire |-> wire, outM |-> counters.outM,
     inM |-> IF isData THEN counters.inM + 1 ELSE counters.inM]

OverInbound(c, n) == \/ c.inM > Limits.max_inbound_messages
                     \/ n > Limits.max_message_bytes

\* A fragment, or a frame that violates the protocol: handled inside the
\* library, which reports an oversized message as a capacity error.
OnFragment ==
    /\ Delivers({"part", "bad"})
    /\ LET f == Head(inbuf) IN
       IF f.op = "part" /\ partial + f.len <= Limits.max_message_bytes
       THEN /\ partial' = partial + f.len
            /\ UNCHANGED <<pc, terminal, pending>>
       ELSE /\ End(SocketError(failure, IF f.op = "bad" THEN "protocol-violation"
                               ELSE "budget-exhausted"))
            /\ UNCHANGED partial
    /\ inbuf' = Tail(inbuf)
    /\ UNCHANGED <<plan, conn, ai, chunk, staged, state, wire, failure,
                   counters, transcript, cancelled, stored, result, history>>

\* Mutant: the kind is compared, the payload is not.
DataMatchesKind(f) ==
    \/ f.op = "text" /\ Current.type \in {"expect-text", "expect-json"}
    \/ f.op = "binary" /\ Current.type = "expect-binary"

\* The expectation a data message meets, if the current action is one.
DataMatches(f) ==
    /\ \/ f.op = "text" /\ Current.type \in {"expect-text", "expect-json"}
       \/ f.op = "binary" /\ Current.type = "expect-binary"
    /\ f.val \in Current.accepts

\* A complete data message: it satisfies the current expectation or fails it;
\* while we wait for the peer's close it is always unexpected.
OnData ==
    /\ Delivers(DataOps)
    /\ LET f == Head(inbuf)
           n == partial + f.len
           c == Accounted(TRUE)
       IN  IF n > Limits.max_message_bytes
           THEN \* capacity error of the library, before any accounting
                /\ End(SocketError(failure, "budget-exhausted"))
                /\ UNCHANGED <<ai, counters, transcript>>
           ELSE /\ counters' = c
                /\ IF OverInbound(c, n)
                   THEN /\ End(Failed("budget-exhausted"))
                        /\ UNCHANGED <<ai, transcript>>
                   ELSE IF DataMatches(f)
                   THEN /\ Record(Entry("inbound", f, "matched"))
                        /\ ai' = ai + 1 /\ pc' = "next"
                        /\ UNCHANGED <<terminal, pending>>
                   ELSE /\ Record(Entry("inbound", f, IF Closing
                                        THEN "unexpected" ELSE "mismatched"))
                        /\ End(Failed("expectation-failed"))
                        /\ UNCHANGED ai
    /\ partial' = 0
    /\ inbuf' = Tail(inbuf)
    /\ UNCHANGED <<plan, conn, chunk, staged, state, wire, failure,
                   cancelled, stored, result, history>>

\* The library queues a pong only while no close has been sent or received.
AnswersPing == state = "active"

\* A ping: record it, check that the automatic pong fits, flush the pong the
\* library queued.  After our close the library queues none, yet the same code
\* flushes and then records one.
OnPing ==
    /\ Delivers({"ping"})
    /\ LET f == Head(inbuf)
           c == Accounted(FALSE)
           pong == [f EXCEPT !.op = "pong"]
       IN  /\ counters' = c
           /\ IF OverInbound(c, f.len)
              THEN /\ End(Failed("budget-exhausted"))
                   /\ UNCHANGED <<transcript, wire, failure>>
              ELSE /\ Record(Entry("inbound", f, "automatic"))
                   /\ IF ExceedsOutbound(c, FALSE, f.len)
                      THEN /\ End(Failed("budget-exhausted"))
                           /\ UNCHANGED <<wire, failure>>
                      ELSE IF AnswersPing
                      THEN BeginWrite(pong, "pong")
                      ELSE /\ pending' = [op |-> "pong", val |-> f.val,
                                          len |-> f.len, why |-> "unsent"]
                           /\ pc' = "flush"
                           /\ UNCHANGED <<wire, failure, terminal>>
    /\ inbuf' = Tail(inbuf)
    /\ UNCHANGED <<plan, conn, ai, chunk, staged, partial, state, cancelled,
                   stored, result, history>>

\* A pong satisfies only the expect-pong whose payload it carries.
PongMatches(f) == Current.type = "expect-pong" /\ f.val \in Current.accepts

\* A pong: satisfies the current expect-pong or is recorded and ignored.
OnPong ==
    /\ Delivers({"pong"})
    /\ LET f == Head(inbuf)
           c == Accounted(FALSE)
           matched == PongMatches(f)
       IN  /\ counters' = c
           /\ IF OverInbound(c, f.len)
              THEN /\ End(Failed("budget-exhausted"))
                   /\ UNCHANGED <<ai, transcript>>
              ELSE /\ Record(Entry("inbound", f, IF matched THEN "matched"
                                                            ELSE "ignored"))
                   /\ ai' = IF matched THEN ai + 1 ELSE ai
                   /\ pc' = IF matched THEN "next" ELSE "decode"
                   /\ UNCHANGED <<terminal, pending>>
    /\ inbuf' = Tail(inbuf)
    /\ UNCHANGED <<plan, conn, chunk, staged, partial, state, wire, failure,
                   cancelled, stored, result, history>>

\* The peer's close.  In answer to ours it completes the session; otherwise it
\* is matched against expect-close and acknowledged.
OnClose ==
    /\ Delivers({"close"})
    /\ LET f == Head(inbuf)
           c == Accounted(FALSE)
           matched == CloseMatches(f.val)
       IN  /\ counters' = c
           /\ IF OverInbound(c, f.len)
              THEN /\ End(Failed("budget-exhausted"))
                   /\ UNCHANGED <<transcript, wire, failure>>
              ELSE IF Closing
              THEN /\ Record(Entry("inbound", f, "acknowledged"))
                   /\ End(Passed("client"))
                   /\ UNCHANGED <<wire, failure>>
              ELSE /\ Record(Entry("inbound", f, IF matched THEN "matched"
                                                 ELSE "mismatched"))
                   /\ IF ExceedsOutbound(c, FALSE, f.len)
                      THEN /\ End(Failed("budget-exhausted"))
                           /\ UNCHANGED <<wire, failure>>
                      ELSE BeginWrite(f, "ack")
    /\ state' = IF Closing THEN "close-acknowledged" ELSE "closed-by-peer"
    /\ inbuf' = Tail(inbuf)
    /\ UNCHANGED <<plan, conn, ai, chunk, staged, partial, cancelled, stored,
                   result, history>>

-----------------------------------------------------------------------------
(* Writing.                                                                *)

\* A write or flush that fails with cause c: fatal, except that the reply to
\* the peer's close is courtesy.
WriteError(c) ==
    End(IF pending.why = "ack" THEN ClosePrecedence(CloseMatches(pending.val))
        ELSE SocketError(failure, c))

WriteCauses == {"unexpected-eof", "io-failure"} \cup ApplicableTimeouts

\* Plain transport, inside write_all: remaining() reports a cancellation as an
\* interrupted call, and write_all retries interrupted calls without end.
\* With TLS the record layer takes the plaintext and reports no error.
EnterWrite ==
    /\ pc = "write"
    /\ pc' = IF conn.tls THEN "flush" ELSE IF cancelled THEN "spin"
             ELSE "writing"
    /\ UNCHANGED <<plan, conn, ai, wireVars, counters, pending, transcript,
                   cancelled, endVars, history>>

\* A partial write, EINTR, EAGAIN or the 25 ms cancellation poll.
RetryWrite ==
    /\ pc = "writing"
    /\ pc' = "write"
    /\ UNCHANGED <<plan, conn, ai, wireVars, counters, pending, transcript,
                   cancelled, endVars, history>>

\* The last bytes of the frame leave.
WriteOk ==
    /\ pc = "writing"
    /\ wireOut' = Append(wireOut, pending)
    /\ pc' = "flush"
    /\ UNCHANGED <<plan, conn, ai, wireVars, counters, pending, transcript,
                   cancelled, endVars, peerSent>>

\* Mutant: the entry is pushed before the outcome of the write is known.
WriteFailsRecorded ==
    /\ pc = "writing"
    /\ \E c \in WriteCauses : WriteError(c)
    /\ Record(Entry("outbound", pending, "sent"))
    /\ UNCHANGED <<plan, conn, ai, wireVars, counters, cancelled, stored,
                   result, history>>

\* The write fails, or its deadline passes.
WriteFails ==
    /\ pc = "writing"
    /\ \E c \in WriteCauses : WriteError(c)
    /\ UNCHANGED <<plan, conn, ai, wireVars, counters, transcript, cancelled,
                   stored, result, history>>

\* write_all, or the record layer, asks again forever.
Spin == pc = "spin" /\ UNCHANGED vars

\* Whether the frame leaves in the flush (TLS) or has left already.
LeavesInFlush == conn.tls /\ pending.why # "unsent"

\* The synced counters after a frame that may have been a data message.
MessageCounted(isData) ==
    [wire |-> wire, inM |-> counters.inM,
     outM |-> IF isData THEN counters.outM + 1 ELSE counters.outM]

\* The flush succeeds: sync the counters, count the message, record the frame.
\* The TCP stream looks at the flag first; a TLS record layer that has nothing
\* left to write need not ask it.
FlushOk ==
    /\ pc = "flush"
    /\ cancelled => conn.tls
    /\ wireOut' = IF LeavesInFlush THEN Append(wireOut, pending) ELSE wireOut
    /\ counters' = MessageCounted(pending.why = "action"
                                  /\ Current.type \in SendTypes)
    /\ Record(Entry("outbound", pending,
                    IF pending.why = "action" THEN "sent" ELSE "automatic"))
    /\ IF pending.why = "ack"
       THEN /\ End(ClosePrecedence(CloseMatches(pending.val)))
            /\ UNCHANGED ai
       ELSE /\ pending' = NoFrame
            /\ pc' = IF pending.why = "action" /\ ~Closing THEN "next"
                     ELSE "decode"
            /\ ai' = IF pending.why = "action" /\ ~Closing THEN ai + 1 ELSE ai
            /\ UNCHANGED terminal
    /\ UNCHANGED <<plan, conn, wireVars, cancelled, stored, result, peerSent>>

\* Mutant: a flush does not look at the flag.
FlushFailsUncancelled ==
    /\ pc = "flush"
    /\ \E c \in (IF cancelled THEN {} ELSE ApplicableTimeouts)
                \cup (IF conn.tls THEN WriteCauses ELSE {}) : WriteError(c)
    /\ wireOut' \in {wireOut} \cup
          (IF LeavesInFlush THEN {Append(wireOut, pending)} ELSE {})
    /\ UNCHANGED <<plan, conn, ai, wireVars, counters, transcript, cancelled,
                   stored, result, peerSent>>

\* The flush reports a deadline or the cancellation; over TLS it may also fail
\* like a write, the frame gone or not.
FlushFails ==
    /\ pc = "flush"
    /\ \E c \in (IF cancelled THEN {"cancelled"} ELSE ApplicableTimeouts)
                \cup (IF conn.tls THEN WriteCauses ELSE {}) : WriteError(c)
    /\ wireOut' \in {wireOut} \cup
          (IF LeavesInFlush THEN {Append(wireOut, pending)} ELSE {})
    /\ UNCHANGED <<plan, conn, ai, wireVars, counters, transcript, cancelled,
                   stored, result, peerSent>>

-----------------------------------------------------------------------------
(* The end of the session, and the caller's thread.                        *)

\* Mutant: a transcript that cannot be stored is dropped silently.
StoreTranscriptIfPossible ==
    /\ pc = "finish"
    /\ counters' = Synced
    /\ stored' \in {stored, stored \cup {"transcript"}} /\ pc' = "persist"
    /\ UNCHANGED <<plan, conn, ai, wireVars, pending, transcript, cancelled,
                   terminal, result, history>>

\* finish_session: final counters, then the transcript, then the observation
\* that names it; a store that fails turns either step into an error.
StoreTranscript ==
    /\ pc = "finish"
    /\ counters' = Synced
    /\ \/ stored' = stored \cup {"transcript"} /\ pc' = "persist"
          /\ UNCHANGED result
       \/ pc' = "done" /\ result' = "store-error" /\ UNCHANGED stored
    /\ UNCHANGED <<plan, conn, ai, wireVars, pending, transcript, cancelled,
                   terminal, history>>

PersistObservation ==
    /\ pc = "persist"
    /\ \/ stored' = stored \cup {"observation"} /\ result' = "observation"
       \/ result' = "store-error" /\ UNCHANGED stored
    /\ pc' = "done"
    /\ UNCHANGED <<plan, conn, ai, wireVars, counters, pending, transcript,
                   cancelled, terminal, history>>

\* WebSocketCancellation::cancel, from any thread at any time.
Cancel ==
    /\ conn.cancellable /\ ~cancelled /\ pc # "done"
    /\ cancelled' = TRUE
    /\ UNCHANGED <<plan, conn, pc, ai, wireVars, counters, pending, transcript,
                   endVars, history>>

Returned == pc = "done" /\ UNCHANGED vars

-----------------------------------------------------------------------------
ReadSyscall  == Receive \/ ReadFails
WriteSyscall == WriteOk \/ WriteFails
Handler      == OnFragment \/ OnData \/ OnPing \/ OnPong \/ OnClose
Local        == \/ ObserveBuffered \/ Connected \/ StartSend \/ StartExpect
                \/ EnterRead \/ Observe \/ ReadReturns \/ Handler \/ EnterWrite \/ FlushOk \/ FlushFails
                \/ StoreTranscript \/ PersistObservation

Next == \/ Local \/ ReadSyscall \/ RetryRead \/ WriteSyscall \/ RetryWrite
        \/ Spin \/ Cancel \/ Returned

Spec == Init /\ [][Next]_vars

\* The thread keeps running, and a call that is retried keeps coming back to
\* the kernel until it moves bytes or its finite deadline has passed.
Fairness == WF_vars(Local) /\ SF_vars(ReadSyscall) /\ SF_vars(WriteSyscall)

FairSpec == Spec /\ Fairness

-----------------------------------------------------------------------------
(* Properties.                                                             *)

Outbound == [op : FrameOps \cup {None}, val : Vals \cup {None},
             len : 0 .. MaxLen,
             why : {None, "action", "pong", "unsent", "ack"}]

WireCounts == [inF : Nat, inB : Nat, outF : Nat, outB : Nat]

Counts == [wire : WireCounts, inM : Nat, outM : Nat]

Checks == {"matched", "mismatched", "ignored", "sent", "automatic",
           "unexpected", "acknowledged"}

Entries == [dir : {"inbound", "outbound"}, op : FrameOps \cup {None},
            val : Vals \cup {None}, len : 0 .. MaxLen, ai : Nat,
            check : Checks]

Terminals == [outcome : {None, "passed", "failed", "error"},
              cause : Causes \cup {None}, exit : {0, 1, 3},
              close : {None, "client", "server"}]

States == {"active", "closed-by-us", "closed-by-peer", "close-acknowledged"}

\* Every variable has the type its Rust counterpart gives it, and the current
\* action exists: no path runs off the end of a validated plan.
TypeOK ==
    /\ plan \in Seq(Action) /\ ValidatePlan(plan, Limits)
    /\ conn \in [tls : BOOLEAN, cancellable : BOOLEAN]
    /\ pc \in PCs
    /\ ai \in 1 .. Len(plan)
    /\ chunk \in Seq(Frame) /\ staged \in Seq(Frame) /\ inbuf \in Seq(Frame)
    /\ partial \in Nat
    /\ state \in States
    /\ wire \in WireCounts
    /\ failure \in {None, "budget-exhausted"}
    /\ counters \in Counts
    /\ pending \in Outbound
    /\ transcript \in Seq(Entries)
    /\ cancelled \in BOOLEAN
    /\ terminal \in Terminals
    /\ stored \subseteq {"transcript", "observation"}
    /\ result \in {None, "observation", "store-error"}
    /\ peerSent \in Seq(Frame)
    /\ wireOut \in Seq(Outbound)

Over == pc \in {"finish", "persist", "done"}

\* No chunking, interleaving of automatic answers or failed write takes the
\* accounted traffic past a sealed limit; the message count passes its limit
\* by the one message that ends the session.
BudgetsHold ==
    /\ wire.inF <= Limits.max_inbound_frames
    /\ wire.inB <= Limits.max_inbound_bytes
    /\ wire.outF <= Limits.max_outbound_frames
    /\ wire.outB <= Limits.max_outbound_bytes
    /\ counters.outM <= Limits.max_outbound_messages
    /\ \/ counters.inM <= Limits.max_inbound_messages
       \/ /\ counters.inM = Limits.max_inbound_messages + 1
          /\ terminal.cause = "budget-exhausted"

\* The executor's own check (exceeds_outbound, on its copy of the counters)
\* is exactly the wire's check: a frame it lets through never trips the
\* outbound WireParser, so a wire failure always comes from the peer's bytes.
OutboundNeverTrips ==
    [][failure' # failure => pc \in {"upgraded", "observe"}]_vars

\* A failure the accounting recorded is the session's verdict, whatever the
\* call that met it reported.
WireFailureDecides ==
    Over /\ failure # None => terminal = FailureTerminal(failure)

\* How many of the positions in S come no later than k.
Rank(S, k) == Cardinality({j \in S : j <= k})

\* The n-th of the positions S of s carries the payload of the n-th of the
\* positions U of u, and their kinds are related by R.
Aligned(s, S, u, U, R) ==
    \A k \in S : \E m \in U : /\ Rank(U, m) = Rank(S, k)
                              /\ <<s[k].op, u[m].op>> \in R
                              /\ s[k].val = u[m].val

SameKind == {<<o, o>> : o \in FrameOps \cup {None}}

\* Outbound entries, without the pongs the close loop records after our close.
SentAt == {k \in DOMAIN transcript :
             /\ transcript[k].dir = "outbound"
             /\ ~(transcript[k].op = "pong"
                  /\ plan[transcript[k].ai].type = "close")}

\* Every outbound frame of the transcript is on the wire, in the same order
\* and with the same payload; the wire is at most the frame in hand ahead.
SentEntriesOnWire ==
    /\ Aligned(transcript, SentAt, wireOut, DOMAIN wireOut, SameKind)
    /\ Len(wireOut) <= Cardinality(SentAt) + 1

InboundAt  == {k \in DOMAIN transcript : transcript[k].dir = "inbound"}
MessagesAt == {m \in DOMAIN peerSent : peerSent[m].op \notin {"part", "bad"}}

\* Inbound entries are the peer's messages in order, none skipped, repeated or
\* reordered, however the reads cut the stream.
InboundInOrder ==
    Aligned(transcript, InboundAt, peerSent, MessagesAt, SameKind)

PingsAt == {k \in InboundAt : transcript[k].op = "ping"}
PongsAt == {m \in DOMAIN wireOut : wireOut[m].op = "pong"}

\* Every pong on the wire answers the ping it comes after in order, with its
\* payload; and until we send a close every ping handled so far is answered.
PingsAnswered ==
    /\ Aligned(wireOut, PongsAt, transcript, PingsAt, {<<"pong", "ping">>})
    /\ state = "active" /\ pc \in {"next", "decode", "reading", "observe"} =>
          Cardinality(PingsAt) = Cardinality(PongsAt)

\* The transcript is what happened on the wire: sends, messages received and
\* automatic answers, in order and with their payloads, whatever failed.
TranscriptFaithful == SentEntriesOnWire /\ InboundInOrder /\ PingsAnswered

EntriesOf(i, d, checks) ==
    {k \in DOMAIN transcript : /\ transcript[k].ai = i
                               /\ transcript[k].dir = d
                               /\ transcript[k].check \in checks}

\* The kinds of message an expectation is about.
ExpectedOps(t) == CASE t \in {"expect-text", "expect-json"} -> {"text"}
                    [] t = "expect-binary" -> {"binary"}
                    [] t = "expect-pong" -> {"pong"}
                    [] t = "expect-close" -> {"close"}

\* A session passes only if every action did its part exactly once and in
\* order: each send is recorded with its payload, each expectation matched one
\* message it accepts, a close was answered, and nothing else was delivered.
PassedMeansExecuted ==
    terminal.outcome = "passed" =>
       /\ ai = Len(plan)
       /\ \A k \in DOMAIN transcript :
             transcript[k].check \notin {"mismatched", "unexpected"}
       /\ \A k, l \in DOMAIN transcript :
             k < l => transcript[k].ai <= transcript[l].ai
       /\ \A i \in DOMAIN plan :
             /\ IsOutbound(plan[i]) =>
                  \E k \in EntriesOf(i, "outbound", {"sent"}) :
                     /\ EntriesOf(i, "outbound", {"sent"}) = {k}
                     /\ transcript[k].val = plan[i].val
             /\ plan[i].type \in ExpectTypes =>
                  \E k \in EntriesOf(i, "inbound", {"matched"}) :
                     /\ EntriesOf(i, "inbound", {"matched"}) = {k}
                     /\ transcript[k].op \in ExpectedOps(plan[i].type)
                     /\ transcript[k].val \in plan[i].accepts
             /\ plan[i].type = "close" =>
                  EntriesOf(i, "inbound", {"acknowledged"}) = {Len(transcript)}

\* A close the plan accepts decides the session, whether or not our reply
\* landed; only a reply that no longer fits the outbound budget changes that.
AcceptedCloseDecides ==
    Over => \A k \in DOMAIN transcript :
       transcript[k].op = "close" /\ transcript[k].check = "matched" =>
          \/ terminal = Passed("server")
          \/ /\ terminal = Failed("budget-exhausted")
             /\ \/ wire.outF >= Limits.max_outbound_frames
                \/ wire.outB + transcript[k].len > Limits.max_outbound_bytes
                \/ transcript[k].len > Limits.max_frame_bytes

\* The lengths of the frames of s, and the positions of those of certain kinds.
LensOf(s)        == [i \in DOMAIN s |-> s[i].len]
OfKind(s, kinds) == {i \in DOMAIN s : s[i].op \in kinds}

\* The fragments among the first d frames of s whose message is not complete.
Unfinished(s, d) ==
    {j \in 1 .. d : /\ s[j].op = "part"
                    /\ \A k \in j .. d : s[k].op \notin DataOps}

\* The peer kept to every inbound limit: each message, with the fragments it
\* came in, to the message limit.
PeerWithinLimits ==
    /\ Len(peerSent) <= Limits.max_inbound_frames
    /\ Total(LensOf(peerSent), DOMAIN peerSent) <= Limits.max_inbound_bytes
    /\ \A i \in OfKind(peerSent, DataOps \cup {"part"}) :
          Total(LensOf(peerSent), Unfinished(peerSent, i - 1) \cup {i})
             <= Limits.max_message_bytes
    /\ Cardinality(OfKind(peerSent, DataOps)) <= Limits.max_inbound_messages
    /\ \A i \in DOMAIN peerSent : peerSent[i].len <= Limits.max_frame_bytes

\* The plan's frames and an answer to each ping and close fit the outbound
\* limits.
AnswersWithinLimits ==
    LET asks == OfKind(peerSent, {"ping", "close"}) IN
    /\ Total(FramesOf(plan), DOMAIN plan) + Cardinality(asks)
          <= Limits.max_outbound_frames
    /\ Total(BytesOf(plan), DOMAIN plan) + Total(LensOf(peerSent), asks)
          <= Limits.max_outbound_bytes
    /\ \A i \in DOMAIN plan : BytesOf(plan)[i] <= Limits.max_frame_bytes

\* budget-exhausted is never the verdict on traffic that fits: neither a slow,
\* nor a coalescing, nor an interleaving peer is blamed for what it did not do.
BudgetVerdictJustified ==
    terminal.cause = "budget-exhausted" =>
       ~(PeerWithinLimits /\ AnswersWithinLimits)

\* Every verdict is earned: a pass by a plan carried out in full, an accepted
\* close by standing, budget-exhausted by traffic that does not fit.
VerdictJustified ==
    PassedMeansExecuted /\ AcceptedCloseDecides /\ BudgetVerdictJustified

\* An observation is only ever returned with the transcript it names already
\* stored, and its counters are the wire's.
ObservationBacked ==
    result = "observation" =>
       /\ {"transcript", "observation"} \subseteq stored
       /\ counters.wire = wire
       /\ terminal.outcome # None

-----------------------------------------------------------------------------
(* The inductive invariant behind the budget and verdict properties.       *)

Writing == pc \in {"write", "writing", "flush"}

\* Between writes the executor's copy of the outbound counters is current.
CopyIsCurrent ==
    pc \in {"upgraded", "next", "decode", "reading", "observe"} =>
       counters.wire.outF = wire.outF /\ counters.wire.outB = wire.outB

\* A frame in hand for an action was within the message budget.
FrameInHand ==
    Writing /\ pending.why = "action" =>
       /\ IsOutbound(Current)
       /\ Current.type \in SendTypes =>
             counters.outM < Limits.max_outbound_messages

\* No verdict and no accounting failure before the end.
UndecidedBeforeEnd == ~Over => terminal = NoTerminal /\ failure = None

\* The invariant that every step preserves: what the thread knows about the
\* counters and the verdict at each point of its loop.
SessionInv == /\ TypeOK /\ CopyIsCurrent /\ FrameInHand /\ UndecidedBeforeEnd
              /\ BudgetsHold /\ WireFailureDecides

\* Every session returns, whatever the peer does.
SessionReturns == <>(pc = "done")

\* Every session returns, whatever the peer does, unless it was cancelled and
\* the layer above the deadline stream keeps retrying the interrupted call.
ReturnsUnlessInterrupted == <>(pc = "done" \/ (pc = "spin" /\ cancelled))

=============================================================================
