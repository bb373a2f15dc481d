--------------------------- MODULE WsSessionProofs --------------------------
(***************************************************************************)
(* TLAPS proofs about WsSession, for every plan that validates, all        *)
(* limits, every peer and every connection.  SessionInv carries the        *)
(* budgets and the accounting failures; it is proved one lemma per action, *)
(* with EndInv for the ways a session ends and WriteInv for the ways a     *)
(* frame is handed to the transport.  On top of it VerdictInv says what    *)
(* the transcript knows of the plan at each point of the loop, and carries *)
(* the verdicts and the observation; its steps are grouped by what they do *)
(* to the transcript.  FaithInv, on top of both, relates the transcript to *)
(* the wire: it compares positions of the sequences by their rank, so that *)
(* no fact about a filtered sequence is needed.  BudgetInv relates the     *)
(* accounting to the stream: the frames admitted, those delivered and the  *)
(* actions begun bound every counter, so that a budget verdict can only    *)
(* come from traffic that does not fit.                                    *)
(***************************************************************************)
EXTENDS WsSession, FiniteSetTheorems, TLAPS

\* validate_websocket_limits leaves every budget a natural number.
LEMMA LimitsAreNat ==
    /\ Limits.max_frame_bytes \in Nat /\ Limits.max_message_bytes \in Nat
    /\ Limits.max_inbound_frames \in Nat /\ Limits.max_outbound_frames \in Nat
    /\ Limits.max_inbound_messages \in Nat
    /\ Limits.max_outbound_messages \in Nat
    /\ Limits.max_inbound_bytes \in Nat /\ Limits.max_outbound_bytes \in Nat
BY LimitsAssumption DEF LimitNames

\* In a validated plan exactly the last action is terminal, so a non-terminal
\* action always has a successor.
LEMMA OnlyLastIsTerminal ==
    ASSUME ValidatePlan(plan, Limits), plan \in Seq(Action), ai \in 1 .. Len(plan)
    PROVE  /\ Terminal(plan[ai]) <=> ai = Len(plan)
           /\ plan[ai] \in Action
BY DEF ValidatePlan, ValidateActions

\* The values a session starts from have their types.
LEMMA ConstantsTyped ==
    /\ NoFrame \in Outbound
    /\ NoTerminal \in Terminals
    /\ ZeroWire \in WireCounts
    /\ ZeroCounters \in Counts
BY MaxLenAssumption
DEF NoFrame, Outbound, NoTerminal, Terminals, ZeroWire, WireCounts,
      ZeroCounters, Counts, None

\* A chunk of the peer's frames is a sequence of frames.
LEMMA ChunksTyped == ASSUME NEW c, NEW least \in Nat, c \in Chunks(least)
                     PROVE  c \in Seq(Frame)
<1>1. PICK n \in least .. MaxChunk : c \in [1 .. n -> PeerFrames]
  BY DEF Chunks
<1>2. n \in Nat /\ c \in [1 .. n -> Frame]
  BY <1>1, SessionAssumption
<1> QED BY <1>2

\* A session starts in a well-typed state.
LEMMA InitType == Init => TypeOK
<1> SUFFICES ASSUME Init PROVE TypeOK
  OBVIOUS
<1>1. plan \in Seq(Action) /\ ValidatePlan(plan, Limits) /\ ai \in 1 .. Len(plan)
  <2>1. plan \in Seq(Action) /\ plan # << >> /\ ai = 1
    BY SessionAssumption DEF Init, ValidatePlan, ValidateActions
  <2>2. Len(plan) \in Nat /\ Len(plan) # 0
    BY <2>1
  <2> QED BY <2>1, <2>2 DEF Init
<1>2. conn \in [tls : BOOLEAN, cancellable : BOOLEAN]
  BY SessionAssumption DEF Init
<1>3. /\ pc \in PCs /\ partial \in Nat /\ state \in States
      /\ failure \in {None, "budget-exhausted"} /\ cancelled \in BOOLEAN
      /\ stored \subseteq {"transcript", "observation"}
      /\ result \in {None, "observation", "store-error"}
  BY DEF Init, PCs, States
<1>4. /\ chunk \in Seq(Frame) /\ staged \in Seq(Frame) /\ inbuf \in Seq(Frame)
      /\ transcript \in Seq(Entries) /\ peerSent \in Seq(Frame)
      /\ wireOut \in Seq(Outbound)
  <2>1. chunk \in Chunks(0) /\ peerSent = chunk
    BY DEF Init
  <2>2. chunk \in Seq(Frame)
    BY <2>1, ChunksTyped
  <2> QED BY <2>1, <2>2 DEF Init
<1>5. /\ wire \in WireCounts /\ counters \in Counts /\ pending \in Outbound
      /\ terminal \in Terminals
  BY ConstantsTyped DEF Init
<1> QED BY <1>1, <1>2, <1>3, <1>4, <1>5 DEF TypeOK

\* The next frame of a buffer is a frame, and so is everything after it.
LEMMA HeadAndTail ==
    ASSUME NEW s \in Seq(Frame), s # << >>
    PROVE  /\ Head(s) \in Frame /\ Tail(s) \in Seq(Frame)
           /\ Head(s).op \in FrameOps /\ Head(s).val \in Vals
           /\ Head(s).len \in 0 .. MaxLen /\ Head(s).len \in Nat
<1>1. Head(s) \in Frame /\ Tail(s) \in Seq(Frame)
  OBVIOUS
<1> QED BY <1>1, MaxLenAssumption DEF Frame

\* Counting one more frame keeps the accounting well typed.
LEMMA WireTyped ==
    ASSUME NEW w \in WireCounts, NEW n \in Nat
    PROVE  InboundAdded(w, n) \in WireCounts /\ OutboundAdded(w, n) \in WireCounts
BY DEF WireCounts, InboundAdded, OutboundAdded

\* sync_wire_counters and account_inbound copy the wire's counts and touch one
\* message count at most.
LEMMA CountersTyped ==
    ASSUME wire \in WireCounts, counters \in Counts, NEW d \in BOOLEAN
    PROVE  /\ Synced \in Counts /\ Synced.wire = wire
           /\ Synced.inM = counters.inM /\ Synced.outM = counters.outM
           /\ Accounted(d) \in Counts /\ Accounted(d).wire = wire
           /\ Accounted(d).outM = counters.outM
           /\ Accounted(d).inM = counters.inM + (IF d THEN 1 ELSE 0)
           /\ MessageCounted(d) \in Counts /\ MessageCounted(d).wire = wire
           /\ MessageCounted(d).inM = counters.inM
           /\ MessageCounted(d).outM = counters.outM + (IF d THEN 1 ELSE 0)
BY DEF Synced, Accounted, MessageCounted, Counts

\* Every verdict the executor builds is a SessionTerminal.
LEMMA TerminalsTyped ==
    /\ \A i \in {None, "client", "server"} : Passed(i) \in Terminals
    /\ \A c \in Causes : Failed(c) \in Terminals /\ Errored(c) \in Terminals
    /\ \A fl \in {None, "budget-exhausted"}, c \in Causes :
          SocketError(fl, c) \in Terminals
    /\ \A m \in BOOLEAN : ClosePrecedence(m) \in Terminals
BY DEF Passed, Failed, Errored, SocketError, FailureTerminal, ClosePrecedence,
      Terminals, Causes, TimeoutCauses, None

USE DEF None

\* Entering the read loop preserves the invariant.
LEMMA StartExpectInv == SessionInv /\ StartExpect => SessionInv'
BY ConstantsTyped, TerminalsTyped, SessionAssumption, LimitsAreNat
DEF StartExpect, SessionInv, TypeOK, CopyIsCurrent, FrameInHand,
    UndecidedBeforeEnd, BudgetsHold, WireFailureDecides, wireVars, endVars,
    history, vars, PCs, Writing, Over, Current, Closing

\* A retried read preserves the invariant.
LEMMA RetryReadInv == SessionInv /\ RetryRead => SessionInv'
BY ConstantsTyped, TerminalsTyped, SessionAssumption, LimitsAreNat
DEF RetryRead, SessionInv, TypeOK, CopyIsCurrent, FrameInHand,
    UndecidedBeforeEnd, BudgetsHold, WireFailureDecides, wireVars, endVars,
    history, vars, PCs, Writing, Over, Current, Closing

\* The cancellation check before a write preserves the invariant.
LEMMA EnterWriteInv == SessionInv /\ EnterWrite => SessionInv'
BY ConstantsTyped, TerminalsTyped, SessionAssumption, LimitsAreNat
DEF EnterWrite, SessionInv, TypeOK, CopyIsCurrent, FrameInHand,
    UndecidedBeforeEnd, BudgetsHold, WireFailureDecides, wireVars, endVars,
    history, vars, PCs, Writing, Over, Current, Closing

\* A retried write preserves the invariant.
LEMMA RetryWriteInv == SessionInv /\ RetryWrite => SessionInv'
BY ConstantsTyped, TerminalsTyped, SessionAssumption, LimitsAreNat
DEF RetryWrite, SessionInv, TypeOK, CopyIsCurrent, FrameInHand,
    UndecidedBeforeEnd, BudgetsHold, WireFailureDecides, wireVars, endVars,
    history, vars, PCs, Writing, Over, Current, Closing

\* A call that is retried for ever preserves the invariant.
LEMMA SpinInv == SessionInv /\ Spin => SessionInv'
BY ConstantsTyped, TerminalsTyped, SessionAssumption, LimitsAreNat
DEF Spin, SessionInv, TypeOK, CopyIsCurrent, FrameInHand, UndecidedBeforeEnd,
    BudgetsHold, WireFailureDecides, wireVars, endVars, history, vars, PCs,
    Writing, Over, Current, Closing

\* A cancellation by another thread preserves the invariant.
LEMMA CancelInv == SessionInv /\ Cancel => SessionInv'
BY ConstantsTyped, TerminalsTyped, SessionAssumption, LimitsAreNat
DEF Cancel, SessionInv, TypeOK, CopyIsCurrent, FrameInHand, UndecidedBeforeEnd,
    BudgetsHold, WireFailureDecides, wireVars, endVars, history, vars, PCs,
    Writing, Over, Current, Closing

\* A returned session preserves the invariant.
LEMMA ReturnedInv == SessionInv /\ Returned => SessionInv'
BY ConstantsTyped, TerminalsTyped, SessionAssumption, LimitsAreNat
DEF Returned, SessionInv, TypeOK, CopyIsCurrent, FrameInHand,
    UndecidedBeforeEnd, BudgetsHold, WireFailureDecides, wireVars, endVars,
    history, vars, PCs, Writing, Over, Current, Closing

\* Handing the accepted frames to the library preserves the invariant.
LEMMA ReadReturnsInv == SessionInv /\ ReadReturns => SessionInv'
BY ConstantsTyped, TerminalsTyped, SessionAssumption, LimitsAreNat
DEF ReadReturns, SessionInv, TypeOK, CopyIsCurrent, FrameInHand,
    UndecidedBeforeEnd, BudgetsHold, WireFailureDecides, wireVars, endVars,
    history, vars, PCs, Writing, Over, Current, Closing

\* read(2) returning a chunk preserves the invariant.
LEMMA ReceiveInv == SessionInv /\ Receive => SessionInv'
<1> SUFFICES ASSUME SessionInv, Receive PROVE SessionInv'
  OBVIOUS
<1>1. PICK c \in Chunks(1) : chunk' = c /\ peerSent' = peerSent \o c
  BY DEF Receive
<1>2. c \in Seq(Frame)
  BY ChunksTyped
<1>3. chunk' \in Seq(Frame) /\ peerSent' \in Seq(Frame)
  BY <1>1, <1>2 DEF SessionInv, TypeOK
<1> QED
  BY <1>3
  DEF Receive, SessionInv, TypeOK, CopyIsCurrent, FrameInHand,
      UndecidedBeforeEnd, BudgetsHold, WireFailureDecides, wireVars, endVars,
      history, PCs, Writing, Over, Current, Closing

\* finish_session's last counter copy preserves the invariant.
LEMMA StoreTranscriptInv == SessionInv /\ StoreTranscript => SessionInv'
<1> SUFFICES ASSUME SessionInv, StoreTranscript PROVE SessionInv'
  OBVIOUS
<1>1. wire \in WireCounts /\ counters \in Counts
  BY DEF SessionInv, TypeOK
<1>2. /\ counters' \in Counts /\ counters'.inM = counters.inM
      /\ counters'.outM = counters.outM
  BY <1>1, CountersTyped DEF StoreTranscript
<1> QED
  BY <1>2
  DEF StoreTranscript, wireVars, history, SessionInv, TypeOK, CopyIsCurrent,
      FrameInHand, UndecidedBeforeEnd, BudgetsHold, WireFailureDecides, PCs,
      Writing, Over, Current, Closing

\* Storing the observation preserves the invariant.
LEMMA PersistObservationInv == SessionInv /\ PersistObservation => SessionInv'
BY ConstantsTyped, TerminalsTyped, SessionAssumption, LimitsAreNat
DEF PersistObservation, SessionInv, TypeOK, CopyIsCurrent, FrameInHand,
    UndecidedBeforeEnd, BudgetsHold, WireFailureDecides, wireVars, endVars,
    history, vars, PCs, Writing, Over, Current, Closing

\* A frame leaving the machine preserves the invariant.
LEMMA WriteOkInv == SessionInv /\ WriteOk => SessionInv'
BY ConstantsTyped, TerminalsTyped, SessionAssumption, LimitsAreNat
DEF WriteOk, SessionInv, TypeOK, CopyIsCurrent, FrameInHand,
    UndecidedBeforeEnd, BudgetsHold, WireFailureDecides, wireVars, endVars,
    history, vars, PCs, Writing, Over, Current, Closing


\* Every way a session ends: a verdict t that the accounting supports.
LEMMA EndInv ==
    ASSUME SessionInv, NEW t \in Terminals, End(t),
           UNCHANGED <<plan, conn, ai, cancelled, stored, result, wire>>,
           chunk' \in Seq(Frame), staged' \in Seq(Frame), inbuf' \in Seq(Frame),
           partial' \in Nat, state' \in States, counters' \in Counts,
           transcript' \in Seq(Entries), peerSent' \in Seq(Frame),
           wireOut' \in Seq(Outbound),
           failure' \in {None, "budget-exhausted"},
           failure' # None => t = FailureTerminal(failure'),
           counters'.outM <= Limits.max_outbound_messages,
           \/ counters'.inM <= Limits.max_inbound_messages
           \/ /\ counters'.inM = Limits.max_inbound_messages + 1
              /\ t.cause = "budget-exhausted"
    PROVE  SessionInv'
BY ConstantsTyped
DEF End, SessionInv, TypeOK, CopyIsCurrent, FrameInHand, UndecidedBeforeEnd,
    BudgetsHold, WireFailureDecides, wireVars, endVars, history, PCs, Writing,
    Over, Current, Closing

\* The cancellation check before a read preserves the invariant.
LEMMA EnterReadInv == SessionInv /\ EnterRead => SessionInv'
<1> SUFFICES ASSUME SessionInv, EnterRead PROVE SessionInv'
  OBVIOUS
<1>1. CASE cancelled /\ End(SocketError(failure, "cancelled"))
  <2>1. SocketError(failure, "cancelled") \in Terminals
    BY TerminalsTyped DEF SessionInv, TypeOK, Causes
  <2>2. failure = None /\ terminal = NoTerminal
    BY DEF SessionInv, UndecidedBeforeEnd, EnterRead, Over
  <2> QED
    BY <1>1, <2>1, <2>2, EndInv
    DEF EnterRead, SessionInv, TypeOK, BudgetsHold, wireVars, history,
        NoTerminal
<1>2. CASE pc' \in {"reading", "spin"} /\ UNCHANGED <<terminal, pending>>
  BY <1>2
  DEF EnterRead, SessionInv, TypeOK, CopyIsCurrent, FrameInHand,
      UndecidedBeforeEnd, BudgetsHold, WireFailureDecides, wireVars, endVars,
      history, PCs, Writing, Over, Current, Closing
<1> QED BY <1>1, <1>2 DEF EnterRead

\* A failed or timed-out read preserves the invariant.
LEMMA ReadFailsInv == SessionInv /\ ReadFails => SessionInv'
<1> SUFFICES ASSUME SessionInv, ReadFails PROVE SessionInv'
  OBVIOUS
<1>1. PICK c \in {"protocol-violation", "unexpected-eof", "io-failure"}
                  \cup ApplicableTimeouts : End(SocketError(failure, c))
  BY DEF ReadFails
<1>2. SocketError(failure, c) \in Terminals
  <2>1. c \in Causes BY DEF ApplicableTimeouts, Causes, TimeoutCauses
  <2> QED BY <2>1, TerminalsTyped DEF SessionInv, TypeOK
<1>3. failure = None /\ terminal = NoTerminal
  BY DEF SessionInv, UndecidedBeforeEnd, ReadFails, Over
<1> QED
  BY <1>1, <1>2, <1>3, EndInv
  DEF ReadFails, SessionInv, TypeOK, BudgetsHold, wireVars, history, NoTerminal

\* An exhausted budget is one verdict, whichever check reports it.
LEMMA BudgetTerminals ==
    /\ Failed("budget-exhausted") \in Terminals
    /\ Failed("budget-exhausted").cause = "budget-exhausted"
    /\ SocketError("budget-exhausted", "io-failure") = Failed("budget-exhausted")
    /\ FailureTerminal("budget-exhausted") = Failed("budget-exhausted")
    /\ SocketError(None, "budget-exhausted") = Failed("budget-exhausted")
<1>1. "budget-exhausted" \in Causes BY DEF Causes
<1> QED BY <1>1, TerminalsTyped DEF Failed, SocketError, FailureTerminal

\* The arithmetic of one more inbound frame.
LEMMA OneMore ==
    ASSUME NEW a \in Nat, NEW b \in Nat, a < b
    PROVE  a + 1 <= b
OBVIOUS

\* What exceeds_outbound does not find too much is within the wire's limits.
LEMMA CheckedIsWithin ==
    ASSUME NEW fs \in Nat, NEW bs \in Nat, NEW n \in Nat,
           ~(fs >= Limits.max_outbound_frames),
           ~(bs + n > Limits.max_outbound_bytes),
           ~(n > Limits.max_frame_bytes)
    PROVE  /\ fs < Limits.max_outbound_frames
           /\ n <= Limits.max_frame_bytes
           /\ bs + n <= Limits.max_outbound_bytes
BY LimitsAreNat

\* Admitting a frame that fits keeps the inbound accounting within its limits.
LEMMA AdmitInv ==
    ASSUME SessionInv, chunk # << >>, Admit
    PROVE  /\ wire' \in WireCounts /\ wire'.outF = wire.outF
           /\ wire'.outB = wire.outB
           /\ wire'.inF <= Limits.max_inbound_frames
           /\ wire'.inB <= Limits.max_inbound_bytes
           /\ staged' \in Seq(Frame) /\ chunk' \in Seq(Frame)
<1> DEFINE n == Head(chunk).len
<1>1. Head(chunk) \in Frame /\ n \in Nat /\ Tail(chunk) \in Seq(Frame)
  <2>1. chunk \in Seq(Frame) /\ chunk # << >>
    BY DEF SessionInv, TypeOK
  <2> QED BY <2>1, HeadAndTail
<1>2. wire \in WireCounts /\ staged \in Seq(Frame)
  BY DEF SessionInv, TypeOK
<1>3. /\ wire' = InboundAdded(wire, n) /\ InboundFits(n)
      /\ staged' = Append(staged, Head(chunk)) /\ chunk' = Tail(chunk)
  BY DEF Admit
<1> HIDE DEF n
<1>4. /\ wire' \in WireCounts /\ wire'.inF = wire.inF + 1
      /\ wire'.inB = wire.inB + n
      /\ wire'.outF = wire.outF /\ wire'.outB = wire.outB
  BY <1>1, <1>2, <1>3, WireTyped DEF InboundAdded
<1>5. /\ wire'.inF <= Limits.max_inbound_frames
      /\ wire'.inB <= Limits.max_inbound_bytes
  <2>1. wire.inF \in Nat
    BY <1>2 DEF WireCounts
  <2>2. /\ wire.inF < Limits.max_inbound_frames
        /\ wire.inB + n <= Limits.max_inbound_bytes
    BY <1>3, Zenon DEF InboundFits
  <2>3. wire.inF + 1 <= Limits.max_inbound_frames
    BY <2>1, <2>2, OneMore, LimitsAreNat, Zenon
  <2> QED BY <1>4, <2>2, <2>3, Zenon
<1>6. staged' \in Seq(Frame) /\ chunk' \in Seq(Frame)
  BY <1>1, <1>2, <1>3
<1> QED BY <1>4, <1>5, <1>6

\* The inbound WireParser preserves the invariant: it counts a frame only if it
\* fits, and otherwise records the failure that becomes the verdict.
LEMMA ObserveInv == SessionInv /\ Observe => SessionInv'
<1> SUFFICES ASSUME SessionInv, Observe PROVE SessionInv'
  OBVIOUS
<1>1. CASE Admit /\ UNCHANGED <<pc, failure, terminal, pending>>
  BY <1>1, AdmitInv
  DEF Observe, history, SessionInv, TypeOK, CopyIsCurrent, FrameInHand,
      UndecidedBeforeEnd, BudgetsHold, WireFailureDecides, PCs, Writing, Over,
      Current, Closing
<1>2. CASE Refuse /\ End(SocketError("budget-exhausted", "io-failure"))
  <2>1. terminal = NoTerminal
    BY DEF SessionInv, UndecidedBeforeEnd, Observe, Over
  <2>2. /\ End(Failed("budget-exhausted")) /\ failure' = "budget-exhausted"
        /\ staged' = << >> /\ chunk' = << >> /\ wire' = wire
    BY <1>2, BudgetTerminals DEF Refuse
  <2> QED
    BY <2>1, <2>2, BudgetTerminals, EndInv
    DEF Observe, SessionInv, TypeOK, BudgetsHold, history, NoTerminal
<1> QED BY <1>1, <1>2 DEF Observe

\* So does accounting for the frames that came with the upgrade response.
LEMMA ObserveBufferedInv == SessionInv /\ ObserveBuffered => SessionInv'
<1> SUFFICES ASSUME SessionInv, ObserveBuffered PROVE SessionInv'
  OBVIOUS
<1>1. CASE Admit /\ UNCHANGED <<pc, failure, terminal, counters>>
  BY <1>1, AdmitInv
  DEF ObserveBuffered, history, SessionInv, TypeOK, CopyIsCurrent, FrameInHand,
      UndecidedBeforeEnd, BudgetsHold, WireFailureDecides, PCs, Writing, Over,
      Current, Closing
<1>2. CASE /\ Refuse /\ pc' = "finish" /\ counters' = Synced
           /\ terminal' = FailureTerminal("budget-exhausted")
  <2>1. wire \in WireCounts /\ counters \in Counts
    BY DEF SessionInv, TypeOK
  <2>2. /\ counters' \in Counts /\ counters'.inM = counters.inM
        /\ counters'.outM = counters.outM
    BY <1>2, <2>1, CountersTyped
  <2>3. /\ terminal' = Failed("budget-exhausted") /\ terminal' \in Terminals
        /\ terminal'.cause = "budget-exhausted"
    BY <1>2, BudgetTerminals
  <2> QED
    BY <1>2, <2>2, <2>3, BudgetTerminals
    DEF ObserveBuffered, Refuse, history, SessionInv, TypeOK, CopyIsCurrent,
        FrameInHand, UndecidedBeforeEnd, BudgetsHold, WireFailureDecides, PCs,
        Writing, Over, Current, Closing
<1> QED BY <1>1, <1>2 DEF ObserveBuffered

\* Starting the session on those frames preserves the invariant.
LEMMA ConnectedInv == SessionInv /\ Connected => SessionInv'
BY DEF Connected, SessionInv, TypeOK, CopyIsCurrent, FrameInHand,
       UndecidedBeforeEnd, BudgetsHold, WireFailureDecides, endVars, history,
       PCs, Writing, Over, Current, Closing

\* A fragment or a malformed frame preserves the invariant.
LEMMA OnFragmentInv == SessionInv /\ OnFragment => SessionInv'
<1> SUFFICES ASSUME SessionInv, OnFragment PROVE SessionInv'
  OBVIOUS
<1> DEFINE f == Head(inbuf)
<1>1. f \in Frame /\ f.len \in Nat /\ Tail(inbuf) \in Seq(Frame)
  <2>1. inbuf \in Seq(Frame) /\ inbuf # << >>
    BY DEF OnFragment, Delivers, SessionInv, TypeOK
  <2> QED BY <2>1, HeadAndTail
<1>2. failure = None /\ terminal = NoTerminal
  BY DEF SessionInv, UndecidedBeforeEnd, OnFragment, Delivers, Over
<1>3. CASE f.op = "part" /\ partial + f.len <= Limits.max_message_bytes
  <2>1. partial' = partial + f.len /\ UNCHANGED <<pc, terminal, pending>>
    BY <1>3 DEF OnFragment
  <2>2. partial' \in Nat /\ inbuf' \in Seq(Frame)
    BY <1>1, <2>1 DEF OnFragment, SessionInv, TypeOK
  <2> HIDE DEF f
  <2>3. TypeOK'
    BY <2>1, <2>2 DEF OnFragment, history, SessionInv, TypeOK
  <2>4. CopyIsCurrent' /\ FrameInHand' /\ UndecidedBeforeEnd'
    BY <2>1
    DEF OnFragment, SessionInv, CopyIsCurrent, FrameInHand, UndecidedBeforeEnd,
        Writing, Over, Current
  <2>5. BudgetsHold' /\ WireFailureDecides'
    BY <2>1 DEF OnFragment, SessionInv, BudgetsHold, WireFailureDecides, Over
  <2> QED BY <2>3, <2>4, <2>5 DEF SessionInv
<1>4. CASE ~(f.op = "part" /\ partial + f.len <= Limits.max_message_bytes)
  <2> DEFINE c == IF f.op = "bad" THEN "protocol-violation" ELSE "budget-exhausted"
  <2>1. End(SocketError(failure, c)) /\ partial' = partial
    BY <1>4 DEF OnFragment
  <2>2. SocketError(failure, c) \in Terminals
    <3>1. c \in Causes BY DEF Causes
    <3> QED BY <3>1, <1>2, TerminalsTyped
  <2> QED
    BY <1>1, <1>2, <2>1, <2>2, EndInv
    DEF OnFragment, SessionInv, TypeOK, BudgetsHold, history, NoTerminal
<1> QED BY <1>3, <1>4

\* A frame that passed the executor's check is within the wire's budget too,
\* and the write that carries it preserves the invariant.
LEMMA WriteInv ==
    ASSUME SessionInv, ~Over, NEW f \in Frame, NEW why \in {"action", "pong", "ack"},
           NEW d \in BOOLEAN, BeginWrite(f, why),
           ~ExceedsOutbound(counters', d, f.len),
           counters' \in Counts,
           counters'.wire.outF = wire.outF, counters'.wire.outB = wire.outB,
           counters'.outM = counters.outM,
           counters'.inM <= Limits.max_inbound_messages,
           UNCHANGED <<plan, conn, ai, cancelled, stored, result, chunk, staged,
                       partial, history>>,
           inbuf' \in Seq(Frame), state' \in States, transcript' \in Seq(Entries),
           why = "action" => IsOutbound(Current) /\ (Current.type \in SendTypes => d)
    PROVE  SessionInv' /\ failure' = failure
<1>0. /\ f.len \in Nat /\ f.op \in FrameOps /\ f.val \in Vals /\ f.len \in 0 .. MaxLen
      /\ wire \in WireCounts
  BY MaxLenAssumption DEF Frame, SessionInv, TypeOK
<1>1. wire.outF \in Nat /\ wire.outB \in Nat /\ counters'.outM \in Nat
  BY <1>0 DEF WireCounts, Counts
<1>2. OutboundFits(f.len)
  <2>1. /\ ~(counters'.wire.outF >= Limits.max_outbound_frames)
        /\ ~(counters'.wire.outB + f.len > Limits.max_outbound_bytes)
        /\ ~(f.len > Limits.max_frame_bytes)
    BY Zenon DEF ExceedsOutbound
  <2>2. /\ ~(wire.outF >= Limits.max_outbound_frames)
        /\ ~(wire.outB + f.len > Limits.max_outbound_bytes)
    BY <2>1, Zenon
  <2> QED
    BY <2>1, <2>2, <1>0, <1>1, CheckedIsWithin, Zenon DEF OutboundFits
<1>3. /\ wire' = OutboundAdded(wire, f.len) /\ pc' = "write"
      /\ pending' = [op |-> f.op, val |-> f.val, len |-> f.len, why |-> why]
      /\ UNCHANGED <<failure, terminal>>
  BY <1>2 DEF BeginWrite
<1>4. /\ wire' \in WireCounts /\ wire'.inF = wire.inF /\ wire'.inB = wire.inB
      /\ wire'.outF <= Limits.max_outbound_frames
      /\ wire'.outB <= Limits.max_outbound_bytes
  <2>1. /\ wire' \in WireCounts /\ wire'.inF = wire.inF /\ wire'.inB = wire.inB
        /\ wire'.outF = wire.outF + 1 /\ wire'.outB = wire.outB + f.len
    BY <1>0, <1>3, WireTyped DEF OutboundAdded
  <2> QED BY <2>1, <1>0, <1>1, <1>2, LimitsAreNat DEF OutboundFits
<1>5. pending' \in Outbound /\ pending'.why = why
  BY <1>0, <1>3 DEF Outbound
<1>6. Current' = Current
  BY DEF Current
<1>7. why = "action" /\ Current.type \in SendTypes =>
         counters'.outM < Limits.max_outbound_messages
  BY <1>1, LimitsAreNat DEF ExceedsOutbound
<1>8. TypeOK'
  BY <1>3, <1>4, <1>5 DEF SessionInv, TypeOK, PCs, history
<1>9. CopyIsCurrent' /\ FrameInHand'
  BY <1>3, <1>5, <1>6, <1>7 DEF CopyIsCurrent, FrameInHand, Writing
<1>10. UndecidedBeforeEnd' /\ WireFailureDecides'
  BY <1>3 DEF UndecidedBeforeEnd, WireFailureDecides, Over, SessionInv
<1>11. BudgetsHold'
  BY <1>4 DEF BudgetsHold, SessionInv
<1> QED BY <1>3, <1>8, <1>9, <1>10, <1>11 DEF SessionInv

\* Sending an action preserves the invariant and never trips the accounting.
LEMMA StartSendInv == SessionInv /\ StartSend => SessionInv' /\ failure' = failure
<1> SUFFICES ASSUME SessionInv, StartSend PROVE SessionInv' /\ failure' = failure
  OBVIOUS
<1>1. /\ failure = None /\ terminal = NoTerminal /\ ~Over
      /\ counters.wire.outF = wire.outF /\ counters.wire.outB = wire.outB
  BY DEF SessionInv, UndecidedBeforeEnd, CopyIsCurrent, StartSend, Over
<1>2. Current \in Action /\ IsOutbound(Current)
  BY OnlyLastIsTerminal DEF Current, SessionInv, TypeOK, StartSend
<1>3. FrameOf(Current) \in Frame /\ FrameOf(Current).len = Current.len
  BY <1>2 DEF FrameOf, Frame, Action, FrameOps, DataOps, IsOutbound, SendTypes
<1> DEFINE d == Current.type \in SendTypes
<1>4. CASE ExceedsOutbound(counters, d, Current.len)
  <2>1. End(Failed("budget-exhausted")) /\ UNCHANGED <<wire, failure, state>>
    BY <1>4 DEF StartSend
  <2> QED
    BY <1>1, <2>1, BudgetTerminals, EndInv
    DEF StartSend, SessionInv, TypeOK, BudgetsHold, history, NoTerminal
<1>5. CASE ~ExceedsOutbound(counters, d, Current.len)
  <2>1. BeginWrite(FrameOf(Current), "action") /\ counters' = counters
    BY <1>5 DEF StartSend
  <2>2. state' \in States
    BY <1>5 DEF StartSend, SessionInv, TypeOK, States
  <2>3. counters'.inM <= Limits.max_inbound_messages
    BY <1>1, <2>1 DEF SessionInv, BudgetsHold, NoTerminal
  <2>4. /\ counters' \in Counts /\ inbuf' \in Seq(Frame)
        /\ transcript' \in Seq(Entries) /\ counters' = counters
        /\ UNCHANGED <<plan, conn, ai, cancelled, stored, result, chunk, staged,
                       partial, history>>
    BY <2>1 DEF StartSend, SessionInv, TypeOK
  <2>5. ~ExceedsOutbound(counters', d, FrameOf(Current).len)
    BY <1>3, <1>5, <2>4
  <2> QED
    <3>1. d \in BOOLEAN /\ (Current.type \in SendTypes => d)
      OBVIOUS
    <3> HIDE DEF d
    <3> QED
      BY <1>1, <1>2, <1>3, <2>1, <2>2, <2>3, <2>4, <2>5, <3>1, WriteInv
<1> QED BY <1>4, <1>5

\* What a handler knows when the library delivers a message.
LEMMA Undecided ==
    ASSUME SessionInv, ~Over
    PROVE  /\ failure = None /\ terminal = NoTerminal
           /\ wire \in WireCounts /\ counters \in Counts
           /\ counters.inM \in Nat /\ counters.outM \in Nat
           /\ counters.inM <= Limits.max_inbound_messages
           /\ counters.outM <= Limits.max_outbound_messages
<1>1. /\ failure = None /\ terminal = NoTerminal /\ wire \in WireCounts
      /\ counters \in Counts
  BY DEF SessionInv, UndecidedBeforeEnd, TypeOK
<1>2. /\ counters.inM <= Limits.max_inbound_messages
      /\ counters.outM <= Limits.max_outbound_messages
  BY <1>1 DEF SessionInv, BudgetsHold, NoTerminal
<1> QED BY <1>1, <1>2 DEF Counts

\* account_inbound on those counters passes the message limit by one at most,
\* and only when it reports the budget exhausted.
LEMMA AccountedBudget ==
    ASSUME SessionInv, ~Over, NEW d \in BOOLEAN, NEW n
    PROVE  /\ Accounted(d) \in Counts
           /\ Accounted(d).wire = wire /\ Accounted(d).outM = counters.outM
           /\ Accounted(d).outM <= Limits.max_outbound_messages
           /\ \/ Accounted(d).inM <= Limits.max_inbound_messages
              \/ Accounted(d).inM = Limits.max_inbound_messages + 1
           /\ ~OverInbound(Accounted(d), n) =>
                 Accounted(d).inM <= Limits.max_inbound_messages
<1>1. /\ Accounted(d) \in Counts
      /\ Accounted(d).wire = wire /\ Accounted(d).outM = counters.outM
      /\ Accounted(d).inM = counters.inM + (IF d THEN 1 ELSE 0)
  BY Undecided, CountersTyped
<1>2. Accounted(d).inM \in Nat
  BY <1>1 DEF Counts
<1>3. Accounted(d).inM = counters.inM \/ Accounted(d).inM = counters.inM + 1
  BY <1>1, Undecided
<1> QED BY <1>1, <1>2, <1>3, Undecided, LimitsAreNat DEF OverInbound

\* Recording a message keeps the transcript well typed.
LEMMA Recorded ==
    ASSUME SessionInv, NEW f, f.op \in FrameOps \cup {None}, f.val \in Vals \cup {None},
           f.len \in 0 .. MaxLen,
           NEW dir \in {"inbound", "outbound"}, NEW check \in Checks
    PROVE  Append(transcript, Entry(dir, f, check)) \in Seq(Entries)
<1>1. ai \in Nat /\ transcript \in Seq(Entries)
  BY DEF SessionInv, TypeOK
<1>2. Entry(dir, f, check) \in Entries
  BY <1>1 DEF Entry, Entries
<1> QED BY <1>1, <1>2

\* A data message preserves the invariant.
LEMMA OnDataInv == SessionInv /\ OnData => SessionInv'
<1> SUFFICES ASSUME SessionInv, OnData PROVE SessionInv'
  OBVIOUS
<1> DEFINE f == Head(inbuf)
           n == partial + f.len
           c == Accounted(TRUE)
<1>1. ~Over /\ pc = "decode" /\ inbuf \in Seq(Frame) /\ inbuf # << >>
  BY DEF OnData, Delivers, Over, SessionInv, TypeOK
<1>2. /\ f \in Frame /\ Tail(inbuf) \in Seq(Frame) /\ f.op \in FrameOps
      /\ f.val \in Vals /\ f.len \in 0 .. MaxLen
  BY <1>1, HeadAndTail
<1>3. /\ partial' = 0 /\ inbuf' = Tail(inbuf)
      /\ UNCHANGED <<plan, conn, chunk, staged, state, wire, failure, cancelled,
                     stored, result, history>>
  BY DEF OnData
<1> HIDE DEF f, n, c
<1>4. CASE n > Limits.max_message_bytes
  <2>1. End(Failed("budget-exhausted")) /\ UNCHANGED <<ai, counters, transcript>>
    BY <1>1, <1>4, Undecided, BudgetTerminals DEF OnData, f, n
  <2> QED
    BY <1>1, <1>2, <1>3, <2>1, Undecided, BudgetTerminals, EndInv
    DEF SessionInv, TypeOK, history
<1>5. CASE ~(n > Limits.max_message_bytes) /\ OverInbound(c, n)
  <2>1. /\ End(Failed("budget-exhausted")) /\ UNCHANGED <<ai, transcript>>
        /\ counters' = c
    BY <1>5 DEF OnData, f, n, c
  <2> QED
    BY <1>1, <1>2, <1>3, <2>1, Undecided, AccountedBudget, BudgetTerminals, EndInv
    DEF SessionInv, TypeOK, history, c
<1>6. CASE ~(n > Limits.max_message_bytes) /\ ~OverInbound(c, n) /\ DataMatches(f)
  <2>1. /\ transcript' = Append(transcript, Entry("inbound", f, "matched"))
        /\ ai' = ai + 1 /\ pc' = "next" /\ counters' = c
        /\ UNCHANGED <<terminal, pending>>
    BY <1>6 DEF OnData, Record, f, n, c
  <2>2. transcript' \in Seq(Entries)
    BY <1>2, <2>1, Recorded DEF Checks
  <2>3. ai' \in 1 .. Len(plan)
    <3>1. ~Terminal(plan[ai])
      BY <1>6 DEF DataMatches, Current, Terminal
    <3> QED BY <2>1, <3>1, OnlyLastIsTerminal DEF SessionInv, TypeOK
  <2>4. /\ counters' \in Counts /\ counters'.wire = wire
        /\ counters'.inM <= Limits.max_inbound_messages
        /\ counters'.outM <= Limits.max_outbound_messages
    BY <1>1, <1>6, <2>1, AccountedBudget DEF c
  <2> QED
    BY <1>1, <1>2, <1>3, <2>1, <2>2, <2>3, <2>4
    DEF history, SessionInv, TypeOK, CopyIsCurrent, FrameInHand,
        UndecidedBeforeEnd, BudgetsHold, WireFailureDecides, PCs, Writing,
        Over, Current, Closing
<1>7. CASE ~(n > Limits.max_message_bytes) /\ ~OverInbound(c, n) /\ ~DataMatches(f)
  <2> DEFINE check == IF Closing THEN "unexpected" ELSE "mismatched"
  <2>1. /\ transcript' = Append(transcript, Entry("inbound", f, check))
        /\ End(Failed("expectation-failed")) /\ ai' = ai /\ counters' = c
    BY <1>7 DEF OnData, Record, f, n, c
  <2>2. transcript' \in Seq(Entries)
    BY <1>2, <2>1, Recorded DEF Checks
  <2>3. Failed("expectation-failed") \in Terminals
    BY TerminalsTyped DEF Causes
  <2> QED
    BY <1>1, <1>2, <1>3, <1>7, <2>1, <2>2, <2>3, Undecided, AccountedBudget, EndInv
    DEF SessionInv, TypeOK, history, c
<1> QED BY <1>4, <1>5, <1>6, <1>7

\* A pong preserves the invariant.
LEMMA OnPongInv == SessionInv /\ OnPong => SessionInv'
<1> SUFFICES ASSUME SessionInv, OnPong PROVE SessionInv'
  OBVIOUS
<1> DEFINE f == Head(inbuf)
           c == Accounted(FALSE)
<1>1. ~Over /\ pc = "decode" /\ inbuf \in Seq(Frame) /\ inbuf # << >>
  BY DEF OnPong, Delivers, Over, SessionInv, TypeOK
<1>2. /\ f \in Frame /\ Tail(inbuf) \in Seq(Frame) /\ f.op \in FrameOps
      /\ f.val \in Vals /\ f.len \in 0 .. MaxLen
  BY <1>1, HeadAndTail
<1>3. /\ inbuf' = Tail(inbuf) /\ counters' = c
      /\ UNCHANGED <<plan, conn, chunk, staged, partial, state, wire, failure,
                     cancelled, stored, result, history>>
  BY DEF OnPong
<1>4. /\ c \in Counts /\ c.wire = wire /\ c.outM = counters.outM
      /\ c.outM <= Limits.max_outbound_messages
      /\ \/ c.inM <= Limits.max_inbound_messages
         \/ c.inM = Limits.max_inbound_messages + 1
      /\ ~OverInbound(c, f.len) => c.inM <= Limits.max_inbound_messages
  BY <1>1, AccountedBudget
<1> HIDE DEF f, c
<1>5. CASE OverInbound(c, f.len)
  <2>1. End(Failed("budget-exhausted")) /\ UNCHANGED <<ai, transcript>>
    BY <1>5 DEF OnPong, f, c
  <2> QED
    BY <1>1, <1>2, <1>3, <1>4, <2>1, Undecided, BudgetTerminals, EndInv
    DEF SessionInv, TypeOK, history
<1>6. CASE ~OverInbound(c, f.len)
  <2> DEFINE check == IF PongMatches(f) THEN "matched" ELSE "ignored"
  <2>1. /\ transcript' = Append(transcript, Entry("inbound", f, check))
        /\ ai' = IF PongMatches(f) THEN ai + 1 ELSE ai
        /\ pc' = IF PongMatches(f) THEN "next" ELSE "decode"
        /\ UNCHANGED <<terminal, pending>>
    BY <1>6 DEF OnPong, Record, f, c
  <2>2. transcript' \in Seq(Entries)
    BY <1>2, <2>1, Recorded DEF Checks
  <2>3. ai' \in 1 .. Len(plan)
    <3>1. PongMatches(f) => ~Terminal(plan[ai])
      BY DEF PongMatches, Current, Terminal
    <3> QED BY <2>1, <3>1, OnlyLastIsTerminal DEF SessionInv, TypeOK
  <2> QED
    BY <1>1, <1>2, <1>3, <1>4, <1>6, <2>1, <2>2, <2>3
    DEF history, SessionInv, TypeOK, CopyIsCurrent, FrameInHand,
        UndecidedBeforeEnd, BudgetsHold, WireFailureDecides, PCs, Writing,
        Over, Current, Closing
<1> QED BY <1>5, <1>6

\* A ping and its answer preserve the invariant and never trip the accounting.
LEMMA OnPingInv == SessionInv /\ OnPing => SessionInv' /\ failure' = failure
<1> SUFFICES ASSUME SessionInv, OnPing PROVE SessionInv' /\ failure' = failure
  OBVIOUS
<1> DEFINE f == Head(inbuf)
           c == Accounted(FALSE)
<1>1. ~Over /\ pc = "decode" /\ inbuf \in Seq(Frame) /\ inbuf # << >>
  BY DEF OnPing, Delivers, Over, SessionInv, TypeOK
<1>2. /\ f \in Frame /\ Tail(inbuf) \in Seq(Frame) /\ f.op \in FrameOps
      /\ f.val \in Vals /\ f.len \in 0 .. MaxLen
  BY <1>1, HeadAndTail
<1>3. /\ inbuf' = Tail(inbuf) /\ counters' = c
      /\ UNCHANGED <<plan, conn, ai, chunk, staged, partial, state, cancelled,
                     stored, result, history>>
  BY DEF OnPing
<1>4. /\ c \in Counts /\ c.wire = wire /\ c.outM = counters.outM
      /\ c.outM <= Limits.max_outbound_messages
      /\ \/ c.inM <= Limits.max_inbound_messages
         \/ c.inM = Limits.max_inbound_messages + 1
      /\ ~OverInbound(c, f.len) => c.inM <= Limits.max_inbound_messages
  BY <1>1, AccountedBudget
<1> HIDE DEF f, c
<1>5. CASE OverInbound(c, f.len)
  <2>1. End(Failed("budget-exhausted")) /\ UNCHANGED <<transcript, wire, failure>>
    BY <1>5 DEF OnPing, f, c
  <2> QED
    BY <1>1, <1>2, <1>3, <1>4, <2>1, Undecided, BudgetTerminals, EndInv
    DEF SessionInv, TypeOK, history
<1>6. ASSUME ~OverInbound(c, f.len)
      PROVE  SessionInv' /\ failure' = failure
  <2>1. transcript' = Append(transcript, Entry("inbound", f, "automatic"))
    BY <1>6 DEF OnPing, Record, f, c
  <2>2. transcript' \in Seq(Entries)
    BY <1>2, <2>1, Recorded DEF Checks
  <2>3. CASE ExceedsOutbound(c, FALSE, f.len)
    <3>1. End(Failed("budget-exhausted")) /\ UNCHANGED <<wire, failure>>
      BY <1>6, <2>3 DEF OnPing, f, c
    <3> QED
      BY <1>1, <1>2, <1>3, <1>4, <1>6, <2>2, <3>1, Undecided, BudgetTerminals, EndInv
      DEF SessionInv, TypeOK, history
  <2>4. CASE ~ExceedsOutbound(c, FALSE, f.len) /\ AnswersPing
    <3> DEFINE pong == [f EXCEPT !.op = "pong"]
    <3>1. BeginWrite(pong, "pong")
      BY <1>6, <2>4 DEF OnPing, f, c
    <3>2. pong \in Frame /\ pong.len = f.len
      BY <1>2 DEF Frame, FrameOps
    <3>3. state' \in States
      BY <1>3 DEF SessionInv, TypeOK
    <3> HIDE DEF pong
    <3> QED
      BY <1>1, <1>2, <1>3, <1>4, <1>6, <2>2, <2>4, <3>1, <3>2, <3>3, WriteInv
  <2>5. CASE ~ExceedsOutbound(c, FALSE, f.len) /\ ~AnswersPing
    <3>1. /\ pending' = [op |-> "pong", val |-> f.val, len |-> f.len,
                         why |-> "unsent"]
          /\ pc' = "flush" /\ UNCHANGED <<wire, failure, terminal>>
      BY <1>6, <2>5 DEF OnPing, f, c
    <3>2. pending' \in Outbound /\ pending'.why = "unsent"
      BY <1>2, <3>1 DEF Outbound, FrameOps
    <3> QED
      BY <1>1, <1>2, <1>3, <1>4, <1>6, <2>2, <3>1, <3>2
      DEF history, SessionInv, TypeOK, CopyIsCurrent, FrameInHand,
          UndecidedBeforeEnd, BudgetsHold, WireFailureDecides, PCs, Writing,
          Over, Current, Closing
  <2> QED BY <2>3, <2>4, <2>5
<1> QED BY <1>5, <1>6

\* The peer's close and our reply preserve the invariant and never trip the
\* accounting.
LEMMA OnCloseInv == SessionInv /\ OnClose => SessionInv' /\ failure' = failure
<1> SUFFICES ASSUME SessionInv, OnClose PROVE SessionInv' /\ failure' = failure
  OBVIOUS
<1> DEFINE f == Head(inbuf)
           c == Accounted(FALSE)
<1>1. ~Over /\ pc = "decode" /\ inbuf \in Seq(Frame) /\ inbuf # << >>
  BY DEF OnClose, Delivers, Over, SessionInv, TypeOK
<1>2. /\ f \in Frame /\ Tail(inbuf) \in Seq(Frame) /\ f.op \in FrameOps
      /\ f.val \in Vals /\ f.len \in 0 .. MaxLen
  BY <1>1, HeadAndTail
<1>3. /\ inbuf' = Tail(inbuf) /\ counters' = c
      /\ UNCHANGED <<plan, conn, ai, chunk, staged, partial, cancelled, stored,
                     result, history>>
  BY DEF OnClose
<1>4. /\ c \in Counts /\ c.wire = wire /\ c.outM = counters.outM
      /\ c.outM <= Limits.max_outbound_messages
      /\ \/ c.inM <= Limits.max_inbound_messages
         \/ c.inM = Limits.max_inbound_messages + 1
      /\ ~OverInbound(c, f.len) => c.inM <= Limits.max_inbound_messages
  BY <1>1, AccountedBudget
<1> HIDE DEF f, c
<1>s. state' \in States
  BY DEF OnClose, States
<1>5. CASE OverInbound(c, f.len)
  <2>1. End(Failed("budget-exhausted")) /\ UNCHANGED <<transcript, wire, failure>>
    BY <1>5 DEF OnClose, f, c
  <2> QED
    BY <1>1, <1>2, <1>3, <1>4, <1>s, <2>1, Undecided, BudgetTerminals, EndInv
    DEF SessionInv, TypeOK, history
<1>6. CASE ~OverInbound(c, f.len) /\ Closing
  <2>1. /\ transcript' = Append(transcript, Entry("inbound", f, "acknowledged"))
        /\ End(Passed("client")) /\ UNCHANGED <<wire, failure>>
    BY <1>6 DEF OnClose, Record, f, c
  <2>2. transcript' \in Seq(Entries) /\ Passed("client") \in Terminals
    BY <1>2, <2>1, Recorded, TerminalsTyped DEF Checks
  <2> QED
    BY <1>1, <1>2, <1>3, <1>4, <1>6, <1>s, <2>1, <2>2, Undecided, EndInv
    DEF SessionInv, TypeOK, history
<1>7. ASSUME ~OverInbound(c, f.len), ~Closing
      PROVE  SessionInv' /\ failure' = failure
  <2> DEFINE check == IF CloseMatches(f.val) THEN "matched" ELSE "mismatched"
  <2>1. transcript' = Append(transcript, Entry("inbound", f, check))
    BY <1>7 DEF OnClose, Record, f, c
  <2>2. transcript' \in Seq(Entries)
    BY <1>2, <2>1, Recorded DEF Checks
  <2>3. CASE ExceedsOutbound(c, FALSE, f.len)
    <3>1. End(Failed("budget-exhausted")) /\ UNCHANGED <<wire, failure>>
      BY <1>7, <2>3 DEF OnClose, f, c
    <3> QED
      BY <1>1, <1>2, <1>3, <1>4, <1>7, <1>s, <2>2, <3>1, Undecided, BudgetTerminals,
         EndInv
      DEF SessionInv, TypeOK, history
  <2>4. CASE ~ExceedsOutbound(c, FALSE, f.len)
    <3>1. BeginWrite(f, "ack")
      BY <1>7, <2>4 DEF OnClose, f, c
    <3> QED
      BY <1>1, <1>2, <1>3, <1>4, <1>7, <1>s, <2>2, <2>4, <3>1, WriteInv
  <2> QED BY <2>3, <2>4
<1> QED BY <1>5, <1>6, <1>7

\* A write or flush that fails before anything is decided.
LEMMA WriteErrorInv ==
    ASSUME SessionInv, ~Over, NEW c \in Causes, WriteError(c),
           UNCHANGED <<plan, conn, ai, wireVars, counters, transcript, cancelled,
                       stored, result, peerSent>>,
           wireOut' \in Seq(Outbound)
    PROVE  SessionInv'
<1> DEFINE t == IF pending.why = "ack"
                THEN ClosePrecedence(CloseMatches(pending.val))
                ELSE SocketError(failure, c)
<1>1. t \in Terminals
  <2>1. CloseMatches(pending.val) \in BOOLEAN
    BY DEF CloseMatches
  <2>2. failure \in {None, "budget-exhausted"}
    BY DEF SessionInv, TypeOK
  <2> QED BY <2>1, <2>2, TerminalsTyped
<1>2. End(t)
  BY DEF WriteError
<1> HIDE DEF t
<1> QED
  BY <1>1, <1>2, Undecided, EndInv DEF SessionInv, TypeOK, wireVars

\* A failed write preserves the invariant.
LEMMA WriteFailsInv == SessionInv /\ WriteFails => SessionInv'
<1> SUFFICES ASSUME SessionInv, WriteFails PROVE SessionInv'
  OBVIOUS
<1>1. PICK c \in WriteCauses : WriteError(c)
  BY DEF WriteFails
<1>2. c \in Causes
  BY DEF WriteCauses, ApplicableTimeouts, Causes, TimeoutCauses
<1>3. ~Over
  BY DEF WriteFails, Over
<1>4. wireOut' \in Seq(Outbound) /\ peerSent' = peerSent
  BY DEF WriteFails, history, SessionInv, TypeOK
<1> QED BY <1>1, <1>2, <1>3, <1>4, WriteErrorInv DEF WriteFails

\* A failed flush preserves the invariant.
LEMMA FlushFailsInv == SessionInv /\ FlushFails => SessionInv'
<1> SUFFICES ASSUME SessionInv, FlushFails PROVE SessionInv'
  OBVIOUS
<1>1. PICK c \in (IF cancelled THEN {"cancelled"} ELSE ApplicableTimeouts)
                  \cup (IF conn.tls THEN WriteCauses ELSE {}) : WriteError(c)
  BY DEF FlushFails
<1>2. c \in Causes
  BY DEF WriteCauses, ApplicableTimeouts, Causes, TimeoutCauses
<1>3. ~Over
  BY DEF FlushFails, Over
<1>4. wireOut' \in Seq(Outbound)
  <2>1. pending \in Outbound /\ wireOut \in Seq(Outbound)
    BY DEF SessionInv, TypeOK
  <2>2. wireOut' = wireOut \/ wireOut' = Append(wireOut, pending)
    BY DEF FlushFails
  <2> QED BY <2>1, <2>2
<1> QED BY <1>1, <1>2, <1>3, <1>4, WriteErrorInv DEF FlushFails

\* A completed write, with the counters and the transcript entry that follow
\* it, preserves the invariant.
LEMMA FlushOkInv == SessionInv /\ FlushOk => SessionInv'
<1> SUFFICES ASSUME SessionInv, FlushOk PROVE SessionInv'
  OBVIOUS
<1> DEFINE d == pending.why = "action" /\ Current.type \in SendTypes
           check == IF pending.why = "action" THEN "sent" ELSE "automatic"
<1>1. ~Over /\ pending \in Outbound /\ wireOut \in Seq(Outbound) /\ pc = "flush"
  BY DEF FlushOk, Over, SessionInv, TypeOK
<1>2. wireOut' \in Seq(Outbound)
  <2>1. wireOut' = wireOut \/ wireOut' = Append(wireOut, pending)
    BY DEF FlushOk
  <2> QED BY <1>1, <2>1
<1>3. /\ counters' \in Counts /\ counters'.wire = wire
      /\ counters'.inM <= Limits.max_inbound_messages
      /\ counters'.outM <= Limits.max_outbound_messages
  <2>1. d \in BOOLEAN /\ counters' = MessageCounted(d)
    BY DEF FlushOk
  <2>2. d => counters.outM < Limits.max_outbound_messages
    BY <1>1 DEF SessionInv, FrameInHand, Writing
  <2> HIDE DEF d
  <2>3. /\ counters' \in Counts /\ counters'.wire = wire
        /\ counters'.inM = counters.inM
        /\ counters'.outM = counters.outM + (IF d THEN 1 ELSE 0)
    BY <1>1, <2>1, Undecided, CountersTyped
  <2> QED BY <1>1, <2>2, <2>3, Undecided, LimitsAreNat
<1>4. transcript' \in Seq(Entries)
  <2>1. transcript' = Append(transcript, Entry("outbound", pending, check))
    BY DEF FlushOk, Record
  <2>2. /\ pending.op \in FrameOps \cup {None} /\ pending.val \in Vals \cup {None}
        /\ pending.len \in 0 .. MaxLen
    BY <1>1 DEF Outbound
  <2> QED BY <2>1, <2>2, Recorded DEF Checks
<1>5. UNCHANGED <<plan, conn, wireVars, cancelled, stored, result, peerSent>>
  BY DEF FlushOk
<1>6. CASE pending.why = "ack"
  <2> DEFINE t == ClosePrecedence(CloseMatches(pending.val))
  <2>1. t \in Terminals
    <3>1. CloseMatches(pending.val) \in BOOLEAN BY DEF CloseMatches
    <3> QED BY <3>1, TerminalsTyped
  <2>2. End(t) /\ ai' = ai
    BY <1>6 DEF FlushOk
  <2> HIDE DEF t
  <2> QED
    BY <1>1, <1>2, <1>3, <1>4, <1>5, <2>1, <2>2, Undecided, EndInv
    DEF SessionInv, TypeOK, wireVars
<1>7. CASE pending.why # "ack"
  <2> DEFINE adv == pending.why = "action" /\ ~Closing
  <2>1. /\ pending' = NoFrame /\ terminal' = terminal
        /\ pc' = (IF adv THEN "next" ELSE "decode")
        /\ ai' = (IF adv THEN ai + 1 ELSE ai)
    BY <1>7 DEF FlushOk
  <2>2. ai' \in 1 .. Len(plan)
    <3>1. adv => ~Terminal(plan[ai])
      BY <1>1 DEF SessionInv, FrameInHand, Writing, Current, Closing, Terminal,
                  IsOutbound, SendTypes
    <3> QED BY <2>1, <3>1, OnlyLastIsTerminal DEF SessionInv, TypeOK
  <2>3. pc' \in {"next", "decode"}
    BY <2>1
  <2> HIDE DEF adv
  <2> QED
    BY <1>1, <1>2, <1>3, <1>4, <1>5, <2>1, <2>2, <2>3, ConstantsTyped
    DEF wireVars, SessionInv, TypeOK, CopyIsCurrent, FrameInHand,
        UndecidedBeforeEnd, BudgetsHold, WireFailureDecides, PCs, Writing,
        Over, Current, Closing
<1> QED BY <1>6, <1>7

\* Every step of a session preserves the invariant.
LEMMA SessionStep == SessionInv /\ [Next]_vars => SessionInv'
<1> SUFFICES ASSUME SessionInv, [Next]_vars PROVE SessionInv'
  OBVIOUS
<1>1. CASE Local
  BY <1>1, ObserveBufferedInv, ConnectedInv, StartSendInv, StartExpectInv, EnterReadInv, ObserveInv, ReadReturnsInv,
     OnFragmentInv, OnDataInv, OnPingInv, OnPongInv, OnCloseInv, EnterWriteInv,
     FlushOkInv, FlushFailsInv, StoreTranscriptInv, PersistObservationInv
  DEF Local, Handler
<1>2. CASE ReadSyscall \/ RetryRead \/ WriteSyscall \/ RetryWrite
  BY <1>2, ReceiveInv, ReadFailsInv, RetryReadInv, WriteOkInv, WriteFailsInv,
     RetryWriteInv
  DEF ReadSyscall, WriteSyscall
<1>3. CASE Spin \/ Cancel \/ Returned
  BY <1>3, SpinInv, CancelInv, ReturnedInv
<1>4. CASE UNCHANGED vars
  BY <1>4
  DEF vars, wireVars, endVars, history, SessionInv, TypeOK, CopyIsCurrent,
      FrameInHand, UndecidedBeforeEnd, BudgetsHold, WireFailureDecides, PCs,
      Writing, Over, Current, Closing
<1> QED BY <1>1, <1>2, <1>3, <1>4 DEF Next

\* The invariant holds when a session starts.
LEMMA SessionInitially == Init => SessionInv
<1> SUFFICES ASSUME Init PROVE SessionInv
  OBVIOUS
<1>1. TypeOK BY InitType
<1>2. CopyIsCurrent /\ FrameInHand /\ UndecidedBeforeEnd /\ WireFailureDecides
  BY
  DEF Init, CopyIsCurrent, FrameInHand, UndecidedBeforeEnd, WireFailureDecides,
         ZeroCounters, ZeroWire, Writing, Over
<1>3. BudgetsHold
  BY LimitsAreNat DEF Init, BudgetsHold, ZeroCounters, ZeroWire
<1> QED BY <1>1, <1>2, <1>3 DEF SessionInv

\* The invariant holds in every reachable state, for every plan, limits, peer
\* and connection.
THEOREM SessionInvariant == Spec => []SessionInv
BY SessionInitially, SessionStep, PTL DEF Spec


\* Every reachable state is well typed, and the executor never indexes past the
\* last action of the plan (execute_connected_websocket's loop).
THEOREM TypeCorrect == Spec => []TypeOK
BY SessionInvariant, PTL DEF SessionInv

\* The accounted traffic never passes a sealed limit, however the peer cuts its
\* stream and however automatic answers interleave with the plan's own sends.
THEOREM Budgets == Spec => []BudgetsHold
BY SessionInvariant, PTL DEF SessionInv

\* An accounting failure is the verdict of the session that met it
\* (socket_error and sync_wire_counters).
THEOREM FailureDecides == Spec => []WireFailureDecides
BY SessionInvariant, PTL DEF SessionInv

\* A step that changes the accounting failure observes inbound bytes.
LEMMA OnlyObserveFails ==
    SessionInv /\ [Next]_vars => 
       (failure' # failure => pc \in {"upgraded", "observe"})
<1> SUFFICES ASSUME SessionInv, [Next]_vars, failure' # failure
             PROVE  pc \in {"upgraded", "observe"}
  OBVIOUS
<1>1. ~StartSend /\ ~OnPing /\ ~OnClose
  BY StartSendInv, OnPingInv, OnCloseInv
<1>2. CASE Local
  BY <1>1, <1>2
  DEF Local, Handler, ObserveBuffered, Connected, StartExpect, EnterRead, Observe, ReadReturns, OnFragment,
      OnData, OnPong, EnterWrite, FlushOk, FlushFails, StoreTranscript,
      PersistObservation, wireVars
<1>3. CASE ReadSyscall \/ RetryRead \/ WriteSyscall \/ RetryWrite
  BY <1>3
  DEF ReadSyscall, Receive, ReadFails, RetryRead, WriteSyscall, WriteOk,
      WriteFails, RetryWrite, wireVars
<1>4. CASE Spin \/ Cancel \/ Returned
  BY <1>4 DEF Spin, Cancel, Returned, vars, wireVars
<1>5. CASE UNCHANGED vars
  BY <1>5 DEF vars, wireVars
<1> QED BY <1>2, <1>3, <1>4, <1>5 DEF Next

\* The executor's budget check on its copy of the counters is as strict as the
\* wire's: no frame it lets through ever trips the outbound WireParser.
THEOREM NeverTrips == Spec => OutboundNeverTrips
<1>1. SessionInv /\ [Next]_vars =>
         [failure' # failure => pc \in {"upgraded", "observe"}]_vars
  BY OnlyObserveFails
<1> QED BY <1>1, SessionInvariant, PTL DEF Spec, OutboundNeverTrips
-----------------------------------------------------------------------------
(* The inductive invariant behind the verdict and the observation.         *)

\* The entries of a transcript t that belong to action i.
EntriesIn(t, i, d, checks) ==
    {k \in DOMAIN t : t[k].ai = i /\ t[k].dir = d /\ t[k].check \in checks}

SentOnce(p, t, i) ==
    \E k \in EntriesIn(t, i, "outbound", {"sent"}) :
       /\ EntriesIn(t, i, "outbound", {"sent"}) = {k}
       /\ t[k].val = p[i].val

MatchedOnce(p, t, i) ==
    \E k \in EntriesIn(t, i, "inbound", {"matched"}) :
       /\ EntriesIn(t, i, "inbound", {"matched"}) = {k}
       /\ t[k].op \in ExpectedOps(p[i].type)
       /\ t[k].val \in p[i].accepts

\* Action i did its part.
Performed(p, t, i) ==
    /\ IsOutbound(p[i]) => SentOnce(p, t, i)
    /\ p[i].type \in ExpectTypes => MatchedOnce(p, t, i)

\* An entry that settles nothing about action a.
Unsettling(e, a) ==
    /\ e.check \notin {"mismatched", "unexpected", "acknowledged"}
    /\ e.check = "matched" => e.op # "close" /\ e.ai # a

Running == ~Over /\ pc # "spin"
Waiting == pc \in {"decode", "reading", "observe"}
Replying == pending.why = "ack"

\* The entries are in the order of the actions, none past the current one.
InPlanOrder ==
    /\ \A k \in DOMAIN transcript : transcript[k].ai <= ai
    /\ \A k, l \in DOMAIN transcript :
          k < l => transcript[k].ai <= transcript[l].ai

\* A frame is in hand exactly while it is written; an automatic answer is
\* only ever in hand where the plan waits for the peer.
HandMatchesPlan ==
    /\ ~Writing /\ pc # "spin" => pending = NoFrame
    /\ Running /\ (Waiting \/ pending.why \in {"pong", "unsent"}) =>
          Current.type \in ExpectTypes \cup {"close"}
    /\ Running /\ Replying => Current.type \in ExpectTypes
    /\ Writing => pending.why \in {"action", "pong", "unsent", "ack"}
    /\ Writing /\ pending.why = "action" => pending.val = Current.val

\* Every action before the current one did its part, ...
PastPerformed == Running => \A i \in 1 .. (ai - 1) : Performed(plan, transcript, i)

\* ... the current one is not settled, but for the peer's close while it is
\* being answered, ...
PresentUnsettled ==
    /\ Running => \A k \in DOMAIN transcript :
          k < Len(transcript) \/ ~Replying => Unsettling(transcript[k], ai)
    /\ Running /\ Replying =>
          /\ transcript # << >>
          /\ transcript[Len(transcript)] =
                [dir |-> "inbound", op |-> "close", val |-> pending.val,
                 len |-> pending.len, ai |-> ai,
                 check |-> IF CloseMatches(pending.val) THEN "matched"
                                                        ELSE "mismatched"]

\* ... and it was sent only if it is our close, whose answer we wait for.
PresentSent ==
    Running =>
       IF Closing /\ (Waiting \/ pending.why \in {"pong", "unsent"})
       THEN SentOnce(plan, transcript, ai)
       ELSE EntriesIn(transcript, ai, "outbound", {"sent"}) = {}

\* The end: a verdict, then the transcript, then the observation.
Ending ==
    /\ Over => terminal.outcome # None
    /\ pc = "persist" => "transcript" \in stored /\ counters.wire = wire
    /\ result = "observation" => pc = "done"

VerdictInv ==
    /\ InPlanOrder /\ HandMatchesPlan /\ PastPerformed /\ PresentUnsettled
    /\ PresentSent /\ Ending
    /\ PassedMeansExecuted /\ AcceptedCloseDecides /\ ObservationBacked
-----------------------------------------------------------------------------
(* Lemmas about transcripts.                                               *)

LEMMA EntriesAppend ==
    ASSUME NEW t \in Seq(Entries), NEW e \in Entries, NEW i, NEW d, NEW C
    PROVE  /\ e.ai = i /\ e.dir = d /\ e.check \in C =>
                 EntriesIn(Append(t, e), i, d, C) =
                    EntriesIn(t, i, d, C) \cup {Len(Append(t, e))}
           /\ ~(e.ai = i /\ e.dir = d /\ e.check \in C) =>
                 EntriesIn(Append(t, e), i, d, C) = EntriesIn(t, i, d, C)
<1>1. /\ Len(t) \in Nat /\ DOMAIN t = 1 .. Len(t)
      /\ DOMAIN Append(t, e) = 1 .. (Len(t) + 1)
      /\ Append(t, e)[Len(t) + 1] = e
      /\ \A k \in 1 .. Len(t) : Append(t, e)[k] = t[k]
  OBVIOUS
<1> DEFINE q == Append(t, e)
<1> HIDE DEF q
<1>2. ASSUME NEW k
      PROVE  k \in EntriesIn(q, i, d, C) <=>
                \/ k \in EntriesIn(t, i, d, C)
                \/ k = Len(t) + 1 /\ e.ai = i /\ e.dir = d /\ e.check \in C
  <2>1. CASE k \in 1 .. Len(t)
    BY <1>1, <2>1 DEF EntriesIn, q
  <2>2. CASE k = Len(t) + 1
    BY <1>1, <2>2 DEF EntriesIn, q
  <2>3. CASE k \notin 1 .. Len(t) /\ k # Len(t) + 1
    <3>1. k \notin 1 .. (Len(t) + 1)
      BY <1>1, <2>3
    <3> QED BY <1>1, <2>3, <3>1 DEF EntriesIn, q
  <2> QED BY <2>1, <2>2, <2>3
<1>3. e.ai = i /\ e.dir = d /\ e.check \in C =>
         EntriesIn(q, i, d, C) = EntriesIn(t, i, d, C) \cup {Len(t) + 1}
  BY <1>2
<1>4. ~(e.ai = i /\ e.dir = d /\ e.check \in C) =>
         EntriesIn(q, i, d, C) = EntriesIn(t, i, d, C)
  BY <1>2
<1>5. Len(Append(t, e)) = Len(t) + 1
  OBVIOUS
<1> QED BY <1>3, <1>4, <1>5 DEF q

\* A transcript and one entry more.
LEMMA TranscriptAppend ==
    ASSUME NEW t \in Seq(Entries), NEW e \in Entries
    PROVE  /\ Append(t, e) \in Seq(Entries) /\ Append(t, e) # << >>
           /\ Len(t) \in Nat /\ DOMAIN t = 1 .. Len(t)
           /\ Len(Append(t, e)) = Len(t) + 1
           /\ DOMAIN Append(t, e) = 1 .. (Len(t) + 1)
           /\ Append(t, e)[Len(t) + 1] = e
           /\ \A k \in DOMAIN t : Append(t, e)[k] = t[k]
           /\ \A k \in DOMAIN Append(t, e) : k \in DOMAIN t \/ k = Len(t) + 1
OBVIOUS

\* What an action did is not undone by a later entry of another kind.
LEMMA StillSent ==
    ASSUME NEW t \in Seq(Entries), NEW e \in Entries, NEW p, NEW i,
           SentOnce(p, t, i), ~(e.ai = i /\ e.dir = "outbound" /\ e.check = "sent")
    PROVE  SentOnce(p, Append(t, e), i)
<1>1. EntriesIn(Append(t, e), i, "outbound", {"sent"})
         = EntriesIn(t, i, "outbound", {"sent"})
  <2> DEFINE C == {"sent"}
  <2>1. ~(e.ai = i /\ e.dir = "outbound" /\ e.check \in C)
    OBVIOUS
  <2> HIDE DEF C
  <2>2. EntriesIn(Append(t, e), i, "outbound", C) = EntriesIn(t, i, "outbound", C)
    BY <2>1, EntriesAppend
  <2> QED BY <2>2 DEF C
<1>2. PICK k \in EntriesIn(t, i, "outbound", {"sent"}) :
         /\ EntriesIn(t, i, "outbound", {"sent"}) = {k}
         /\ t[k].val = p[i].val
  BY DEF SentOnce
<1>3. k \in DOMAIN t
  BY <1>2 DEF EntriesIn
<1>4. Append(t, e)[k] = t[k]
  BY <1>3, TranscriptAppend
<1> QED BY <1>1, <1>2, <1>4 DEF SentOnce

LEMMA StillMatched ==
    ASSUME NEW t \in Seq(Entries), NEW e \in Entries, NEW p, NEW i,
           MatchedOnce(p, t, i),
           ~(e.ai = i /\ e.dir = "inbound" /\ e.check = "matched")
    PROVE  MatchedOnce(p, Append(t, e), i)
<1>1. EntriesIn(Append(t, e), i, "inbound", {"matched"})
         = EntriesIn(t, i, "inbound", {"matched"})
  <2> DEFINE C == {"matched"}
  <2>1. ~(e.ai = i /\ e.dir = "inbound" /\ e.check \in C)
    OBVIOUS
  <2> HIDE DEF C
  <2>2. EntriesIn(Append(t, e), i, "inbound", C) = EntriesIn(t, i, "inbound", C)
    BY <2>1, EntriesAppend
  <2> QED BY <2>2 DEF C
<1>2. PICK k \in EntriesIn(t, i, "inbound", {"matched"}) :
         /\ EntriesIn(t, i, "inbound", {"matched"}) = {k}
         /\ t[k].op \in ExpectedOps(p[i].type) /\ t[k].val \in p[i].accepts
  BY DEF MatchedOnce
<1>3. k \in DOMAIN t
  BY <1>2 DEF EntriesIn
<1>4. Append(t, e)[k] = t[k]
  BY <1>3, TranscriptAppend
<1> QED BY <1>1, <1>2, <1>4 DEF MatchedOnce

\* An entry of a later action leaves the earlier ones as they were.
LEMMA StillPerformed ==
    ASSUME NEW t \in Seq(Entries), NEW e \in Entries, NEW p, NEW i,
           Performed(p, t, i), e.ai # i
    PROVE  Performed(p, Append(t, e), i)
BY StillSent, StillMatched DEF Performed

\* The first entry of its kind.
LEMMA NowSent ==
    ASSUME NEW t \in Seq(Entries), NEW e \in Entries, NEW p, NEW i,
           EntriesIn(t, i, "outbound", {"sent"}) = {},
           e.ai = i, e.dir = "outbound", e.check = "sent", e.val = p[i].val
    PROVE  SentOnce(p, Append(t, e), i)
<1> DEFINE C == {"sent"}
<1>1. e.check \in C /\ EntriesIn(t, i, "outbound", C) = {}
  OBVIOUS
<1> HIDE DEF C
<1>2. EntriesIn(Append(t, e), i, "outbound", C) =
         EntriesIn(t, i, "outbound", C) \cup {Len(Append(t, e))}
  BY <1>1, EntriesAppend
<1>3. EntriesIn(Append(t, e), i, "outbound", C) = {Len(Append(t, e))}
  BY <1>1, <1>2
<1> QED BY <1>3, TranscriptAppend DEF C, SentOnce

LEMMA NowMatched ==
    ASSUME NEW t \in Seq(Entries), NEW e \in Entries, NEW p, NEW i,
           EntriesIn(t, i, "inbound", {"matched"}) = {},
           e.ai = i, e.dir = "inbound", e.check = "matched",
           e.op \in ExpectedOps(p[i].type), e.val \in p[i].accepts
    PROVE  MatchedOnce(p, Append(t, e), i)
<1> DEFINE C == {"matched"}
<1>1. e.check \in C /\ EntriesIn(t, i, "inbound", C) = {}
  OBVIOUS
<1> HIDE DEF C
<1>2. EntriesIn(Append(t, e), i, "inbound", C) =
         EntriesIn(t, i, "inbound", C) \cup {Len(Append(t, e))}
  BY <1>1, EntriesAppend
<1>3. EntriesIn(Append(t, e), i, "inbound", C) = {Len(Append(t, e))}
  BY <1>1, <1>2
<1> QED BY <1>3, TranscriptAppend DEF C, MatchedOnce
-----------------------------------------------------------------------------
(* Steps, by what they do to the transcript.                               *)

\* What every step relies on.
LEMMA SessionFacts ==
    ASSUME SessionInv
    PROVE  /\ transcript \in Seq(Entries) /\ plan \in Seq(Action)
           /\ ai \in 1 .. Len(plan) /\ ai \in Nat /\ Current \in Action
           /\ Len(plan) \in Nat /\ DOMAIN plan = 1 .. Len(plan)
           /\ Terminal(Current) <=> ai = Len(plan)
BY OnlyLastIsTerminal DEF SessionInv, TypeOK, Current

\* No observation before the session is over.
LEMMA NotYetReturned ==
    ASSUME VerdictInv, ~Over
    PROVE  result # "observation"
BY DEF VerdictInv, Ending, Over

\* A step between two points of the loop that leaves the transcript, the
\* action and the frame in hand alone.
LEMMA QuietStep ==
    ASSUME SessionInv, VerdictInv, ~Over, ~Over', terminal' = terminal,
           result' = result,
           plan' = plan, ai' = ai, transcript' = transcript, pending' = pending,
           \/ pc' = pc
           \/ pc' = "spin"
           \/ Writing /\ pc' \in {"write", "writing", "flush"}
           \/ Waiting /\ pc' \in {"decode", "reading", "observe"}
           \/ pc = "upgraded" /\ pc' = "next"
           \/ pc = "next" /\ pc' = "decode" /\ Current.type \in ExpectTypes
    PROVE  VerdictInv'
<1>1. InPlanOrder'
  BY DEF VerdictInv, InPlanOrder
<1>2. Running' => Running
  BY DEF Running, Waiting, Writing
<1>3. Writing' => Writing
  BY DEF Waiting, Writing
<1>4. HandMatchesPlan'
  BY <1>2, <1>3
  DEF VerdictInv, HandMatchesPlan, Waiting, Writing, Running, Replying, Over,
      Current, NoFrame
<1>5. PastPerformed'
  BY <1>2 DEF VerdictInv, PastPerformed
<1>6. PresentUnsettled'
  BY <1>2 DEF VerdictInv, PresentUnsettled, Replying, CloseMatches, Current
<1>7. PresentSent'
  <2> SUFFICES ASSUME Running'
               PROVE  IF Closing /\ (Waiting' \/ pending.why \in {"pong", "unsent"})
                      THEN SentOnce(plan, transcript, ai)
                      ELSE EntriesIn(transcript, ai, "outbound", {"sent"}) = {}
    BY DEF PresentSent, Closing, Current
  <2>1. Closing /\ Waiting' => Waiting
    BY DEF Waiting, Writing, Running, Closing, ExpectTypes
  <2>2. Waiting => Waiting'
    BY DEF Waiting, Writing, Running
  <2> QED BY <1>2, <2>1, <2>2 DEF VerdictInv, PresentSent
<1>8. terminal = NoTerminal
  BY Undecided
<1>9. Ending' /\ ObservationBacked'
  BY NotYetReturned DEF VerdictInv, Ending, ObservationBacked, Over
<1>10. PassedMeansExecuted' /\ AcceptedCloseDecides'
  BY <1>8 DEF PassedMeansExecuted, AcceptedCloseDecides, NoTerminal
<1> QED
  BY <1>1, <1>4, <1>5, <1>6, <1>7, <1>9, <1>10 DEF VerdictInv

\* A step that ends the session with a verdict.
LEMMA EndStep ==
    ASSUME SessionInv, VerdictInv, ~Over, pc' = "finish", pending' = NoFrame,
           result' = result, terminal'.outcome # None,
           InPlanOrder', PassedMeansExecuted', AcceptedCloseDecides'
    PROVE  VerdictInv'
<1>1. Over' /\ ~Running' /\ ~Writing'
  BY DEF Over, Running, Writing
<1>2. HandMatchesPlan' /\ PastPerformed' /\ PresentUnsettled' /\ PresentSent'
  BY <1>1 DEF HandMatchesPlan, PastPerformed, PresentUnsettled, PresentSent
<1>3. Ending' /\ ObservationBacked'
  BY NotYetReturned DEF Ending, ObservationBacked
<1> QED BY <1>2, <1>3 DEF VerdictInv

\* It ends without a pass and the close of the peer is not in question.
LEMMA FailStep ==
    ASSUME SessionInv, VerdictInv, ~Over, pc' = "finish", pending' = NoFrame,
           result' = result, terminal'.outcome \notin {None, "passed"},
           InPlanOrder',
           \A k \in DOMAIN transcript' :
              ~(transcript'[k].op = "close" /\ transcript'[k].check = "matched")
    PROVE  VerdictInv'
<1>1. PassedMeansExecuted' /\ AcceptedCloseDecides'
  BY DEF PassedMeansExecuted, AcceptedCloseDecides
<1> QED BY <1>1, EndStep

\* Nor does it record anything.
LEMMA FailQuietly ==
    ASSUME SessionInv, VerdictInv, Running, ~Replying,
           NEW t, End(t), t.outcome \notin {None, "passed"},
           result' = result, ai' = ai, transcript' = transcript
    PROVE  VerdictInv'
<1>1. InPlanOrder'
  BY DEF VerdictInv, InPlanOrder
<1>2. \A k \in DOMAIN transcript : Unsettling(transcript[k], ai)
  BY DEF VerdictInv, PresentUnsettled
<1>3. \A k \in DOMAIN transcript' :
         ~(transcript'[k].op = "close" /\ transcript'[k].check = "matched")
  BY <1>2 DEF Unsettling
<1> QED BY <1>1, <1>3, FailStep DEF End, Running

\* Without a frame in hand nothing is being answered.
LEMMA EmptyHanded ==
    ASSUME VerdictInv, ~Writing, pc # "spin"
    PROVE  pending = NoFrame /\ ~Replying /\ pending.why \notin {"pong", "unsent"}
BY DEF VerdictInv, HandMatchesPlan, NoFrame, Replying

\* A verdict other than a pass.
LEMMA NotPassed ==
    /\ \A c : Failed(c).outcome = "failed" /\ Errored(c).outcome = "error"
    /\ \A fl, c : SocketError(fl, c).outcome \in {"failed", "error"}
    /\ \A c : FailureTerminal(c).outcome \in {"failed", "error"}
BY DEF Failed, Errored, SocketError, FailureTerminal

\* After the end nothing that a verdict is about changes.
LEMMA OverStep ==
    ASSUME SessionInv, VerdictInv, Over, Over', plan' = plan, ai' = ai,
           transcript' = transcript, terminal' = terminal, pending' = pending,
           wire' = wire, Ending', ObservationBacked'
    PROVE  VerdictInv'
<1>1. ~Running' /\ ~Writing' /\ ~Running /\ ~Writing
  BY DEF Over, Running, Writing
<1>2. InPlanOrder'
  BY DEF VerdictInv, InPlanOrder
<1>3. pending' = NoFrame
  BY <1>1 DEF VerdictInv, HandMatchesPlan, Over
<1>4. HandMatchesPlan' /\ PastPerformed' /\ PresentUnsettled' /\ PresentSent'
  BY <1>1, <1>3 DEF HandMatchesPlan, PastPerformed, PresentUnsettled, PresentSent
<1>5. PassedMeansExecuted'
  BY DEF VerdictInv, PassedMeansExecuted, EntriesOf
<1>6. AcceptedCloseDecides'
  BY DEF VerdictInv, AcceptedCloseDecides
<1> QED BY <1>2, <1>4, <1>5, <1>6 DEF VerdictInv
-----------------------------------------------------------------------------
(* Steps that record an entry.                                             *)

\* An entry of the current action keeps the order and what came before.
LEMMA RecordedInOrder ==
    ASSUME SessionInv, VerdictInv, NEW e \in Entries, e.ai = ai,
           NEW t, t = Append(transcript, e), NEW a, a \in {ai, ai + 1}
    PROVE  /\ \A k \in DOMAIN t : t[k].ai <= a
           /\ \A k, l \in DOMAIN t : k < l => t[k].ai <= t[l].ai
<1>1. /\ transcript \in Seq(Entries) /\ ai \in Nat
  BY SessionFacts
<1>2. /\ Len(transcript) \in Nat /\ DOMAIN transcript = 1 .. Len(transcript)
      /\ t[Len(transcript) + 1] = e
      /\ \A k \in DOMAIN transcript : t[k] = transcript[k]
      /\ \A k \in DOMAIN t : k \in DOMAIN transcript \/ k = Len(transcript) + 1
  BY <1>1, TranscriptAppend
<1>3. /\ \A k \in DOMAIN transcript : transcript[k].ai <= ai
      /\ \A k, l \in DOMAIN transcript :
            k < l => transcript[k].ai <= transcript[l].ai
  BY DEF VerdictInv, InPlanOrder
<1>4. \A k \in DOMAIN transcript : transcript[k].ai \in Nat
  <2>1. \A k \in DOMAIN transcript : transcript[k] \in Entries
    BY <1>1
  <2> QED BY <2>1 DEF Entries
<1>5. \A k \in DOMAIN t : t[k].ai \in Nat /\ t[k].ai <= ai
  BY <1>1, <1>2, <1>3, <1>4
<1>6. \A k \in DOMAIN t : t[k].ai <= a
  BY <1>1, <1>5
<1>7. ASSUME NEW k \in DOMAIN t, NEW l \in DOMAIN t, k < l
      PROVE  t[k].ai <= t[l].ai
  <2>1. CASE l = Len(transcript) + 1
    BY <1>2, <1>5, <2>1
  <2>2. CASE l \in DOMAIN transcript
    <3>1. k \in DOMAIN transcript
      BY <1>2, <1>7, <2>2
    <3> QED BY <1>2, <1>3, <1>7, <2>2, <3>1
  <2> QED BY <1>2, <2>1, <2>2
<1> QED BY <1>6, <1>7

\* Nothing of the current action has matched while it is unsettled.
LEMMA NothingMatched ==
    ASSUME VerdictInv, Running, ~Replying
    PROVE  /\ \A k \in DOMAIN transcript : Unsettling(transcript[k], ai)
           /\ EntriesIn(transcript, ai, "inbound", {"matched"}) = {}
           /\ EntriesIn(transcript, ai, "inbound", {"acknowledged"}) = {}
<1>1. \A k \in DOMAIN transcript : Unsettling(transcript[k], ai)
  BY DEF VerdictInv, PresentUnsettled
<1> QED BY <1>1 DEF Unsettling, EntriesIn

\* What an entry that settles nothing leaves as it was.
LEMMA NeutralFacts ==
    ASSUME SessionInv, VerdictInv, Running, ~Replying,
           NEW e \in Entries, e.ai = ai, e.check \in {"automatic", "ignored"},
           NEW t, t = Append(transcript, e)
    PROVE  /\ \A k \in DOMAIN t : Unsettling(t[k], ai)
           /\ \A i \in 1 .. (ai - 1) : Performed(plan, t, i)
           /\ SentOnce(plan, transcript, ai) => SentOnce(plan, t, ai)
           /\ EntriesIn(t, ai, "outbound", {"sent"})
                 = EntriesIn(transcript, ai, "outbound", {"sent"})
<1>1. transcript \in Seq(Entries) /\ ai \in Nat
  BY SessionFacts
<1>2. \A k \in DOMAIN t : Unsettling(t[k], ai)
  <2>1. Unsettling(e, ai)
    BY DEF Unsettling
  <2> QED BY <1>1, <2>1, NothingMatched, TranscriptAppend
<1>3. ASSUME NEW i \in 1 .. (ai - 1) PROVE Performed(plan, t, i)
  <2>1. e.ai # i
    BY <1>1, <1>3
  <2>2. Performed(plan, transcript, i)
    BY DEF VerdictInv, PastPerformed
  <2> QED BY <1>1, <2>1, <2>2, StillPerformed
<1>4. SentOnce(plan, transcript, ai) => SentOnce(plan, t, ai)
  BY <1>1, StillSent
<1>5. EntriesIn(t, ai, "outbound", {"sent"})
         = EntriesIn(transcript, ai, "outbound", {"sent"})
  <2> DEFINE C == {"sent"}
  <2>1. e.check \notin C
    OBVIOUS
  <2> HIDE DEF C
  <2>2. EntriesIn(t, ai, "outbound", C) = EntriesIn(transcript, ai, "outbound", C)
    BY <1>1, <2>1, EntriesAppend
  <2> QED BY <2>2 DEF C
<1> QED BY <1>2, <1>3, <1>4, <1>5

Answering == pending.why \in {"pong", "unsent"}

\* An automatic or ignored message, where the plan waits for the peer.
LEMMA NeutralStep ==
    ASSUME SessionInv, VerdictInv, Running, ~Replying, Waiting \/ Answering,
           NEW e \in Entries, e.ai = ai, e.check \in {"automatic", "ignored"},
           transcript' = Append(transcript, e), plan' = plan, ai' = ai,
           terminal' = terminal, result' = result,
           \/ Waiting' /\ pending' = NoFrame
           \/ Writing' /\ Answering'
    PROVE  VerdictInv'
<1>1. Running' /\ ~Replying' /\ ~Over /\ ~Over' /\ (Waiting' \/ Answering')
  BY DEF Waiting, Writing, Running, Over, Replying, Answering, NoFrame
<1>2. InPlanOrder'
  BY RecordedInOrder DEF InPlanOrder
<1>3. HandMatchesPlan'
  <2>1. Current.type \in ExpectTypes \cup {"close"}
    BY DEF VerdictInv, HandMatchesPlan, Answering
  <2> QED
    BY <1>1, <2>1
    DEF HandMatchesPlan, Current, Replying, Answering, Waiting, Writing
<1>4. PastPerformed'
  BY NeutralFacts DEF PastPerformed
<1>5. PresentUnsettled'
  BY <1>1, NeutralFacts DEF PresentUnsettled
<1>6. PresentSent'
  <2>1. IF Closing THEN SentOnce(plan, transcript, ai)
        ELSE EntriesIn(transcript, ai, "outbound", {"sent"}) = {}
    BY DEF VerdictInv, PresentSent, Answering
  <2>2. IF Closing THEN SentOnce(plan, transcript', ai)
        ELSE EntriesIn(transcript', ai, "outbound", {"sent"}) = {}
    BY <2>1, NeutralFacts
  <2> QED BY <1>1, <2>2 DEF PresentSent, Closing, Current, Answering
<1>7. terminal = NoTerminal
  BY <1>1, Undecided
<1>8. Ending' /\ ObservationBacked'
  BY <1>1, NotYetReturned DEF VerdictInv, Ending, ObservationBacked, Over
<1>9. PassedMeansExecuted' /\ AcceptedCloseDecides'
  BY <1>1, <1>7 DEF PassedMeansExecuted, AcceptedCloseDecides, NoTerminal
<1> QED
  BY <1>2, <1>3, <1>4, <1>5, <1>6, <1>8, <1>9 DEF VerdictInv

\* A message is recorded and the session fails.
LEMMA FailRecorded ==
    ASSUME SessionInv, VerdictInv, Running, ~Replying,
           NEW e \in Entries, e.ai = ai, ~(e.op = "close" /\ e.check = "matched"),
           transcript' = Append(transcript, e), ai' = ai, result' = result,
           NEW t, End(t), t.outcome \notin {None, "passed"}
    PROVE  VerdictInv'
<1>1. InPlanOrder'
  BY RecordedInOrder DEF InPlanOrder
<1>2. transcript \in Seq(Entries)
  BY SessionFacts
<1>3. \A k \in DOMAIN transcript' :
         ~(transcript'[k].op = "close" /\ transcript'[k].check = "matched")
  BY <1>2, NothingMatched, TranscriptAppend DEF Unsettling
<1> QED BY <1>1, <1>3, FailStep DEF End, Running

\* The current action is done, and the next one is taken.
LEMMA AdvanceStep ==
    ASSUME SessionInv, VerdictInv, Running, ~Replying,
           NEW e \in Entries, e.ai = ai, e.check \in {"matched", "sent"},
           e.check = "matched" => e.op # "close",
           transcript' = Append(transcript, e), plan' = plan, ai' = ai + 1,
           Performed(plan, transcript', ai),
           pc' = "next", pending' = NoFrame, terminal' = terminal,
           result' = result
    PROVE  VerdictInv'
<1>0. transcript \in Seq(Entries) /\ ai \in Nat
  BY SessionFacts
<1>1. Running' /\ ~Replying' /\ ~Over /\ ~Over' /\ ~Waiting' /\ ~Writing'
  BY DEF Waiting, Writing, Running, Over, Replying, NoFrame
<1>2. InPlanOrder'
  BY RecordedInOrder DEF InPlanOrder
<1>3. HandMatchesPlan'
  BY <1>1 DEF HandMatchesPlan, NoFrame
<1>4. ASSUME NEW i \in 1 .. ((ai + 1) - 1) PROVE Performed(plan, transcript', i)
  <2>1. CASE i = ai
    BY <2>1
  <2>2. CASE i # ai
    <3>1. i \in 1 .. (ai - 1)
      BY <1>0, <2>2
    <3>2. Performed(plan, transcript, i)
      BY <3>1 DEF VerdictInv, PastPerformed
    <3> QED BY <1>0, <2>2, <3>2, StillPerformed
  <2> QED BY <2>1, <2>2
<1>5. PastPerformed'
  BY <1>4 DEF PastPerformed
<1>6. \A k \in DOMAIN transcript' : transcript'[k].ai # ai + 1
  <2>1. \A k \in DOMAIN transcript' : transcript'[k].ai <= ai
    BY RecordedInOrder
  <2> QED BY <1>0, <2>1
<1>7. PresentUnsettled'
  <2>1. \A k \in DOMAIN transcript' : Unsettling(transcript'[k], ai + 1)
    BY <1>0, <1>6, NothingMatched, TranscriptAppend DEF Unsettling
  <2> QED BY <1>1, <2>1 DEF PresentUnsettled
<1>8. PresentSent'
  BY <1>1, <1>6 DEF PresentSent, EntriesIn, NoFrame
<1>9. terminal = NoTerminal
  BY <1>1, Undecided
<1>10. Ending' /\ ObservationBacked'
  BY <1>1, NotYetReturned DEF VerdictInv, Ending, ObservationBacked, Over
<1>11. PassedMeansExecuted' /\ AcceptedCloseDecides'
  BY <1>1, <1>9 DEF PassedMeansExecuted, AcceptedCloseDecides, NoTerminal
<1> QED
  BY <1>2, <1>3, <1>5, <1>7, <1>8, <1>10, <1>11 DEF VerdictInv
-----------------------------------------------------------------------------
(* Steps that decide the session.                                          *)

\* A pass with every action of the plan performed.
LEMMA PassStep ==
    ASSUME SessionInv, VerdictInv, Running, plan' = plan, ai' = ai,
           ai = Len(plan), result' = result,
           NEW c \in {"client", "server"}, End(Passed(c)),
           NEW t \in Seq(Entries), transcript' = t,
           \A k \in DOMAIN t : t[k].check \notin {"mismatched", "unexpected"},
           InPlanOrder',
           \A i \in DOMAIN plan : Performed(plan, t, i),
           Closing => EntriesIn(t, ai, "inbound", {"acknowledged"}) = {Len(t)},
           c = "client" => \A k \in DOMAIN t :
                              ~(t[k].op = "close" /\ t[k].check = "matched")
    PROVE  VerdictInv'
<1>0. /\ DOMAIN plan = 1 .. Len(plan) /\ ai \in Nat
      /\ \A i \in DOMAIN plan : plan[i].type = "close" => i = ai
  <2>1. \A i \in DOMAIN plan : Terminal(plan[i]) <=> i = Len(plan)
    BY DEF SessionInv, TypeOK, ValidatePlan, ValidateActions
  <2> QED BY <2>1, SessionFacts DEF Terminal
<1>1. \A i \in DOMAIN plan :
         /\ IsOutbound(plan[i]) => SentOnce(plan, t, i)
         /\ plan[i].type \in ExpectTypes => MatchedOnce(plan, t, i)
  BY DEF Performed
<1>2. \A i \in DOMAIN plan : plan[i].type = "close" =>
         EntriesIn(t, i, "inbound", {"acknowledged"}) = {Len(t)}
  BY <1>0 DEF Closing, Current
<1>4. ASSUME NEW i \in DOMAIN plan
      PROVE  /\ IsOutbound(plan[i]) =>
                  \E k \in EntriesOf(i, "outbound", {"sent"})' :
                     /\ EntriesOf(i, "outbound", {"sent"})' = {k}
                     /\ transcript'[k].val = plan[i].val
             /\ plan[i].type \in ExpectTypes =>
                  \E k \in EntriesOf(i, "inbound", {"matched"})' :
                     /\ EntriesOf(i, "inbound", {"matched"})' = {k}
                     /\ transcript'[k].op \in ExpectedOps(plan[i].type)
                     /\ transcript'[k].val \in plan[i].accepts
             /\ plan[i].type = "close" =>
                  EntriesOf(i, "inbound", {"acknowledged"})' = {Len(transcript')}
  <2>1. /\ EntriesOf(i, "outbound", {"sent"})' = EntriesIn(t, i, "outbound", {"sent"})
        /\ EntriesOf(i, "inbound", {"matched"})' = EntriesIn(t, i, "inbound", {"matched"})
        /\ EntriesOf(i, "inbound", {"acknowledged"})'
              = EntriesIn(t, i, "inbound", {"acknowledged"})
    BY DEF EntriesOf, EntriesIn
  <2> QED BY <1>1, <1>2, <2>1 DEF SentOnce, MatchedOnce
<1>5. PassedMeansExecuted'
  BY <1>4 DEF PassedMeansExecuted, InPlanOrder
<1>6. AcceptedCloseDecides'
  BY DEF AcceptedCloseDecides, End
<1> QED BY <1>5, <1>6, EndStep DEF End, Passed, Running

\* What a session knows while it answers the peer's close.
LEMMA ReplyingFacts ==
    ASSUME SessionInv, VerdictInv, Running, Replying
    PROVE  /\ Len(transcript) \in DOMAIN transcript
           /\ transcript[Len(transcript)].op = "close"
           /\ transcript[Len(transcript)].dir = "inbound"
           /\ transcript[Len(transcript)].ai = ai
           /\ transcript[Len(transcript)].val = pending.val
           /\ transcript[Len(transcript)].check =
                 IF CloseMatches(pending.val) THEN "matched" ELSE "mismatched"
           /\ \A k \in DOMAIN transcript :
                 k # Len(transcript) => Unsettling(transcript[k], ai)
           /\ EntriesIn(transcript, ai, "outbound", {"sent"}) = {}
<1>1. transcript \in Seq(Entries)
  BY SessionFacts
<1>2. /\ transcript # << >>
      /\ transcript[Len(transcript)] =
            [dir |-> "inbound", op |-> "close", val |-> pending.val,
             len |-> pending.len, ai |-> ai,
             check |-> IF CloseMatches(pending.val) THEN "matched"
                                                    ELSE "mismatched"]
      /\ \A k \in DOMAIN transcript :
            k < Len(transcript) => Unsettling(transcript[k], ai)
  BY DEF VerdictInv, PresentUnsettled
<1>3. /\ Len(transcript) \in Nat /\ Len(transcript) # 0
      /\ DOMAIN transcript = 1 .. Len(transcript)
  BY <1>1, <1>2
<1>4. \A k \in DOMAIN transcript :
         k # Len(transcript) => Unsettling(transcript[k], ai)
  BY <1>2, <1>3
<1>5. Current.type \in ExpectTypes
  BY DEF VerdictInv, HandMatchesPlan
<1>6. EntriesIn(transcript, ai, "outbound", {"sent"}) = {}
  BY <1>5 DEF VerdictInv, PresentSent, Closing, ExpectTypes
<1> QED BY <1>2, <1>3, <1>4, <1>6

\* The reply to the peer's close is over, sent and recorded or not: the close
\* decides.
LEMMA ReplyEnds ==
    ASSUME SessionInv, VerdictInv, Running, Replying, plan' = plan, ai' = ai,
           result' = result,
           End(ClosePrecedence(CloseMatches(pending.val))),
           \/ transcript' = transcript
           \/ \E e \in Entries : /\ transcript' = Append(transcript, e)
                                 /\ e.ai = ai /\ e.dir = "outbound"
                                 /\ e.check = "automatic"
    PROVE  VerdictInv'
<1> DEFINE n == Len(transcript)
           t == transcript'
<1>0. transcript \in Seq(Entries) /\ ai \in Nat
  BY SessionFacts
<1>1. InPlanOrder'
  <2>1. CASE transcript' = transcript
    BY <2>1 DEF VerdictInv, InPlanOrder
  <2>2. CASE \E e \in Entries : transcript' = Append(transcript, e) /\ e.ai = ai
    BY <2>2, RecordedInOrder DEF InPlanOrder
  <2> QED BY <2>1, <2>2
<1>2. /\ t \in Seq(Entries) /\ n \in DOMAIN t /\ t[n] = transcript[n]
      /\ \A k \in DOMAIN t :
            \/ k = n
            \/ k \in DOMAIN transcript /\ k # n /\ t[k] = transcript[k]
            \/ t[k].check = "automatic"
  BY <1>0, ReplyingFacts, TranscriptAppend
<1>3. \A i \in 1 .. (ai - 1) : Performed(plan, t, i)
  <2> TAKE i \in 1 .. (ai - 1)
  <2>1. Performed(plan, transcript, i)
    BY DEF VerdictInv, PastPerformed
  <2>2. ai # i
    BY <1>0
  <2> QED BY <1>0, <2>1, <2>2, StillPerformed
<1>4. CASE CloseMatches(pending.val)
  <2>1. Current.type = "expect-close" /\ pending.val \in Current.accepts
    BY <1>4 DEF CloseMatches
  <2>2. ai = Len(plan) /\ DOMAIN plan = 1 .. Len(plan)
    BY <2>1, SessionFacts DEF Terminal
  <2>3. EntriesIn(transcript, ai, "inbound", {"matched"}) = {n}
    BY <1>4, ReplyingFacts DEF EntriesIn, Unsettling
  <2>4. MatchedOnce(plan, transcript, ai)
    BY <2>1, <2>3, ReplyingFacts
    DEF MatchedOnce, ExpectedOps, Current
  <2>5. MatchedOnce(plan, t, ai)
    BY <1>0, <2>4, StillMatched
  <2>6. Performed(plan, t, ai) /\ ~Closing
    BY <2>1, <2>5
    DEF Performed, Current, Closing, IsOutbound, SendTypes
  <2>7. \A i \in DOMAIN plan : Performed(plan, t, i)
    BY <1>0, <1>3, <2>2, <2>6
  <2>8. \A k \in DOMAIN t : t[k].check \notin {"mismatched", "unexpected"}
    BY <1>2, <1>4, ReplyingFacts DEF Unsettling
  <2>9. End(Passed("server"))
    BY <1>4 DEF ClosePrecedence
  <2> HIDE DEF t
  <2>10. transcript' = t
    BY DEF t
  <2> QED
    BY <1>1, <1>2, <2>2, <2>6, <2>7, <2>8, <2>9, <2>10, PassStep
<1>5. CASE ~CloseMatches(pending.val)
  <2>1. \A k \in DOMAIN t : ~(t[k].op = "close" /\ t[k].check = "matched")
    BY <1>2, <1>5, ReplyingFacts DEF Unsettling
  <2>2. terminal'.outcome = "failed" /\ pc' = "finish" /\ pending' = NoFrame
    BY <1>5 DEF End, ClosePrecedence, Failed
  <2> QED BY <1>1, <2>1, <2>2, FailStep DEF Running
<1> QED BY <1>4, <1>5
-----------------------------------------------------------------------------
(* One lemma per action, or per group of actions alike.                    *)

LEMMA VerdictInitially == Init => VerdictInv
<1> SUFFICES ASSUME Init PROVE VerdictInv
  OBVIOUS
<1>1. /\ DOMAIN transcript = {} /\ ai = 1 /\ pc = "upgraded"
      /\ pending = NoFrame /\ terminal = NoTerminal /\ result = None
  BY DEF Init
<1>2. ~Over /\ ~Writing /\ ~Waiting /\ ~Replying
      /\ pending.why \notin {"pong", "unsent"}
  BY <1>1 DEF Over, Writing, Waiting, Replying, NoFrame
<1>3. 1 .. (ai - 1) = {}
  BY <1>1
<1>4. InPlanOrder /\ HandMatchesPlan /\ PastPerformed
  BY <1>1, <1>2, <1>3
  DEF InPlanOrder, HandMatchesPlan, PastPerformed, Running
<1>5. PresentUnsettled /\ PresentSent
  BY <1>1, <1>2 DEF PresentUnsettled, PresentSent, EntriesIn
<1>6. Ending /\ PassedMeansExecuted /\ AcceptedCloseDecides /\ ObservationBacked
  BY <1>1, <1>2
  DEF Ending, PassedMeansExecuted, AcceptedCloseDecides, ObservationBacked,
      NoTerminal
<1> QED BY <1>4, <1>5, <1>6 DEF VerdictInv

\* Steps between two points of the loop.
LEMMA QuietActions ==
    ASSUME SessionInv, VerdictInv,
           Connected \/ StartExpect \/ RetryRead \/ Receive \/ ReadReturns
              \/ EnterWrite \/ RetryWrite \/ WriteOk
    PROVE  VerdictInv'
<1>1. /\ ~Over /\ ~Over' /\ terminal' = terminal /\ result' = result
      /\ plan' = plan /\ ai' = ai /\ transcript' = transcript
      /\ pending' = pending
  BY DEF Connected, StartExpect, RetryRead, Receive, ReadReturns, EnterWrite,
         RetryWrite, WriteOk, Over, wireVars, endVars, history
<1>2. \/ pc' = "spin"
      \/ Writing /\ pc' \in {"write", "writing", "flush"}
      \/ Waiting /\ pc' \in {"decode", "reading", "observe"}
      \/ pc = "upgraded" /\ pc' = "next"
      \/ pc = "next" /\ pc' = "decode" /\ Current.type \in ExpectTypes
  BY DEF Connected, StartExpect, RetryRead, Receive, ReadReturns, EnterWrite,
         RetryWrite, WriteOk, Writing, Waiting
<1> QED BY <1>1, <1>2, QuietStep

\* Another thread raises the flag; the thread spins; nothing happens.
LEMMA IdleActions ==
    ASSUME SessionInv, VerdictInv, Cancel \/ Spin \/ Returned \/ UNCHANGED vars
    PROVE  VerdictInv'
<1>1. /\ terminal' = terminal /\ result' = result /\ pc' = pc
      /\ plan' = plan /\ ai' = ai /\ transcript' = transcript
      /\ pending' = pending /\ wire' = wire /\ counters' = counters
      /\ stored' = stored
  BY DEF Cancel, Spin, Returned, vars, wireVars, endVars, history
<1>2. CASE ~Over
  <2>1. ~Over'
    BY <1>1, <1>2 DEF Over
  <2> QED BY <1>1, <1>2, <2>1, QuietStep
<1>3. CASE Over
  <2>1. Over' /\ Ending' /\ ObservationBacked'
    BY <1>1, <1>3 DEF Over, VerdictInv, Ending, ObservationBacked
  <2> QED BY <1>1, <1>3, <2>1, OverStep
<1> QED BY <1>2, <1>3

\* Ends that record nothing, where no close is being answered.
LEMMA QuietEnds ==
    ASSUME SessionInv, VerdictInv, EnterRead \/ ReadFails \/ OnFragment
    PROVE  VerdictInv'
<1>1. /\ Running /\ Waiting /\ ~Replying /\ ~Over /\ ~Writing /\ result' = result
      /\ plan' = plan /\ ai' = ai /\ transcript' = transcript
  <2>1. /\ pc \in {"decode", "reading"} /\ result' = result
        /\ plan' = plan /\ ai' = ai /\ transcript' = transcript
    BY DEF EnterRead, ReadFails, OnFragment, Delivers, history, wireVars
  <2>2. Running /\ Waiting /\ ~Writing /\ pc # "spin"
    BY <2>1 DEF Running, Waiting, Writing, Over
  <2> QED BY <2>1, <2>2, EmptyHanded DEF Running
<1>2. CASE \E fl, c : End(SocketError(fl, c))
  BY <1>1, <1>2, NotPassed, FailQuietly
<1>3. CASE /\ pc' \in {"reading", "spin", "decode"} /\ terminal' = terminal
           /\ pending' = pending
  <2>1. ~Over'
    BY <1>3 DEF Over
  <2> QED BY <1>1, <1>3, <2>1, QuietStep
<1> QED BY <1>2, <1>3 DEF EnterRead, ReadFails, OnFragment, Delivers

\* The frames of a read are accepted one by one, or the read fails.
LEMMA ObserveActions ==
    ASSUME SessionInv, VerdictInv, ObserveBuffered \/ Observe
    PROVE  VerdictInv'
<1>1. /\ Running /\ ~Over /\ ~Writing /\ result' = result
      /\ plan' = plan /\ ai' = ai /\ transcript' = transcript
  BY DEF ObserveBuffered, Observe, history, Running, Over, Writing
<1>2. pending = NoFrame /\ ~Replying
  BY <1>1, EmptyHanded DEF Running
<1>3. CASE pc' = pc /\ terminal' = terminal /\ pending' = pending
  <2>1. ~Over'
    BY <1>1, <1>3 DEF Over
  <2> QED BY <1>1, <1>3, <2>1, QuietStep
<1>4. CASE End(SocketError("budget-exhausted", "io-failure"))
  BY <1>1, <1>2, <1>4, NotPassed, FailQuietly
<1>5. CASE /\ terminal' = FailureTerminal("budget-exhausted") /\ pc' = "finish"
           /\ pending' = pending
  <2>1. End(FailureTerminal("budget-exhausted"))
    BY <1>2, <1>5 DEF End
  <2> QED BY <1>1, <1>2, <2>1, NotPassed, FailQuietly
<1> QED BY <1>3, <1>4, <1>5 DEF ObserveBuffered, Observe

\* An outbound action is started, or does not fit.
LEMMA StartSendVerdict == ASSUME SessionInv, VerdictInv, StartSend PROVE VerdictInv'
<1>1. /\ Running /\ ~Over /\ ~Writing /\ ~Waiting /\ result' = result
      /\ plan' = plan /\ ai' = ai /\ transcript' = transcript
  BY DEF StartSend, Running, Over, Writing, Waiting
<1>2. pending = NoFrame /\ ~Replying
  BY <1>1, EmptyHanded DEF Running
<1>3. CASE End(Failed("budget-exhausted"))
  BY <1>1, <1>2, <1>3, NotPassed, FailQuietly
<1>4. CASE BeginWrite(FrameOf(Current), "action")
  <2>1. failure' = None
    BY <1>1, StartSendInv, Undecided
  <2>2. /\ pc' = "write" /\ terminal' = terminal /\ pending'.why = "action"
        /\ pending'.val = Current.val
    BY <1>4, <2>1 DEF BeginWrite, FrameOf
  <2>3. Running' /\ ~Over' /\ ~Replying' /\ Writing' /\ ~Waiting'
    BY <2>2 DEF Running, Over, Replying, Writing, Waiting
  <2>4. InPlanOrder' /\ PastPerformed' /\ PresentUnsettled'
    BY <1>1, <1>2, <2>3
    DEF VerdictInv, InPlanOrder, PastPerformed, PresentUnsettled
  <2>5. HandMatchesPlan'
    BY <1>1, <2>2, <2>3 DEF HandMatchesPlan, Current
  <2>6. PresentSent'
    BY <1>1, <1>2, <2>2, <2>3 DEF VerdictInv, PresentSent, NoFrame
  <2>7. terminal = NoTerminal
    BY <1>1, Undecided
  <2>8. Ending' /\ ObservationBacked'
    BY <1>1, <2>2, <2>3, NotYetReturned
    DEF VerdictInv, Ending, ObservationBacked, Over
  <2>9. PassedMeansExecuted' /\ AcceptedCloseDecides'
    BY <2>2, <2>3, <2>7 DEF PassedMeansExecuted, AcceptedCloseDecides, NoTerminal
  <2> QED BY <2>4, <2>5, <2>6, <2>8, <2>9 DEF VerdictInv
<1> QED BY <1>3, <1>4 DEF StartSend

\* The transcript is stored, then the observation.
LEMMA StoreActions ==
    ASSUME SessionInv, VerdictInv, StoreTranscript \/ PersistObservation
    PROVE  VerdictInv'
<1>1. /\ Over /\ Over' /\ plan' = plan /\ ai' = ai /\ transcript' = transcript
      /\ terminal' = terminal /\ pending' = pending /\ wire' = wire
  BY DEF StoreTranscript, PersistObservation, Over, wireVars
<1>2. terminal.outcome # None
  BY <1>1 DEF VerdictInv, Ending
<1>3. CASE StoreTranscript
  <2>1. /\ pc = "finish" /\ counters'.wire = wire /\ result # "observation"
    BY <1>3 DEF StoreTranscript, Synced, VerdictInv, Ending
  <2>2. \/ pc' = "persist" /\ "transcript" \in stored' /\ result' = result
        \/ pc' = "done" /\ result' = "store-error"
    BY <1>3 DEF StoreTranscript
  <2>3. Ending' /\ ObservationBacked'
    BY <1>1, <1>2, <2>1, <2>2 DEF Ending, ObservationBacked
  <2> QED BY <1>1, <2>3, OverStep
<1>4. CASE PersistObservation
  <2>1. /\ pc = "persist" /\ pc' = "done" /\ counters' = counters
        /\ \/ stored' = stored \cup {"observation"}
           \/ result' = "store-error"
    BY <1>4 DEF PersistObservation
  <2>2. "transcript" \in stored /\ counters.wire = wire
    BY <2>1 DEF VerdictInv, Ending
  <2>3. Ending' /\ ObservationBacked'
    BY <1>1, <1>2, <2>1, <2>2 DEF Ending, ObservationBacked
  <2> QED BY <1>1, <2>3, OverStep
<1> QED BY <1>3, <1>4

\* What a handler starts from: the message, and nothing in hand.
LEMMA DeliveryFacts ==
    ASSUME SessionInv, VerdictInv, NEW ops, Delivers(ops)
    PROVE  /\ Running /\ ~Over /\ ~Writing /\ Waiting /\ ~Replying
           /\ pending = NoFrame
           /\ Head(inbuf).op \in ops /\ Head(inbuf).op \in FrameOps
           /\ \A check \in Checks, dir \in {"inbound", "outbound"} :
                 Entry(dir, Head(inbuf), check) \in Entries
<1>1. pc = "decode" /\ inbuf # << >> /\ Head(inbuf).op \in ops
  BY DEF Delivers
<1>2. Running /\ ~Over /\ ~Writing /\ Waiting
  BY <1>1 DEF Running, Over, Writing, Waiting
<1>3. pending = NoFrame /\ ~Replying
  BY <1>1, <1>2, EmptyHanded
<1>4. inbuf \in Seq(Frame) /\ ai \in Nat
  BY SessionFacts DEF SessionInv, TypeOK
<1>5. /\ Head(inbuf).op \in FrameOps /\ Head(inbuf).val \in Vals
      /\ Head(inbuf).len \in 0 .. MaxLen
  BY <1>1, <1>4, HeadAndTail
<1>6. \A check \in Checks, dir \in {"inbound", "outbound"} :
         Entry(dir, Head(inbuf), check) \in Entries
  BY <1>4, <1>5 DEF Entry, Entries
<1> QED BY <1>1, <1>2, <1>3, <1>5, <1>6

LEMMA OnDataVerdict == ASSUME SessionInv, VerdictInv, OnData PROVE VerdictInv'
<1> DEFINE f == Head(inbuf)
<1>1. /\ Running /\ ~Over /\ ~Replying /\ pending = NoFrame /\ f.op \in DataOps
      /\ \A check \in Checks : Entry("inbound", f, check) \in Entries
  BY DeliveryFacts DEF OnData
<1>2. plan' = plan /\ result' = result
  BY DEF OnData
<1>3. CASE /\ \/ End(SocketError(failure, "budget-exhausted"))
              \/ End(Failed("budget-exhausted"))
           /\ UNCHANGED <<ai, transcript>>
  BY <1>1, <1>2, <1>3, NotPassed, FailQuietly
<1>4. CASE /\ DataMatches(f) /\ transcript' = Append(transcript, Entry("inbound", f, "matched"))
           /\ ai' = ai + 1 /\ pc' = "next" /\ UNCHANGED <<terminal, pending>>
  <2> DEFINE e == Entry("inbound", f, "matched")
  <2>1. /\ e \in Entries /\ e.ai = ai /\ e.check = "matched" /\ e.dir = "inbound"
        /\ e.op = f.op /\ e.val = f.val
    BY <1>1 DEF Entry, Checks
  <2> HIDE DEF e
  <2>2. /\ f.val \in Current.accepts
        /\ f.op \in ExpectedOps(Current.type)
        /\ Current.type \in {"expect-text", "expect-json", "expect-binary"}
        /\ e.op # "close"
    BY <1>1, <1>4, <2>1 DEF DataMatches, ExpectedOps, DataOps
  <2>3. transcript \in Seq(Entries) /\ transcript' = Append(transcript, e)
    BY <1>4, SessionFacts DEF e
  <2>4. MatchedOnce(plan, transcript', ai)
    BY <1>1, <2>1, <2>2, <2>3, NothingMatched, NowMatched DEF Current
  <2>5. Performed(plan, transcript', ai)
    BY <2>2, <2>4 DEF Performed, Current, IsOutbound, SendTypes
  <2> QED
    BY <1>1, <1>2, <1>4, <2>1, <2>2, <2>3, <2>5, AdvanceStep
<1>5. CASE /\ \E check \in {"unexpected", "mismatched"} :
                 transcript' = Append(transcript, Entry("inbound", f, check))
           /\ End(Failed("expectation-failed")) /\ ai' = ai
  <2>1. PICK check \in {"unexpected", "mismatched"} :
           transcript' = Append(transcript, Entry("inbound", f, check))
    BY <1>5
  <2>2. /\ Entry("inbound", f, check) \in Entries
        /\ Entry("inbound", f, check).ai = ai
        /\ Entry("inbound", f, check).check # "matched"
    BY <1>1 DEF Entry, Checks
  <2> QED
    BY <1>1, <1>2, <1>5, <2>1, <2>2, NotPassed, FailRecorded
<1> QED BY <1>3, <1>4, <1>5 DEF OnData, Record

LEMMA OnPongVerdict == ASSUME SessionInv, VerdictInv, OnPong PROVE VerdictInv'
<1> DEFINE f == Head(inbuf)
<1>1. /\ Running /\ ~Over /\ ~Replying /\ pending = NoFrame /\ f.op = "pong"
      /\ Waiting
      /\ \A check \in Checks : Entry("inbound", f, check) \in Entries
  BY DeliveryFacts DEF OnPong
<1>2. plan' = plan /\ result' = result
  BY DEF OnPong
<1>3. CASE End(Failed("budget-exhausted")) /\ UNCHANGED <<ai, transcript>>
  BY <1>1, <1>2, <1>3, NotPassed, FailQuietly
<1>4. CASE /\ PongMatches(f) /\ transcript' = Append(transcript, Entry("inbound", f, "matched"))
           /\ ai' = ai + 1 /\ pc' = "next" /\ UNCHANGED <<terminal, pending>>
  <2> DEFINE e == Entry("inbound", f, "matched")
  <2>1. /\ e \in Entries /\ e.ai = ai /\ e.check = "matched" /\ e.dir = "inbound"
        /\ e.op = "pong" /\ e.val = f.val
    BY <1>1 DEF Entry, Checks
  <2> HIDE DEF e
  <2>2. /\ f.val \in Current.accepts /\ Current.type = "expect-pong"
        /\ "pong" \in ExpectedOps(Current.type)
    BY <1>4 DEF PongMatches, ExpectedOps
  <2>3. transcript \in Seq(Entries) /\ transcript' = Append(transcript, e)
    BY <1>4, SessionFacts DEF e
  <2>4. MatchedOnce(plan, transcript', ai)
    BY <1>1, <2>1, <2>2, <2>3, NothingMatched, NowMatched DEF Current
  <2>5. Performed(plan, transcript', ai)
    BY <2>2, <2>4 DEF Performed, Current, IsOutbound, SendTypes
  <2> QED
    BY <1>1, <1>2, <1>4, <2>1, <2>2, <2>3, <2>5, AdvanceStep
<1>5. CASE /\ transcript' = Append(transcript, Entry("inbound", f, "ignored"))
           /\ ai' = ai /\ pc' = "decode" /\ UNCHANGED <<terminal, pending>>
  <2> DEFINE e == Entry("inbound", f, "ignored")
  <2>1. e \in Entries /\ e.ai = ai /\ e.check = "ignored"
    BY <1>1 DEF Entry, Checks
  <2>2. Waiting'
    BY <1>5 DEF Waiting
  <2> HIDE DEF e
  <2>3. transcript' = Append(transcript, e)
    BY <1>5 DEF e
  <2> QED
    BY <1>1, <1>2, <1>5, <2>1, <2>2, <2>3, NeutralStep
<1> QED BY <1>3, <1>4, <1>5 DEF OnPong, Record

LEMMA OnPingVerdict == ASSUME SessionInv, VerdictInv, OnPing PROVE VerdictInv'
<1> DEFINE f == Head(inbuf)
           e == Entry("inbound", f, "automatic")
<1>1. /\ Running /\ ~Over /\ ~Replying /\ pending = NoFrame /\ f.op = "ping"
      /\ Waiting
  BY DeliveryFacts DEF OnPing
<1>2. e \in Entries /\ e.ai = ai /\ e.check = "automatic"
  BY DeliveryFacts DEF OnPing, Entry, Checks
<1>3. plan' = plan /\ ai' = ai /\ result' = result
  BY DEF OnPing
<1>4. failure' = None
  BY <1>1, OnPingInv, Undecided
<1>5. CASE End(Failed("budget-exhausted")) /\ transcript' = transcript
  BY <1>1, <1>3, <1>5, NotPassed, FailQuietly
<1>6. CASE /\ transcript' = Append(transcript, e)
           /\ End(Failed("budget-exhausted"))
  <2> HIDE DEF e
  <2> QED BY <1>1, <1>2, <1>3, <1>6, NotPassed, FailRecorded
<1>7. CASE /\ transcript' = Append(transcript, e) /\ terminal' = terminal
           /\ pending'.why \in {"pong", "unsent"} /\ pc' \in {"write", "flush"}
  <2>1. Writing' /\ Answering'
    BY <1>7 DEF Writing, Answering
  <2> HIDE DEF e
  <2> QED BY <1>1, <1>2, <1>3, <1>7, <2>1, NeutralStep
<1>8. ASSUME NEW g, BeginWrite(g, "pong")
      PROVE  terminal' = terminal /\ pending'.why = "pong" /\ pc' = "write"
  BY <1>4, <1>8 DEF BeginWrite
<1>9. \/ End(Failed("budget-exhausted")) /\ transcript' = transcript
      \/ /\ transcript' = Append(transcript, e)
         /\ \/ End(Failed("budget-exhausted"))
            \/ BeginWrite([f EXCEPT !.op = "pong"], "pong")
            \/ /\ pending'.why = "unsent" /\ pc' = "flush"
               /\ terminal' = terminal
  <2> DEFINE pong == [f EXCEPT !.op = "pong"]
             c == Accounted(FALSE)
             kept == [op |-> "pong", val |-> f.val, len |-> f.len,
                      why |-> "unsent"]
  <2>0. kept.why = "unsent"
    OBVIOUS
  <2>1. IF OverInbound(c, f.len)
        THEN End(Failed("budget-exhausted")) /\ transcript' = transcript
        ELSE /\ transcript' = Append(transcript, e)
             /\ IF ExceedsOutbound(c, FALSE, f.len)
                THEN End(Failed("budget-exhausted"))
                ELSE IF AnswersPing THEN BeginWrite(pong, "pong")
                ELSE pending' = kept /\ pc' = "flush" /\ terminal' = terminal
    BY Zenon DEF OnPing, Record
  <2> HIDE DEF pong, c, e, f, kept
  <2>2. \/ End(Failed("budget-exhausted")) /\ transcript' = transcript
        \/ /\ transcript' = Append(transcript, e)
           /\ \/ End(Failed("budget-exhausted"))
              \/ BeginWrite(pong, "pong")
              \/ /\ pending'.why = "unsent" /\ pc' = "flush"
                 /\ terminal' = terminal
    BY <2>0, <2>1
  <2> QED BY <2>2 DEF pong
<1> QED BY <1>5, <1>6, <1>7, <1>8, <1>9

LEMMA OnCloseVerdict == ASSUME SessionInv, VerdictInv, OnClose PROVE VerdictInv'
<1> DEFINE f == Head(inbuf)
           m == IF CloseMatches(f.val) THEN "matched" ELSE "mismatched"
<1>1. /\ Running /\ ~Over /\ ~Replying /\ pending = NoFrame /\ f.op = "close"
      /\ Waiting /\ pending.why \notin {"pong", "unsent"}
  BY DeliveryFacts, EmptyHanded DEF OnClose, Running
<1>2. \A check \in Checks : Entry("inbound", f, check) \in Entries
  BY DeliveryFacts DEF OnClose
<1>3. plan' = plan /\ ai' = ai /\ result' = result
  BY DEF OnClose
<1>4. failure' = None
  BY <1>1, OnCloseInv, Undecided
<1>5. /\ transcript \in Seq(Entries) /\ ai \in Nat
      /\ DOMAIN plan = 1 .. Len(plan)
  BY SessionFacts
<1>6. CASE End(Failed("budget-exhausted")) /\ transcript' = transcript
  BY <1>1, <1>3, <1>6, NotPassed, FailQuietly
<1>7. CASE /\ Closing /\ End(Passed("client"))
           /\ transcript' = Append(transcript, Entry("inbound", f, "acknowledged"))
  <2> DEFINE e == Entry("inbound", f, "acknowledged")
  <2>1. /\ e \in Entries /\ e.ai = ai /\ e.dir = "inbound"
        /\ e.check = "acknowledged"
    BY <1>2 DEF Entry, Checks
  <2>2. transcript' = Append(transcript, e)
    BY <1>7
  <2> HIDE DEF e
  <2> DEFINE t == Append(transcript, e)
  <2>3. t \in Seq(Entries)
    BY <1>5, <2>1, TranscriptAppend
  <2>4. ai = Len(plan)
    BY <1>7, SessionFacts DEF Closing, Terminal
  <2>5. SentOnce(plan, transcript, ai)
    BY <1>1, <1>7 DEF VerdictInv, PresentSent
  <2>6. SentOnce(plan, t, ai)
    BY <1>5, <2>1, <2>5, StillSent
  <2>7. Performed(plan, t, ai)
    BY <1>7, <2>6 DEF Performed, Closing, Current, ExpectTypes
  <2>8. \A i \in DOMAIN plan : Performed(plan, t, i)
    <3> TAKE i \in DOMAIN plan
    <3>1. CASE i = ai
      BY <2>7, <3>1
    <3>2. CASE i # ai
      <4>1. i \in 1 .. (ai - 1)
        BY <1>5, <2>4, <3>2
      <4>2. Performed(plan, transcript, i)
        BY <1>1, <4>1 DEF VerdictInv, PastPerformed
      <4> QED BY <1>5, <2>1, <3>2, <4>2, StillPerformed
    <3> QED BY <3>1, <3>2
  <2>9. EntriesIn(t, ai, "inbound", {"acknowledged"}) = {Len(t)}
    <3> DEFINE C == {"acknowledged"}
    <3>1. e.check \in C /\ EntriesIn(transcript, ai, "inbound", C) = {}
      BY <1>1, <2>1, NothingMatched
    <3> HIDE DEF C
    <3>2. EntriesIn(t, ai, "inbound", C)
             = EntriesIn(transcript, ai, "inbound", C) \cup {Len(t)}
      BY <1>5, <2>1, <3>1, EntriesAppend
    <3>3. EntriesIn(t, ai, "inbound", C) = {Len(t)}
      BY <3>1, <3>2
    <3> QED BY <3>3 DEF C
  <2>10. \A k \in DOMAIN t :
            /\ t[k].check \notin {"mismatched", "unexpected"}
            /\ ~(t[k].op = "close" /\ t[k].check = "matched")
    BY <1>1, <1>5, <2>1, NothingMatched, TranscriptAppend DEF Unsettling
  <2>11. InPlanOrder'
    BY <1>3, <2>1, <2>2, RecordedInOrder DEF InPlanOrder
  <2> HIDE DEF t
  <2>12. transcript' = t
    BY <2>2 DEF t
  <2> QED
    BY <1>1, <1>3, <1>7, <2>3, <2>4, <2>8, <2>9, <2>10, <2>11, <2>12, PassStep
<1>8. ASSUME ~Closing,
             transcript' = Append(transcript, Entry("inbound", f, m))
      PROVE  /\ End(Failed("budget-exhausted"))
                /\ ExceedsOutbound(Accounted(FALSE), FALSE, f.len)
                /\ wire' = wire
                => VerdictInv'
             /\ BeginWrite(f, "ack") => VerdictInv'
  <2> DEFINE e == Entry("inbound", f, m)
  <2>1. /\ e \in Entries /\ e.ai = ai /\ e.dir = "inbound" /\ e.check = m
        /\ e.op = "close" /\ e.val = f.val /\ e.len = f.len
        /\ e = [dir |-> "inbound", op |-> "close", val |-> f.val,
                len |-> f.len, ai |-> ai, check |-> m]
    BY <1>1, <1>2 DEF Entry, Checks
  <2>2. transcript' = Append(transcript, e)
    BY <1>8
  <2> HIDE DEF e, m
  <2>3. InPlanOrder'
    BY <1>3, <2>1, <2>2, RecordedInOrder DEF InPlanOrder
  <2>4. /\ transcript' \in Seq(Entries) /\ transcript' # << >>
        /\ Len(transcript) \in Nat /\ Len(transcript') = Len(transcript) + 1
        /\ DOMAIN transcript' = 1 .. (Len(transcript) + 1)
        /\ DOMAIN transcript = 1 .. Len(transcript)
        /\ transcript'[Len(transcript')] = e
        /\ \A k \in DOMAIN transcript' :
              \/ k = Len(transcript')
              \/ k \in DOMAIN transcript /\ transcript'[k] = transcript[k]
    BY <1>5, <2>1, <2>2, TranscriptAppend
  <2>5. \A k \in DOMAIN transcript' :
           k # Len(transcript') => Unsettling(transcript'[k], ai)
    BY <1>1, <2>4, NothingMatched
  <2>6. ASSUME End(Failed("budget-exhausted")), wire' = wire,
               ExceedsOutbound(Accounted(FALSE), FALSE, f.len)
        PROVE  VerdictInv'
    <3>1. \/ wire.outF >= Limits.max_outbound_frames
          \/ wire.outB + f.len > Limits.max_outbound_bytes
          \/ f.len > Limits.max_frame_bytes
      BY <2>6 DEF ExceedsOutbound, Accounted
    <3>2. AcceptedCloseDecides'
      <4> SUFFICES ASSUME NEW k \in DOMAIN transcript',
                          transcript'[k].op = "close",
                          transcript'[k].check = "matched"
                   PROVE  /\ terminal' = Failed("budget-exhausted")
                          /\ \/ wire'.outF >= Limits.max_outbound_frames
                             \/ wire'.outB + transcript'[k].len
                                   > Limits.max_outbound_bytes
                             \/ transcript'[k].len > Limits.max_frame_bytes
        BY DEF AcceptedCloseDecides
      <4>1. k = Len(transcript')
        BY <2>5 DEF Unsettling
      <4>2. transcript'[k].len = f.len
        BY <2>1, <2>4, <4>1
      <4> QED BY <2>6, <3>1, <4>2 DEF End
    <3>3. PassedMeansExecuted'
      BY <2>6 DEF PassedMeansExecuted, End, Failed
    <3> QED
      BY <1>1, <1>3, <2>3, <2>6, <3>2, <3>3, EndStep DEF End, Failed
  <2>7. ASSUME BeginWrite(f, "ack") PROVE VerdictInv'
    <3>1. /\ pc' = "write" /\ terminal' = terminal
          /\ pending' = [op |-> f.op, val |-> f.val, len |-> f.len, why |-> "ack"]
      BY <1>4, <2>7 DEF BeginWrite
    <3>2. /\ Running' /\ ~Over' /\ Replying' /\ Writing' /\ ~Waiting'
          /\ pending'.why \notin {"pong", "unsent", "action"}
          /\ pending'.val = f.val /\ pending'.len = f.len
      BY <3>1 DEF Running, Over, Replying, Writing, Waiting
    <3>3. Current.type \in ExpectTypes
      BY <1>1, <1>8 DEF VerdictInv, HandMatchesPlan, Closing
    <3>4. HandMatchesPlan'
      BY <1>3, <3>2, <3>3 DEF HandMatchesPlan, Current, Replying
    <3>5. ASSUME NEW i \in 1 .. (ai - 1) PROVE Performed(plan, transcript', i)
      <4>1. e.ai # i
        BY <1>5, <2>1, <3>5
      <4>2. Performed(plan, transcript, i)
        BY <1>1, <3>5 DEF VerdictInv, PastPerformed
      <4> QED BY <1>5, <2>1, <2>2, <4>1, <4>2, StillPerformed
    <3>6. PastPerformed'
      BY <1>3, <3>5 DEF PastPerformed
    <3>7. PresentUnsettled'
      <4>1. transcript'[Len(transcript')] =
               [dir |-> "inbound", op |-> "close", val |-> pending'.val,
                len |-> pending'.len, ai |-> ai', check |-> m]
        BY <1>3, <2>1, <2>4, <3>2
      <4>2. m = IF CloseMatches(pending.val)' THEN "matched" ELSE "mismatched"
        BY <1>3, <3>2 DEF m, CloseMatches, Current
      <4>3. \A k \in DOMAIN transcript' :
               k < Len(transcript') \/ ~Replying' => Unsettling(transcript'[k], ai')
        BY <1>3, <2>4, <2>5, <3>2
      <4> QED BY <2>4, <4>1, <4>2, <4>3 DEF PresentUnsettled
    <3>8. PresentSent'
      <4> DEFINE C == {"sent"}
      <4>1. EntriesIn(transcript, ai, "outbound", C) = {}
        BY <1>1, <1>8 DEF VerdictInv, PresentSent
      <4> HIDE DEF C
      <4>2. EntriesIn(transcript', ai, "outbound", C) = {}
        BY <1>5, <2>1, <2>2, <4>1, EntriesAppend
      <4> QED BY <1>3, <3>2, <4>2 DEF PresentSent, C
    <3>9. terminal = NoTerminal
      BY <1>1, Undecided
    <3>10. Ending' /\ ObservationBacked'
      BY <1>1, <1>3, <3>1, <3>2, NotYetReturned
      DEF VerdictInv, Ending, ObservationBacked, Over
    <3>11. PassedMeansExecuted' /\ AcceptedCloseDecides'
      BY <3>1, <3>2, <3>9
      DEF PassedMeansExecuted, AcceptedCloseDecides, NoTerminal
    <3> QED
      BY <2>3, <3>4, <3>6, <3>7, <3>8, <3>10, <3>11 DEF VerdictInv
  <2> QED BY <2>6, <2>7
<1>9. \/ End(Failed("budget-exhausted")) /\ transcript' = transcript
      \/ /\ Closing /\ End(Passed("client"))
         /\ transcript' = Append(transcript, Entry("inbound", f, "acknowledged"))
      \/ /\ ~Closing
         /\ transcript' = Append(transcript, Entry("inbound", f, m))
         /\ \/ /\ End(Failed("budget-exhausted")) /\ wire' = wire
               /\ ExceedsOutbound(Accounted(FALSE), FALSE, f.len)
            \/ BeginWrite(f, "ack")
  BY DEF OnClose, Record
<1> QED BY <1>6, <1>7, <1>8, <1>9

\* A write or a flush that fails.
LEMMA WriteFailures ==
    ASSUME SessionInv, VerdictInv, WriteFails \/ FlushFails
    PROVE  VerdictInv'
<1>1. /\ Running /\ ~Over /\ plan' = plan /\ ai' = ai /\ result' = result
      /\ transcript' = transcript
  BY DEF WriteFails, FlushFails, Running, Over
<1>2. PICK c : WriteError(c)
  BY DEF WriteFails, FlushFails
<1>3. CASE Replying
  <2>1. End(ClosePrecedence(CloseMatches(pending.val)))
    BY <1>2, <1>3 DEF WriteError, Replying
  <2> QED BY <1>1, <1>3, <2>1, ReplyEnds
<1>4. CASE ~Replying
  <2>1. End(SocketError(failure, c))
    BY <1>2, <1>4 DEF WriteError, Replying
  <2> QED BY <1>1, <1>4, <2>1, NotPassed, FailQuietly
<1> QED BY <1>3, <1>4

\* A flush that succeeds.
LEMMA FlushOkVerdict == ASSUME SessionInv, VerdictInv, FlushOk PROVE VerdictInv'
<1> DEFINE e == Entry("outbound", pending,
                      IF pending.why = "action" THEN "sent" ELSE "automatic")
<1>1. /\ pc = "flush" /\ Running /\ ~Over /\ Writing /\ ~Waiting
      /\ plan' = plan /\ result' = result
  BY DEF FlushOk, Running, Over, Writing, Waiting
<1>2. pending.why \in {"action", "pong", "unsent", "ack"}
  BY <1>1 DEF VerdictInv, HandMatchesPlan
<1>3. transcript \in Seq(Entries) /\ ai \in Nat
  BY SessionFacts
<1>4. /\ e \in Entries /\ e.ai = ai /\ e.dir = "outbound"
      /\ e.val = pending.val
      /\ e.check = IF pending.why = "action" THEN "sent" ELSE "automatic"
  <2>1. pending \in Outbound
    BY DEF SessionInv, TypeOK
  <2>2. e.check \in Checks
    BY DEF Entry, Checks
  <2> QED BY <1>3, <2>1, <2>2 DEF Entry, Entries, Outbound
<1>5. transcript' = Append(transcript, e)
  BY DEF FlushOk, Record
<1> HIDE DEF e
<1>6. CASE pending.why = "ack"
  <2>1. End(ClosePrecedence(CloseMatches(pending.val))) /\ ai' = ai
    BY <1>6 DEF FlushOk
  <2>2. e.check = "automatic"
    BY <1>4, <1>6
  <2> QED BY <1>1, <1>4, <1>5, <1>6, <2>1, <2>2, ReplyEnds DEF Replying
<1>7. CASE pending.why \in {"pong", "unsent"}
  <2>1. /\ pc' = "decode" /\ pending' = NoFrame /\ ai' = ai /\ terminal' = terminal
    BY <1>7 DEF FlushOk
  <2>2. Waiting' /\ Answering /\ ~Replying /\ e.check = "automatic"
    BY <1>4, <1>7, <2>1 DEF Waiting, Answering, Replying
  <2> QED BY <1>1, <1>4, <1>5, <2>1, <2>2, NeutralStep
<1>8. CASE pending.why = "action"
  <2>1. /\ pending' = NoFrame /\ terminal' = terminal
        /\ pc' = IF ~Closing THEN "next" ELSE "decode"
        /\ ai' = IF ~Closing THEN ai + 1 ELSE ai
    BY <1>8 DEF FlushOk
  <2>2. e.check = "sent" /\ e.val = plan[ai].val /\ ~Replying
    BY <1>1, <1>4, <1>8 DEF VerdictInv, HandMatchesPlan, Current, Replying
  <2>3. EntriesIn(transcript, ai, "outbound", {"sent"}) = {}
    BY <1>1, <1>8 DEF VerdictInv, PresentSent
  <2>4. SentOnce(plan, transcript', ai)
    BY <1>3, <1>4, <1>5, <2>2, <2>3, NowSent
  <2>5. IsOutbound(Current)
    BY <1>1, <1>8 DEF SessionInv, FrameInHand
  <2>6. CASE ~Closing
    <3>1. Performed(plan, transcript', ai)
      BY <2>4, <2>5
      DEF Performed, IsOutbound, Current, SendTypes, ExpectTypes
    <3> QED
      BY <1>1, <1>4, <1>5, <2>1, <2>2, <2>6, <3>1, AdvanceStep
  <2>7. CASE Closing
    <3>1. /\ Running' /\ ~Over' /\ ~Replying' /\ ~Writing' /\ Waiting'
          /\ ai' = ai /\ pc' = "decode"
      BY <2>1, <2>7 DEF Running, Over, Replying, Writing, Waiting, NoFrame
    <3>2. InPlanOrder'
      BY <1>4, <1>5, <3>1, RecordedInOrder DEF InPlanOrder
    <3>3. HandMatchesPlan'
      BY <1>1, <2>1, <2>7, <3>1 DEF HandMatchesPlan, Closing, Current, NoFrame
    <3>4. ASSUME NEW i \in 1 .. (ai - 1) PROVE Performed(plan, transcript', i)
      <4>1. e.ai # i
        BY <1>3, <1>4, <3>4
      <4>2. Performed(plan, transcript, i)
        BY <1>1, <3>4 DEF VerdictInv, PastPerformed
      <4> QED BY <1>3, <1>4, <1>5, <4>1, <4>2, StillPerformed
    <3>5. PastPerformed'
      BY <1>1, <3>1, <3>4 DEF PastPerformed
    <3>6. PresentUnsettled'
      <4>1. Unsettling(e, ai)
        BY <2>2 DEF Unsettling
      <4>2. \A k \in DOMAIN transcript' : Unsettling(transcript'[k], ai)
        BY <1>1, <1>3, <1>4, <1>5, <2>2, <4>1, NothingMatched, TranscriptAppend
      <4> QED BY <3>1, <4>2 DEF PresentUnsettled
    <3>7. PresentSent'
      BY <1>1, <2>4, <2>7, <3>1 DEF PresentSent, Closing, Current
    <3>8. terminal = NoTerminal
      BY <1>1, Undecided
    <3>9. Ending' /\ ObservationBacked'
      BY <1>1, <3>1, NotYetReturned
      DEF VerdictInv, Ending, ObservationBacked, Over
    <3>10. PassedMeansExecuted' /\ AcceptedCloseDecides'
      BY <2>1, <3>1, <3>8
      DEF PassedMeansExecuted, AcceptedCloseDecides, NoTerminal
    <3> QED
      BY <3>2, <3>3, <3>5, <3>6, <3>7, <3>9, <3>10 DEF VerdictInv
  <2> QED BY <2>6, <2>7
<1> QED BY <1>2, <1>6, <1>7, <1>8

LEMMA VerdictStep == ASSUME SessionInv, VerdictInv, [Next]_vars PROVE VerdictInv'
<1>1. CASE Local
  <2>1. CASE Handler
    BY <2>1, QuietEnds, OnDataVerdict, OnPingVerdict, OnPongVerdict,
       OnCloseVerdict
    DEF Handler
  <2>2. CASE ~Handler
    BY <1>1, <2>2, ObserveActions, QuietActions, StartSendVerdict, QuietEnds,
       FlushOkVerdict, WriteFailures, StoreActions
    DEF Local
  <2> QED BY <2>1, <2>2
<1>2. CASE ReadSyscall \/ RetryRead \/ WriteSyscall \/ RetryWrite
  BY <1>2, QuietActions, QuietEnds, WriteFailures DEF ReadSyscall, WriteSyscall
<1>3. CASE Spin \/ Cancel \/ Returned \/ UNCHANGED vars
  BY <1>3, IdleActions
<1> QED BY <1>1, <1>2, <1>3 DEF Next

\* The inductive invariant of the walk through the plan: what the transcript
\* says of the actions done and of the one the session is at, at every point of
\* execute_connected_websocket, read_expectation and execute_client_close.
THEOREM VerdictInvariant == Spec => []VerdictInv
<1>1. Init => VerdictInv
  BY VerdictInitially
<1>2. SessionInv /\ VerdictInv /\ [Next]_vars => VerdictInv'
  BY VerdictStep
<1> QED BY <1>1, <1>2, SessionInvariant, PTL DEF Spec

\* A session passes only if every action of its plan did its part exactly once
\* and in order: SessionTerminal::passed is never reached on a plan that was
\* not carried out in full, whatever the peer interleaves.
THEOREM PassesAreEarned == Spec => []PassedMeansExecuted
<1>1. VerdictInv => PassedMeansExecuted
  BY DEF VerdictInv
<1> QED BY <1>1, VerdictInvariant, PTL

\* A close of the peer that the plan accepts decides the session whatever
\* becomes of the reply (close_precedence); only a reply that does not fit the
\* outbound budget changes that.
THEOREM AcceptedClosesDecide == Spec => []AcceptedCloseDecides
<1>1. VerdictInv => AcceptedCloseDecides
  BY DEF VerdictInv
<1> QED BY <1>1, VerdictInvariant, PTL

\* finish_session returns an observation only with the transcript it names
\* stored before it, the wire's own counters and a verdict.
THEOREM ObservationsAreBacked == Spec => []ObservationBacked
<1>1. VerdictInv => ObservationBacked
  BY DEF VerdictInv
<1> QED BY <1>1, VerdictInvariant, PTL

-----------------------------------------------------------------------------
(* The inductive invariant behind the transcript.                          *)

\* The library's state and the frame in hand agree with the action the session
\* is at, and frames wait to be observed or delivered only within a read.
StateInv ==
    /\ Running => state \in {"active", "closed-by-us", "closed-by-peer"}
    /\ Running /\ state = "closed-by-us" => Closing
    /\ Running /\ state = "closed-by-peer" => Replying
    /\ Running /\ Closing /\ pc \notin {"upgraded", "next"} =>
          state = "closed-by-us"
    /\ pc \in {"upgraded", "next"} => state = "active"
    /\ Writing /\ Replying => pending.op = "close"
    /\ Writing /\ Answering => pending.op = "pong"
    /\ Writing /\ pending.why = "pong" => state = "active"
    /\ Writing /\ pending.why = "unsent" => Closing /\ pc = "flush"
    /\ Writing /\ pending.why = "action" => pending.op # "pong"
    /\ pc = "writing" => ~conn.tls
    /\ pc = "upgraded" => inbuf = << >>
    /\ Running /\ pc \notin {"upgraded", "observe"} =>
          staged = << >> /\ chunk = << >>

\* The frames s are those of the sequence p from position d + 1 on.
Placed(s, d, p) == \A j \in DOMAIN s : d + j \in DOMAIN p /\ p[d + j] = s[j]

\* Of p, the first d were delivered and the rest is held, in order.
Held(d, p, ib, st, ch) ==
    /\ Placed(ib, d, p)
    /\ Placed(st, d + Len(ib), p)
    /\ Placed(ch, d + Len(ib) + Len(st), p)
    /\ d + Len(ib) + Len(st) + Len(ch) = Len(p)

\* What the peer sent is what was delivered and then what is held, in order,
\* and every message delivered has its entry.
Stream ==
    Running =>
       \E d \in 0 .. Len(peerSent) :
          /\ Held(d, peerSent, inbuf, staged, chunk)
          /\ Cardinality(InboundAt) = Rank(MessagesAt, d)

InboundInv == Stream /\ InboundInOrder

\* The frame in hand is on the wire already.
Left == pc = "flush" /\ ~conn.tls /\ pending.why # "unsent"

SentInv ==
    /\ SentEntriesOnWire
    /\ Running => Len(wireOut) = Cardinality(SentAt) + (IF Left THEN 1 ELSE 0)
    /\ Left => wireOut[Len(wireOut)] = pending

\* A pong in hand answers the last ping; until it leaves it is one short.
PongDue == pending.why = "pong" /\ ~Left

PingInv ==
    /\ Aligned(wireOut, PongsAt, transcript, PingsAt, {<<"pong", "ping">>})
    /\ Running /\ state = "active" =>
          Cardinality(PingsAt)
             = Cardinality(PongsAt) + (IF PongDue THEN 1 ELSE 0)
    /\ Running /\ PongDue =>
          \E k \in PingsAt : /\ Rank(PingsAt, k) = Cardinality(PingsAt)
                             /\ transcript[k].val = pending.val

FaithInv == StateInv /\ InboundInv /\ SentInv /\ PingInv

USE DEF None

-----------------------------------------------------------------------------
(* Lemmas about ranks and alignments.                                      *)

LEMMA RankFacts ==
    ASSUME NEW n \in Nat, NEW S \in SUBSET (1 .. n)
    PROVE  /\ IsFiniteSet(S) /\ Cardinality(S) \in Nat
           /\ \A k : Rank(S, k) \in Nat
           /\ Rank(S, n) = Cardinality(S)
           /\ Rank(S, 0) = 0
<1>0. \A j \in S : j \in Nat /\ j <= n /\ ~(j <= 0)
  OBVIOUS
<1>1. IsFiniteSet(S)
  <2>1. IsFiniteSet(1 .. n)
    BY FS_Interval
  <2> QED BY <2>1, FS_Subset
<1>2. \A k : IsFiniteSet({j \in S : j <= k})
  BY <1>1, FS_Subset
<1>3. {j \in S : j <= n} = S /\ {j \in S : j <= 0} = {}
  BY <1>0
<1> QED BY <1>1, <1>2, <1>3, FS_CardinalityType, FS_EmptySet DEF Rank

\* A position after all the others.
LEMMA RankNext ==
    ASSUME NEW n \in Nat, NEW S \in SUBSET (1 .. n), NEW x \in Nat, x = n + 1
    PROVE  /\ \A k \in 1 .. n : Rank(S \cup {x}, k) = Rank(S, k)
           /\ Cardinality(S \cup {x}) = Cardinality(S) + 1
           /\ Rank(S \cup {x}, x) = Cardinality(S) + 1
<1>1. ASSUME NEW k \in 1 .. n PROVE Rank(S \cup {x}, k) = Rank(S, k)
  <2>1. {j \in S \cup {x} : j <= k} = {j \in S : j <= k}
    OBVIOUS
  <2> QED BY <2>1 DEF Rank
<1>2. Cardinality(S \cup {x}) = Cardinality(S) + 1
  <2>1. x \notin S /\ IsFiniteSet(S)
    BY RankFacts
  <2> QED BY <2>1, FS_AddElement
<1>3. Rank(S \cup {x}, x) = Cardinality(S \cup {x})
  <2>1. \A j \in S \cup {x} : j <= x
    OBVIOUS
  <2>2. {j \in S \cup {x} : j <= x} = S \cup {x}
    BY <2>1
  <2> QED BY <2>2 DEF Rank
<1> QED BY <1>1, <1>2, <1>3

\* Positions beyond n do not change the ranks up to n.
LEMMA RankExtends ==
    ASSUME NEW n \in Nat, NEW S \in SUBSET (1 .. n), NEW T \in SUBSET Nat,
           T \cap (1 .. n) = S, 0 \notin T, NEW k \in 0 .. n
    PROVE  Rank(T, k) = Rank(S, k)
<1>1. {j \in T : j <= k} = {j \in S : j <= k}
  <2>1. \A j \in T : j <= k => j \in 1 .. n
    OBVIOUS
  <2> QED BY <2>1
<1> QED BY <1>1 DEF Rank

\* Among all the positions the n-th is n.
LEMMA RankOfAll ==
    ASSUME NEW n \in Nat, NEW k \in 0 .. n
    PROVE  Rank(1 .. n, k) = k
<1>1. {j \in 1 .. n : j <= k} = 1 .. k
  OBVIOUS
<1>2. Cardinality(1 .. k) = k
  BY FS_Interval
<1> QED BY <1>1, <1>2 DEF Rank

\* More of the second sequence.
LEMMA AlignedLater ==
    ASSUME NEW s, NEW S, NEW u, NEW U, NEW R, Aligned(s, S, u, U, R),
           NEW n \in Nat, U \subseteq 1 .. n,
           NEW w, NEW W \in SUBSET Nat, 0 \notin W, W \cap (1 .. n) = U,
           \A m \in U : w[m] = u[m]
    PROVE  Aligned(s, S, w, W, R)
<1>1. ASSUME NEW k \in S
      PROVE  \E m \in W : /\ Rank(W, m) = Rank(S, k)
                          /\ <<s[k].op, w[m].op>> \in R
                          /\ s[k].val = w[m].val
  <2>1. PICK m \in U : /\ Rank(U, m) = Rank(S, k)
                       /\ <<s[k].op, u[m].op>> \in R
                       /\ s[k].val = u[m].val
    BY <1>1 DEF Aligned
  <2>2. m \in 0 .. n /\ m \in W /\ w[m] = u[m]
    OBVIOUS
  <2>3. Rank(W, m) = Rank(U, m)
    BY <2>2, RankExtends
  <2> QED BY <2>1, <2>2, <2>3
<1> QED BY <1>1 DEF Aligned

\* More of the first sequence, but no position more.
LEMMA AlignedSame ==
    ASSUME NEW s, NEW S, NEW u, NEW U, NEW R, Aligned(s, S, u, U, R),
           NEW t, \A k \in S : t[k] = s[k]
    PROVE  Aligned(t, S, u, U, R)
BY DEF Aligned

\* One position more, that matches the next one of the second.
LEMMA AlignedNext ==
    ASSUME NEW s, NEW n \in Nat, NEW S \in SUBSET (1 .. n), NEW u, NEW U, NEW R,
           Aligned(s, S, u, U, R),
           NEW x \in Nat, x = n + 1,
           NEW t, \A k \in S : t[k] = s[k],
           NEW m \in U, Rank(U, m) = Cardinality(S) + 1,
           <<t[x].op, u[m].op>> \in R, t[x].val = u[m].val
    PROVE  Aligned(t, S \cup {x}, u, U, R)
<1>1. ASSUME NEW k \in S \cup {x}
      PROVE  \E l \in U : /\ Rank(U, l) = Rank(S \cup {x}, k)
                          /\ <<t[k].op, u[l].op>> \in R
                          /\ t[k].val = u[l].val
  <2>1. CASE k \in S
    <3>1. k \in 1 .. n
      BY <2>1
    <3>2. Rank(S \cup {x}, k) = Rank(S, k)
      BY <3>1, RankNext
    <3>3. PICK l \in U : /\ Rank(U, l) = Rank(S, k)
                         /\ <<s[k].op, u[l].op>> \in R
                         /\ s[k].val = u[l].val
      BY <2>1 DEF Aligned
    <3> QED BY <2>1, <3>2, <3>3
  <2>2. CASE k = x
    <3>1. Rank(S \cup {x}, x) = Cardinality(S) + 1
      BY RankNext
    <3> QED BY <2>2, <3>1
  <2> QED BY <2>1, <2>2
<1> QED BY <1>1 DEF Aligned

-----------------------------------------------------------------------------
(* The state of the library and the frame in hand.                         *)

LEMMA StoppedState == ASSUME ~Running' PROVE StateInv'
BY DEF StateInv, Running, Writing, Over

LEMMA EndedState == ASSUME pc' \in {"finish", "persist", "done", "spin"}
                    PROVE  ~Running'
BY DEF Running, Over

LEMMA StateInitially == Init => StateInv
BY DEF Init, StateInv, Running, Over, Writing, Closing, Replying, NoFrame

\* Reading and writing, between two points of the loop.
LEMMA QuietState ==
    ASSUME VerdictInv, StateInv,
           Connected \/ StartExpect \/ RetryRead \/ Receive \/ ReadReturns
              \/ EnterWrite \/ RetryWrite \/ WriteOk \/ Cancel \/ Spin
              \/ Returned \/ UNCHANGED vars
    PROVE  StateInv'
<1>1. /\ plan' = plan /\ ai' = ai /\ pending' = pending /\ state' = state
  BY DEF Connected, StartExpect, RetryRead, Receive, ReadReturns, EnterWrite,
         RetryWrite, WriteOk, Cancel, Spin, Returned, wireVars, endVars, history,
         vars
<1>2. Closing' = Closing /\ Replying' = Replying /\ Answering' = Answering
  BY <1>1 DEF Closing, Current, Replying, Answering
<1>3. CASE Connected \/ StartExpect
  <2>1. pending.why = "none"
    BY <1>3, EmptyHanded DEF Connected, StartExpect, Writing, NoFrame
  <2> QED
    BY <1>1, <1>2, <1>3, <2>1
    DEF StateInv, Connected, StartExpect, Running, Over, Writing, Closing,
        Replying, Answering, ExpectTypes, wireVars
<1>4. CASE RetryRead \/ Receive \/ ReadReturns
  BY <1>1, <1>2, <1>4
  DEF StateInv, RetryRead, Receive, ReadReturns, Running, Over, Writing, wireVars
<1>5. CASE EnterWrite \/ RetryWrite \/ WriteOk
  BY <1>1, <1>2, <1>5
  DEF StateInv, EnterWrite, RetryWrite, WriteOk, Running, Over, Writing,
      wireVars
<1>6. CASE Cancel \/ Spin \/ Returned \/ UNCHANGED vars
  BY <1>1, <1>2, <1>6
  DEF StateInv, Cancel, Spin, Returned, Running, Over, Writing, wireVars, vars
<1> QED BY <1>3, <1>4, <1>5, <1>6

\* Frames accepted or refused.
LEMMA ObserveState ==
    ASSUME VerdictInv, StateInv,
           ObserveBuffered \/ Observe \/ EnterRead \/ ReadFails \/ OnFragment
    PROVE  StateInv'
<1>1. CASE ~Running'
  BY <1>1, StoppedState
<1>2. CASE Running'
  <2>1. /\ plan' = plan /\ ai' = ai /\ pending' = pending /\ state' = state
        /\ ~Writing /\ pending = NoFrame
    <3>1. ~Writing /\ pc # "spin"
      BY DEF ObserveBuffered, Observe, EnterRead, ReadFails, OnFragment,
             Delivers, Writing
    <3> QED
      BY <1>2, <3>1, EmptyHanded
      DEF ObserveBuffered, Observe, EnterRead, ReadFails, OnFragment, wireVars,
          Running, Over, End
  <2>2. Closing' = Closing /\ Replying' = Replying
    BY <2>1 DEF Closing, Current, Replying
  <2>3. \/ pc' = pc /\ pc \in {"upgraded", "observe"} /\ inbuf' = inbuf
        \/ /\ pc = "decode" /\ pc' \in {"decode", "reading"}
           /\ staged' = staged /\ chunk' = chunk
    BY <1>2
    DEF ObserveBuffered, Observe, EnterRead, ReadFails, OnFragment, Delivers,
        wireVars, Running, Over, End
  <2>4. ~Writing'
    BY <2>3 DEF Writing
  <2> QED
    BY <1>2, <2>1, <2>2, <2>3, <2>4 DEF StateInv, Running, Over
<1> QED BY <1>1, <1>2

LEMMA StartSendState ==
    ASSUME SessionInv, VerdictInv, StateInv, StartSend
    PROVE  StateInv'
<1>1. CASE ~Running'
  BY <1>1, StoppedState
<1>2. CASE Running'
  <2>1. BeginWrite(FrameOf(Current), "action")
        /\ state' = IF Closing THEN "closed-by-us" ELSE state
    BY <1>2 DEF StartSend, End, Running, Over
  <2>2. /\ pc' = "write" /\ pending'.why = "action"
        /\ pending'.op = FrameOf(Current).op
    BY <1>2, <2>1 DEF BeginWrite, End, Running, Over
  <2>3. FrameOf(Current).op # "pong"
    BY DEF StartSend, FrameOf, IsOutbound, SendTypes
  <2>4. /\ plan' = plan /\ ai' = ai /\ pc = "next" /\ staged' = staged
        /\ chunk' = chunk
    BY DEF StartSend
  <2>5. state = "active" /\ staged = << >> /\ chunk = << >>
    BY <2>4 DEF StateInv, Running, Over
  <2>6. Closing' = Closing
    BY <2>4 DEF Closing, Current
  <2> QED
    BY <2>1, <2>2, <2>3, <2>4, <2>5, <2>6
    DEF StateInv, Running, Over, Writing, Replying, Answering
<1> QED BY <1>1, <1>2

\* A handler leaves the buffers of a read alone.
LEMMA HandlerState ==
    ASSUME SessionInv, VerdictInv, StateInv, OnData \/ OnPing \/ OnPong \/ OnClose
    PROVE  StateInv'
<1>1. CASE ~Running'
  BY <1>1, StoppedState
<1> SUFFICES ASSUME Running' PROVE StateInv'
  BY <1>1
<1>2. /\ Running /\ ~Writing /\ Waiting /\ ~Replying /\ pending = NoFrame
      /\ pc = "decode"
  <2>1. Delivers(DataOps) \/ Delivers({"ping"}) \/ Delivers({"pong"})
        \/ Delivers({"close"})
    BY DEF OnData, OnPing, OnPong, OnClose
  <2> QED BY <2>1, DeliveryFacts DEF Delivers
<1>3. /\ plan' = plan /\ staged' = staged /\ chunk' = chunk
      /\ staged = << >> /\ chunk = << >>
  <2>1. staged = << >> /\ chunk = << >>
    BY <1>2 DEF StateInv
  <2> QED BY <2>1 DEF OnData, OnPing, OnPong, OnClose
<1>4. state \in {"active", "closed-by-us"} /\ (state = "closed-by-us" <=> Closing)
  BY <1>2 DEF StateInv
<1>5. CASE OnData \/ OnPong
  <2>1. \/ /\ pc' = "next" /\ ai' = ai + 1 /\ ~Closing
        \/ pc' = "decode" /\ ai' = ai
    BY <1>5
    DEF OnData, OnPong, DataMatches, PongMatches, End, Running, Over, Closing
  <2>2. state' = state /\ pending' = pending
    BY <1>5 DEF OnData, OnPong, End, Running, Over
  <2>3. ~Replying'
    BY <1>2, <2>2 DEF Replying
  <2>4. CASE pc' = "next" /\ ~Closing
    BY <1>3, <1>4, <2>2, <2>3, <2>4 DEF StateInv, Running, Over, Writing
  <2>5. CASE pc' = "decode" /\ ai' = ai
    <3>1. Closing' = Closing
      BY <1>3, <2>5 DEF Closing, Current
    <3> QED
      BY <1>3, <1>4, <2>2, <2>3, <2>5, <3>1 DEF StateInv, Running, Over, Writing
  <2> QED BY <2>1, <2>4, <2>5
<1>6. CASE OnPing
  <2>1. ai' = ai /\ state' = state
    BY <1>6 DEF OnPing
  <2>2. Closing' = Closing
    BY <1>3, <2>1 DEF Closing, Current
  <2>3. \/ /\ AnswersPing /\ pc' = "write" /\ pending'.why = "pong"
           /\ pending'.op = "pong"
        \/ /\ ~AnswersPing /\ pc' = "flush" /\ pending'.why = "unsent"
           /\ pending'.op = "pong"
    <3>1. inbuf \in Seq(Frame) /\ inbuf # << >>
      BY <1>6 DEF SessionInv, TypeOK, OnPing, Delivers
    <3>2. [Head(inbuf) EXCEPT !.op = "pong"].op = "pong"
      BY <3>1, HeadAndTail DEF Frame
    <3>3. ASSUME NEW g, g.op = "pong", BeginWrite(g, "pong")
          PROVE  pc' = "write" /\ pending'.why = "pong" /\ pending'.op = "pong"
      BY <3>3 DEF BeginWrite, End, Running, Over
    <3>4. \A t : ~End(t)
      BY DEF End, Running, Over
    <3> DEFINE f == Head(inbuf)
               pong == [f EXCEPT !.op = "pong"]
               c == Accounted(FALSE)
               kept == [op |-> "pong", val |-> f.val, len |-> f.len,
                        why |-> "unsent"]
    <3>5. kept.why = "unsent" /\ kept.op = "pong" /\ pong.op = "pong"
      BY <3>2
    <3>6. IF OverInbound(c, f.len)
          THEN End(Failed("budget-exhausted"))
          ELSE IF ExceedsOutbound(c, FALSE, f.len)
          THEN End(Failed("budget-exhausted"))
          ELSE IF AnswersPing THEN BeginWrite(pong, "pong")
          ELSE pending' = kept /\ pc' = "flush"
      BY <1>6, Zenon DEF OnPing
    <3> HIDE DEF pong, c, f, kept
    <3> QED BY <3>3, <3>4, <3>5, <3>6
  <2> QED
    BY <1>3, <1>4, <2>1, <2>2, <2>3
    DEF StateInv, Running, Over, Writing, Replying, Answering, AnswersPing
<1>7. CASE OnClose
  <2>1. ai' = ai /\ state' = IF Closing THEN "close-acknowledged" ELSE "closed-by-peer"
    BY <1>7 DEF OnClose
  <2>2. Closing' = Closing
    BY <1>3, <2>1 DEF Closing, Current
  <2>3. /\ ~Closing /\ pc' = "write" /\ pending'.why = "ack"
        /\ pending'.op = "close"
    <3>1. Head(inbuf).op = "close"
      BY <1>7 DEF OnClose, Delivers
    <3>2. \A t : ~End(t)
      BY DEF End, Running, Over
    <3>3. ~Closing /\ BeginWrite(Head(inbuf), "ack")
      BY <1>7, <3>2, Zenon DEF OnClose
    <3> QED BY <3>1, <3>3 DEF BeginWrite, End, Running, Over
  <2> QED
    BY <1>3, <2>1, <2>2, <2>3
    DEF StateInv, Running, Over, Writing, Replying, Answering
<1> QED BY <1>5, <1>6, <1>7

LEMMA FlushState ==
    ASSUME SessionInv, VerdictInv, StateInv, FlushOk
    PROVE  StateInv'
<1>1. CASE ~Running'
  BY <1>1, StoppedState
<1>2. CASE Running'
  <2>1. /\ Running /\ Writing /\ pending.why \in {"action", "pong", "unsent", "ack"}
    BY DEF FlushOk, Running, Over, Writing, VerdictInv, HandMatchesPlan
  <2>2. /\ plan' = plan /\ state' = state /\ staged' = staged /\ chunk' = chunk
        /\ inbuf' = inbuf /\ pc = "flush" /\ pending.why # "ack"
        /\ pending' = NoFrame
        /\ pc' = IF pending.why = "action" /\ ~Closing THEN "next" ELSE "decode"
        /\ ai' = IF pending.why = "action" /\ ~Closing THEN ai + 1 ELSE ai
    BY <1>2 DEF FlushOk, wireVars, End, Running, Over
  <2>3. ~Replying /\ ~Replying' /\ ~Writing'
    BY <2>2 DEF Replying, NoFrame, Writing
  <2>4. /\ staged = << >> /\ chunk = << >>
        /\ state \in {"active", "closed-by-us"}
        /\ state = "closed-by-us" <=> Closing
    BY <2>1, <2>2, <2>3 DEF StateInv
  <2>5. CASE pending.why = "action" /\ ~Closing
    BY <2>2, <2>3, <2>4, <2>5 DEF StateInv, Running, Over
  <2>6. CASE ~(pending.why = "action" /\ ~Closing)
    <3>1. Closing' = Closing
      BY <2>2, <2>6 DEF Closing, Current
    <3> QED
      BY <2>2, <2>3, <2>4, <2>6, <3>1 DEF StateInv, Running, Over
  <2> QED BY <2>5, <2>6
<1> QED BY <1>1, <1>2

LEMMA StateStep ==
    ASSUME SessionInv, VerdictInv, StateInv, [Next]_vars
    PROVE  StateInv'
<1>1. CASE WriteFails \/ FlushFails \/ StoreTranscript \/ PersistObservation
  <2>1. pc' \in {"finish", "persist", "done"}
    BY <1>1
    DEF WriteFails, FlushFails, StoreTranscript, PersistObservation, WriteError,
        End
  <2> QED BY <2>1, EndedState, StoppedState
<1> QED
  BY <1>1, QuietState, ObserveState, StartSendState, HandlerState, FlushState
  DEF Next, Local, Handler, ReadSyscall, WriteSyscall

-----------------------------------------------------------------------------
(* What the peer sent, delivered and held.                                 *)

\* The rank grows by one at each position of the set, and only there.
LEMMA RankStep ==
    ASSUME NEW n \in Nat, NEW S \in SUBSET (1 .. n), NEW d \in 0 .. (n - 1),
           NEW x \in Nat, x = d + 1
    PROVE  /\ x \in S => Rank(S, x) = Rank(S, d) + 1
           /\ x \notin S => Rank(S, x) = Rank(S, d)
<1> DEFINE A == {j \in S : j <= d}
           B == {j \in S : j <= x}
<1>1. IsFiniteSet(A) /\ x \notin A
  <2>1. IsFiniteSet(S)
    BY RankFacts
  <2> QED BY <2>1, FS_Subset
<1>0. \A j \in S : j <= x <=> j <= d \/ j = x
  OBVIOUS
<1>2. CASE x \in S
  <2>1. B = A \cup {x}
    <3>1. x <= x
      OBVIOUS
    <3> QED BY <1>0, <1>2, <3>1
  <2>2. Cardinality(A \cup {x}) = Cardinality(A) + 1
    BY <1>1, FS_AddElement
  <2> QED BY <1>2, <2>1, <2>2 DEF Rank
<1>3. CASE x \notin S
  <2>1. B = A
    BY <1>0, <1>3
  <2> QED BY <1>3, <2>1 DEF Rank
<1> QED BY <1>2, <1>3

LEMMA SeqFacts ==
    ASSUME NEW T, NEW s \in Seq(T)
    PROVE  /\ Len(s) \in Nat /\ DOMAIN s = 1 .. Len(s)
           /\ \A i \in DOMAIN s : s[i] \in T
           /\ s # << >> => Len(s) >= 1
OBVIOUS

\* One more frame observed.
LEMMA HeldAdmit ==
    ASSUME NEW d \in Nat, NEW p \in Seq(Frame), NEW ib \in Seq(Frame),
           NEW st \in Seq(Frame), NEW ch \in Seq(Frame), ch # << >>,
           Held(d, p, ib, st, ch)
    PROVE  Held(d, p, ib, Append(st, Head(ch)), Tail(ch))
<1> DEFINE a == d + Len(ib)
           t == Append(st, Head(ch))
           c == Tail(ch)
<1>1. /\ a \in Nat /\ Len(st) \in Nat /\ Len(ch) \in Nat /\ Len(ch) >= 1
      /\ Len(t) = Len(st) + 1 /\ Len(c) = Len(ch) - 1
      /\ DOMAIN t = 1 .. Len(t) /\ DOMAIN c = 1 .. Len(c)
      /\ DOMAIN ch = 1 .. Len(ch) /\ DOMAIN st = 1 .. Len(st)
      /\ Len(ib) \in Nat
  BY SeqFacts
<1>2. /\ \A j \in 1 .. Len(st) : t[j] = st[j]
      /\ t[Len(st) + 1] = ch[1]
      /\ \A j \in 1 .. Len(c) : c[j] = ch[j + 1]
  OBVIOUS
<1>3. /\ Placed(st, a, p) /\ Placed(ch, a + Len(st), p) /\ Placed(ib, d, p)
      /\ a + Len(st) + Len(ch) = Len(p)
  BY DEF Held
<1> HIDE DEF t, c, a
<1>4. Placed(t, a, p)
  <2> SUFFICES ASSUME NEW j \in DOMAIN t
               PROVE  a + j \in DOMAIN p /\ p[a + j] = t[j]
    BY DEF Placed
  <2>1. CASE j \in 1 .. Len(st)
    BY <1>1, <1>2, <1>3, <2>1 DEF Placed
  <2>2. CASE j = Len(st) + 1
    <3>1. /\ a + Len(st) + 1 \in DOMAIN p
          /\ p[a + Len(st) + 1] = ch[1]
      <4>1. 1 \in DOMAIN ch
        BY <1>1
      <4> QED BY <1>3, <4>1 DEF Placed
    <3> QED BY <1>1, <1>2, <2>2, <3>1
  <2> QED BY <1>1, <2>1, <2>2
<1>5. Placed(c, a + Len(t), p)
  <2> SUFFICES ASSUME NEW j \in DOMAIN c
               PROVE  /\ a + Len(t) + j \in DOMAIN p
                      /\ p[a + Len(t) + j] = c[j]
    BY DEF Placed
  <2>1. j + 1 \in DOMAIN ch /\ a + Len(t) + j = a + Len(st) + (j + 1)
    BY <1>1
  <2>2. /\ a + Len(st) + (j + 1) \in DOMAIN p
        /\ p[a + Len(st) + (j + 1)] = ch[j + 1]
    BY <1>3, <2>1 DEF Placed
  <2> QED BY <1>1, <1>2, <2>1, <2>2
<1>6. a + Len(t) + Len(c) = Len(p)
  BY <1>1, <1>3
<1> QED BY <1>3, <1>4, <1>5, <1>6 DEF Held, a, t, c

\* The read returns.
LEMMA HeldReturn ==
    ASSUME NEW d \in Nat, NEW p \in Seq(Frame), NEW ib \in Seq(Frame),
           NEW st \in Seq(Frame), Held(d, p, ib, st, << >>)
    PROVE  Held(d, p, ib \o st, << >>, << >>)
<1> DEFINE i == ib \o st
<1>1. /\ Len(ib) \in Nat /\ Len(st) \in Nat /\ Len(i) = Len(ib) + Len(st)
      /\ DOMAIN i = 1 .. Len(i) /\ DOMAIN ib = 1 .. Len(ib)
      /\ DOMAIN st = 1 .. Len(st)
  OBVIOUS
<1>2. /\ \A j \in 1 .. Len(ib) : i[j] = ib[j]
      /\ \A j \in 1 .. Len(st) : i[Len(ib) + j] = st[j]
  OBVIOUS
<1>3. /\ Placed(ib, d, p) /\ Placed(st, d + Len(ib), p)
      /\ d + Len(ib) + Len(st) = Len(p)
  BY <1>1 DEF Held
<1> HIDE DEF i
<1>4. Placed(i, d, p)
  <2> SUFFICES ASSUME NEW j \in DOMAIN i
               PROVE  d + j \in DOMAIN p /\ p[d + j] = i[j]
    BY DEF Placed
  <2>1. CASE j \in 1 .. Len(ib)
    BY <1>1, <1>2, <1>3, <2>1 DEF Placed
  <2>2. CASE j - Len(ib) \in 1 .. Len(st)
    <3> DEFINE k == j - Len(ib)
    <3>1. /\ k \in DOMAIN st /\ d + Len(ib) + k = d + j /\ Len(ib) + k = j
      BY <1>1, <2>2
    <3>2. d + Len(ib) + k \in DOMAIN p /\ p[d + Len(ib) + k] = st[k]
      BY <1>3, <3>1 DEF Placed
    <3> QED BY <1>1, <1>2, <3>1, <3>2
  <2> QED BY <1>1, <2>1, <2>2
<1>5. \A x : Placed(<< >>, x, p)
  BY DEF Placed
<1>6. d + Len(i) + Len(<< >>) + Len(<< >>) = Len(p)
  BY <1>1, <1>3
<1> QED BY <1>4, <1>5, <1>6 DEF Held, i

\* More frames arrive.
LEMMA HeldReceive ==
    ASSUME NEW d \in Nat, NEW p \in Seq(Frame), NEW ib \in Seq(Frame),
           NEW c \in Seq(Frame), Held(d, p, ib, << >>, << >>)
    PROVE  Held(d, p \o c, ib, << >>, c)
<1> DEFINE q == p \o c
<1>1. /\ Len(ib) \in Nat /\ Len(p) \in Nat /\ Len(c) \in Nat
      /\ Len(q) = Len(p) + Len(c)
      /\ DOMAIN q = 1 .. Len(q) /\ DOMAIN ib = 1 .. Len(ib)
      /\ DOMAIN c = 1 .. Len(c) /\ DOMAIN p = 1 .. Len(p)
  OBVIOUS
<1>2. /\ \A j \in 1 .. Len(p) : q[j] = p[j]
      /\ \A j \in 1 .. Len(c) : q[Len(p) + j] = c[j]
  OBVIOUS
<1>3. Placed(ib, d, p) /\ d + Len(ib) = Len(p)
  BY <1>1 DEF Held
<1> HIDE DEF q
<1>4. Placed(ib, d, q)
  BY <1>1, <1>2, <1>3 DEF Placed
<1>5. Placed(c, Len(p), q)
  BY <1>1, <1>2 DEF Placed
<1>6. Placed(<< >>, d + Len(ib), q)
  BY DEF Placed
<1>7. /\ d + Len(ib) + Len(<< >>) = Len(p)
      /\ d + Len(ib) + Len(<< >>) + Len(c) = Len(q)
  <2>1. Len(<< >>) = 0
    OBVIOUS
  <2>2. ASSUME NEW x \in Nat, NEW y \in Nat, NEW z \in Nat, NEW w,
               d + x = y, w = y + z
        PROVE  d + x + 0 = y /\ d + x + 0 + z = w
    BY <2>2
  <2> QED BY <1>1, <1>3, <2>1, <2>2
<1> QED BY <1>4, <1>5, <1>6, <1>7 DEF Held, q

\* The library delivers a frame.
LEMMA HeldDeliver ==
    ASSUME NEW d \in Nat, NEW p \in Seq(Frame), NEW ib \in Seq(Frame),
           ib # << >>, Held(d, p, ib, << >>, << >>)
    PROVE  /\ Held(d + 1, p, Tail(ib), << >>, << >>)
           /\ d + 1 \in DOMAIN p /\ p[d + 1] = Head(ib)
<1> DEFINE i == Tail(ib)
<1>1. /\ Len(ib) \in Nat /\ Len(ib) >= 1 /\ Len(i) = Len(ib) - 1
      /\ DOMAIN i = 1 .. Len(i) /\ DOMAIN ib = 1 .. Len(ib)
  BY SeqFacts
<1>2. (\A j \in 1 .. Len(i) : i[j] = ib[j + 1]) /\ Head(ib) = ib[1]
  OBVIOUS
<1>3. Placed(ib, d, p) /\ d + Len(ib) = Len(p)
  BY <1>1 DEF Held
<1> HIDE DEF i
<1>4. d + 1 \in DOMAIN p /\ p[d + 1] = Head(ib)
  BY <1>1, <1>2, <1>3 DEF Placed
<1>5. Placed(i, d + 1, p)
  <2> SUFFICES ASSUME NEW j \in DOMAIN i
               PROVE  d + 1 + j \in DOMAIN p /\ p[d + 1 + j] = i[j]
    BY DEF Placed
  <2>1. j + 1 \in DOMAIN ib /\ d + 1 + j = d + (j + 1)
    BY <1>1
  <2>2. d + (j + 1) \in DOMAIN p /\ p[d + (j + 1)] = ib[j + 1]
    BY <1>3, <2>1 DEF Placed
  <2> QED BY <1>1, <1>2, <2>1, <2>2
<1>6. \A x : Placed(<< >>, x, p)
  BY DEF Placed
<1>7. d + 1 + Len(i) + Len(<< >>) + Len(<< >>) = Len(p)
  BY <1>1, <1>3
<1> QED BY <1>4, <1>5, <1>6, <1>7 DEF Held, i

-----------------------------------------------------------------------------
(* Inbound entries.                                                        *)

LEMMA TraceFacts ==
    ASSUME SessionInv
    PROVE  /\ transcript \in Seq(Entries) /\ peerSent \in Seq(Frame)
           /\ wireOut \in Seq(Outbound) /\ pending \in Outbound
           /\ inbuf \in Seq(Frame) /\ staged \in Seq(Frame)
           /\ chunk \in Seq(Frame)
           /\ Len(transcript) \in Nat /\ DOMAIN transcript = 1 .. Len(transcript)
           /\ Len(peerSent) \in Nat /\ DOMAIN peerSent = 1 .. Len(peerSent)
           /\ Len(wireOut) \in Nat /\ DOMAIN wireOut = 1 .. Len(wireOut)
BY DEF SessionInv, TypeOK

LEMMA PositionFacts ==
    ASSUME SessionInv
    PROVE  /\ SentAt \in SUBSET (1 .. Len(transcript))
           /\ InboundAt \in SUBSET (1 .. Len(transcript))
           /\ PingsAt \in SUBSET (1 .. Len(transcript))
           /\ MessagesAt \in SUBSET (1 .. Len(peerSent))
           /\ PongsAt \in SUBSET (1 .. Len(wireOut))
BY TraceFacts DEF SentAt, InboundAt, PingsAt, MessagesAt, PongsAt

\* One entry more.
LEMMA OneEntryMore ==
    ASSUME SessionInv, NEW e, plan' = plan,
           transcript' = Append(transcript, e),
           NEW x, x = Len(transcript) + 1
    PROVE  /\ x \in Nat /\ DOMAIN transcript' = DOMAIN transcript \cup {x}
           /\ \A k \in DOMAIN transcript : transcript'[k] = transcript[k]
           /\ transcript'[x] = e
           /\ InboundAt' = InboundAt \cup (IF e.dir = "inbound" THEN {x} ELSE {})
           /\ PingsAt' = PingsAt \cup (IF e.dir = "inbound" /\ e.op = "ping"
                                       THEN {x} ELSE {})
           /\ SentAt' = SentAt \cup (IF e.dir = "outbound"
                                        /\ ~(e.op = "pong"
                                             /\ plan[e.ai].type = "close")
                                     THEN {x} ELSE {})
<1>1. /\ x \in Nat /\ DOMAIN transcript' = DOMAIN transcript \cup {x}
      /\ \A k \in DOMAIN transcript : transcript'[k] = transcript[k]
      /\ transcript'[x] = e /\ x \notin DOMAIN transcript
  <2>1. transcript \in Seq(Entries \cup {e})
    BY TraceFacts
  <2>2. /\ Len(transcript) \in Nat
        /\ DOMAIN transcript = 1 .. Len(transcript)
        /\ DOMAIN transcript' = 1 .. (Len(transcript) + 1)
        /\ \A k \in 1 .. Len(transcript) : transcript'[k] = transcript[k]
        /\ transcript'[Len(transcript) + 1] = e
    BY <2>1
  <2> QED BY <2>2
<1>2. InboundAt' = InboundAt \cup (IF e.dir = "inbound" THEN {x} ELSE {})
  BY <1>1 DEF InboundAt
<1>3. PingsAt' = PingsAt \cup (IF e.dir = "inbound" /\ e.op = "ping"
                               THEN {x} ELSE {})
  BY <1>1 DEF PingsAt, InboundAt
<1>4. SentAt' = SentAt \cup (IF e.dir = "outbound"
                                /\ ~(e.op = "pong" /\ plan[e.ai].type = "close")
                             THEN {x} ELSE {})
  BY <1>1 DEF SentAt
<1> QED BY <1>1, <1>2, <1>3, <1>4

\* A step that delivers nothing.
LEMMA InboundQuiet ==
    ASSUME SessionInv, InboundInv, plan' = plan, peerSent' = peerSent,
           \/ transcript' = transcript
           \/ \E e : e.dir = "outbound" /\ transcript' = Append(transcript, e),
           Running' => /\ Running /\ inbuf' = inbuf /\ staged' = staged
                       /\ chunk' = chunk
    PROVE  InboundInv'
<1>1. /\ InboundAt' = InboundAt
      /\ \A k \in InboundAt : transcript'[k] = transcript[k]
  <2>1. CASE transcript' = transcript
    BY <2>1 DEF InboundAt
  <2>2. CASE \E e : e.dir = "outbound" /\ transcript' = Append(transcript, e)
    <3>1. PICK e : e.dir = "outbound" /\ transcript' = Append(transcript, e)
      BY <2>2
    <3> QED BY <3>1, OneEntryMore, PositionFacts, TraceFacts
  <2> QED BY <2>1, <2>2
<1>2. MessagesAt' = MessagesAt
  BY DEF MessagesAt
<1>3. InboundInOrder'
  BY <1>1, <1>2, AlignedSame DEF InboundInv, InboundInOrder
<1>4. Stream'
  BY <1>1, <1>2 DEF InboundInv, Stream
<1> QED BY <1>3, <1>4 DEF InboundInv

LEMMA InboundUnheld ==
    ASSUME SessionInv, InboundInv, transcript' = transcript,
           peerSent' = peerSent, Running,
           NEW d, d \in 0 .. Len(peerSent),
           Held(d, peerSent, inbuf', staged', chunk'),
           Cardinality(InboundAt) = Rank(MessagesAt, d)
    PROVE  InboundInv'
<1>1. InboundAt' = InboundAt /\ MessagesAt' = MessagesAt
  BY DEF InboundAt, MessagesAt
<1>2. InboundInOrder'
  BY <1>1 DEF InboundInv, InboundInOrder
<1>3. Stream'
  BY <1>1 DEF Stream
<1> QED BY <1>2, <1>3 DEF InboundInv

LEMMA AdmitInbound ==
    ASSUME SessionInv, StateInv, InboundInv, ObserveBuffered \/ Observe
    PROVE  InboundInv'
<1>1. /\ plan' = plan /\ transcript' = transcript /\ peerSent' = peerSent
      /\ inbuf' = inbuf /\ chunk # << >> /\ Running
  BY DEF ObserveBuffered, Observe, history, Running, Over
<1>2. CASE ~Running'
  BY <1>1, <1>2, InboundQuiet
<1>3. CASE Admit
  <2>1. PICK d \in 0 .. Len(peerSent) :
           /\ Held(d, peerSent, inbuf, staged, chunk)
           /\ Cardinality(InboundAt) = Rank(MessagesAt, d)
    BY <1>1 DEF InboundInv, Stream
  <2>2. Held(d, peerSent, inbuf, Append(staged, Head(chunk)), Tail(chunk))
    BY <1>1, <2>1, HeldAdmit, TraceFacts
  <2> QED BY <1>1, <1>3, <2>1, <2>2, InboundUnheld DEF Admit
<1>4. Admit \/ ~Running'
  BY DEF ObserveBuffered, Observe, End, Running, Over
<1> QED BY <1>2, <1>3, <1>4

LEMMA ReturnInbound ==
    ASSUME SessionInv, StateInv, InboundInv, Connected \/ ReadReturns
    PROVE  InboundInv'
<1>1. /\ transcript' = transcript /\ peerSent' = peerSent /\ chunk = << >>
      /\ staged' = << >> /\ chunk' = << >> /\ Running
      /\ inbuf' = inbuf \o staged
  <2>1. CASE Connected
    <3>1. inbuf = << >>
      BY <2>1 DEF Connected, StateInv
    <3>2. << >> \o staged = staged
      BY TraceFacts
    <3> QED BY <2>1, <3>1, <3>2 DEF Connected, history, Running, Over
  <2>2. CASE ReadReturns
    BY <2>2 DEF ReadReturns, history, Running, Over
  <2> QED BY <2>1, <2>2
<1>2. PICK d \in 0 .. Len(peerSent) :
         /\ Held(d, peerSent, inbuf, staged, chunk)
         /\ Cardinality(InboundAt) = Rank(MessagesAt, d)
  BY <1>1 DEF InboundInv, Stream
<1>3. Held(d, peerSent, inbuf \o staged, << >>, << >>)
  BY <1>1, <1>2, HeldReturn, TraceFacts
<1> QED BY <1>1, <1>2, <1>3, InboundUnheld

LEMMA ReceiveInbound ==
    ASSUME SessionInv, StateInv, InboundInv, Receive
    PROVE  InboundInv'
<1>1. PICK c \in Chunks(1) : chunk' = c /\ peerSent' = peerSent \o c
  BY DEF Receive
<1>2. c \in Seq(Frame)
  BY ChunksTyped
<1>3. /\ transcript' = transcript /\ inbuf' = inbuf /\ staged' = << >>
      /\ staged = << >> /\ chunk = << >> /\ Running
  BY DEF Receive, StateInv, Running, Over
<1>4. PICK d \in 0 .. Len(peerSent) :
         /\ Held(d, peerSent, inbuf, << >>, << >>)
         /\ Cardinality(InboundAt) = Rank(MessagesAt, d)
  BY <1>3 DEF InboundInv, Stream
<1>5. Held(d, peerSent', inbuf', staged', chunk')
  BY <1>1, <1>2, <1>3, <1>4, HeldReceive, TraceFacts
<1>6. /\ Len(peerSent') \in Nat /\ Len(peerSent') >= Len(peerSent)
      /\ DOMAIN peerSent' = 1 .. Len(peerSent')
      /\ \A m \in 1 .. Len(peerSent) : peerSent'[m] = peerSent[m]
  BY <1>1, <1>2, TraceFacts
<1>7. /\ MessagesAt' \in SUBSET Nat /\ 0 \notin MessagesAt'
      /\ MessagesAt' \cap (1 .. Len(peerSent)) = MessagesAt
      /\ \A m \in MessagesAt : peerSent'[m] = peerSent[m]
  BY <1>6, TraceFacts DEF MessagesAt
<1>8. InboundAt' = InboundAt
  BY <1>3 DEF InboundAt
<1>9. InboundInOrder'
  BY <1>3, <1>7, <1>8, AlignedLater, TraceFacts, PositionFacts
  DEF InboundInv, InboundInOrder
<1>10. Rank(MessagesAt', d) = Rank(MessagesAt, d)
  <2>1. Len(peerSent) \in Nat /\ MessagesAt \in SUBSET (1 .. Len(peerSent))
    BY TraceFacts, PositionFacts
  <2> QED BY <1>7, <2>1, RankExtends
<1>11. d \in 0 .. Len(peerSent')
  BY <1>6, TraceFacts
<1> QED BY <1>4, <1>5, <1>8, <1>9, <1>10, <1>11 DEF InboundInv, Stream

\* What a delivery takes from the held frames.
LEMMA DeliverHeld ==
    ASSUME SessionInv, StateInv, InboundInv, NEW ops, Delivers(ops)
    PROVE  \E d \in 0 .. (Len(peerSent) - 1), x \in DOMAIN peerSent :
              /\ x = d + 1 /\ x \in Nat
              /\ Held(x, peerSent, Tail(inbuf), << >>, << >>)
              /\ peerSent[x] = Head(inbuf)
              /\ Cardinality(InboundAt) = Rank(MessagesAt, d)
<1>1. Running /\ staged = << >> /\ chunk = << >> /\ inbuf # << >>
  BY DEF Delivers, StateInv, Running, Over
<1>2. PICK d \in 0 .. Len(peerSent) :
         /\ Held(d, peerSent, inbuf, << >>, << >>)
         /\ Cardinality(InboundAt) = Rank(MessagesAt, d)
  BY <1>1 DEF InboundInv, Stream
<1>3. /\ Held(d + 1, peerSent, Tail(inbuf), << >>, << >>)
      /\ d + 1 \in DOMAIN peerSent /\ peerSent[d + 1] = Head(inbuf)
  BY <1>1, <1>2, HeldDeliver, TraceFacts
<1>4. d \in 0 .. (Len(peerSent) - 1) /\ d + 1 \in Nat
  BY <1>2, <1>3, TraceFacts
<1> QED BY <1>2, <1>3, <1>4

LEMMA OnFragmentInbound ==
    ASSUME SessionInv, StateInv, InboundInv, OnFragment
    PROVE  InboundInv'
<1>1. /\ transcript' = transcript /\ peerSent' = peerSent /\ plan' = plan
      /\ inbuf' = Tail(inbuf) /\ staged' = staged /\ chunk' = chunk
      /\ Running /\ staged = << >> /\ chunk = << >>
      /\ Head(inbuf).op \in {"part", "bad"}
  BY DEF OnFragment, Delivers, history, StateInv, Running, Over
<1>2. PICK d \in 0 .. (Len(peerSent) - 1), x \in DOMAIN peerSent :
         /\ x = d + 1 /\ x \in Nat
         /\ Held(x, peerSent, Tail(inbuf), << >>, << >>)
         /\ peerSent[x] = Head(inbuf)
         /\ Cardinality(InboundAt) = Rank(MessagesAt, d)
  BY DeliverHeld DEF OnFragment
<1>3. x \notin MessagesAt
  BY <1>1, <1>2 DEF MessagesAt
<1>4. Rank(MessagesAt, x) = Rank(MessagesAt, d)
  BY <1>2, <1>3, RankStep, TraceFacts, PositionFacts
<1>5. x \in 0 .. Len(peerSent)
  BY TraceFacts
<1> QED BY <1>1, <1>2, <1>4, <1>5, InboundUnheld

\* A message with its entry.
LEMMA DeliverInbound ==
    ASSUME SessionInv, StateInv, InboundInv, NEW ops, Delivers(ops),
           ops \cap {"part", "bad"} = {}, plan' = plan,
           inbuf' = Tail(inbuf), staged' = staged, chunk' = chunk,
           peerSent' = peerSent, NEW e, e.dir = "inbound",
           e.op = Head(inbuf).op, e.val = Head(inbuf).val,
           transcript' = Append(transcript, e)
    PROVE  InboundInv'
<1>1. Running /\ staged = << >> /\ chunk = << >> /\ Head(inbuf).op \in ops
  BY DEF Delivers, StateInv, Running, Over
<1>2. PICK d \in 0 .. (Len(peerSent) - 1), x \in DOMAIN peerSent :
         /\ x = d + 1 /\ x \in Nat
         /\ Held(x, peerSent, Tail(inbuf), << >>, << >>)
         /\ peerSent[x] = Head(inbuf)
         /\ Cardinality(InboundAt) = Rank(MessagesAt, d)
  BY DeliverHeld
<1>3. x \in MessagesAt
  BY <1>1, <1>2 DEF MessagesAt
<1>4. Rank(MessagesAt, x) = Cardinality(InboundAt) + 1
  <2>1. Rank(MessagesAt, x) = Rank(MessagesAt, d) + 1
    BY <1>2, <1>3, RankStep, TraceFacts, PositionFacts
  <2> QED BY <1>2, <2>1
<1> DEFINE y == Len(transcript) + 1
<1>5. /\ y \in Nat /\ InboundAt' = InboundAt \cup {y} /\ transcript'[y] = e
      /\ \A k \in InboundAt : transcript'[k] = transcript[k]
  BY OneEntryMore, PositionFacts, TraceFacts
<1>6. MessagesAt' = MessagesAt
  BY DEF MessagesAt
<1>7. <<e.op, peerSent[x].op>> \in SameKind
  <2>1. peerSent[x] \in Frame
    BY TraceFacts
  <2>2. e.op = peerSent[x].op /\ e.op \in FrameOps
    BY <1>2, <2>1 DEF Frame
  <2> QED BY <2>2 DEF SameKind
<1>8. InboundInOrder'
  <2>1. Len(transcript) \in Nat /\ InboundAt \in SUBSET (1 .. Len(transcript))
    BY TraceFacts, PositionFacts
  <2>2. Aligned(transcript, InboundAt, peerSent, MessagesAt, SameKind)
    BY DEF InboundInv, InboundInOrder
  <2>3. /\ y = Len(transcript) + 1
        /\ <<transcript'[y].op, peerSent[x].op>> \in SameKind
        /\ transcript'[y].val = peerSent[x].val
    BY <1>2, <1>5, <1>7
  <2> HIDE DEF y
  <2>4. Aligned(transcript', InboundAt \cup {y}, peerSent, MessagesAt, SameKind)
    BY <1>3, <1>4, <1>5, <2>1, <2>2, <2>3, AlignedNext
  <2> QED BY <1>5, <1>6, <2>4 DEF InboundInOrder
<1>9. Cardinality(InboundAt') = Rank(MessagesAt', x)
  BY <1>4, <1>5, <1>6, RankNext, TraceFacts, PositionFacts
<1>10. x \in 0 .. Len(peerSent)
  BY TraceFacts
<1>11. Stream'
  BY <1>1, <1>2, <1>9, <1>10 DEF Stream
<1> QED BY <1>8, <1>11 DEF InboundInv

-----------------------------------------------------------------------------
(* What a handler records.                                                 *)

Deliveries == OnData \/ OnPing \/ OnPong \/ OnClose

LEMMA EntryFields ==
    \A d, f, c : LET e == Entry(d, f, c)
                 IN  e.dir = d /\ e.op = f.op /\ e.val = f.val /\ e.ai = ai
BY DEF Entry

LEMMA EndStops == \A t : End(t) => ~Running'
BY DEF End, Running, Over

LEMMA HandlerRecords ==
    ASSUME Deliveries
    PROVE  \/ transcript' = transcript /\ ~Running'
           \/ \E c : transcript' = Append(transcript,
                                          Entry("inbound", Head(inbuf), c))
<1>1. CASE OnData
  BY <1>1, EndStops, Zenon DEF OnData, Record
<1>2. CASE OnPing
  BY <1>2, EndStops, Zenon DEF OnPing, Record
<1>3. CASE OnPong
  BY <1>3, EndStops, Zenon DEF OnPong, Record
<1>4. CASE OnClose
  BY <1>4, EndStops, Zenon DEF OnClose, Record
<1> QED BY <1>1, <1>2, <1>3, <1>4 DEF Deliveries

LEMMA HandlerFrame ==
    ASSUME SessionInv, VerdictInv, StateInv, Deliveries
    PROVE  /\ plan' = plan /\ conn' = conn /\ wireOut' = wireOut
           /\ peerSent' = peerSent /\ inbuf' = Tail(inbuf)
           /\ staged' = staged /\ chunk' = chunk
           /\ Delivers({"text", "binary", "ping", "pong", "close"})
           /\ Running /\ ~Writing /\ ~Left /\ pending = NoFrame
           /\ OnPing <=> Head(inbuf).op = "ping"
<1>1. /\ plan' = plan /\ conn' = conn /\ wireOut' = wireOut
      /\ peerSent' = peerSent /\ inbuf' = Tail(inbuf)
      /\ staged' = staged /\ chunk' = chunk
  BY DEF Deliveries, OnData, OnPing, OnPong, OnClose, history
<1>2. Delivers({"text", "binary", "ping", "pong", "close"})
  BY DEF Deliveries, OnData, OnPing, OnPong, OnClose, Delivers, DataOps
<1>3. Running /\ ~Writing /\ pending = NoFrame /\ ~Left
  BY <1>2, DeliveryFacts DEF Left, Delivers
<1>4. OnPing <=> Head(inbuf).op = "ping"
  BY DEF Deliveries, OnData, OnPing, OnPong, OnClose, Delivers, DataOps
<1> QED BY <1>1, <1>2, <1>3, <1>4

\* What is in hand after a handler, if the session goes on.
LEMMA HandlerHand ==
    ASSUME SessionInv, VerdictInv, StateInv, Deliveries, Running'
    PROVE  /\ ~Left'
           /\ state' = "active" => state = "active"
           /\ pending'.why = "pong" =>
                 /\ state = "active" /\ OnPing /\ pending'.val = Head(inbuf).val
           /\ OnPing /\ state = "active" => pending'.why = "pong"
<1>1. CASE OnData \/ OnPong
  <2>1. state' = state /\ pending' = pending /\ pc' \in {"next", "decode"}
    BY <1>1, EndStops, Zenon DEF OnData, OnPong
  <2>2. pending.why # "pong" /\ ~OnPing
    <3>1. Head(inbuf).op # "ping"
      BY <1>1 DEF OnData, OnPong, Delivers, DataOps
    <3>2. pending = NoFrame /\ ~OnPing
      BY <3>1, HandlerFrame
    <3> QED BY <3>2 DEF NoFrame
  <2> QED BY <2>1, <2>2 DEF Left
<1>2. CASE OnPing
  <2> DEFINE f == Head(inbuf)
             pong == [f EXCEPT !.op = "pong"]
             c == Accounted(FALSE)
             kept == [op |-> "pong", val |-> f.val, len |-> f.len,
                      why |-> "unsent"]
  <2>0. inbuf \in Seq(Frame) /\ inbuf # << >>
    BY <1>2, TraceFacts DEF OnPing, Delivers
  <2>1. kept.why = "unsent" /\ pong.val = f.val
    BY <2>0, HeadAndTail DEF Frame
  <2>2. IF OverInbound(c, f.len)
        THEN End(Failed("budget-exhausted"))
        ELSE IF ExceedsOutbound(c, FALSE, f.len)
        THEN End(Failed("budget-exhausted"))
        ELSE IF AnswersPing THEN BeginWrite(pong, "pong")
        ELSE pending' = kept /\ pc' = "flush"
    BY <1>2, Zenon DEF OnPing
  <2>3. state' = state
    BY <1>2 DEF OnPing
  <2>4. ASSUME NEW g, BeginWrite(g, "pong")
        PROVE  pc' = "write" /\ pending'.why = "pong" /\ pending'.val = g.val
    BY <2>4, EndStops DEF BeginWrite
  <2> HIDE DEF pong, c, f, kept
  <2>5. CASE AnswersPing
    <3>1. BeginWrite(pong, "pong")
      BY <2>2, <2>5, EndStops
    <3>2. pc' = "write" /\ pending'.why = "pong" /\ pending'.val = f.val
      BY <2>1, <2>4, <3>1
    <3> QED BY <1>2, <2>3, <2>5, <3>2 DEF Left, f, AnswersPing
  <2>6. CASE ~AnswersPing
    <3>1. pending' = kept
      BY <2>2, <2>6, EndStops
    <3> QED BY <1>2, <2>1, <2>3, <2>6, <3>1 DEF Left, AnswersPing
  <2> QED BY <2>5, <2>6
<1>3. CASE OnClose
  <2>1. ~Closing /\ BeginWrite(Head(inbuf), "ack")
    BY <1>3, EndStops, Zenon DEF OnClose
  <2>2. pc' = "write" /\ pending'.why = "ack"
    BY <2>1, EndStops DEF BeginWrite
  <2>3. state' # "active"
    BY <1>3 DEF OnClose
  <2>4. ~OnPing
    BY <1>3 DEF OnClose, OnPing, Delivers
  <2> QED BY <2>2, <2>3, <2>4 DEF Left
<1> QED BY <1>1, <1>2, <1>3 DEF Deliveries

LEMMA HandlerInbound ==
    ASSUME SessionInv, VerdictInv, StateInv, InboundInv, Deliveries
    PROVE  InboundInv'
<1> DEFINE ops == {"text", "binary", "ping", "pong", "close"}
<1>1. ops \cap {"part", "bad"} = {}
  OBVIOUS
<1> HIDE DEF ops
<1>2. /\ plan' = plan /\ peerSent' = peerSent /\ inbuf' = Tail(inbuf)
      /\ staged' = staged /\ chunk' = chunk /\ Delivers(ops)
  BY HandlerFrame DEF ops
<1>3. CASE transcript' = transcript /\ ~Running'
  BY <1>2, <1>3, InboundQuiet
<1>4. CASE \E c : transcript' = Append(transcript,
                                       Entry("inbound", Head(inbuf), c))
  <2>1. PICK c : transcript' = Append(transcript,
                                      Entry("inbound", Head(inbuf), c))
    BY <1>4
  <2> DEFINE e == Entry("inbound", Head(inbuf), c)
  <2>2. /\ e.dir = "inbound" /\ e.op = Head(inbuf).op
        /\ e.val = Head(inbuf).val
    BY EntryFields
  <2> HIDE DEF e
  <2>3. transcript' = Append(transcript, e)
    BY <2>1 DEF e
  <2> QED BY <1>1, <1>2, <2>2, <2>3, DeliverInbound
<1> QED BY <1>3, <1>4, HandlerRecords

LEMMA FlushRecords ==
    ASSUME FlushOk
    PROVE  \E c : transcript' = Append(transcript, Entry("outbound", pending, c))
BY Zenon DEF FlushOk, Record

LEMMA InboundStep ==
    ASSUME SessionInv, VerdictInv, StateInv, InboundInv, [Next]_vars
    PROVE  InboundInv'
<1>1. CASE FlushOk
  <2>1. PICK c : transcript' = Append(transcript, Entry("outbound", pending, c))
    BY <1>1, FlushRecords
  <2>2. /\ plan' = plan /\ peerSent' = peerSent /\ Running
        /\ inbuf' = inbuf /\ staged' = staged /\ chunk' = chunk
    BY <1>1 DEF FlushOk, wireVars, Running, Over
  <2>3. \E e : e.dir = "outbound" /\ transcript' = Append(transcript, e)
    BY <2>1, EntryFields
  <2> QED BY <2>2, <2>3, InboundQuiet
<1>2. CASE \/ StartSend \/ StartExpect \/ EnterRead \/ EnterWrite \/ RetryRead
           \/ RetryWrite \/ WriteOk \/ ReadFails \/ WriteFails \/ FlushFails
           \/ StoreTranscript \/ PersistObservation
           \/ Spin \/ Cancel \/ Returned \/ UNCHANGED vars
  <2>1. /\ plan' = plan /\ peerSent' = peerSent /\ transcript' = transcript
        /\ inbuf' = inbuf /\ staged' = staged /\ chunk' = chunk
    BY <1>2
    DEF StartSend, StartExpect, EnterRead, EnterWrite, RetryRead, RetryWrite,
        WriteOk, ReadFails, WriteFails, FlushFails, StoreTranscript,
        PersistObservation, Spin, Cancel, Returned, vars, wireVars, endVars,
        history
  <2>2. Running' => Running
    BY <1>2
    DEF StartSend, StartExpect, EnterRead, EnterWrite, RetryRead, RetryWrite,
        WriteOk, ReadFails, WriteFails, FlushFails, StoreTranscript,
        PersistObservation, Spin, Cancel, Returned, vars, Running, Over
  <2> QED BY <2>1, <2>2, InboundQuiet
<1> QED
  BY <1>1, <1>2, AdmitInbound, ReturnInbound, ReceiveInbound,
     OnFragmentInbound, HandlerInbound
  DEF Next, Local, Handler, ReadSyscall, WriteSyscall, Deliveries

-----------------------------------------------------------------------------
(* Outbound entries.                                                       *)

\* A step that neither sends nor records a send.
LEMMA SentQuiet ==
    ASSUME SessionInv, SentInv, plan' = plan, wireOut' = wireOut,
           \/ transcript' = transcript
           \/ \E e : e.dir = "inbound" /\ transcript' = Append(transcript, e),
           Running' => Running /\ (Left' <=> Left),
           Left' => Left /\ pending' = pending
    PROVE  SentInv'
<1>1. /\ SentAt' = SentAt
      /\ \A k \in SentAt : transcript'[k] = transcript[k]
  <2>1. CASE transcript' = transcript
    BY <2>1 DEF SentAt
  <2>2. CASE \E e : e.dir = "inbound" /\ transcript' = Append(transcript, e)
    <3>1. PICK e : e.dir = "inbound" /\ transcript' = Append(transcript, e)
      BY <2>2
    <3> QED BY <3>1, OneEntryMore, PositionFacts, TraceFacts
  <2> QED BY <2>1, <2>2
<1>2. SentEntriesOnWire'
  BY <1>1, AlignedSame DEF SentInv, SentEntriesOnWire
<1> QED BY <1>1, <1>2 DEF SentInv

\* One frame more on the wire.
LEMMA OneFrameMore ==
    ASSUME SessionInv, wireOut' = Append(wireOut, pending),
           NEW x, x = Len(wireOut) + 1
    PROVE  /\ x \in Nat /\ Len(wireOut') = x /\ DOMAIN wireOut' = 1 .. x
           /\ DOMAIN wireOut' = DOMAIN wireOut \cup {x}
           /\ DOMAIN wireOut = 1 .. Len(wireOut)
           /\ \A k \in DOMAIN wireOut : wireOut'[k] = wireOut[k]
           /\ wireOut'[x] = pending /\ Rank(DOMAIN wireOut', x) = x
           /\ PongsAt' = PongsAt \cup (IF pending.op = "pong" THEN {x} ELSE {})
<1>1. wireOut \in Seq(Outbound) /\ pending \in Outbound
  BY TraceFacts
<1>2. /\ Len(wireOut) \in Nat /\ Len(wireOut') = Len(wireOut) + 1
      /\ DOMAIN wireOut = 1 .. Len(wireOut)
      /\ DOMAIN wireOut' = 1 .. (Len(wireOut) + 1)
      /\ \A k \in 1 .. Len(wireOut) : wireOut'[k] = wireOut[k]
      /\ wireOut'[Len(wireOut) + 1] = pending
  BY <1>1
<1>3. /\ DOMAIN wireOut' = DOMAIN wireOut \cup {x} /\ x \notin DOMAIN wireOut
      /\ x \in Nat /\ wireOut'[x] = pending
  BY <1>2
<1>4. Rank(DOMAIN wireOut', x) = x
  BY <1>2, RankOfAll
<1>5. PongsAt' = PongsAt \cup (IF pending.op = "pong" THEN {x} ELSE {})
  BY <1>2, <1>3 DEF PongsAt
<1> QED BY <1>2, <1>3, <1>4, <1>5

\* The frame in hand leaves, before its entry.
LEMMA LeavesAligned ==
    ASSUME SessionInv, SentInv, Running, ~Left,
           wireOut' = Append(wireOut, pending)
    PROVE  /\ Aligned(transcript, SentAt, wireOut', DOMAIN wireOut', SameKind)
           /\ Len(wireOut') = Cardinality(SentAt) + 1
           /\ Cardinality(SentAt) \in Nat
           /\ wireOut'[Len(wireOut')] = pending
<1> DEFINE x == Len(wireOut) + 1
<1>1. Cardinality(SentAt) \in Nat
  BY TraceFacts, PositionFacts, RankFacts
<1>2. /\ Len(wireOut) = Cardinality(SentAt)
      /\ Aligned(transcript, SentAt, wireOut, DOMAIN wireOut, SameKind)
  BY <1>1 DEF SentInv, SentEntriesOnWire
<1>3. /\ x \in Nat /\ Len(wireOut') = x /\ DOMAIN wireOut' = 1 .. x
      /\ DOMAIN wireOut = 1 .. Len(wireOut) /\ Len(wireOut) \in Nat
      /\ \A k \in DOMAIN wireOut : wireOut'[k] = wireOut[k]
      /\ wireOut'[x] = pending
  BY OneFrameMore, TraceFacts
<1>4. Aligned(transcript, SentAt, wireOut', DOMAIN wireOut', SameKind)
  <2>1. /\ DOMAIN wireOut' \in SUBSET Nat /\ 0 \notin DOMAIN wireOut'
        /\ DOMAIN wireOut' \cap (1 .. Len(wireOut)) = DOMAIN wireOut
    BY <1>3
  <2> QED BY <1>2, <1>3, <2>1, AlignedLater
<1> QED BY <1>1, <1>2, <1>3, <1>4

LEMMA SentLeaves ==
    ASSUME SessionInv, SentInv, Running, ~Left, plan' = plan,
           transcript' = transcript, wireOut' = Append(wireOut, pending)
    PROVE  /\ SentAt' = SentAt /\ SentEntriesOnWire'
           /\ Len(wireOut') = Cardinality(SentAt) + 1
           /\ wireOut'[Len(wireOut')] = pending
<1>1. SentAt' = SentAt
  BY DEF SentAt
<1>2. Len(wireOut') <= Cardinality(SentAt) + 1
  BY LeavesAligned
<1> QED BY <1>1, <1>2, LeavesAligned DEF SentEntriesOnWire

LEMMA WriteOkSent ==
    ASSUME SessionInv, VerdictInv, StateInv, SentInv, WriteOk
    PROVE  SentInv'
<1>1. /\ Running /\ ~Left /\ plan' = plan /\ transcript' = transcript
      /\ wireOut' = Append(wireOut, pending) /\ pending' = pending
      /\ conn' = conn /\ pc' = "flush"
  BY DEF WriteOk, Running, Over, Left
<1>2. ~conn.tls /\ pending.why # "unsent"
  BY DEF WriteOk, StateInv, Writing
<1>3. Left' /\ Running'
  BY <1>1, <1>2 DEF Left, Running, Over
<1>4. /\ SentAt' = SentAt /\ SentEntriesOnWire'
      /\ Len(wireOut') = Cardinality(SentAt) + 1
      /\ wireOut'[Len(wireOut')] = pending
  BY <1>1, SentLeaves
<1> QED BY <1>1, <1>3, <1>4 DEF SentInv

LEMMA FlushFailsSent ==
    ASSUME SessionInv, VerdictInv, StateInv, SentInv, FlushFails
    PROVE  SentInv'
<1>1. /\ Running /\ plan' = plan /\ transcript' = transcript
      /\ \/ wireOut' = wireOut
         \/ LeavesInFlush /\ wireOut' = Append(wireOut, pending)
      /\ pc' = "finish"
  BY DEF FlushFails, WriteError, End, Running, Over
<1>2. ~Left' /\ ~Running'
  BY <1>1 DEF Left, Running, Over
<1>3. CASE wireOut' = wireOut
  BY <1>1, <1>2, <1>3, SentQuiet
<1>4. CASE LeavesInFlush /\ wireOut' = Append(wireOut, pending)
  <2>1. ~Left
    BY <1>4 DEF Left, LeavesInFlush
  <2>2. SentEntriesOnWire'
    BY <1>1, <1>4, <2>1, SentLeaves
  <2> QED BY <1>2, <2>2 DEF SentInv
<1> QED BY <1>1, <1>3, <1>4

\* The flush records the frame that has left.
LEMMA FlushOkSent ==
    ASSUME SessionInv, VerdictInv, StateInv, SentInv, FlushOk
    PROVE  SentInv'
<1>1. PICK c : transcript' = Append(transcript, Entry("outbound", pending, c))
  BY FlushRecords
<1> DEFINE e == Entry("outbound", pending, c)
           x == Len(transcript) + 1
<1>2. /\ e.dir = "outbound" /\ e.op = pending.op /\ e.val = pending.val
      /\ e.ai = ai
  BY EntryFields
<1>3. /\ plan' = plan /\ Running /\ Writing
      /\ wireOut' = IF LeavesInFlush THEN Append(wireOut, pending) ELSE wireOut
      /\ pc' \in {"finish", "next", "decode"}
  BY DEF FlushOk, Running, Over, Writing, End
<1>4. ~Left'
  BY <1>3 DEF Left
<1>5. /\ x \in Nat /\ x = Len(transcript) + 1 /\ Len(transcript) \in Nat
      /\ \A k \in SentAt : transcript'[k] = transcript[k]
      /\ transcript'[x] = e
      /\ SentAt' = SentAt \cup (IF ~(pending.op = "pong"
                                      /\ plan[ai].type = "close")
                                THEN {x} ELSE {})
  <2> HIDE DEF e
  <2> QED BY <1>1, <1>2, <1>3, OneEntryMore, PositionFacts, TraceFacts DEF e
<1>6. CASE pending.why = "unsent"
  <2>1. pending.op = "pong" /\ plan[ai].type = "close"
    BY <1>3, <1>6 DEF StateInv, Answering, Closing, Current
  <2>2. SentAt' = SentAt /\ wireOut' = wireOut /\ ~Left
    BY <1>3, <1>5, <1>6, <2>1 DEF LeavesInFlush, Left
  <2>3. SentEntriesOnWire'
    BY <1>5, <2>2, AlignedSame DEF SentInv, SentEntriesOnWire
  <2> QED BY <1>3, <1>4, <2>2, <2>3 DEF SentInv
<1>7. CASE pending.why # "unsent"
  <2>1. SentAt' = SentAt \cup {x}
    <3>1. ~(pending.op = "pong" /\ plan[ai].type = "close")
      <4>1. pending.why \in {"action", "pong", "ack"}
        BY <1>3, <1>7 DEF VerdictInv, HandMatchesPlan
      <4>2. CASE pending.why = "action"
        BY <1>3, <4>2 DEF StateInv
      <4>3. CASE pending.why = "ack"
        BY <1>3, <4>3 DEF StateInv, Replying
      <4>4. CASE pending.why = "pong"
        <5>1. state = "active" /\ pc = "flush"
          BY <1>3, <4>4 DEF StateInv, FlushOk
        <5>2. ~Closing
          BY <1>3, <5>1 DEF StateInv
        <5> QED BY <5>2 DEF Closing, Current
      <4> QED BY <4>1, <4>2, <4>3, <4>4
    <3> QED BY <1>5, <3>1
  <2>2. /\ Len(wireOut') = Cardinality(SentAt) + 1
        /\ wireOut'[Len(wireOut')] = pending
        /\ Aligned(transcript, SentAt, wireOut', DOMAIN wireOut', SameKind)
    <3>1. CASE LeavesInFlush
      <4>1. ~Left
        BY <3>1 DEF Left, LeavesInFlush
      <4> QED BY <1>3, <3>1, <4>1, LeavesAligned
    <3>2. CASE ~LeavesInFlush
      <4>1. Left /\ wireOut' = wireOut
        BY <1>3, <1>7, <3>2 DEF Left, LeavesInFlush, FlushOk
      <4> QED BY <1>3, <4>1 DEF SentInv, SentEntriesOnWire
    <3> QED BY <3>1, <3>2
  <2>3. /\ Len(wireOut') \in DOMAIN wireOut'
        /\ Rank(DOMAIN wireOut', Len(wireOut')) = Len(wireOut')
    <3>1. Len(wireOut') \in Nat /\ DOMAIN wireOut' = 1 .. Len(wireOut')
      BY <1>3, OneFrameMore, TraceFacts
    <3>2. Cardinality(SentAt) \in Nat
      BY PositionFacts, TraceFacts, RankFacts
    <3> QED BY <2>2, <3>1, <3>2, RankOfAll
  <2>4. <<pending.op, pending.op>> \in SameKind
    BY TraceFacts DEF Outbound, SameKind
  <2>5. /\ <<transcript'[x].op, wireOut'[Len(wireOut')].op>> \in SameKind
        /\ transcript'[x].val = wireOut'[Len(wireOut')].val
    BY <1>2, <1>5, <2>2, <2>4
  <2> HIDE DEF x, e
  <2>6. SentAt \in SUBSET (1 .. Len(transcript))
    BY PositionFacts
  <2>7. Aligned(transcript', SentAt \cup {x}, wireOut', DOMAIN wireOut', SameKind)
    BY <1>5, <2>2, <2>3, <2>5, <2>6, AlignedNext
  <2>8. /\ Cardinality(SentAt') = Cardinality(SentAt) + 1
        /\ Cardinality(SentAt) \in Nat
    BY <1>5, <2>1, <2>6, RankNext, RankFacts
  <2> QED BY <1>4, <2>1, <2>2, <2>7, <2>8 DEF SentInv, SentEntriesOnWire
<1> QED BY <1>6, <1>7

LEMMA SentStep ==
    ASSUME SessionInv, VerdictInv, StateInv, SentInv, [Next]_vars
    PROVE  SentInv'
<1>1. CASE Deliveries
  <2>1. /\ plan' = plan /\ wireOut' = wireOut /\ Running /\ ~Left
    BY <1>1, HandlerFrame
  <2>2. ~Left'
    <3>1. CASE Running'
      BY <1>1, <3>1, HandlerHand
    <3>2. CASE ~Running'
      BY <3>2 DEF Running, Over, Left
    <3> QED BY <3>1, <3>2
  <2>3. \/ transcript' = transcript
        \/ \E e : e.dir = "inbound" /\ transcript' = Append(transcript, e)
    BY <1>1, HandlerRecords, EntryFields
  <2> QED BY <2>1, <2>2, <2>3, SentQuiet
<1>2. CASE \/ ObserveBuffered \/ Connected \/ StartSend \/ StartExpect
           \/ EnterRead \/ Receive \/ ReadReturns \/ Observe \/ OnFragment
           \/ EnterWrite \/ RetryRead \/ RetryWrite \/ ReadFails \/ WriteFails
           \/ StoreTranscript \/ PersistObservation
           \/ Spin \/ Cancel \/ Returned \/ UNCHANGED vars
  <2>1. plan' = plan /\ wireOut' = wireOut /\ transcript' = transcript
    BY <1>2
    DEF ObserveBuffered, Connected, StartSend, StartExpect, EnterRead, Receive,
        ReadReturns, Observe, OnFragment, EnterWrite, RetryRead, RetryWrite,
        ReadFails, WriteFails, StoreTranscript, PersistObservation, Spin,
        Cancel, Returned, vars, history
  <2>2. Running' => Running
    BY <1>2
    DEF ObserveBuffered, Connected, StartSend, StartExpect, EnterRead, Receive,
        ReadReturns, Observe, OnFragment, EnterWrite, RetryRead, RetryWrite,
        ReadFails, WriteFails, StoreTranscript, PersistObservation, Spin,
        Cancel, Returned, vars, Running, Over, Delivers
  <2>3. (Running' => (Left' <=> Left)) /\ (Left' => Left /\ pending' = pending)
    <3>1. CASE Cancel \/ UNCHANGED vars \/ Spin \/ Returned
      BY <3>1 DEF Left, Cancel, Spin, Returned, vars
    <3>2. CASE EnterWrite
      BY <3>2 DEF Left, EnterWrite
    <3>3. CASE ~(Cancel \/ UNCHANGED vars \/ Spin \/ Returned \/ EnterWrite)
      <4>1. pc # "flush" /\ pc' # "flush"
        BY <1>2, <3>3
        DEF ObserveBuffered, Connected, StartSend, StartExpect, EnterRead,
            Receive, ReadReturns, Observe, OnFragment, RetryRead, RetryWrite,
            ReadFails, WriteFails, StoreTranscript, PersistObservation,
            Delivers, End, BeginWrite, WriteError
      <4> QED BY <4>1 DEF Left
    <3> QED BY <3>1, <3>2, <3>3
  <2> QED BY <2>1, <2>2, <2>3, SentQuiet
<1> QED
  BY <1>1, <1>2, WriteOkSent, FlushOkSent, FlushFailsSent
  DEF Next, Local, Handler, ReadSyscall, WriteSyscall, Deliveries

-----------------------------------------------------------------------------
(* Pings and their answers.                                                *)

Answers == {<<"pong", "ping">>}

LEMMA PingCounts ==
    ASSUME SessionInv
    PROVE  Cardinality(PingsAt) \in Nat /\ Cardinality(PongsAt) \in Nat
BY TraceFacts, PositionFacts, RankFacts

\* A step that handles no ping and puts nothing on the wire.
LEMMA PingQuiet ==
    ASSUME SessionInv, PingInv, plan' = plan, wireOut' = wireOut,
           \/ transcript' = transcript
           \/ \E e : /\ ~(e.dir = "inbound" /\ e.op = "ping")
                     /\ transcript' = Append(transcript, e),
           Running' => Running,
           Running' /\ state' = "active" =>
              state = "active" /\ (PongDue' <=> PongDue),
           Running' /\ PongDue' => PongDue /\ pending'.val = pending.val
    PROVE  PingInv'
<1>1. /\ PingsAt' = PingsAt
      /\ \A k \in PingsAt : transcript'[k] = transcript[k]
  <2>1. CASE transcript' = transcript
    BY <2>1 DEF PingsAt, InboundAt
  <2>2. CASE \E e : /\ ~(e.dir = "inbound" /\ e.op = "ping")
                    /\ transcript' = Append(transcript, e)
    <3>1. PICK e : /\ ~(e.dir = "inbound" /\ e.op = "ping")
                   /\ transcript' = Append(transcript, e)
      BY <2>2
    <3> QED BY <3>1, OneEntryMore, PositionFacts, TraceFacts
  <2> QED BY <2>1, <2>2
<1>2. PongsAt' = PongsAt
  BY DEF PongsAt
<1>3. Aligned(wireOut', PongsAt', transcript', PingsAt', Answers)
  BY <1>1, <1>2 DEF PingInv, Aligned, Answers
<1> QED BY <1>1, <1>2, <1>3 DEF PingInv, Answers

\* A ping is recorded; an answer to it is in hand while we answer pings.
LEMMA PingRecorded ==
    ASSUME SessionInv, PingInv, plan' = plan, wireOut' = wireOut,
           Running, ~PongDue,
           NEW e, e.dir = "inbound", e.op = "ping",
           transcript' = Append(transcript, e),
           Running' /\ state' = "active" => state = "active" /\ PongDue',
           Running' /\ PongDue' => pending'.val = e.val
    PROVE  PingInv'
<1> DEFINE x == Len(transcript) + 1
<1>1. /\ x \in Nat /\ PingsAt' = PingsAt \cup {x} /\ transcript'[x] = e
      /\ \A k \in PingsAt : transcript'[k] = transcript[k]
      /\ x = Len(transcript) + 1 /\ Len(transcript) \in Nat
      /\ PingsAt \in SUBSET (1 .. Len(transcript))
  BY OneEntryMore, PositionFacts, TraceFacts
<1> HIDE DEF x
<1>2. PongsAt' = PongsAt
  BY DEF PongsAt
<1>3. /\ Cardinality(PingsAt') = Cardinality(PingsAt) + 1
      /\ Rank(PingsAt', x) = Cardinality(PingsAt')
  BY <1>1, RankNext
<1>4. Aligned(wireOut, PongsAt, transcript, PingsAt, Answers)
  BY DEF PingInv, Answers
<1>5. Aligned(wireOut, PongsAt, transcript', PingsAt', Answers)
  <2>1. /\ PingsAt' \in SUBSET Nat /\ 0 \notin PingsAt'
        /\ PingsAt' \cap (1 .. Len(transcript)) = PingsAt
    <3>1. x \notin 1 .. Len(transcript) /\ x # 0
      BY <1>1
    <3>2. \A k \in PingsAt : k \in 1 .. Len(transcript) /\ k \in Nat /\ k # 0
      BY <1>1
    <3> QED BY <1>1, <3>1, <3>2
  <2>2. Aligned(wireOut, PongsAt, transcript', PingsAt', Answers)
    <3>1. /\ Len(transcript) \in Nat /\ PingsAt \subseteq 1 .. Len(transcript)
          /\ \A k \in PingsAt : transcript'[k] = transcript[k]
      BY <1>1
    <3> QED BY ONLY <1>4, <2>1, <3>1, AlignedLater, ZenonT(30)
  <2> QED BY <2>2
<1>6. Running' /\ state' = "active" =>
         Cardinality(PingsAt')
            = Cardinality(PongsAt') + (IF PongDue' THEN 1 ELSE 0)
  BY <1>2, <1>3, PingCounts DEF PingInv
<1>7. Running' /\ PongDue' =>
         \E k \in PingsAt' : /\ Rank(PingsAt', k) = Cardinality(PingsAt')
                             /\ transcript'[k].val = pending'.val
  BY <1>1, <1>3
<1> QED BY <1>2, <1>5, <1>6, <1>7 DEF PingInv, Answers

\* The frame in hand leaves; if it is a pong it answers the last ping.
LEMMA PingLeaves ==
    ASSUME SessionInv, VerdictInv, StateInv, PingInv, Running, Writing, ~Left,
           pending.why # "unsent", plan' = plan,
           wireOut' = Append(wireOut, pending),
           \/ transcript' = transcript
           \/ \E e : e.dir = "outbound" /\ transcript' = Append(transcript, e),
           state' = state, Running' => ~PongDue'
    PROVE  PingInv'
<1> DEFINE x == Len(wireOut) + 1
<1>1. /\ PingsAt' = PingsAt
      /\ \A k \in PingsAt : transcript'[k] = transcript[k]
  <2>1. CASE transcript' = transcript
    BY <2>1 DEF PingsAt, InboundAt
  <2>2. CASE \E e : e.dir = "outbound" /\ transcript' = Append(transcript, e)
    <3>1. PICK e : e.dir = "outbound" /\ transcript' = Append(transcript, e)
      BY <2>2
    <3> QED BY <3>1, OneEntryMore, PositionFacts, TraceFacts
  <2> QED BY <2>1, <2>2
<1>2. /\ x \in Nat /\ x = Len(wireOut) + 1 /\ Len(wireOut) \in Nat
      /\ wireOut'[x] = pending
      /\ \A k \in PongsAt : wireOut'[k] = wireOut[k]
      /\ PongsAt' = PongsAt \cup (IF pending.op = "pong" THEN {x} ELSE {})
      /\ PongsAt \in SUBSET (1 .. Len(wireOut))
  BY OneFrameMore, PositionFacts, TraceFacts
<1> HIDE DEF x
<1>3. Aligned(wireOut, PongsAt, transcript, PingsAt, Answers)
  BY DEF PingInv, Answers
<1>4. Aligned(wireOut, PongsAt, transcript', PingsAt, Answers)
  BY <1>1, <1>3 DEF Aligned
<1>5. CASE pending.why = "pong"
  <2>1. pending.op = "pong" /\ state = "active" /\ PongDue
    BY <1>5 DEF StateInv, Answering, PongDue
  <2>2. Cardinality(PingsAt) = Cardinality(PongsAt) + 1
    BY <2>1 DEF PingInv
  <2>3. PICK k \in PingsAt : /\ Rank(PingsAt, k) = Cardinality(PongsAt) + 1
                             /\ transcript[k].val = pending.val
    BY <2>1, <2>2 DEF PingInv
  <2>4. transcript'[k].op = "ping" /\ transcript'[k].val = pending.val
    BY <1>1, <2>3 DEF PingsAt
  <2>5. <<wireOut'[x].op, transcript'[k].op>> \in Answers
    BY <1>2, <2>1, <2>4 DEF Answers
  <2>6. Aligned(wireOut', PongsAt \cup {x}, transcript', PingsAt, Answers)
    BY <1>2, <1>4, <2>3, <2>4, <2>5, AlignedNext
  <2>7. PongsAt' = PongsAt \cup {x}
    BY <1>2, <2>1
  <2>8. Cardinality(PongsAt') = Cardinality(PongsAt) + 1
    BY <1>2, <2>7, RankNext
  <2>9. Cardinality(PingsAt') = Cardinality(PongsAt') + 0
    BY <1>1, <2>2, <2>8, PingCounts
  <2> QED BY <1>1, <2>6, <2>7, <2>9 DEF PingInv, Answers
<1>6. CASE pending.why # "pong"
  <2>1. pending.op # "pong"
    BY <1>6 DEF VerdictInv, HandMatchesPlan, StateInv, Replying
  <2>2. PongsAt' = PongsAt
    BY <1>2, <2>1
  <2>3. Aligned(wireOut', PongsAt, transcript', PingsAt, Answers)
    BY <1>2, <1>4, AlignedSame
  <2>4. ~PongDue
    BY <1>6 DEF PongDue
  <2> QED BY <1>1, <2>2, <2>3, <2>4 DEF PingInv, Answers
<1> QED BY <1>5, <1>6

LEMMA HandlerPing ==
    ASSUME SessionInv, VerdictInv, StateInv, PingInv, Deliveries
    PROVE  PingInv'
<1>1. /\ plan' = plan /\ wireOut' = wireOut /\ Running /\ ~Left /\ ~PongDue
      /\ OnPing <=> Head(inbuf).op = "ping"
  <2>1. pending.why # "pong"
    BY HandlerFrame DEF NoFrame
  <2> QED BY <2>1, HandlerFrame DEF PongDue
<1>2. Running' /\ PongDue' =>
         state = "active" /\ OnPing /\ pending'.val = Head(inbuf).val
  BY HandlerHand DEF PongDue
<1>3. Running' /\ state' = "active" =>
         state = "active" /\ (OnPing => PongDue')
  BY HandlerHand DEF PongDue
<1>4. CASE transcript' = transcript /\ ~Running'
  BY <1>1, <1>4, PingQuiet
<1>5. CASE \E c : transcript' = Append(transcript,
                                       Entry("inbound", Head(inbuf), c))
  <2>1. PICK c : transcript' = Append(transcript,
                                      Entry("inbound", Head(inbuf), c))
    BY <1>5
  <2> DEFINE e == Entry("inbound", Head(inbuf), c)
  <2>2. /\ e.dir = "inbound" /\ e.op = Head(inbuf).op
        /\ e.val = Head(inbuf).val /\ transcript' = Append(transcript, e)
    BY <2>1, EntryFields
  <2> HIDE DEF e
  <2>3. CASE OnPing
    BY <1>1, <1>2, <1>3, <2>2, <2>3, PingRecorded
  <2>4. CASE ~OnPing
    <3>1. \E g : /\ ~(g.dir = "inbound" /\ g.op = "ping")
                 /\ transcript' = Append(transcript, g)
      BY <1>1, <2>2, <2>4
    <3> QED BY <1>1, <1>2, <1>3, <2>4, <3>1, PingQuiet
  <2> QED BY <2>3, <2>4
<1> QED BY <1>4, <1>5, HandlerRecords

LEMMA WriteOkPing ==
    ASSUME SessionInv, VerdictInv, StateInv, PingInv, WriteOk
    PROVE  PingInv'
<1>1. /\ Running /\ Writing /\ ~Left /\ plan' = plan
      /\ transcript' = transcript /\ state' = state
      /\ wireOut' = Append(wireOut, pending) /\ pending' = pending
      /\ conn' = conn /\ pc' = "flush"
  BY DEF WriteOk, Running, Over, Left, Writing, wireVars
<1>2. ~conn.tls /\ pending.why # "unsent"
  BY DEF WriteOk, StateInv, Writing
<1>3. ~PongDue'
  BY <1>1, <1>2 DEF Left, PongDue
<1> QED BY <1>1, <1>2, <1>3, PingLeaves

LEMMA FlushPing ==
    ASSUME SessionInv, VerdictInv, StateInv, PingInv, FlushOk \/ FlushFails
    PROVE  PingInv'
<1>1. /\ Running /\ Writing /\ plan' = plan /\ state' = state /\ pc = "flush"
      /\ \/ wireOut' = wireOut
         \/ LeavesInFlush /\ wireOut' = Append(wireOut, pending)
  BY DEF FlushOk, FlushFails, Running, Over, Writing, wireVars
<1>2. \/ transcript' = transcript
      \/ \E e : e.dir = "outbound" /\ transcript' = Append(transcript, e)
  <2>1. CASE FlushOk
    <3>1. PICK c : transcript' = Append(transcript,
                                        Entry("outbound", pending, c))
      BY <2>1, FlushRecords
    <3> QED BY <3>1, EntryFields
  <2>2. CASE FlushFails
    BY <2>2 DEF FlushFails
  <2> QED BY <2>1, <2>2
<1>3. ~PongDue'
  <2>1. pending' = NoFrame
    BY DEF FlushOk, FlushFails, WriteError, End
  <2> QED BY <2>1 DEF PongDue, NoFrame
<1>4. CASE LeavesInFlush /\ wireOut' = Append(wireOut, pending)
  <2>1. ~Left /\ pending.why # "unsent"
    BY <1>4 DEF Left, LeavesInFlush
  <2> QED BY <1>1, <1>2, <1>3, <1>4, <2>1, PingLeaves
<1>5. CASE wireOut' = wireOut
  <2>1. \/ transcript' = transcript
        \/ \E e : /\ ~(e.dir = "inbound" /\ e.op = "ping")
                  /\ transcript' = Append(transcript, e)
    BY <1>2
  <2>2. Running' => ~LeavesInFlush
    <3>1. ~Running' \/ FlushOk
      BY DEF FlushFails, WriteError, End, Running, Over
    <3>2. FlushOk /\ LeavesInFlush => wireOut' = Append(wireOut, pending)
      BY DEF FlushOk
    <3>3. wireOut # Append(wireOut, pending)
      <4>1. Len(Append(wireOut, pending)) = Len(wireOut) + 1
        BY TraceFacts
      <4>2. \A n \in Nat : n # n + 1
        OBVIOUS
      <4>3. Len(wireOut) \in Nat
        BY TraceFacts
      <4> QED BY <4>1, <4>2, <4>3
    <3> QED BY <1>5, <3>1, <3>2, <3>3
  <2>3. ~LeavesInFlush => ~PongDue
    BY <1>1 DEF PongDue, Left, LeavesInFlush
  <2> QED BY <1>1, <1>3, <1>5, <2>1, <2>2, <2>3, PingQuiet
<1> QED BY <1>1, <1>4, <1>5

LEMMA PingStep ==
    ASSUME SessionInv, VerdictInv, StateInv, PingInv, [Next]_vars
    PROVE  PingInv'
<1>1. CASE StartSend
  <2>1. /\ plan' = plan /\ wireOut' = wireOut /\ transcript' = transcript
        /\ Running /\ state = "active" /\ pc = "next"
    BY <1>1 DEF StartSend, history, Running, Over, StateInv
  <2>2. ~PongDue
    BY <2>1, EmptyHanded DEF PongDue, Writing, NoFrame
  <2>3. ~PongDue'
    BY <1>1 DEF StartSend, BeginWrite, End, PongDue, NoFrame
  <2> QED BY <2>1, <2>2, <2>3, PingQuiet
<1>2. CASE \/ ObserveBuffered \/ Connected \/ StartExpect
           \/ EnterRead \/ Receive \/ ReadReturns \/ Observe \/ OnFragment
           \/ EnterWrite \/ RetryRead \/ RetryWrite \/ ReadFails \/ WriteFails
           \/ StoreTranscript \/ PersistObservation
           \/ Spin \/ Cancel \/ Returned \/ UNCHANGED vars
  <2>1. /\ plan' = plan /\ wireOut' = wireOut /\ transcript' = transcript
        /\ state' = state
    BY <1>2
    DEF ObserveBuffered, Connected, StartExpect, EnterRead, Receive,
        ReadReturns, Observe, OnFragment, EnterWrite, RetryRead, RetryWrite,
        ReadFails, WriteFails, StoreTranscript, PersistObservation, Spin,
        Cancel, Returned, vars, history, wireVars
  <2>2. Running' => Running
    BY <1>2
    DEF ObserveBuffered, Connected, StartExpect, EnterRead, Receive,
        ReadReturns, Observe, OnFragment, EnterWrite, RetryRead, RetryWrite,
        ReadFails, WriteFails, StoreTranscript, PersistObservation, Spin,
        Cancel, Returned, vars, Running, Over, Delivers
  <2>3. Running' => pending' = pending /\ (Left' <=> Left)
    <3>1. CASE Cancel \/ UNCHANGED vars \/ Spin \/ Returned
      BY <3>1 DEF Left, Cancel, Spin, Returned, vars
    <3>2. CASE EnterWrite
      BY <3>2 DEF Left, EnterWrite
    <3>3. CASE ~(Cancel \/ UNCHANGED vars \/ Spin \/ Returned \/ EnterWrite)
      <4>1. pc # "flush" /\ pc' # "flush" /\ (Running' => pending' = pending)
        BY <1>2, <3>3
        DEF ObserveBuffered, Connected, StartExpect, EnterRead,
            Receive, ReadReturns, Observe, OnFragment, RetryRead, RetryWrite,
            ReadFails, WriteFails, StoreTranscript, PersistObservation,
            Delivers, End, WriteError, Running, Over
      <4> QED BY <4>1 DEF Left
    <3> QED BY <3>1, <3>2, <3>3
  <2>4. Running' => (PongDue' <=> PongDue) /\ pending'.val = pending.val
    BY <2>3 DEF PongDue
  <2> QED BY <2>1, <2>2, <2>4, PingQuiet
<1> QED
  BY <1>1, <1>2, HandlerPing, WriteOkPing, FlushPing
  DEF Next, Local, Handler, ReadSyscall, WriteSyscall, Deliveries

-----------------------------------------------------------------------------
LEMMA FaithInitially == Init => FaithInv
<1> SUFFICES ASSUME Init PROVE FaithInv
  OBVIOUS
<1>1. /\ transcript = << >> /\ wireOut = << >> /\ inbuf = << >>
      /\ staged = << >> /\ peerSent = chunk /\ pc = "upgraded"
      /\ pending = NoFrame
  BY DEF Init
<1>2. chunk \in Seq(Frame)
  BY SessionInitially, TraceFacts
<1>3. /\ InboundAt = {} /\ SentAt = {} /\ PingsAt = {} /\ PongsAt = {}
      /\ Cardinality({}) = 0 /\ DOMAIN wireOut = {} /\ Len(wireOut) = 0
  BY <1>1, FS_EmptySet DEF InboundAt, SentAt, PingsAt, PongsAt
<1>4. \A s, u, U, R : Aligned(s, {}, u, U, R)
  BY DEF Aligned
<1>5. ~Left /\ ~PongDue
  BY <1>1 DEF Left, PongDue, NoFrame
<1>6. Held(0, peerSent, inbuf, staged, chunk)
  <2>1. /\ Len(chunk) \in Nat /\ DOMAIN chunk = 1 .. Len(chunk)
        /\ Len(<< >>) = 0
    BY <1>2
  <2>2. \A x, p : Placed(<< >>, x, p)
    BY DEF Placed
  <2>3. Placed(chunk, 0, chunk)
    BY <2>1 DEF Placed
  <2> QED BY <1>1, <2>1, <2>2, <2>3 DEF Held
<1>7. Rank(MessagesAt, 0) = 0 /\ 0 \in 0 .. Len(peerSent)
  BY SessionInitially, TraceFacts, PositionFacts, RankFacts
<1>8. InboundInv
  BY <1>3, <1>4, <1>6, <1>7 DEF InboundInv, Stream, InboundInOrder
<1>9. SentInv
  BY <1>3, <1>4, <1>5 DEF SentInv, SentEntriesOnWire
<1>10. PingInv
  BY <1>3, <1>4, <1>5 DEF PingInv
<1> QED BY <1>8, <1>9, <1>10, StateInitially DEF FaithInv

\* The inductive invariant of the transcript: where the library, the frame in
\* hand and the frames held stand against the wire and the entries.
THEOREM FaithInvariant == Spec => []FaithInv
<1>1. Init => FaithInv
  BY FaithInitially
<1>2. SessionInv /\ VerdictInv /\ FaithInv /\ [Next]_vars => FaithInv'
  BY StateStep, InboundStep, SentStep, PingStep DEF FaithInv
<1> QED BY <1>1, <1>2, SessionInvariant, VerdictInvariant, PTL DEF Spec

\* The transcript of a session is what happened on the wire: send_recorded,
\* read_expectation and execute_client_close record every frame that left,
\* every message received and every automatic answer, in order and with its
\* payload, however reads cut the stream and whichever call fails.
THEOREM TranscriptsAreFaithful == Spec => []TranscriptFaithful
<1>1. SessionInv /\ VerdictInv /\ FaithInv => TranscriptFaithful
  <2> SUFFICES ASSUME SessionInv, VerdictInv, FaithInv PROVE TranscriptFaithful
    OBVIOUS
  <2>1. SentEntriesOnWire /\ InboundInOrder
    BY DEF FaithInv, SentInv, InboundInv
  <2>2. ASSUME state = "active", pc \in {"next", "decode", "reading", "observe"}
        PROVE  Running /\ ~PongDue
    BY <2>2, EmptyHanded DEF Running, Over, Writing, PongDue, NoFrame
  <2>3. PingsAnswered
    BY <2>2, PingCounts DEF FaithInv, PingInv, PingsAnswered
  <2> QED BY <2>1, <2>3 DEF TranscriptFaithful
<1> QED BY <1>1, SessionInvariant, VerdictInvariant, FaithInvariant, PTL

-----------------------------------------------------------------------------
(* The budget verdict.  Total counts units, so what a sum gains with one     *)
(* more position is a fact about the cardinality of a disjoint union: no     *)
(* induction over the sequence is needed.                                    *)

\* The units a total counts.
Units(f, S) == UNION {{i} \X (1 .. f[i]) : i \in S}

\* The values of f on D are natural numbers up to M.
Bounded(f, D, M) == f \in [D -> 0 .. M]

\* A unit of a total belongs to one of its positions.
LEMMA UnitsAre ==
    \A f, S, u : u \in Units(f, S) <=> \E i \in S : u \in {i} \X (1 .. f[i])
BY DEF Units

\* Totals of natural numbers over finite sets are natural numbers.
LEMMA TotalFacts ==
    ASSUME NEW M \in Nat, NEW D, NEW f, Bounded(f, D, M),
           NEW S \in SUBSET D, IsFiniteSet(S)
    PROVE  IsFiniteSet(Units(f, S)) /\ Total(f, S) \in Nat
<1>1. IsFiniteSet(S \X (1 .. M))
  <2>1. IsFiniteSet(1 .. M)
    BY FS_Interval
  <2> QED BY <2>1, FS_Product
<1>2. Units(f, S) \subseteq S \X (1 .. M)
  <2> SUFFICES ASSUME NEW u \in Units(f, S) PROVE u \in S \X (1 .. M)
    OBVIOUS
  <2>1. PICK i \in S : u \in {i} \X (1 .. f[i])
    BY UnitsAre
  <2>2. f[i] \in 0 .. M
    BY DEF Bounded
  <2>3. 1 .. f[i] \subseteq 1 .. M
    BY <2>2
  <2> QED BY <2>1, <2>3
<1>3. IsFiniteSet(Units(f, S))
  BY <1>1, <1>2, FS_Subset
<1> QED BY <1>3, FS_CardinalityType DEF Total, Units

\* Nothing adds up to nothing.
LEMMA TotalEmpty == \A f : Total(f, {}) = 0
<1>1. \A f : UNION {{i} \X (1 .. f[i]) : i \in {}} = {}
  OBVIOUS
<1> QED BY <1>1, FS_EmptySet DEF Total

\* More positions, no smaller total.
LEMMA TotalGrows ==
    ASSUME NEW M \in Nat, NEW D, NEW f, Bounded(f, D, M),
           NEW T \in SUBSET D, IsFiniteSet(T), NEW S \in SUBSET T
    PROVE  Total(f, S) <= Total(f, T)
<1>1. Units(f, S) \in SUBSET Units(f, T)
  BY UnitsAre
<1>2. IsFiniteSet(Units(f, T))
  BY TotalFacts
<1> QED BY <1>1, <1>2, FS_Subset DEF Total, Units

\* One position more adds its value.
LEMMA TotalAdds ==
    ASSUME NEW M \in Nat, NEW D, NEW f, Bounded(f, D, M),
           NEW S \in SUBSET D, IsFiniteSet(S), NEW x \in D, x \notin S
    PROVE  Total(f, S \cup {x}) = Total(f, S) + f[x]
<1> DEFINE A == Units(f, S)
           B == {x} \X (1 .. f[x])
<1>1. Units(f, S \cup {x}) = A \cup B
  <2>1. \A u : u \in Units(f, S \cup {x})
               <=> \E i \in S \cup {x} : u \in {i} \X (1 .. f[i])
    BY UnitsAre
  <2>2. \A u : u \in A <=> \E i \in S : u \in {i} \X (1 .. f[i])
    BY UnitsAre
  <2> QED BY <2>1, <2>2
<1>2. A \cap B = {}
  <2> SUFFICES ASSUME NEW u \in A, u \in B PROVE FALSE
    OBVIOUS
  <2>1. PICK i \in S : u \in {i} \X (1 .. f[i])
    BY UnitsAre
  <2>2. u[1] = i /\ u[1] = x
    BY <2>1
  <2> QED BY <2>2
<1>3. IsFiniteSet(A) /\ Cardinality(A) \in Nat
  BY TotalFacts, FS_CardinalityType
<1>4. IsFiniteSet(B) /\ Cardinality(B) = f[x]
  <2>1. f[x] \in Nat
    BY DEF Bounded
  <2>2. IsFiniteSet(1 .. f[x]) /\ Cardinality(1 .. f[x]) = f[x]
    <3>1. \A n \in Nat : IsFiniteSet(1 .. n) /\ Cardinality(1 .. n) = n
      BY FS_Interval
    <3> QED BY <2>1, <3>1
  <2>3. IsFiniteSet({x}) /\ Cardinality({x}) = 1
    BY FS_Singleton
  <2>4. Cardinality(B) = 1 * f[x] /\ IsFiniteSet(B)
    BY <2>2, <2>3, FS_Product, Zenon
  <2> QED BY <2>1, <2>4
<1>5. Cardinality(A \cup B) = Cardinality(A) + Cardinality(B)
                              - Cardinality(A \cap B)
  BY <1>3, <1>4, FS_Union
<1>6. f[x] \in Nat /\ Cardinality({}) = 0
  BY FS_EmptySet DEF Bounded
<1> HIDE DEF A, B
<1>7. Cardinality(A \cup B) = Cardinality(A) + f[x]
  <2>1. ASSUME NEW a \in Nat, NEW b \in Nat, NEW c, c = a + b - 0
        PROVE  c = a + b
    BY <2>1
  <2> QED BY ONLY <1>2, <1>3, <1>4, <1>5, <1>6, <2>1
<1> QED BY <1>1, <1>7 DEF Total, Units, A

\* A total only depends on the values at its positions.
LEMMA TotalSame ==
    ASSUME NEW S, NEW f, NEW g, \A i \in S : f[i] = g[i]
    PROVE  Total(f, S) = Total(g, S)
<1>1. {{i} \X (1 .. f[i]) : i \in S} = {{i} \X (1 .. g[i]) : i \in S}
  OBVIOUS
<1> QED BY <1>1 DEF Total

\* Of the first d frames of p, those of certain kinds, their number and bytes.
At(p, kinds, d)      == {j \in 1 .. d : p[j].op \in kinds}
CountAt(p, kinds, d) == Cardinality(At(p, kinds, d))
BytesAt(p, kinds, d) == Total(LensOf(p), At(p, kinds, d))

\* The lengths of a sequence of frames are bounded natural numbers.
LEMMA LensTyped ==
    ASSUME NEW p \in Seq(Frame)
    PROVE  /\ Bounded(LensOf(p), 1 .. Len(p), MaxLen)
           /\ Len(p) \in Nat /\ DOMAIN p = 1 .. Len(p) /\ MaxLen \in Nat
           /\ \A i \in 1 .. Len(p) : LensOf(p)[i] = p[i].len /\ p[i].len \in Nat
<1>1. Len(p) \in Nat /\ DOMAIN p = 1 .. Len(p) /\ MaxLen \in Nat
  BY MaxLenAssumption
<1>2. \A i \in 1 .. Len(p) : p[i] \in Frame
  BY <1>1
<1>3. \A i \in 1 .. Len(p) : p[i].len \in 0 .. MaxLen
  BY <1>2 DEF Frame
<1> QED BY <1>1, <1>3 DEF LensOf, Bounded

\* Frames of certain kinds are finitely many positions, so their number and
\* bytes are natural numbers.
LEMMA AtFacts ==
    ASSUME NEW p \in Seq(Frame), NEW kinds, NEW d \in 0 .. Len(p)
    PROVE  /\ At(p, kinds, d) \in SUBSET (1 .. Len(p))
           /\ IsFiniteSet(At(p, kinds, d))
           /\ CountAt(p, kinds, d) \in Nat /\ BytesAt(p, kinds, d) \in Nat
<1>1. At(p, kinds, d) \in SUBSET (1 .. Len(p))
  BY LensTyped DEF At
<1>2. IsFiniteSet(At(p, kinds, d))
  <2>1. IsFiniteSet(1 .. Len(p))
    BY LensTyped, FS_Interval
  <2> QED BY <1>1, <2>1, FS_Subset
<1>3. BytesAt(p, kinds, d) \in Nat
  BY <1>1, <1>2, LensTyped, TotalFacts DEF BytesAt
<1> QED BY <1>1, <1>2, <1>3, FS_CardinalityType DEF CountAt

\* No frames, no bytes.
LEMMA AtNone ==
    \A p, kinds : CountAt(p, kinds, 0) = 0 /\ BytesAt(p, kinds, 0) = 0
<1>1. \A p, kinds : At(p, kinds, 0) = {}
  BY DEF At
<1> QED BY <1>1, TotalEmpty, FS_EmptySet DEF CountAt, BytesAt

\* One frame more.
LEMMA AtNext ==
    ASSUME NEW p \in Seq(Frame), NEW kinds, NEW d \in Nat,
           NEW x \in 1 .. Len(p), x = d + 1
    PROVE  /\ p[x].op \in kinds =>
                 /\ CountAt(p, kinds, x) = CountAt(p, kinds, d) + 1
                 /\ BytesAt(p, kinds, x) = BytesAt(p, kinds, d) + p[x].len
           /\ p[x].op \notin kinds =>
                 /\ CountAt(p, kinds, x) = CountAt(p, kinds, d)
                 /\ BytesAt(p, kinds, x) = BytesAt(p, kinds, d)
<1>1. d \in 0 .. Len(p) /\ x \in 0 .. Len(p) /\ 1 .. x = (1 .. d) \cup {x}
      /\ x \notin 1 .. d
  BY LensTyped
<1>2. CASE p[x].op \in kinds
  <2>1. At(p, kinds, x) = At(p, kinds, d) \cup {x} /\ x \notin At(p, kinds, d)
    BY <1>1, <1>2 DEF At
  <2>2. CountAt(p, kinds, x) = CountAt(p, kinds, d) + 1
    BY <1>1, <2>1, AtFacts, FS_AddElement DEF CountAt
  <2> DEFINE A == At(p, kinds, d)
  <2>3. A \in SUBSET (1 .. Len(p)) /\ IsFiniteSet(A)
    BY <1>1, AtFacts
  <2> HIDE DEF A
  <2>4. Total(LensOf(p), A \cup {x}) = Total(LensOf(p), A) + LensOf(p)[x]
    BY <2>1, <2>3, LensTyped, TotalAdds DEF A
  <2>5. BytesAt(p, kinds, x) = BytesAt(p, kinds, d) + p[x].len
    BY <2>1, <2>4, LensTyped DEF BytesAt, A
  <2> QED BY <1>2, <2>2, <2>5
<1>3. CASE p[x].op \notin kinds
  <2>1. At(p, kinds, x) = At(p, kinds, d)
    BY <1>1, <1>3 DEF At
  <2> QED BY <1>3, <2>1 DEF CountAt, BytesAt
<1> QED BY <1>2, <1>3

\* The first frames have no more of a kind than all of them.
LEMMA AtMost ==
    ASSUME NEW p \in Seq(Frame), NEW kinds, NEW d \in 0 .. Len(p)
    PROVE  /\ CountAt(p, kinds, d) <= Cardinality(OfKind(p, kinds))
           /\ BytesAt(p, kinds, d) <= Total(LensOf(p), OfKind(p, kinds))
           /\ Cardinality(OfKind(p, kinds)) \in Nat
           /\ Total(LensOf(p), OfKind(p, kinds)) \in Nat
<1> DEFINE T == OfKind(p, kinds)
           A == At(p, kinds, d)
<1>1. T \in SUBSET (1 .. Len(p)) /\ A \in SUBSET T
  BY LensTyped DEF OfKind, At
<1>2. IsFiniteSet(1 .. Len(p))
  BY LensTyped, FS_Interval
<1> HIDE DEF T, A
<1>3. IsFiniteSet(T)
  BY <1>1, <1>2, FS_Subset
<1>4. Cardinality(A) <= Cardinality(T) /\ Cardinality(T) \in Nat
  BY <1>1, <1>3, FS_Subset, FS_CardinalityType
<1>5. Total(LensOf(p), A) <= Total(LensOf(p), T) /\ Total(LensOf(p), T) \in Nat
  BY <1>1, <1>3, LensTyped, TotalGrows, TotalFacts
<1> QED BY <1>4, <1>5 DEF CountAt, BytesAt, T, A

\* All the frames are of some kind.
LEMMA AllKinds ==
    ASSUME NEW p \in Seq(Frame)
    PROVE  OfKind(p, FrameOps) = DOMAIN p
<1>1. \A i \in DOMAIN p : p[i] \in Frame
  OBVIOUS
<1> QED BY <1>1 DEF OfKind, Frame

\* What arrives later does not change what came before.
LEMMA AtEarlier ==
    ASSUME NEW p \in Seq(Frame), NEW c \in Seq(Frame), NEW kinds,
           NEW d \in 0 .. Len(p)
    PROVE  /\ CountAt(p \o c, kinds, d) = CountAt(p, kinds, d)
           /\ BytesAt(p \o c, kinds, d) = BytesAt(p, kinds, d)
<1> DEFINE q == p \o c
<1>1. /\ q \in Seq(Frame) /\ Len(q) \in Nat /\ Len(q) >= Len(p)
      /\ \A j \in 1 .. d : q[j] = p[j]
      /\ \A j \in 1 .. d : j \in DOMAIN p /\ j \in DOMAIN q
  OBVIOUS
<1> HIDE DEF q
<1>2. At(q, kinds, d) = At(p, kinds, d)
  BY <1>1 DEF At
<1>3. \A j \in At(p, kinds, d) : LensOf(q)[j] = LensOf(p)[j]
  BY <1>1 DEF At, LensOf
<1> QED BY <1>2, <1>3, TotalSame DEF CountAt, BytesAt, q

Parts == DataOps \cup {"part"}

\* The bytes of the message that is not complete after the first d frames.
MessageAt(p, d) == Total(LensOf(p), Unfinished(p, d))

\* The frames of that message are finitely many positions.
LEMMA MessageFacts ==
    ASSUME NEW p \in Seq(Frame), NEW d \in 0 .. Len(p)
    PROVE  /\ Unfinished(p, d) \in SUBSET (1 .. d)
           /\ Unfinished(p, d) \in SUBSET (1 .. Len(p))
           /\ IsFiniteSet(Unfinished(p, d))
           /\ MessageAt(p, d) \in Nat
<1>1. /\ Unfinished(p, d) \in SUBSET (1 .. d)
      /\ Unfinished(p, d) \in SUBSET (1 .. Len(p))
  BY LensTyped DEF Unfinished
<1>2. IsFiniteSet(Unfinished(p, d))
  <2>1. IsFiniteSet(1 .. Len(p))
    BY LensTyped, FS_Interval
  <2> QED BY <1>1, <2>1, FS_Subset
<1>3. MessageAt(p, d) \in Nat
  BY <1>1, <1>2, LensTyped, TotalFacts DEF MessageAt
<1> QED BY <1>1, <1>2, <1>3

\* Before the first frame there is none.
LEMMA MessageNone == \A p : MessageAt(p, 0) = 0
<1>1. \A p : Unfinished(p, 0) = {}
  BY DEF Unfinished
<1> QED BY <1>1, TotalEmpty DEF MessageAt

\* A fragment joins the message, the last frame of a message ends it, and other
\* frames leave it alone.
LEMMA MessageNext ==
    ASSUME NEW p \in Seq(Frame), NEW d \in Nat, NEW x \in 1 .. Len(p), x = d + 1
    PROVE  /\ Total(LensOf(p), Unfinished(p, d) \cup {x})
                = MessageAt(p, d) + p[x].len
           /\ p[x].op = "part" => MessageAt(p, x) = MessageAt(p, d) + p[x].len
           /\ p[x].op \in DataOps => MessageAt(p, x) = 0
           /\ p[x].op \notin Parts => MessageAt(p, x) = MessageAt(p, d)
<1> DEFINE A == Unfinished(p, d)
<1>1. /\ d \in 0 .. Len(p) /\ 1 .. x = (1 .. d) \cup {x} /\ x \notin 1 .. d
      /\ x .. x = {x} /\ \A j \in 1 .. d : j .. x = (j .. d) \cup {x}
  BY LensTyped
<1>2. A \in SUBSET (1 .. Len(p)) /\ IsFiniteSet(A) /\ x \notin A
  BY <1>1, MessageFacts
<1>3. p[x].op \in DataOps => Unfinished(p, x) = {}
  BY <1>1 DEF Unfinished
<1>4. p[x].op = "part" => Unfinished(p, x) = A \cup {x}
  BY <1>1 DEF Unfinished, DataOps
<1>5. p[x].op \notin Parts => Unfinished(p, x) = A
  BY <1>1 DEF Unfinished, Parts
<1>6. Total(LensOf(p), A \cup {x}) = Total(LensOf(p), A) + LensOf(p)[x]
  BY <1>2, LensTyped, TotalAdds
<1>7. LensOf(p)[x] = p[x].len
  BY LensTyped
<1> QED BY <1>3, <1>4, <1>5, <1>6, <1>7, TotalEmpty DEF MessageAt

\* What arrives later does not change it.
LEMMA MessageEarlier ==
    ASSUME NEW p \in Seq(Frame), NEW c \in Seq(Frame), NEW d \in 0 .. Len(p)
    PROVE  MessageAt(p \o c, d) = MessageAt(p, d)
<1> DEFINE q == p \o c
<1>1. /\ \A j \in 1 .. d : q[j] = p[j]
      /\ \A j \in 1 .. d : j \in DOMAIN p /\ j \in DOMAIN q
      /\ \A j \in 1 .. d : j .. d \in SUBSET (1 .. d)
  OBVIOUS
<1> HIDE DEF q
<1>2. Unfinished(q, d) = Unfinished(p, d)
  BY <1>1 DEF Unfinished
<1>3. \A j \in Unfinished(p, d) : LensOf(q)[j] = LensOf(p)[j]
  BY <1>1 DEF Unfinished, LensOf
<1> QED BY <1>2, <1>3, TotalSame DEF MessageAt, q

\* The total of the first n positions.
UpTo(f, n) == Total(f, 1 .. n)

\* A running total grows from nothing.
LEMMA UpToFacts ==
    ASSUME NEW M \in Nat, NEW n \in Nat, NEW f, Bounded(f, 1 .. n, M),
           NEW k \in 0 .. n
    PROVE  /\ UpTo(f, k) \in Nat /\ UpTo(f, n) \in Nat
           /\ UpTo(f, k) <= UpTo(f, n)
           /\ UpTo(f, 0) = 0
<1>1. IsFiniteSet(1 .. n) /\ IsFiniteSet(1 .. k)
  BY FS_Interval
<1>2. 1 .. k \in SUBSET (1 .. n) /\ 1 .. 0 = {}
  OBVIOUS
<1> QED BY <1>1, <1>2, TotalFacts, TotalGrows, TotalEmpty DEF UpTo

\* The next position adds its value to the running total.
LEMMA UpToNext ==
    ASSUME NEW M \in Nat, NEW n \in Nat, NEW f, Bounded(f, 1 .. n, M),
           NEW k \in Nat, NEW x \in 1 .. n, x = k + 1
    PROVE  UpTo(f, x) = UpTo(f, k) + f[x]
<1> DEFINE A == 1 .. k
<1>1. A \in SUBSET (1 .. n) /\ x \notin A /\ 1 .. x = A \cup {x}
  OBVIOUS
<1>2. IsFiniteSet(A)
  BY FS_Interval
<1> HIDE DEF A
<1>3. Total(f, A \cup {x}) = Total(f, A) + f[x]
  BY <1>1, <1>2, TotalAdds
<1> QED BY <1>1, <1>3 DEF UpTo, A

\* What each action of a plan adds.
LEMMA PlanTyped ==
    ASSUME NEW p \in Seq(Action)
    PROVE  /\ Len(p) \in Nat /\ DOMAIN p = 1 .. Len(p) /\ MaxLen \in Nat
           /\ Bounded(FramesOf(p), 1 .. Len(p), 1)
           /\ Bounded(MessagesOf(p), 1 .. Len(p), 1)
           /\ Bounded(BytesOf(p), 1 .. Len(p), MaxLen)
<1>1. Len(p) \in Nat /\ DOMAIN p = 1 .. Len(p) /\ MaxLen \in Nat
  BY MaxLenAssumption
<1>2. \A i \in 1 .. Len(p) : p[i] \in Action
  BY <1>1
<1>3. \A i \in 1 .. Len(p) : p[i].len \in 0 .. MaxLen /\ 0 \in 0 .. MaxLen
  BY <1>1, <1>2 DEF Action
<1>4. Bounded(FramesOf(p), 1 .. Len(p), 1)
  BY <1>1 DEF FramesOf, Bounded
<1>5. Bounded(MessagesOf(p), 1 .. Len(p), 1)
  BY <1>1 DEF MessagesOf, Bounded
<1>6. Bounded(BytesOf(p), 1 .. Len(p), MaxLen)
  BY <1>1, <1>3 DEF BytesOf, Bounded
<1> QED BY <1>1, <1>4, <1>5, <1>6

-----------------------------------------------------------------------------
(* The inductive invariant behind the budget verdict.                      *)

Asks == {"ping", "close"}

\* How much of the peer's stream is accounted, and how much is delivered; how
\* many actions of the plan have begun.
Admitted  == Len(peerSent) - Len(chunk)
Delivered == Len(peerSent) - Len(chunk) - Len(staged) - Len(inbuf)
Begun     == IF pc \in {"upgraded", "next"} THEN ai - 1 ELSE ai

\* The accounting has the first n frames of p.
Admits(p, n, w) == w.inF = n /\ w.inB = BytesAt(p, FrameOps, n)

\* The bytes of the message being reassembled are those of the fragments since
\* the last complete one, and the messages counted are among the first d frames.
Receives(p, d, b, m) ==
    b = MessageAt(p, d) /\ m <= CountAt(p, DataOps, d)

\* What was written are the frames of the first n actions and answers to the
\* first d frames.
Spends(p, d, q, n, w) ==
    /\ w.outF <= UpTo(FramesOf(q), n) + CountAt(p, Asks, d)
    /\ w.outB <= UpTo(BytesOf(q), n) + BytesAt(p, Asks, d)

\* While the session runs, the accounting is that of the frames admitted, the
\* message in progress came in those delivered, and what was written belongs to
\* the actions begun or answers a frame delivered.
AccountInv ==
    Running => /\ Admits(peerSent, Admitted, wire)
               /\ Receives(peerSent, Delivered, partial, counters.inM)
               /\ Spends(peerSent, Delivered, plan, Begun, wire)
               /\ counters.outM <= UpTo(MessagesOf(plan), ai - 1)

\* The inductive invariant.
BudgetInv == AccountInv /\ BudgetVerdictJustified

\* What SessionInv says of the counters and of a session still running.
LEMMA BudgetFacts ==
    ASSUME SessionInv
    PROVE  /\ plan \in Seq(Action) /\ ai \in 1 .. Len(plan) /\ ai \in Nat
           /\ partial \in Nat /\ wire.inF \in Nat /\ wire.inB \in Nat
           /\ wire.outF \in Nat /\ wire.outB \in Nat
           /\ counters.inM \in Nat /\ counters.outM \in Nat
           /\ Running => terminal = NoTerminal /\ failure = None
           /\ terminal = NoTerminal => terminal.cause # "budget-exhausted"
<1>1. /\ plan \in Seq(Action) /\ ai \in 1 .. Len(plan) /\ partial \in Nat
      /\ wire \in WireCounts /\ counters \in Counts
  BY DEF SessionInv, TypeOK
<1>2. ai \in Nat
  BY <1>1
<1>3. /\ wire.inF \in Nat /\ wire.inB \in Nat
      /\ wire.outF \in Nat /\ wire.outB \in Nat
  BY <1>1 DEF WireCounts
<1>4. counters.inM \in Nat /\ counters.outM \in Nat
  BY <1>1 DEF Counts
<1>5. Running => terminal = NoTerminal /\ failure = None
  BY DEF SessionInv, UndecidedBeforeEnd, Running
<1>6. terminal = NoTerminal => terminal.cause # "budget-exhausted"
  BY DEF NoTerminal
<1> QED BY <1>1, <1>2, <1>3, <1>4, <1>5, <1>6

\* Where the frames that wait stand in the stream.
LEMMA PlaceFacts ==
    ASSUME SessionInv, InboundInv, Running
    PROVE  /\ Admitted \in 0 .. Len(peerSent) /\ Delivered \in 0 .. Len(peerSent)
           /\ Delivered <= Admitted
           /\ Held(Delivered, peerSent, inbuf, staged, chunk)
           /\ chunk # << >> => /\ Admitted + 1 \in 1 .. Len(peerSent)
                               /\ peerSent[Admitted + 1] = Head(chunk)
<1>1. PICK d \in 0 .. Len(peerSent) : Held(d, peerSent, inbuf, staged, chunk)
  BY DEF InboundInv, Stream
<1>2. /\ Len(chunk) \in Nat /\ Len(staged) \in Nat /\ Len(inbuf) \in Nat
      /\ Len(peerSent) \in Nat /\ DOMAIN peerSent = 1 .. Len(peerSent)
      /\ chunk # << >> => 1 \in DOMAIN chunk /\ Head(chunk) = chunk[1]
  BY TraceFacts
<1>3. /\ d = Delivered /\ Admitted = d + Len(inbuf) + Len(staged)
      /\ Admitted \in 0 .. Len(peerSent) /\ Delivered <= Admitted
  BY <1>1, <1>2 DEF Held, Delivered, Admitted
<1>4. Placed(chunk, Admitted, peerSent)
  BY <1>1, <1>3 DEF Held
<1> QED BY <1>1, <1>2, <1>3, <1>4 DEF Placed

\* The frame a handler takes is the next of the stream.
LEMMA NextDelivered ==
    ASSUME SessionInv, StateInv, InboundInv, NEW ops, Delivers(ops)
    PROVE  /\ Running /\ Delivered + 1 \in 1 .. Len(peerSent)
           /\ Delivered \in Nat
           /\ peerSent[Delivered + 1] = Head(inbuf)
           /\ Head(inbuf) \in Frame /\ Head(inbuf).len \in Nat
           /\ Head(inbuf).op \in ops
           /\ staged = << >> /\ chunk = << >>
           /\ Len(Tail(inbuf)) = Len(inbuf) - 1
<1>1. Running /\ staged = << >> /\ chunk = << >> /\ inbuf # << >>
      /\ Head(inbuf).op \in ops
  BY DEF Delivers, StateInv, Running, Over
<1>2. Held(Delivered, peerSent, inbuf, << >>, << >>) /\ Delivered \in Nat
  BY <1>1, PlaceFacts, TraceFacts
<1>3. Delivered + 1 \in 1 .. Len(peerSent) /\ peerSent[Delivered + 1] = Head(inbuf)
  BY <1>1, <1>2, HeldDeliver, TraceFacts
<1>4. Head(inbuf) \in Frame /\ Head(inbuf).len \in Nat
  BY <1>1, TraceFacts, HeadAndTail, MaxLenAssumption DEF Frame
<1>5. Len(Tail(inbuf)) = Len(inbuf) - 1
  BY <1>1, TraceFacts
<1> QED BY <1>1, <1>2, <1>3, <1>4, <1>5

-----------------------------------------------------------------------------
(* What each way of exceeding a budget says of the traffic.                *)

\* Two running totals and one more frame, under a limit that holds both totals
\* in full, leave room for the frame.
LEMMA SumFits ==
    ASSUME NEW w \in Nat, NEW u \in Nat, NEW v \in Nat, NEW uu \in Nat,
           NEW vv \in Nat, NEW n \in Nat, NEW l \in Nat,
           w <= u + v, uu + vv <= l,
           \/ u <= uu /\ v + n <= vv
           \/ u + n <= uu /\ v <= vv
    PROVE  w + n <= l
OBVIOUS

\* exceeds_outbound refuses nothing that fits the outbound limits.
LEMMA NotExceeded ==
    ASSUME NEW c, NEW t, NEW n \in Nat,
           c.wire.outF \in Nat, c.wire.outB \in Nat,
           c.wire.outF + 1 <= Limits.max_outbound_frames,
           c.wire.outB + n <= Limits.max_outbound_bytes,
           n <= Limits.max_frame_bytes,
           t => c.outM \in Nat /\ c.outM + 1 <= Limits.max_outbound_messages
    PROVE  ~ExceedsOutbound(c, t, n)
<1>1. /\ ~(c.wire.outF >= Limits.max_outbound_frames)
      /\ ~(c.wire.outB + n > Limits.max_outbound_bytes)
      /\ ~(n > Limits.max_frame_bytes)
  BY LimitsAreNat
<1>2. c.outM \in Nat /\ c.outM + 1 <= Limits.max_outbound_messages
         => ~(c.outM >= Limits.max_outbound_messages)
  BY LimitsAreNat
<1> QED BY <1>1, <1>2, Zenon DEF ExceedsOutbound

\* A frame WireParser::observe refuses.
LEMMA RefusedIsOver ==
    ASSUME SessionInv, InboundInv, AccountInv, Running, chunk # << >>,
           ~InboundFits(Head(chunk).len)
    PROVE  ~PeerWithinLimits
<1> SUFFICES ASSUME PeerWithinLimits PROVE FALSE
  OBVIOUS
<1> DEFINE n == Admitted
           x == n + 1
           f == Head(chunk)
           p == peerSent
<1>1. /\ p \in Seq(Frame) /\ Len(p) \in Nat /\ DOMAIN p = 1 .. Len(p)
      /\ n \in 0 .. Len(p) /\ n \in Nat /\ x \in 1 .. Len(p)
      /\ x \in 0 .. Len(p) /\ p[x] = f /\ p[x].op \in FrameOps /\ f.len \in Nat
  <2>1. p \in Seq(Frame) /\ Len(p) \in Nat /\ DOMAIN p = 1 .. Len(p)
    BY TraceFacts
  <2>2. n \in 0 .. Len(p) /\ x \in 1 .. Len(p) /\ p[x] = f
    BY PlaceFacts
  <2>3. p[x] \in Frame
    BY <2>1, <2>2
  <2> QED BY <2>1, <2>2, <2>3, MaxLenAssumption DEF Frame
<1>2. wire.inF = n /\ wire.inB = BytesAt(p, FrameOps, n)
  BY DEF AccountInv, Admits
<1>3. x <= Limits.max_inbound_frames /\ f.len <= Limits.max_frame_bytes
      /\ Total(LensOf(p), DOMAIN p) <= Limits.max_inbound_bytes
  <2>1. /\ Len(p) <= Limits.max_inbound_frames
        /\ Total(LensOf(p), DOMAIN p) <= Limits.max_inbound_bytes
        /\ \A i \in DOMAIN p : p[i].len <= Limits.max_frame_bytes
    BY DEF PeerWithinLimits
  <2> QED BY <1>1, <2>1, LimitsAreNat
<1> HIDE DEF n, f, p
<1>4. BytesAt(p, FrameOps, x) = BytesAt(p, FrameOps, n) + f.len
  BY <1>1, AtNext
<1>5. BytesAt(p, FrameOps, x) <= Total(LensOf(p), DOMAIN p)
      /\ Total(LensOf(p), DOMAIN p) \in Nat
  BY <1>1, AtMost, AllKinds
<1>6. BytesAt(p, FrameOps, n) \in Nat
  BY <1>1, AtFacts
<1>7. InboundFits(f.len)
  BY <1>1, <1>2, <1>3, <1>4, <1>5, <1>6, LimitsAreNat DEF InboundFits
<1> QED BY <1>7 DEF f

\* A message, or a frame of it, that is too long, or one message too many.
LEMMA MessageIsOver ==
    ASSUME SessionInv, StateInv, InboundInv, AccountInv, NEW ops, Delivers(ops),
           \/ ops \subseteq Parts /\ partial + Head(inbuf).len
                                       > Limits.max_message_bytes
           \/ ops \subseteq DataOps /\ counters.inM + 1
                                       > Limits.max_inbound_messages
           \/ counters.inM > Limits.max_inbound_messages
           \/ Head(inbuf).len > Limits.max_message_bytes
    PROVE  ~PeerWithinLimits
<1> SUFFICES ASSUME PeerWithinLimits PROVE FALSE
  OBVIOUS
<1> DEFINE d == Delivered
           x == d + 1
           f == Head(inbuf)
           p == peerSent
<1>1. /\ p \in Seq(Frame) /\ Len(p) \in Nat /\ DOMAIN p = 1 .. Len(p)
      /\ d \in Nat /\ x \in 1 .. Len(p) /\ d \in 0 .. Len(p)
      /\ x \in 0 .. Len(p) /\ p[x] = f /\ f.op \in ops /\ f.len \in Nat
      /\ Running
  <2>1. p \in Seq(Frame) /\ Len(p) \in Nat /\ DOMAIN p = 1 .. Len(p)
    BY TraceFacts
  <2>2. d \in Nat /\ x \in 1 .. Len(p) /\ p[x] = f /\ f.op \in ops
        /\ f.len \in Nat /\ Running
    BY NextDelivered
  <2> QED BY <2>1, <2>2
<1>2. /\ partial = MessageAt(p, d) /\ counters.inM <= CountAt(p, DataOps, d)
      /\ partial \in Nat /\ counters.inM \in Nat
  BY <1>1, BudgetFacts DEF AccountInv, Receives
<1>3. /\ f.len <= Limits.max_frame_bytes
      /\ Limits.max_frame_bytes <= Limits.max_message_bytes
      /\ Cardinality(OfKind(p, DataOps)) <= Limits.max_inbound_messages
  BY <1>1, LimitsAreNat, LimitsAssumption
  DEF PeerWithinLimits, ValidateLimits, LimitNames
<1>4. f.op \in Parts => Total(LensOf(p), Unfinished(p, d) \cup {x})
                           <= Limits.max_message_bytes
  <2>1. f.op \in Parts => x \in OfKind(p, DataOps \cup {"part"}) /\ x - 1 = d
    BY <1>1 DEF OfKind, Parts
  <2> QED BY <2>1 DEF PeerWithinLimits
<1> HIDE DEF d, f, p
<1>5. f.op \in DataOps => CountAt(p, DataOps, x) = CountAt(p, DataOps, d) + 1
  BY <1>1, AtNext
<1>6. /\ CountAt(p, DataOps, x) <= Cardinality(OfKind(p, DataOps))
      /\ CountAt(p, DataOps, d) <= Cardinality(OfKind(p, DataOps))
      /\ Cardinality(OfKind(p, DataOps)) \in Nat
  BY <1>1, AtMost
<1>7. CountAt(p, DataOps, d) \in Nat
  BY <1>1, AtFacts
<1>0. f.len \in Nat
  BY <1>1
<1>8. CASE f.op \in Parts /\ partial + f.len > Limits.max_message_bytes
  <2>1. Total(LensOf(p), Unfinished(p, d) \cup {x}) = partial + f.len
    BY <1>1, <1>2, MessageNext
  <2>2. partial + f.len <= Limits.max_message_bytes
    BY <1>4, <1>8, <2>1
  <2> QED BY ONLY <1>0, <1>2, <1>8, <2>2, LimitsAreNat
<1>9. CASE f.op \in DataOps /\ counters.inM + 1 > Limits.max_inbound_messages
  <2>1. CountAt(p, DataOps, d) + 1 <= Cardinality(OfKind(p, DataOps))
    BY ONLY <1>5, <1>6, <1>9
  <2> HIDE DEF x
  <2> QED BY ONLY <1>2, <1>3, <1>6, <1>7, <1>9, <2>1, LimitsAreNat
<1>10. CASE counters.inM > Limits.max_inbound_messages
  BY <1>2, <1>3, <1>6, <1>7, <1>10, LimitsAreNat
<1>11. CASE f.len > Limits.max_message_bytes
  BY <1>1, <1>3, <1>11, LimitsAreNat
<1> QED BY <1>1, <1>8, <1>9, <1>10, <1>11 DEF f

\* An answer that no longer fits.
LEMMA AnswerIsOver ==
    ASSUME SessionInv, StateInv, InboundInv, AccountInv, NEW ops, Delivers(ops),
           ops \subseteq Asks, NEW c, c.wire = wire,
           ExceedsOutbound(c, FALSE, Head(inbuf).len)
    PROVE  ~(PeerWithinLimits /\ AnswersWithinLimits)
<1> SUFFICES ASSUME PeerWithinLimits, AnswersWithinLimits PROVE FALSE
  OBVIOUS
<1> DEFINE d == Delivered
           x == d + 1
           f == Head(inbuf)
           p == peerSent
           q == plan
<1>1. /\ p \in Seq(Frame) /\ Len(p) \in Nat /\ DOMAIN p = 1 .. Len(p)
      /\ d \in Nat /\ x \in 1 .. Len(p) /\ d \in 0 .. Len(p)
      /\ x \in 0 .. Len(p) /\ p[x] = f /\ f.op \in Asks /\ f.len \in Nat
      /\ Running
  <2>1. p \in Seq(Frame) /\ Len(p) \in Nat /\ DOMAIN p = 1 .. Len(p)
    BY TraceFacts
  <2>2. d \in Nat /\ x \in 1 .. Len(p) /\ p[x] = f /\ f.op \in ops
        /\ f.len \in Nat /\ Running
    BY NextDelivered
  <2> QED BY <2>1, <2>2
<1>2. /\ q \in Seq(Action) /\ Len(q) \in Nat /\ DOMAIN q = 1 .. Len(q)
      /\ Begun \in 0 .. Len(q)
      /\ wire.outF \in Nat /\ wire.outB \in Nat
  BY BudgetFacts, PlanTyped DEF Begun
<1>3. /\ wire.outF <= UpTo(FramesOf(q), Begun) + CountAt(p, Asks, d)
      /\ wire.outB <= UpTo(BytesOf(q), Begun) + BytesAt(p, Asks, d)
  BY <1>1 DEF AccountInv, Spends
<1>4. /\ f.len <= Limits.max_frame_bytes
      /\ UpTo(FramesOf(q), Len(q)) + Cardinality(OfKind(p, Asks))
            <= Limits.max_outbound_frames
      /\ UpTo(BytesOf(q), Len(q)) + Total(LensOf(p), OfKind(p, Asks))
            <= Limits.max_outbound_bytes
  BY <1>1, <1>2 DEF PeerWithinLimits, AnswersWithinLimits, UpTo, Asks
<1> HIDE DEF d, f, p, q
<1>5. /\ UpTo(FramesOf(q), Begun) \in Nat /\ UpTo(FramesOf(q), Len(q)) \in Nat
      /\ UpTo(FramesOf(q), Begun) <= UpTo(FramesOf(q), Len(q))
      /\ UpTo(BytesOf(q), Begun) \in Nat /\ UpTo(BytesOf(q), Len(q)) \in Nat
      /\ UpTo(BytesOf(q), Begun) <= UpTo(BytesOf(q), Len(q))
  <2>1. /\ Bounded(FramesOf(q), 1 .. Len(q), 1)
        /\ Bounded(BytesOf(q), 1 .. Len(q), MaxLen) /\ MaxLen \in Nat
    BY <1>2, PlanTyped
  <2> QED BY <1>2, <2>1, UpToFacts
<1>6. /\ CountAt(p, Asks, x) = CountAt(p, Asks, d) + 1
      /\ BytesAt(p, Asks, x) = BytesAt(p, Asks, d) + f.len
  BY <1>1, AtNext
<1>7. /\ CountAt(p, Asks, x) <= Cardinality(OfKind(p, Asks))
      /\ BytesAt(p, Asks, x) <= Total(LensOf(p), OfKind(p, Asks))
      /\ Cardinality(OfKind(p, Asks)) \in Nat
      /\ Total(LensOf(p), OfKind(p, Asks)) \in Nat
  BY <1>1, AtMost
<1>8. CountAt(p, Asks, d) \in Nat /\ BytesAt(p, Asks, d) \in Nat
  BY <1>1, AtFacts
<1>9. wire.outF + 1 <= Limits.max_outbound_frames
  <2>1. /\ CountAt(p, Asks, d) + 1 <= Cardinality(OfKind(p, Asks))
        /\ UpTo(FramesOf(q), Begun) <= UpTo(FramesOf(q), Len(q))
        /\ Limits.max_outbound_frames \in Nat /\ 1 \in Nat
    BY <1>5, <1>6, <1>7, LimitsAreNat
  <2> QED BY ONLY <1>2, <1>3, <1>4, <1>5, <1>7, <1>8, <2>1, SumFits, Zenon
<1>10. wire.outB + f.len <= Limits.max_outbound_bytes
  <2>1. /\ BytesAt(p, Asks, d) + f.len <= Total(LensOf(p), OfKind(p, Asks))
        /\ UpTo(BytesOf(q), Begun) <= UpTo(BytesOf(q), Len(q))
        /\ Limits.max_outbound_bytes \in Nat
    BY <1>5, <1>6, <1>7, LimitsAreNat
  <2>2. /\ wire.outB \in Nat /\ UpTo(BytesOf(q), Begun) \in Nat
        /\ BytesAt(p, Asks, d) \in Nat /\ UpTo(BytesOf(q), Len(q)) \in Nat
        /\ Total(LensOf(p), OfKind(p, Asks)) \in Nat /\ f.len \in Nat
        /\ wire.outB <= UpTo(BytesOf(q), Begun) + BytesAt(p, Asks, d)
        /\ UpTo(BytesOf(q), Len(q)) + Total(LensOf(p), OfKind(p, Asks))
              <= Limits.max_outbound_bytes
    BY <1>1, <1>2, <1>3, <1>4, <1>5, <1>7, <1>8
  <2> QED BY ONLY <2>1, <2>2, SumFits, Zenon
<1>11. ~ExceedsOutbound(c, FALSE, f.len)
  BY <1>1, <1>2, <1>4, <1>9, <1>10, NotExceeded
<1> QED BY <1>11 DEF f

\* A frame of the plan that no longer fits.
LEMMA SendIsOver ==
    ASSUME SessionInv, InboundInv, AccountInv, pc = "next", IsOutbound(Current),
           ExceedsOutbound(counters, Current.type \in SendTypes, Current.len)
    PROVE  ~AnswersWithinLimits
<1> SUFFICES ASSUME AnswersWithinLimits PROVE FALSE
  OBVIOUS
<1> DEFINE d == Delivered
           p == peerSent
           q == plan
           k == ai - 1
<1>1. /\ p \in Seq(Frame) /\ d \in 0 .. Len(p) /\ Running
  BY TraceFacts, PlaceFacts DEF Running, Over
<1>2. /\ q \in Seq(Action) /\ Len(q) \in Nat /\ DOMAIN q = 1 .. Len(q)
      /\ ai \in 1 .. Len(q) /\ k \in Nat /\ ai = k + 1 /\ k \in 0 .. Len(q)
      /\ wire.outF \in Nat /\ wire.outB \in Nat /\ counters.outM \in Nat
      /\ Begun = k /\ Current = q[ai]
  BY BudgetFacts, PlanTyped DEF Begun, Current
<1>3. /\ wire.outF <= UpTo(FramesOf(q), k) + CountAt(p, Asks, d)
      /\ wire.outB <= UpTo(BytesOf(q), k) + BytesAt(p, Asks, d)
      /\ counters.outM <= UpTo(MessagesOf(q), k)
      /\ counters.wire.outF = wire.outF /\ counters.wire.outB = wire.outB
  BY <1>1, <1>2 DEF AccountInv, Spends, SessionInv, CopyIsCurrent
<1>4. /\ BytesOf(q)[ai] <= Limits.max_frame_bytes
      /\ UpTo(FramesOf(q), Len(q)) + Cardinality(OfKind(p, Asks))
            <= Limits.max_outbound_frames
      /\ UpTo(BytesOf(q), Len(q)) + Total(LensOf(p), OfKind(p, Asks))
            <= Limits.max_outbound_bytes
      /\ UpTo(MessagesOf(q), Len(q)) <= Limits.max_outbound_messages
  BY <1>2 DEF AnswersWithinLimits, UpTo, Asks, SessionInv, TypeOK, ValidatePlan,
              ValidateTotals
<1>0. /\ FramesOf(q)[ai] = 1 /\ BytesOf(q)[ai] = Current.len /\ Current.len \in Nat
      /\ Current.type \in SendTypes => MessagesOf(q)[ai] = 1
  <2>1. q[ai] \in Action
    BY <1>2
  <2> QED BY <1>2, <2>1, MaxLenAssumption DEF FramesOf, BytesOf, MessagesOf, Action
<1> DEFINE n == Current.len
           t == Current.type \in SendTypes
<1> HIDE DEF d, p, q, k, n
<1>5. /\ UpTo(FramesOf(q), ai) = UpTo(FramesOf(q), k) + FramesOf(q)[ai]
      /\ UpTo(FramesOf(q), ai) <= UpTo(FramesOf(q), Len(q))
      /\ UpTo(BytesOf(q), ai) = UpTo(BytesOf(q), k) + BytesOf(q)[ai]
      /\ UpTo(BytesOf(q), ai) <= UpTo(BytesOf(q), Len(q))
      /\ UpTo(MessagesOf(q), ai) = UpTo(MessagesOf(q), k) + MessagesOf(q)[ai]
      /\ UpTo(MessagesOf(q), ai) <= UpTo(MessagesOf(q), Len(q))
      /\ UpTo(FramesOf(q), k) \in Nat /\ UpTo(FramesOf(q), Len(q)) \in Nat
      /\ UpTo(BytesOf(q), k) \in Nat /\ UpTo(BytesOf(q), Len(q)) \in Nat
      /\ UpTo(MessagesOf(q), k) \in Nat /\ UpTo(MessagesOf(q), Len(q)) \in Nat
  <2>1. /\ Bounded(FramesOf(q), 1 .. Len(q), 1)
        /\ Bounded(MessagesOf(q), 1 .. Len(q), 1)
        /\ Bounded(BytesOf(q), 1 .. Len(q), MaxLen) /\ MaxLen \in Nat
    BY <1>2, PlanTyped
  <2>2. ai \in 0 .. Len(q)
    BY <1>2
  <2>3. ASSUME NEW f, NEW M \in Nat, Bounded(f, 1 .. Len(q), M)
        PROVE  /\ UpTo(f, ai) = UpTo(f, k) + f[ai]
               /\ UpTo(f, ai) <= UpTo(f, Len(q))
               /\ UpTo(f, k) \in Nat /\ UpTo(f, Len(q)) \in Nat
    <3>1. UpTo(f, ai) = UpTo(f, k) + f[ai]
      BY <1>2, <2>3, UpToNext
    <3>2. UpTo(f, ai) <= UpTo(f, Len(q)) /\ UpTo(f, Len(q)) \in Nat
      BY <1>2, <2>2, <2>3, UpToFacts
    <3>3. UpTo(f, k) \in Nat
      BY <1>2, <2>3, UpToFacts
    <3> QED BY <3>1, <3>2, <3>3
  <2>4. 1 \in Nat
    OBVIOUS
  <2> QED BY <2>1, <2>3, <2>4
<1>6. /\ CountAt(p, Asks, d) <= Cardinality(OfKind(p, Asks))
      /\ BytesAt(p, Asks, d) <= Total(LensOf(p), OfKind(p, Asks))
      /\ Cardinality(OfKind(p, Asks)) \in Nat
      /\ Total(LensOf(p), OfKind(p, Asks)) \in Nat
      /\ CountAt(p, Asks, d) \in Nat /\ BytesAt(p, Asks, d) \in Nat
  BY <1>1, AtMost, AtFacts
<1>7. wire.outF + 1 <= Limits.max_outbound_frames
  <2>1. /\ UpTo(FramesOf(q), k) + 1 <= UpTo(FramesOf(q), Len(q))
        /\ Limits.max_outbound_frames \in Nat /\ 1 \in Nat
    BY <1>0, <1>5, LimitsAreNat
  <2> QED BY ONLY <1>2, <1>3, <1>4, <1>5, <1>6, <2>1, SumFits, Zenon
<1>8. wire.outB + n <= Limits.max_outbound_bytes /\ n <= Limits.max_frame_bytes
  <2>1. /\ UpTo(BytesOf(q), k) + n <= UpTo(BytesOf(q), Len(q))
        /\ Limits.max_outbound_bytes \in Nat /\ n \in Nat
    BY <1>0, <1>5, LimitsAreNat DEF n
  <2>2. n <= Limits.max_frame_bytes
    BY <1>0, <1>4 DEF n
  <2>3. /\ wire.outB \in Nat /\ UpTo(BytesOf(q), k) \in Nat
        /\ BytesAt(p, Asks, d) \in Nat /\ UpTo(BytesOf(q), Len(q)) \in Nat
        /\ Total(LensOf(p), OfKind(p, Asks)) \in Nat
        /\ wire.outB <= UpTo(BytesOf(q), k) + BytesAt(p, Asks, d)
        /\ BytesAt(p, Asks, d) <= Total(LensOf(p), OfKind(p, Asks))
        /\ UpTo(BytesOf(q), Len(q)) + Total(LensOf(p), OfKind(p, Asks))
              <= Limits.max_outbound_bytes
    BY <1>2, <1>3, <1>4, <1>5, <1>6
  <2>4. wire.outB + n <= Limits.max_outbound_bytes
    BY ONLY <2>1, <2>3, SumFits, Zenon
  <2> QED BY <2>2, <2>4
<1>9. t => counters.outM + 1 <= Limits.max_outbound_messages
  <2>1. t => UpTo(MessagesOf(q), k) + 1 <= UpTo(MessagesOf(q), Len(q))
    BY <1>0, <1>5
  <2>2. ASSUME NEW a \in Nat, NEW b \in Nat, NEW c \in Nat, NEW e \in Nat,
               a <= b, b + 1 <= c, c <= e
        PROVE  a + 1 <= e
    BY <2>2
  <2> QED BY <1>2, <1>3, <1>4, <1>5, <2>1, <2>2, LimitsAreNat
<1>10. n \in Nat
  BY <1>0 DEF n
<1> HIDE DEF t
<1>11. ~ExceedsOutbound(counters, t, n)
  BY <1>2, <1>3, <1>7, <1>8, <1>9, <1>10, NotExceeded, Zenon
<1> QED BY <1>11 DEF n, t

-----------------------------------------------------------------------------
(* The steps.                                                              *)

\* The verdict of a step is no budget verdict, or one that is deserved.
FairVerdict == \/ terminal' = terminal
               \/ terminal'.cause # "budget-exhausted"
               \/ ~(PeerWithinLimits /\ AnswersWithinLimits)

\* A step that changes neither plan nor stream keeps earlier verdicts deserved.
LEMMA VerdictStays ==
    ASSUME BudgetVerdictJustified, plan' = plan, peerSent' = peerSent, FairVerdict
    PROVE  BudgetVerdictJustified'
<1>1. /\ PeerWithinLimits' <=> PeerWithinLimits
      /\ AnswersWithinLimits' <=> AnswersWithinLimits
  BY DEF PeerWithinLimits, AnswersWithinLimits
<1> QED BY <1>1 DEF BudgetVerdictJustified, FairVerdict

\* More actions begun, no less to spend.
LEMMA SpendsMore ==
    ASSUME NEW q \in Seq(Action), NEW n \in 0 .. Len(q), NEW m \in 0 .. Len(q),
           n <= m
    PROVE  /\ UpTo(FramesOf(q), n) \in Nat /\ UpTo(FramesOf(q), m) \in Nat
           /\ UpTo(FramesOf(q), n) <= UpTo(FramesOf(q), m)
           /\ UpTo(BytesOf(q), n) \in Nat /\ UpTo(BytesOf(q), m) \in Nat
           /\ UpTo(BytesOf(q), n) <= UpTo(BytesOf(q), m)
           /\ UpTo(MessagesOf(q), n) \in Nat /\ UpTo(MessagesOf(q), m) \in Nat
           /\ UpTo(MessagesOf(q), n) <= UpTo(MessagesOf(q), m)
<1>1. ASSUME NEW M \in Nat, NEW f, Bounded(f, 1 .. Len(q), M)
      PROVE  /\ UpTo(f, n) \in Nat /\ UpTo(f, m) \in Nat
             /\ UpTo(f, n) <= UpTo(f, m)
  <2>1. IsFiniteSet(1 .. m) /\ IsFiniteSet(1 .. n)
    BY FS_Interval
  <2>2. 1 .. n \in SUBSET (1 .. m) /\ 1 .. m \in SUBSET (1 .. Len(q))
        /\ 1 .. n \in SUBSET (1 .. Len(q))
    OBVIOUS
  <2> QED BY <1>1, <2>1, <2>2, TotalFacts, TotalGrows DEF UpTo
<1>2. /\ Bounded(FramesOf(q), 1 .. Len(q), 1) /\ 1 \in Nat
      /\ Bounded(MessagesOf(q), 1 .. Len(q), 1)
      /\ Bounded(BytesOf(q), 1 .. Len(q), MaxLen) /\ MaxLen \in Nat
  BY PlanTyped
<1> QED BY <1>1, <1>2

\* A frame more on the left of an inequality of Spends, and on its right.
LEMMA SpendsAnswer ==
    ASSUME NEW w \in Nat, NEW u \in Nat, NEW v \in Nat, NEW a \in Nat,
           NEW vv \in Nat, w <= u + v, v + a <= vv
    PROVE  w + a <= u + vv
OBVIOUS

\* A frame of the plan may be spent on the plan's account.
LEMMA SpendsFrame ==
    ASSUME NEW w \in Nat, NEW u \in Nat, NEW v \in Nat, NEW a \in Nat,
           w <= u + v
    PROVE  w + a <= u + a + v
OBVIOUS

\* A step that leaves the accounting alone, and may begin an action, keeps the
\* invariant.
LEMMA BudgetQuiet ==
    ASSUME SessionInv, SessionInv', BudgetInv, plan' = plan,
           peerSent' = peerSent, FairVerdict,
           Running' => /\ Running /\ chunk' = chunk /\ staged' = staged
                       /\ inbuf' = inbuf /\ partial' = partial /\ wire' = wire
                       /\ counters' = counters /\ ai' = ai
                       /\ Begun' = Begun \/ (pc = "next" /\ Begun' = ai),
           InboundInv
    PROVE  BudgetInv'
<1>1. BudgetVerdictJustified'
  BY VerdictStays DEF BudgetInv
<1>2. ASSUME Running' PROVE AccountInv'
  <2> DEFINE p == peerSent
             d == Delivered
  <2>1. /\ Running /\ Admitted' = Admitted /\ Delivered' = d
        /\ wire' = wire /\ counters' = counters /\ partial' = partial
        /\ ai' = ai
    BY <1>2 DEF Admitted, Delivered
  <2>2. /\ Admits(p, Admitted, wire)
        /\ Receives(p, d, partial, counters.inM)
        /\ Spends(p, d, plan, Begun, wire)
        /\ counters.outM <= UpTo(MessagesOf(plan), ai - 1)
    BY <2>1 DEF BudgetInv, AccountInv
  <2>3. p \in Seq(Frame) /\ d \in 0 .. Len(p)
    BY <2>1, TraceFacts, PlaceFacts
  <2>4. /\ plan \in Seq(Action) /\ Begun \in 0 .. Len(plan)
        /\ Begun' \in 0 .. Len(plan) /\ Begun <= Begun'
    BY <1>2, BudgetFacts, PlanTyped DEF Begun
  <2>5. Spends(p, d, plan, Begun', wire)
    <3> DEFINE n == Begun
               m == Begun'
    <3> HIDE DEF n, m, d
    <3>1. /\ UpTo(FramesOf(plan), n) \in Nat /\ UpTo(FramesOf(plan), m) \in Nat
          /\ UpTo(FramesOf(plan), n) <= UpTo(FramesOf(plan), m)
          /\ UpTo(BytesOf(plan), n) \in Nat /\ UpTo(BytesOf(plan), m) \in Nat
          /\ UpTo(BytesOf(plan), n) <= UpTo(BytesOf(plan), m)
      BY <2>4, SpendsMore DEF n, m
    <3>2. CountAt(p, Asks, d) \in Nat /\ BytesAt(p, Asks, d) \in Nat
      BY <2>3, AtFacts
    <3>3. /\ wire.outF <= UpTo(FramesOf(plan), n) + CountAt(p, Asks, d)
          /\ wire.outB <= UpTo(BytesOf(plan), n) + BytesAt(p, Asks, d)
          /\ wire.outF \in Nat /\ wire.outB \in Nat
      BY <2>2, BudgetFacts DEF Spends, n
    <3>4. ASSUME NEW w \in Nat, NEW u \in Nat, NEW v \in Nat, NEW uu \in Nat,
                 w <= u + v, u <= uu
          PROVE  w <= uu + v
      BY <3>4
    <3>5. wire.outF <= UpTo(FramesOf(plan), m) + CountAt(p, Asks, d)
      BY ONLY <3>1, <3>2, <3>3, <3>4, Zenon
    <3>6. wire.outB <= UpTo(BytesOf(plan), m) + BytesAt(p, Asks, d)
      BY ONLY <3>1, <3>2, <3>3, <3>4, Zenon
    <3> QED BY <3>5, <3>6 DEF Spends, m
  <2> QED BY <2>1, <2>2, <2>5 DEF AccountInv
<1> QED BY <1>1, <1>2 DEF BudgetInv, AccountInv

\* One more frame observed, or refused.
LEMMA AdmitBudget ==
    ASSUME SessionInv, StateInv, InboundInv, BudgetInv, ObserveBuffered \/ Observe
    PROVE  BudgetInv'
<1>1. /\ plan' = plan /\ peerSent' = peerSent /\ chunk # << >> /\ Running
      /\ inbuf' = inbuf /\ partial' = partial /\ ai' = ai
      /\ pc \in {"upgraded", "observe"}
  BY DEF ObserveBuffered, Observe, history, Running, Over
<1>2. CASE Refuse
  <2>1. ~PeerWithinLimits
    BY <1>1, <1>2, RefusedIsOver DEF BudgetInv, Refuse
  <2>2. BudgetVerdictJustified'
    BY <1>1, <2>1, VerdictStays DEF BudgetInv, FairVerdict
  <2>3. ~Running'
    <3>1. ~Admit
      BY <1>2 DEF Refuse, Admit
    <3> QED BY <3>1, EndStops DEF ObserveBuffered, Observe, Running, Over
  <2> QED BY <2>2, <2>3 DEF BudgetInv, AccountInv
<1>3. CASE Admit
  <2>1. /\ terminal' = terminal /\ pc' = pc /\ counters' = counters
        /\ wire' = InboundAdded(wire, Head(chunk).len)
        /\ staged' = Append(staged, Head(chunk)) /\ chunk' = Tail(chunk)
    <3>1. ~Refuse
      BY <1>3 DEF Refuse, Admit
    <3> QED BY <1>3, <3>1 DEF ObserveBuffered, Observe, Admit
  <2>2. BudgetVerdictJustified'
    BY <1>1, <2>1, VerdictStays DEF BudgetInv, FairVerdict
  <2> DEFINE p == peerSent
             n == Admitted
             x == n + 1
             f == Head(chunk)
  <2>3. Admitted' = x /\ Delivered' = Delivered /\ Begun' = Begun
    <3>1. /\ Len(Tail(chunk)) = Len(chunk) - 1
          /\ Len(Append(staged, Head(chunk))) = Len(staged) + 1
          /\ Len(chunk) \in Nat /\ Len(staged) \in Nat /\ Len(inbuf) \in Nat
          /\ Len(peerSent) \in Nat
      BY <1>1, TraceFacts
    <3>2. /\ Len(chunk') = Len(chunk) - 1 /\ Len(staged') = Len(staged) + 1
          /\ Len(inbuf') = Len(inbuf) /\ Len(peerSent') = Len(peerSent)
      BY <1>1, <2>1, <3>1
    <3> QED BY <1>1, <2>1, <3>1, <3>2 DEF Admitted, Delivered, Begun
  <2>4. /\ Admits(p, n, wire)
        /\ Receives(p, Delivered, partial, counters.inM)
        /\ Spends(p, Delivered, plan, Begun, wire)
        /\ counters.outM <= UpTo(MessagesOf(plan), ai - 1)
    BY <1>1 DEF BudgetInv, AccountInv
  <2>5. Admits(p, x, wire')
    <3>1. /\ p \in Seq(Frame) /\ Len(p) \in Nat
          /\ n \in Nat /\ x \in 1 .. Len(p)
          /\ p[x] = f /\ p[x].op \in FrameOps /\ f.len \in Nat
      <4>1. p \in Seq(Frame) /\ Len(p) \in Nat /\ DOMAIN p = 1 .. Len(p)
        BY TraceFacts
      <4>2. n \in 0 .. Len(p) /\ x \in 1 .. Len(p) /\ p[x] = f
        BY <1>1, PlaceFacts
      <4>3. p[x] \in Frame
        BY <4>1, <4>2
      <4> QED BY <4>1, <4>2, <4>3, MaxLenAssumption DEF Frame
    <3> HIDE DEF p, n, f
    <3>2. BytesAt(p, FrameOps, x) = BytesAt(p, FrameOps, n) + f.len
      BY <3>1, AtNext
    <3>3. wire'.inF = wire.inF + 1 /\ wire'.inB = wire.inB + f.len
      BY <2>1 DEF InboundAdded, f
    <3> QED BY <2>4, <3>2, <3>3 DEF Admits
  <2>6. Spends(p, Delivered, plan, Begun, wire')
    <3>1. wire'.outF = wire.outF /\ wire'.outB = wire.outB
      BY <2>1 DEF InboundAdded
    <3> QED BY <2>4, <3>1 DEF Spends
  <2> QED BY <1>1, <2>1, <2>2, <2>3, <2>4, <2>5, <2>6 DEF BudgetInv, AccountInv
<1> QED BY <1>2, <1>3 DEF ObserveBuffered, Observe

\* The read returns.
LEMMA ReturnBudget ==
    ASSUME SessionInv, StateInv, InboundInv, BudgetInv, Connected \/ ReadReturns
    PROVE  BudgetInv'
<1>1. /\ plan' = plan /\ peerSent' = peerSent /\ chunk' = chunk /\ Running
      /\ partial' = partial /\ ai' = ai /\ wire' = wire /\ counters' = counters
      /\ terminal' = terminal /\ staged' = << >>
  BY DEF Connected, ReadReturns, history, endVars, Running, Over
<1>2. Begun' = Begun
  BY <1>1 DEF Connected, ReadReturns, Begun
<1>3. Len(inbuf') = Len(inbuf) + Len(staged) /\ Len(staged') = 0
  <2>1. CASE Connected
    <3>1. inbuf = << >> /\ inbuf' = staged
      BY <2>1 DEF Connected, StateInv
    <3> QED BY <1>1, <3>1, TraceFacts
  <2>2. CASE ReadReturns
    <3>1. inbuf' = inbuf \o staged
      BY <2>2 DEF ReadReturns
    <3> QED BY <1>1, <3>1, TraceFacts
  <2> QED BY <2>1, <2>2
<1>4. Admitted' = Admitted /\ Delivered' = Delivered
  <2>1. /\ Len(chunk) \in Nat /\ Len(staged) \in Nat /\ Len(inbuf) \in Nat
        /\ Len(peerSent) \in Nat
    BY TraceFacts
  <2> QED BY <1>1, <1>3, <2>1 DEF Admitted, Delivered
<1>5. BudgetVerdictJustified'
  BY <1>1, VerdictStays DEF BudgetInv, FairVerdict
<1> QED BY <1>1, <1>2, <1>4, <1>5 DEF BudgetInv, AccountInv

\* More frames arrive.
LEMMA ReceiveBudget ==
    ASSUME SessionInv, StateInv, InboundInv, BudgetInv, Receive
    PROVE  BudgetInv'
<1>1. PICK c \in Chunks(1) : chunk' = c /\ peerSent' = peerSent \o c
  BY DEF Receive
<1>2. c \in Seq(Frame)
  BY ChunksTyped
<1>3. /\ plan' = plan /\ partial' = partial /\ ai' = ai /\ wire' = wire
      /\ counters' = counters /\ terminal' = terminal /\ staged' = staged
      /\ inbuf' = inbuf /\ chunk = << >> /\ Running
  BY DEF Receive, StateInv, endVars, Running, Over
<1>4. BudgetVerdictJustified'
  BY <1>3, BudgetFacts DEF BudgetVerdictJustified
<1>5. Begun' = Begun
  BY <1>3 DEF Receive, Begun
<1> DEFINE p == peerSent
           q == p \o c
           n == Admitted
           d == Delivered
<1>6. Admitted' = n /\ Delivered' = d
  <2>1. /\ Len(chunk) = 0 /\ Len(staged) \in Nat /\ Len(inbuf) \in Nat
        /\ Len(p) \in Nat /\ Len(c) \in Nat /\ Len(q) = Len(p) + Len(c)
    BY <1>2, <1>3, TraceFacts
  <2>2. Len(peerSent') = Len(p) + Len(c) /\ Len(chunk') = Len(c)
        /\ Len(staged') = Len(staged) /\ Len(inbuf') = Len(inbuf)
    BY <1>1, <1>3, <2>1
  <2> QED BY <2>1, <2>2 DEF Admitted, Delivered
<1>7. /\ Admits(p, n, wire) /\ Receives(p, d, partial, counters.inM)
      /\ Spends(p, d, plan, Begun, wire)
      /\ counters.outM <= UpTo(MessagesOf(plan), ai - 1)
  BY <1>3 DEF BudgetInv, AccountInv
<1>8. p \in Seq(Frame) /\ n \in 0 .. Len(p) /\ d \in 0 .. Len(p)
  BY <1>3, TraceFacts, PlaceFacts
<1>9. peerSent' = q
  BY <1>1
<1> HIDE DEF p, q, n, d
<1>10. \A kinds : /\ CountAt(q, kinds, d) = CountAt(p, kinds, d)
                  /\ BytesAt(q, kinds, d) = BytesAt(p, kinds, d)
                  /\ BytesAt(q, kinds, n) = BytesAt(p, kinds, n)
  BY <1>2, <1>8, AtEarlier DEF q
<1>12. MessageAt(q, d) = MessageAt(p, d)
  BY <1>2, <1>8, MessageEarlier DEF q
<1>11. /\ Admits(q, n, wire) /\ Receives(q, d, partial, counters.inM)
       /\ Spends(q, d, plan, Begun, wire)
  BY <1>7, <1>10, <1>12 DEF Admits, Receives, Spends
<1> QED BY <1>3, <1>4, <1>5, <1>6, <1>7, <1>9, <1>11 DEF BudgetInv, AccountInv

\* A handler takes the next frame: it may add the frame to the message, count
\* it as a message, answer it, and go on to the next action.
LEMMA DeliverBudget ==
    ASSUME SessionInv, SessionInv', StateInv, InboundInv, BudgetInv,
           NEW ops, Delivers(ops), plan' = plan, peerSent' = peerSent,
           chunk' = chunk, staged' = staged, inbuf' = Tail(inbuf), FairVerdict,
           NEW f, f = Head(inbuf), NEW a \in Nat, NEW b \in Nat,
           f.op \in Asks => a <= 1 /\ b <= f.len,
           f.op \notin Asks => a = 0 /\ b = 0,
           Running' => /\ wire'.inF = wire.inF /\ wire'.inB = wire.inB
                       /\ wire'.outF = wire.outF + a
                       /\ wire'.outB = wire.outB + b
                       /\ f.op = "part" => partial' = partial + f.len
                       /\ f.op \in DataOps => partial' = 0
                       /\ f.op \notin Parts => partial' = partial
                       /\ counters'.inM = counters.inM
                          \/ (f.op \in DataOps /\ counters'.inM = counters.inM + 1)
                       /\ counters'.outM = counters.outM
                       /\ \/ ai' = ai /\ pc' \notin {"upgraded", "next"}
                          \/ ai' = ai + 1 /\ pc' = "next"
    PROVE  BudgetInv'
<1>1. BudgetVerdictJustified'
  BY VerdictStays DEF BudgetInv
<1> SUFFICES ASSUME Running' PROVE AccountInv'
  BY <1>1 DEF BudgetInv, AccountInv
<1> DEFINE p == peerSent
           d == Delivered
           x == d + 1
           n == Admitted
<1>2. /\ p \in Seq(Frame) /\ Len(p) \in Nat /\ d \in Nat /\ x \in 1 .. Len(p)
      /\ d \in 0 .. Len(p) /\ x \in 0 .. Len(p) /\ p[x] = f /\ f.len \in Nat
      /\ Running
  <2>1. p \in Seq(Frame) /\ Len(p) \in Nat
    BY TraceFacts
  <2>2. /\ d \in Nat /\ x \in 1 .. Len(p) /\ p[x] = f /\ f.len \in Nat /\ Running
    BY NextDelivered
  <2> QED BY <2>1, <2>2
<1>3. /\ Admits(p, n, wire) /\ Receives(p, d, partial, counters.inM)
      /\ Spends(p, d, plan, Begun, wire)
      /\ counters.outM <= UpTo(MessagesOf(plan), ai - 1)
  BY <1>2 DEF BudgetInv, AccountInv
<1>4. Admitted' = n /\ Delivered' = x
  <2>1. /\ Len(chunk) \in Nat /\ Len(staged) \in Nat /\ Len(inbuf) \in Nat
        /\ Len(peerSent) \in Nat /\ Len(Tail(inbuf)) = Len(inbuf) - 1
    BY TraceFacts, NextDelivered
  <2>2. /\ Len(inbuf') = Len(inbuf) - 1 /\ Len(chunk') = Len(chunk)
        /\ Len(staged') = Len(staged) /\ Len(peerSent') = Len(peerSent)
    BY <2>1
  <2> QED BY ONLY <2>1, <2>2 DEF Admitted, Delivered
<1>5. /\ plan \in Seq(Action) /\ Begun = ai /\ Begun' = ai /\ ai \in Nat
      /\ ai - 1 \in 0 .. Len(plan) /\ ai' - 1 \in 0 .. Len(plan)
      /\ ai - 1 <= ai' - 1 /\ ai \in 0 .. Len(plan)
  <2>1. /\ plan \in Seq(Action) /\ ai \in 1 .. Len(plan) /\ Len(plan) \in Nat
    BY BudgetFacts, PlanTyped
  <2>2. ai' \in 1 .. Len(plan')
    BY DEF SessionInv, TypeOK
  <2>3. /\ Len(plan') = Len(plan) /\ pc = "decode"
        /\ \/ ai' = ai /\ pc' \notin {"upgraded", "next"}
           \/ ai' = ai + 1 /\ pc' = "next"
    BY DEF Delivers
  <2>4. Begun = ai /\ Begun' = ai
    BY ONLY <2>1, <2>3 DEF Begun
  <2>5. ai' \in 1 .. Len(plan) /\ ai <= ai'
    BY ONLY <2>1, <2>2, <2>3
  <2>6. /\ ai \in Nat /\ ai - 1 \in 0 .. Len(plan) /\ ai \in 0 .. Len(plan)
        /\ ai' - 1 \in 0 .. Len(plan) /\ ai - 1 <= ai' - 1
    <3>1. ASSUME NEW l \in Nat, NEW i \in 1 .. l, NEW j \in 1 .. l, i <= j
          PROVE  /\ i \in Nat /\ i - 1 \in 0 .. l /\ i \in 0 .. l
                 /\ j - 1 \in 0 .. l /\ i - 1 <= j - 1
      BY ONLY <3>1
    <3> QED BY ONLY <2>1, <2>5, <3>1
  <2> QED BY ONLY <2>1, <2>4, <2>6
<1>6. Admits(p, n, wire')
  BY <1>3 DEF Admits
<1> HIDE DEF p, d, n
<1>7. /\ \A kinds : CountAt(p, kinds, d) \in Nat /\ BytesAt(p, kinds, d) \in Nat
      /\ \A kinds : CountAt(p, kinds, x) \in Nat /\ BytesAt(p, kinds, x) \in Nat
  BY <1>2, AtFacts
<1>0. /\ wire'.outF = wire.outF + a /\ wire'.outB = wire.outB + b
      /\ f.op \in Asks => a <= 1 /\ b <= f.len
      /\ f.op \notin Asks => a = 0 /\ b = 0
      /\ a \in Nat /\ b \in Nat
  OBVIOUS
<1>8. \A kinds : /\ f.op \in kinds =>
                       /\ CountAt(p, kinds, x) = CountAt(p, kinds, d) + 1
                       /\ BytesAt(p, kinds, x) = BytesAt(p, kinds, d) + f.len
                 /\ f.op \notin kinds =>
                       /\ CountAt(p, kinds, x) = CountAt(p, kinds, d)
                       /\ BytesAt(p, kinds, x) = BytesAt(p, kinds, d)
  BY <1>2, AtNext
<1>9. /\ partial \in Nat /\ partial' \in Nat /\ counters.inM \in Nat
      /\ wire.outF \in Nat /\ wire.outB \in Nat /\ wire'.outF \in Nat
      /\ wire'.outB \in Nat
  <2>1. /\ partial' \in Nat /\ wire' \in WireCounts
    BY DEF SessionInv, TypeOK
  <2> QED BY <2>1, BudgetFacts DEF WireCounts
<1>10. Receives(p, x, partial', counters'.inM)
  <2>1. partial' = MessageAt(p, x)
    <3>1. partial = MessageAt(p, d)
      BY <1>3 DEF Receives
    <3>2. /\ f.op = "part" => MessageAt(p, x) = MessageAt(p, d) + f.len
          /\ f.op \in DataOps => MessageAt(p, x) = 0
          /\ f.op \notin Parts => MessageAt(p, x) = MessageAt(p, d)
      BY ONLY <1>2, MessageNext, ZenonT(30)
    <3>3. f.op = "part" \/ f.op \in DataOps \/ f.op \notin Parts
      BY DEF Parts
    <3> QED BY <3>1, <3>2, <3>3
  <2>2. counters'.inM <= CountAt(p, DataOps, x)
    <3>1. counters.inM <= CountAt(p, DataOps, d)
      BY <1>3 DEF Receives
    <3>2. CountAt(p, DataOps, d) <= CountAt(p, DataOps, x)
      BY <1>2, <1>7, <1>8
    <3>3. CASE f.op \in DataOps /\ counters'.inM = counters.inM + 1
      BY ONLY <1>2, <1>7, <1>8, <1>9, <3>1, <3>3
    <3>4. CASE counters'.inM = counters.inM
      BY <1>7, <1>9, <3>1, <3>2, <3>4
    <3> QED BY <3>3, <3>4
  <2> QED BY <2>1, <2>2 DEF Receives
<1>11. Spends(p, x, plan, ai, wire')
  <2>1. /\ wire.outF <= UpTo(FramesOf(plan), ai) + CountAt(p, Asks, d)
        /\ wire.outB <= UpTo(BytesOf(plan), ai) + BytesAt(p, Asks, d)
    BY <1>3, <1>5 DEF Spends
  <2>2. UpTo(FramesOf(plan), ai) \in Nat /\ UpTo(BytesOf(plan), ai) \in Nat
    BY <1>5, SpendsMore
  <2>3. /\ CountAt(p, Asks, d) + a <= CountAt(p, Asks, x)
        /\ BytesAt(p, Asks, d) + b <= BytesAt(p, Asks, x)
    BY ONLY <1>0, <1>2, <1>7, <1>8
  <2>4. wire'.outF <= UpTo(FramesOf(plan), ai) + CountAt(p, Asks, x)
    <3>1. /\ CountAt(p, Asks, d) \in Nat /\ CountAt(p, Asks, x) \in Nat
          /\ wire.outF \in Nat /\ a \in Nat
          /\ UpTo(FramesOf(plan), ai) \in Nat
      BY <1>7, <1>9, <2>2
    <3>2. wire.outF + a <= UpTo(FramesOf(plan), ai) + CountAt(p, Asks, x)
      BY ONLY <2>1, <2>3, <3>1, SpendsAnswer, Zenon
    <3> QED BY ONLY <1>0, <3>2
  <2>5. wire'.outB <= UpTo(BytesOf(plan), ai) + BytesAt(p, Asks, x)
    <3>1. /\ BytesAt(p, Asks, d) \in Nat /\ BytesAt(p, Asks, x) \in Nat
          /\ wire.outB \in Nat /\ b \in Nat
          /\ UpTo(BytesOf(plan), ai) \in Nat
      BY <1>7, <1>9, <2>2
    <3>2. wire.outB + b <= UpTo(BytesOf(plan), ai) + BytesAt(p, Asks, x)
      BY ONLY <2>1, <2>3, <3>1, SpendsAnswer, Zenon
    <3> QED BY ONLY <1>0, <3>2
  <2> QED BY <2>4, <2>5 DEF Spends
<1>12. counters'.outM <= UpTo(MessagesOf(plan), ai' - 1)
  <2>1. /\ UpTo(MessagesOf(plan), ai - 1) <= UpTo(MessagesOf(plan), ai' - 1)
        /\ UpTo(MessagesOf(plan), ai - 1) \in Nat
        /\ UpTo(MessagesOf(plan), ai' - 1) \in Nat
    BY <1>5, SpendsMore
  <2> QED BY <1>3, <2>1, BudgetFacts
<1> QED BY <1>4, <1>5, <1>6, <1>10, <1>11, <1>12 DEF AccountInv, p

\* A session that ends is decided by the terminal it ends with.
LEMMA EndDecides == \A t : End(t) => terminal' = t /\ ~Running'
BY EndStops DEF End

\* Only an accounting failure or a budget makes a budget verdict.
LEMMA OtherCauses ==
    /\ \A c : c # "budget-exhausted" =>
          SocketError(None, c).cause # "budget-exhausted"
    /\ \A m : ClosePrecedence(m).cause # "budget-exhausted"
    /\ \A c : Passed(c).cause # "budget-exhausted"
    /\ Failed("expectation-failed").cause # "budget-exhausted"
BY DEF SocketError, Failed, Errored, ClosePrecedence, Passed

\* What account_inbound counts.
LEMMA AccountedFacts ==
    /\ \A b : Accounted(b).wire = wire /\ Accounted(b).outM = counters.outM
    /\ Accounted(TRUE).inM = counters.inM + 1
    /\ Accounted(FALSE).inM = counters.inM
BY DEF Accounted

\* OnFragment: bytes join the message being reassembled, or exceed it.
LEMMA FragmentBudget ==
    ASSUME SessionInv, SessionInv', StateInv, InboundInv, BudgetInv, OnFragment
    PROVE  BudgetInv'
<1> DEFINE f == Head(inbuf)
           fits == f.op = "part" /\ partial + f.len <= Limits.max_message_bytes
           cause == IF f.op = "bad" THEN "protocol-violation"
                                    ELSE "budget-exhausted"
<1>1. /\ Delivers({"part", "bad"}) /\ plan' = plan /\ peerSent' = peerSent
      /\ chunk' = chunk /\ staged' = staged /\ inbuf' = Tail(inbuf)
      /\ wire' = wire /\ counters' = counters /\ ai' = ai
  BY DEF OnFragment, history
<1>2. IF fits THEN partial' = partial + f.len /\ pc' = pc /\ terminal' = terminal
              ELSE End(SocketError(failure, cause))
  BY Zenon DEF OnFragment
<1>3. /\ f.op \in {"part", "bad"} /\ f.len \in Nat /\ Running /\ failure = None
      /\ partial \in Nat
  BY <1>1, NextDelivered, BudgetFacts
<1>4. FairVerdict
  <2>1. CASE fits
    BY <1>2, <2>1 DEF FairVerdict
  <2>2. CASE ~fits /\ f.op = "bad"
    <3>1. terminal' = SocketError(None, "protocol-violation")
      BY <1>2, <1>3, <2>2, EndDecides
    <3> QED BY <3>1, OtherCauses DEF FairVerdict
  <2>3. CASE ~fits /\ f.op = "part"
    <3>1. Delivers({"part"}) /\ {"part"} \subseteq Parts
      BY <1>1, <2>3 DEF Delivers, Parts
    <3>2. partial + f.len > Limits.max_message_bytes
      BY <1>3, <2>3, LimitsAreNat
    <3>3. ~PeerWithinLimits
      BY <3>1, <3>2, MessageIsOver DEF BudgetInv
    <3> QED BY <3>3 DEF FairVerdict
  <2> QED BY <1>3, <2>1, <2>2, <2>3
<1>5. ASSUME Running'
      PROVE  /\ f.op = "part" /\ partial' = partial + f.len
             /\ ai' = ai /\ pc' \notin {"upgraded", "next"}
  <2>1. fits
    BY <1>2, <1>5, EndDecides
  <2> QED BY <1>1, <1>2, <2>1 DEF Delivers
<1>7. "part" \in Parts /\ "part" \notin DataOps
  BY DEF Parts, DataOps
<1>6. f.op \notin Asks /\ wire.outF = wire.outF + 0 /\ wire.outB = wire.outB + 0
  BY <1>3, BudgetFacts DEF Asks
<1> HIDE DEF f
<1> QED BY <1>1, <1>4, <1>5, <1>6, <1>7, DeliverBudget DEF f

\* A complete message is counted, matched or refused.
LEMMA DataBudget ==
    ASSUME SessionInv, SessionInv', StateInv, InboundInv, BudgetInv, OnData
    PROVE  BudgetInv'
<1> DEFINE f == Head(inbuf)
           n == partial + f.len
           c == Accounted(TRUE)
<1>1. /\ Delivers(DataOps) /\ plan' = plan /\ peerSent' = peerSent
      /\ chunk' = chunk /\ staged' = staged /\ inbuf' = Tail(inbuf)
      /\ wire' = wire /\ partial' = 0
  BY DEF OnData, history
<1>2. IF n > Limits.max_message_bytes
      THEN End(SocketError(failure, "budget-exhausted"))
      ELSE /\ counters' = c
           /\ IF OverInbound(c, n) THEN End(Failed("budget-exhausted"))
              ELSE IF DataMatches(f)
              THEN ai' = ai + 1 /\ pc' = "next" /\ terminal' = terminal
              ELSE End(Failed("expectation-failed"))
  BY Zenon DEF OnData
<1>3. /\ f.op \in DataOps /\ f.len \in Nat /\ Running /\ failure = None
      /\ partial \in Nat /\ counters.inM \in Nat
      /\ c.inM = counters.inM + 1 /\ c.outM = counters.outM
  BY <1>1, NextDelivered, BudgetFacts, AccountedFacts
<1>0. DataOps \subseteq Parts
  BY DEF Parts
<1> HIDE DEF c
<1>4. FairVerdict
  <2>1. CASE n > Limits.max_message_bytes \/ OverInbound(c, n)
    <3>1. \/ partial + f.len > Limits.max_message_bytes
          \/ counters.inM + 1 > Limits.max_inbound_messages
      BY <1>3, <2>1 DEF OverInbound
    <3>2. ~PeerWithinLimits
      BY <1>0, <1>1, <3>1, MessageIsOver DEF BudgetInv
    <3> QED BY <3>2 DEF FairVerdict
  <2>2. CASE ~(n > Limits.max_message_bytes \/ OverInbound(c, n))
    <3>1. terminal' = terminal \/ terminal' = Failed("expectation-failed")
      BY <1>2, <2>2, EndDecides
    <3> QED BY <3>1, OtherCauses DEF FairVerdict
  <2> QED BY <2>1, <2>2
<1>5. ASSUME Running'
      PROVE  counters' = c /\ ai' = ai + 1 /\ pc' = "next"
  BY <1>2, <1>5, EndDecides
<1>6. f.op \notin Asks /\ wire.outF = wire.outF + 0 /\ wire.outB = wire.outB + 0
  BY <1>3, BudgetFacts DEF Asks, DataOps
<1>7. Running' => /\ counters'.inM = counters.inM + 1
                  /\ counters'.outM = counters.outM
  BY <1>3, <1>5
<1>8. f.op # "part" /\ f.op \in Parts
  BY <1>0, <1>3 DEF DataOps
<1> HIDE DEF f
<1> QED BY <1>1, <1>3, <1>4, <1>5, <1>6, <1>7, <1>8, DeliverBudget DEF f

\* A pong only consumes its frame.
LEMMA PongBudget ==
    ASSUME SessionInv, SessionInv', StateInv, InboundInv, BudgetInv, OnPong
    PROVE  BudgetInv'
<1> DEFINE f == Head(inbuf)
           c == Accounted(FALSE)
           matched == PongMatches(f)
<1>1. /\ Delivers({"pong"}) /\ plan' = plan /\ peerSent' = peerSent
      /\ chunk' = chunk /\ staged' = staged /\ inbuf' = Tail(inbuf)
      /\ wire' = wire /\ partial' = partial /\ counters' = c
  BY DEF OnPong, history
<1>2. IF OverInbound(c, f.len) THEN End(Failed("budget-exhausted"))
      ELSE /\ ai' = IF matched THEN ai + 1 ELSE ai
           /\ pc' = IF matched THEN "next" ELSE "decode"
           /\ terminal' = terminal
  BY Zenon DEF OnPong
<1>3. /\ f.op \in {"pong"} /\ f.len \in Nat /\ Running
      /\ c.inM = counters.inM /\ c.outM = counters.outM
  BY <1>1, NextDelivered, AccountedFacts
<1> HIDE DEF c, matched
<1>4. FairVerdict
  <2>1. CASE OverInbound(c, f.len)
    <3>1. ~PeerWithinLimits
      BY <1>1, <1>3, <2>1, MessageIsOver DEF BudgetInv, OverInbound
    <3> QED BY <3>1 DEF FairVerdict
  <2>2. CASE ~OverInbound(c, f.len)
    BY <1>2, <2>2 DEF FairVerdict
  <2> QED BY <2>1, <2>2
<1>5. ASSUME Running'
      PROVE  \/ ai' = ai /\ pc' \notin {"upgraded", "next"}
             \/ ai' = ai + 1 /\ pc' = "next"
  BY <1>2, <1>5, EndDecides
<1>6. f.op \notin Asks /\ wire.outF = wire.outF + 0 /\ wire.outB = wire.outB + 0
  BY <1>3, BudgetFacts DEF Asks
<1>7. f.op # "part" /\ f.op \notin DataOps
  BY <1>3 DEF DataOps
<1> HIDE DEF f
<1> QED BY <1>1, <1>3, <1>4, <1>5, <1>6, <1>7, DeliverBudget DEF f

\* A frame handed to the transport is accounted.
LEMMA WriteBudget ==
    ASSUME SessionInv, Running, failure' = failure,
           NEW g, NEW why, BeginWrite(g, why)
    PROVE  /\ wire' = OutboundAdded(wire, g.len) /\ pc' = "write"
           /\ terminal' = terminal
<1>1. failure' # "budget-exhausted"
  BY BudgetFacts
<1> QED BY <1>1 DEF BeginWrite

\* A ping is answered within the answers' account, or exceeds it.
LEMMA PingBudget ==
    ASSUME SessionInv, SessionInv', StateInv, InboundInv, BudgetInv, OnPing
    PROVE  BudgetInv'
<1> DEFINE f == Head(inbuf)
           c == Accounted(FALSE)
           pong == [f EXCEPT !.op = "pong"]
<1>1. /\ Delivers({"ping"}) /\ plan' = plan /\ peerSent' = peerSent
      /\ chunk' = chunk /\ staged' = staged /\ inbuf' = Tail(inbuf)
      /\ partial' = partial /\ counters' = c /\ ai' = ai
  BY DEF OnPing, history
<1>2. IF OverInbound(c, f.len) THEN End(Failed("budget-exhausted"))
      ELSE IF ExceedsOutbound(c, FALSE, f.len) THEN End(Failed("budget-exhausted"))
      ELSE IF AnswersPing THEN BeginWrite(pong, "pong")
      ELSE pc' = "flush" /\ wire' = wire /\ terminal' = terminal
  BY Zenon DEF OnPing
<1>3. /\ f.op \in {"ping"} /\ f \in Frame /\ f.len \in Nat /\ Running
      /\ c.inM = counters.inM /\ c.outM = counters.outM /\ c.wire = wire
      /\ failure' = failure
  BY <1>1, NextDelivered, AccountedFacts, OnPingInv
<1>4. pong.len = f.len
  BY <1>3 DEF Frame
<1>5. BeginWrite(pong, "pong") => /\ wire' = OutboundAdded(wire, f.len)
                                  /\ pc' = "write" /\ terminal' = terminal
  BY <1>3, <1>4, WriteBudget
<1> HIDE DEF c, pong
<1>6. FairVerdict
  <2>1. CASE OverInbound(c, f.len)
    <3>1. ~PeerWithinLimits
      BY <1>1, <1>3, <2>1, MessageIsOver DEF BudgetInv, OverInbound
    <3> QED BY <3>1 DEF FairVerdict
  <2>2. CASE ExceedsOutbound(c, FALSE, f.len)
    <3>1. ~(PeerWithinLimits /\ AnswersWithinLimits)
      <4>1. {"ping"} \subseteq Asks
        BY DEF Asks
      <4> QED BY <1>1, <1>3, <2>2, <4>1, AnswerIsOver DEF BudgetInv
    <3> QED BY <3>1 DEF FairVerdict
  <2>3. CASE ~OverInbound(c, f.len) /\ ~ExceedsOutbound(c, FALSE, f.len)
    BY <1>2, <1>5, <2>3 DEF FairVerdict
  <2> QED BY <2>1, <2>2, <2>3
<1>7. /\ wire.outF \in Nat /\ wire.outB \in Nat /\ f.op \in Asks
      /\ f.op # "part" /\ f.op \notin DataOps
  BY <1>3, BudgetFacts DEF Asks, DataOps
<1>8. CASE ~Running'
  BY <1>1, <1>6, <1>8, VerdictStays DEF BudgetInv, AccountInv
<1>9. CASE Running' /\ wire' = wire
  <2>1. pc' \notin {"upgraded", "next"}
    BY <1>2, <1>5, <1>9, EndDecides
  <2>2. wire.outF = wire.outF + 0 /\ wire.outB = wire.outB + 0 /\ 0 <= f.len
    BY <1>3, <1>7
  <2> HIDE DEF f
  <2> QED BY <1>1, <1>3, <1>6, <1>7, <1>9, <2>1, <2>2, DeliverBudget DEF f
<1>10. CASE Running' /\ wire' = OutboundAdded(wire, f.len)
  <2>1. pc' \notin {"upgraded", "next"}
    BY <1>2, <1>5, <1>10, EndDecides
  <2>2. /\ wire'.inF = wire.inF /\ wire'.inB = wire.inB
        /\ wire'.outF = wire.outF + 1 /\ wire'.outB = wire.outB + f.len
    BY <1>10 DEF OutboundAdded
  <2>3. 1 <= 1 /\ f.len <= f.len
    BY <1>3
  <2> HIDE DEF f
  <2> QED BY <1>1, <1>3, <1>6, <1>7, <1>10, <2>1, <2>2, <2>3, DeliverBudget DEF f
<1> QED BY <1>2, <1>5, <1>8, <1>9, <1>10, EndDecides

\* A peer's close is echoed within the answers' account, or exceeds it.
LEMMA CloseBudget ==
    ASSUME SessionInv, SessionInv', StateInv, InboundInv, BudgetInv, OnClose
    PROVE  BudgetInv'
<1> DEFINE f == Head(inbuf)
           c == Accounted(FALSE)
<1>1. /\ Delivers({"close"}) /\ plan' = plan /\ peerSent' = peerSent
      /\ chunk' = chunk /\ staged' = staged /\ inbuf' = Tail(inbuf)
      /\ partial' = partial /\ counters' = c /\ ai' = ai
  BY DEF OnClose, history
<1>2. IF OverInbound(c, f.len) THEN End(Failed("budget-exhausted"))
      ELSE IF Closing THEN End(Passed("client"))
      ELSE IF ExceedsOutbound(c, FALSE, f.len) THEN End(Failed("budget-exhausted"))
      ELSE BeginWrite(f, "ack")
  BY Zenon DEF OnClose
<1>3. /\ f.op \in {"close"} /\ f.len \in Nat /\ Running
      /\ c.inM = counters.inM /\ c.outM = counters.outM /\ c.wire = wire
      /\ failure' = failure
  BY <1>1, NextDelivered, AccountedFacts, OnCloseInv
<1>5. BeginWrite(f, "ack") => /\ wire' = OutboundAdded(wire, f.len)
                              /\ pc' = "write" /\ terminal' = terminal
  BY <1>3, WriteBudget
<1> HIDE DEF c
<1>6. FairVerdict
  <2>1. CASE OverInbound(c, f.len)
    <3>1. ~PeerWithinLimits
      BY <1>1, <1>3, <2>1, MessageIsOver DEF BudgetInv, OverInbound
    <3> QED BY <3>1 DEF FairVerdict
  <2>2. CASE ExceedsOutbound(c, FALSE, f.len)
    <3>1. ~(PeerWithinLimits /\ AnswersWithinLimits)
      <4>1. {"close"} \subseteq Asks
        BY DEF Asks
      <4> QED BY <1>1, <1>3, <2>2, <4>1, AnswerIsOver DEF BudgetInv
    <3> QED BY <3>1 DEF FairVerdict
  <2>3. CASE ~OverInbound(c, f.len) /\ ~ExceedsOutbound(c, FALSE, f.len)
    <3>1. terminal' = terminal \/ terminal' = Passed("client")
      BY <1>2, <1>5, <2>3, EndDecides
    <3> QED BY <3>1, OtherCauses DEF FairVerdict
  <2> QED BY <2>1, <2>2, <2>3
<1>7. CASE ~Running'
  BY <1>1, <1>6, <1>7, VerdictStays DEF BudgetInv, AccountInv
<1>8. CASE Running'
  <2>1. wire' = OutboundAdded(wire, f.len) /\ pc' = "write"
    BY <1>2, <1>5, <1>8, EndDecides
  <2>2. /\ wire'.inF = wire.inF /\ wire'.inB = wire.inB
        /\ wire'.outF = wire.outF + 1 /\ wire'.outB = wire.outB + f.len
    BY <2>1 DEF OutboundAdded
  <2>3. /\ 1 <= 1 /\ f.len <= f.len /\ f.op \in Asks
        /\ f.op # "part" /\ f.op \notin DataOps
    BY <1>3 DEF Asks, DataOps
  <2> HIDE DEF f
  <2> QED BY <1>1, <1>3, <1>6, <1>8, <2>1, <2>2, <2>3, DeliverBudget DEF f
<1> QED BY <1>7, <1>8

\* send_recorded writes an action's frame within the plan's account, or the
\* budget check refuses it.
LEMMA SendBudget ==
    ASSUME SessionInv, SessionInv', InboundInv, BudgetInv, StartSend
    PROVE  BudgetInv'
<1> DEFINE n == Current.len
           q == plan
           k == ai - 1
           p == peerSent
           d == Delivered
<1>1. /\ pc = "next" /\ IsOutbound(Current) /\ plan' = plan
      /\ peerSent' = peerSent /\ chunk' = chunk /\ staged' = staged
      /\ inbuf' = inbuf /\ partial' = partial /\ counters' = counters
      /\ ai' = ai /\ Running /\ failure' = failure
  BY StartSendInv DEF StartSend, history, Running, Over
<1>2. IF ExceedsOutbound(counters, Current.type \in SendTypes, n)
      THEN End(Failed("budget-exhausted"))
      ELSE BeginWrite(FrameOf(Current), "action")
  BY Zenon DEF StartSend
<1>3. FrameOf(Current).len = n
  BY DEF FrameOf
<1>4. BeginWrite(FrameOf(Current), "action") =>
         /\ wire' = OutboundAdded(wire, n) /\ pc' = "write" /\ terminal' = terminal
  BY <1>1, <1>3, WriteBudget
<1>5. FairVerdict
  <2>1. CASE ExceedsOutbound(counters, Current.type \in SendTypes, n)
    BY <1>1, <2>1, SendIsOver DEF BudgetInv, FairVerdict
  <2>2. CASE ~ExceedsOutbound(counters, Current.type \in SendTypes, n)
    BY <1>2, <1>4, <2>2 DEF FairVerdict
  <2> QED BY <2>1, <2>2
<1>6. BudgetVerdictJustified'
  BY <1>1, <1>5, VerdictStays DEF BudgetInv
<1> SUFFICES ASSUME Running' PROVE AccountInv'
  BY <1>6 DEF BudgetInv, AccountInv
<1>7. wire' = OutboundAdded(wire, n) /\ pc' = "write"
  BY <1>2, <1>4, EndDecides
<1>8. /\ Admitted' = Admitted /\ Delivered' = d /\ Begun = k /\ Begun' = ai
  BY <1>1, <1>7 DEF Admitted, Delivered, Begun
<1>9. /\ Admits(p, Admitted, wire) /\ Receives(p, d, partial, counters.inM)
      /\ Spends(p, d, q, k, wire) /\ counters.outM <= UpTo(MessagesOf(q), ai - 1)
  BY <1>1, <1>8 DEF BudgetInv, AccountInv
<1>10. /\ wire'.inF = wire.inF /\ wire'.inB = wire.inB
       /\ wire'.outF = wire.outF + 1 /\ wire'.outB = wire.outB + n
  BY <1>7 DEF OutboundAdded
<1>11. /\ p \in Seq(Frame) /\ d \in 0 .. Len(p)
       /\ q \in Seq(Action) /\ Len(q) \in Nat /\ DOMAIN q = 1 .. Len(q)
       /\ ai \in 1 .. Len(q) /\ k \in Nat /\ ai = k + 1 /\ k \in 0 .. Len(q)
       /\ wire.outF \in Nat /\ wire.outB \in Nat /\ Current = q[ai]
  <2>1. p \in Seq(Frame) /\ d \in 0 .. Len(p)
    BY <1>1, TraceFacts, PlaceFacts
  <2>2. /\ q \in Seq(Action) /\ Len(q) \in Nat /\ DOMAIN q = 1 .. Len(q)
        /\ ai \in 1 .. Len(q) /\ wire.outF \in Nat /\ wire.outB \in Nat
    BY BudgetFacts, PlanTyped
  <2>3. k \in Nat /\ ai = k + 1 /\ k \in 0 .. Len(q)
    BY ONLY <2>2
  <2> QED BY <2>1, <2>2, <2>3 DEF Current
<1>12. FramesOf(q)[ai] = 1 /\ BytesOf(q)[ai] = n /\ n \in Nat
  <2>1. q[ai] \in Action
    BY <1>11
  <2> QED BY <1>1, <1>11, <2>1, MaxLenAssumption DEF FramesOf, BytesOf, Action
<1> HIDE DEF n, q, k, p, d
<1>13. /\ UpTo(FramesOf(q), ai) = UpTo(FramesOf(q), k) + 1
       /\ UpTo(BytesOf(q), ai) = UpTo(BytesOf(q), k) + n
       /\ UpTo(FramesOf(q), k) \in Nat /\ UpTo(BytesOf(q), k) \in Nat
  <2>1. /\ Bounded(FramesOf(q), 1 .. Len(q), 1) /\ 1 \in Nat
        /\ Bounded(BytesOf(q), 1 .. Len(q), MaxLen) /\ MaxLen \in Nat
    BY <1>11, PlanTyped
  <2>2. /\ UpTo(FramesOf(q), ai) = UpTo(FramesOf(q), k) + FramesOf(q)[ai]
        /\ UpTo(BytesOf(q), ai) = UpTo(BytesOf(q), k) + BytesOf(q)[ai]
        /\ UpTo(FramesOf(q), k) \in Nat /\ UpTo(BytesOf(q), k) \in Nat
    BY ONLY <1>11, <2>1, UpToFacts, UpToNext
  <2> QED BY ONLY <1>12, <2>2
<1>14. CountAt(p, Asks, d) \in Nat /\ BytesAt(p, Asks, d) \in Nat
  BY <1>11, AtFacts
<1>15. Spends(p, d, q, ai, wire')
  <2>1. /\ wire.outF <= UpTo(FramesOf(q), k) + CountAt(p, Asks, d)
        /\ wire.outB <= UpTo(BytesOf(q), k) + BytesAt(p, Asks, d)
    BY <1>9 DEF Spends
  <2>2. /\ wire.outF \in Nat /\ wire.outB \in Nat /\ n \in Nat /\ 1 \in Nat
        /\ UpTo(FramesOf(q), k) \in Nat /\ UpTo(BytesOf(q), k) \in Nat
    BY <1>11, <1>12, <1>13
  <2>3. wire.outF + 1 <= UpTo(FramesOf(q), k) + 1 + CountAt(p, Asks, d)
    BY ONLY <1>14, <2>1, <2>2, SpendsFrame, Zenon
  <2>4. wire.outB + n <= UpTo(BytesOf(q), k) + n + BytesAt(p, Asks, d)
    BY ONLY <1>14, <2>1, <2>2, SpendsFrame, Zenon
  <2> QED BY <1>10, <1>13, <2>3, <2>4 DEF Spends
<1>16. Admits(p, Admitted, wire')
  BY <1>9, <1>10 DEF Admits
<1> QED BY <1>1, <1>8, <1>9, <1>15, <1>16 DEF AccountInv, p, q

\* A flush that completes a frame moves on to the next action.
LEMMA FlushBudget ==
    ASSUME SessionInv, SessionInv', InboundInv, BudgetInv, FlushOk
    PROVE  BudgetInv'
<1> DEFINE q == plan
           k == ai - 1
           counted == pending.why = "action" /\ Current.type \in SendTypes
           on == pending.why = "action" /\ ~Closing
<1>1. /\ pc = "flush" /\ plan' = plan /\ peerSent' = peerSent /\ chunk' = chunk
      /\ staged' = staged /\ inbuf' = inbuf /\ partial' = partial
      /\ wire' = wire /\ Running /\ counters' = MessageCounted(counted)
  BY DEF FlushOk, wireVars, Running, Over
<1>2. IF pending.why = "ack"
      THEN End(ClosePrecedence(CloseMatches(pending.val)))
      ELSE /\ pc' = IF on THEN "next" ELSE "decode"
           /\ ai' = IF on THEN ai + 1 ELSE ai
           /\ terminal' = terminal
  BY Zenon DEF FlushOk
<1>3. FairVerdict
  BY <1>2, EndDecides, OtherCauses DEF FairVerdict
<1>4. BudgetVerdictJustified'
  BY <1>1, <1>3, VerdictStays DEF BudgetInv
<1> SUFFICES ASSUME Running' PROVE AccountInv'
  BY <1>4 DEF BudgetInv, AccountInv
<1>5. /\ counted => on
      /\ \/ on /\ pc' = "next" /\ ai' = ai + 1
         \/ ~on /\ pc' = "decode" /\ ai' = ai
  <2>1. counted => on
    BY DEF Closing, SendTypes
  <2> QED BY <1>2, <2>1, EndDecides
<1>6. /\ counters'.inM = counters.inM
      /\ counted => counters'.outM = counters.outM + 1
      /\ ~counted => counters'.outM = counters.outM
  BY <1>1 DEF MessageCounted
<1>7. /\ q \in Seq(Action) /\ Len(q) \in Nat /\ DOMAIN q = 1 .. Len(q)
      /\ ai \in 1 .. Len(q) /\ k \in Nat /\ ai = k + 1 /\ k \in 0 .. Len(q)
      /\ ai \in 0 .. Len(q) /\ k <= ai /\ counters.outM \in Nat /\ Current = q[ai]
  BY BudgetFacts, PlanTyped DEF Current
<1>8. /\ Admitted' = Admitted /\ Delivered' = Delivered /\ Begun' = Begun
  <2>1. Begun = ai
    BY <1>1 DEF Begun
  <2>2. Begun' = ai
    BY <1>5, <1>7 DEF Begun
  <2> QED BY <1>1, <2>1, <2>2 DEF Admitted, Delivered
<1>9. /\ Admits(peerSent, Admitted, wire)
      /\ Receives(peerSent, Delivered, partial, counters.inM)
      /\ Spends(peerSent, Delivered, plan, Begun, wire)
      /\ counters.outM <= UpTo(MessagesOf(q), k)
  BY <1>1 DEF BudgetInv, AccountInv
<1>10. counted => MessagesOf(q)[ai] = 1
  BY <1>7 DEF MessagesOf
<1> HIDE DEF q, k, counted, on
<1>11. /\ UpTo(MessagesOf(q), ai) = UpTo(MessagesOf(q), k) + MessagesOf(q)[ai]
       /\ UpTo(MessagesOf(q), k) \in Nat /\ UpTo(MessagesOf(q), ai) \in Nat
       /\ UpTo(MessagesOf(q), k) <= UpTo(MessagesOf(q), ai)
  <2>1. Bounded(MessagesOf(q), 1 .. Len(q), 1) /\ 1 \in Nat
    BY <1>7, PlanTyped
  <2> QED BY <1>7, <2>1, UpToNext, SpendsMore
<1>12. counters'.outM <= UpTo(MessagesOf(q), ai' - 1)
  <2>1. CASE on
    <3>1. ai' - 1 = ai
      BY <1>5, <1>7, <2>1
    <3>2. counters'.outM <= UpTo(MessagesOf(q), ai)
      BY <1>6, <1>7, <1>9, <1>10, <1>11
    <3> QED BY <3>1, <3>2
  <2>2. CASE ~on
    <3>1. ai' - 1 = k /\ counters'.outM = counters.outM
      BY <1>5, <1>6, <2>2 DEF k
    <3> QED BY <1>9, <3>1
  <2> QED BY <2>1, <2>2
<1> QED BY <1>1, <1>6, <1>8, <1>9, <1>12 DEF AccountInv, q

\* Steps that touch neither the accounting nor the frames that wait.
LEMMA QuietBudget ==
    ASSUME SessionInv, SessionInv', InboundInv, BudgetInv,
           \/ StartExpect \/ EnterRead \/ EnterWrite \/ RetryRead \/ RetryWrite
           \/ WriteOk \/ Spin \/ Cancel \/ Returned \/ UNCHANGED vars
    PROVE  BudgetInv'
<1>1. /\ plan' = plan /\ peerSent' = peerSent /\ chunk' = chunk
      /\ staged' = staged /\ inbuf' = inbuf /\ partial' = partial
      /\ wire' = wire /\ counters' = counters /\ ai' = ai
  BY DEF StartExpect, EnterRead, EnterWrite, RetryRead, RetryWrite, WriteOk,
         Spin, Cancel, Returned, vars, wireVars, endVars, history
<1>2. CASE EnterRead
  <2>1. \/ End(SocketError(failure, "cancelled"))
        \/ terminal' = terminal /\ pc' \in {"reading", "spin"}
    BY <1>2 DEF EnterRead
  <2>2. Running /\ failure = None /\ pc = "decode"
    BY <1>2, BudgetFacts DEF EnterRead, Running, Over
  <2>3. FairVerdict
    BY <2>1, <2>2, EndDecides, OtherCauses DEF FairVerdict
  <2>4. Running' => Begun' = Begun
    BY <1>1, <2>1, <2>2, EndDecides DEF Begun
  <2> QED BY <1>1, <2>2, <2>3, <2>4, BudgetQuiet
<1>3. CASE StartExpect
  BY <1>1, <1>3, BudgetQuiet
  DEF StartExpect, endVars, FairVerdict, Begun, Running, Over
<1>4. CASE \/ EnterWrite \/ RetryRead \/ RetryWrite \/ WriteOk
  <2>1. /\ terminal' = terminal /\ Running
        /\ pc \notin {"upgraded", "next"} /\ pc' \notin {"upgraded", "next"}
    BY <1>4 DEF EnterWrite, RetryRead, RetryWrite, WriteOk, endVars, Running, Over
  <2> QED BY <1>1, <2>1, BudgetQuiet DEF FairVerdict, Begun
<1>5. CASE Spin \/ Cancel \/ Returned \/ UNCHANGED vars
  <2>1. terminal' = terminal /\ pc' = pc
    BY <1>5 DEF Spin, Cancel, Returned, vars, endVars
  <2>2. (Running' => Running) /\ Begun' = Begun
    BY <1>1, <2>1 DEF Running, Over, Begun
  <2> QED BY <1>1, <2>1, <2>2, BudgetQuiet DEF FairVerdict
<1> QED BY <1>2, <1>3, <1>4, <1>5

\* Steps that end the session, or come after its end.
LEMMA EndBudget ==
    ASSUME SessionInv, BudgetInv,
           \/ ReadFails \/ WriteFails \/ FlushFails \/ StoreTranscript
           \/ PersistObservation
    PROVE  BudgetInv'
<1>1. plan' = plan /\ peerSent' = peerSent
  BY DEF ReadFails, WriteFails, FlushFails, StoreTranscript,
         PersistObservation, history
<1>2. CASE ReadFails \/ WriteFails \/ FlushFails
  <2>1. Running /\ failure = None
    BY <1>2, BudgetFacts DEF ReadFails, WriteFails, FlushFails, Running, Over
  <2>2. \E t : End(t) /\ t.cause # "budget-exhausted"
    <3>0. /\ "budget-exhausted" \notin ApplicableTimeouts
          /\ "budget-exhausted" \notin WriteCauses
      BY DEF ApplicableTimeouts, WriteCauses
    <3>1. CASE ReadFails
      <4>1. PICK c \in {"protocol-violation", "unexpected-eof", "io-failure"}
                       \cup ApplicableTimeouts : End(SocketError(failure, c))
        BY <3>1 DEF ReadFails
      <4>2. c # "budget-exhausted"
        BY <3>0, <4>1
      <4> QED BY <2>1, <4>1, <4>2, OtherCauses
    <3>2. ASSUME NEW c, WriteError(c), c # "budget-exhausted"
          PROVE  \E t : End(t) /\ t.cause # "budget-exhausted"
      BY <2>1, <3>2, OtherCauses DEF WriteError
    <3>3. CASE WriteFails
      <4>1. PICK c \in WriteCauses : WriteError(c)
        BY <3>3 DEF WriteFails
      <4> QED BY <3>0, <3>2, <4>1
    <3>4. CASE FlushFails
      <4>1. PICK c \in (IF cancelled THEN {"cancelled"} ELSE ApplicableTimeouts)
                       \cup (IF conn.tls THEN WriteCauses ELSE {}) :
                  WriteError(c)
        BY <3>4 DEF FlushFails
      <4>2. c # "budget-exhausted"
        BY <3>0, <4>1
      <4> QED BY <3>2, <4>1, <4>2
    <3> QED BY <1>2, <3>1, <3>3, <3>4
  <2>3. ~Running' /\ FairVerdict
    BY <2>2, EndDecides DEF FairVerdict
  <2> QED BY <1>1, <2>3, VerdictStays DEF BudgetInv, AccountInv
<1>3. CASE StoreTranscript \/ PersistObservation
  <2>1. terminal' = terminal /\ ~Running'
    BY <1>3 DEF StoreTranscript, PersistObservation, Running, Over
  <2> QED BY <1>1, <2>1, VerdictStays DEF BudgetInv, AccountInv, FairVerdict
<1> QED BY <1>2, <1>3

\* Every step keeps the invariant.
LEMMA BudgetStep ==
    ASSUME SessionInv, SessionInv', StateInv, InboundInv, BudgetInv, [Next]_vars
    PROVE  BudgetInv'
BY AdmitBudget, ReturnBudget, ReceiveBudget, FragmentBudget, DataBudget,
   PongBudget, PingBudget, CloseBudget, SendBudget, FlushBudget, QuietBudget,
   EndBudget
DEF Next, Local, Handler, ReadSyscall, WriteSyscall

\* A session starts with nothing accounted.
LEMMA BudgetInitially == Init => BudgetInv
<1> SUFFICES ASSUME Init PROVE BudgetInv
  OBVIOUS
<1>1. SessionInv
  BY SessionInitially
<1>2. /\ pc = "upgraded" /\ peerSent = chunk /\ staged = << >> /\ inbuf = << >>
      /\ wire = ZeroWire /\ counters = ZeroCounters /\ partial = 0 /\ ai = 1
      /\ terminal = NoTerminal
  BY DEF Init
<1>3. /\ Admitted = 0 /\ Delivered = 0 /\ Begun = 0 /\ ai - 1 = 0
  <2>1. /\ Len(peerSent) \in Nat /\ Len(chunk) = Len(peerSent)
        /\ Len(staged) = 0 /\ Len(inbuf) = 0
    BY <1>1, <1>2, TraceFacts
  <2>2. Admitted = 0 /\ Delivered = 0
    BY ONLY <2>1 DEF Admitted, Delivered
  <2>3. Begun = 0 /\ ai - 1 = 0
    BY ONLY <1>2 DEF Begun
  <2> QED BY <2>2, <2>3
<1>4. /\ wire.inF = 0 /\ wire.inB = 0 /\ wire.outF = 0 /\ wire.outB = 0
      /\ counters.inM = 0 /\ counters.outM = 0
  BY <1>2 DEF ZeroWire, ZeroCounters
<1>5. \A f : UpTo(f, 0) = 0
  <2>1. 1 .. 0 = {}
    OBVIOUS
  <2> QED BY <2>1, TotalEmpty DEF UpTo
<1>6. AccountInv
  BY <1>2, <1>3, <1>4, <1>5, AtNone, MessageNone DEF AccountInv, Admits, Receives, Spends
<1>7. BudgetVerdictJustified
  BY <1>1, <1>2, BudgetFacts DEF BudgetVerdictJustified
<1> QED BY <1>6, <1>7 DEF BudgetInv

\* The inductive invariant of the budget verdict: the accounting, the message
\* being reassembled and the frames written are those of the stream so far.
THEOREM BudgetInvariant == Spec => []BudgetInv
<1>1. Init => BudgetInv
  BY BudgetInitially
<1>2. SessionInv /\ SessionInv' /\ FaithInv /\ BudgetInv /\ [Next]_vars
         => BudgetInv'
  BY BudgetStep DEF FaithInv
<1> QED BY <1>1, <1>2, SessionInvariant, FaithInvariant, PTL DEF Spec

\* Every verdict is earned: a pass by a plan carried out in full, an accepted
\* close by standing, and budget-exhausted (WireParser::observe,
\* exceeds_outbound, account_inbound, the library's capacity error) only by
\* traffic that does not fit the sealed limits, however it was cut into reads.
THEOREM VerdictsAreJustified == Spec => []VerdictJustified
<1>1. BudgetInv => BudgetVerdictJustified
  BY DEF BudgetInv
<1>2. PassedMeansExecuted /\ AcceptedCloseDecides /\ BudgetVerdictJustified
         => VerdictJustified
  BY DEF VerdictJustified
<1> QED BY <1>1, <1>2, BudgetInvariant, PassesAreEarned, AcceptedClosesDecide, PTL
=============================================================================
