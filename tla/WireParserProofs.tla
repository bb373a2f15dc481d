-------------------------- MODULE WireParserProofs --------------------------
(***************************************************************************)
(* TLAPS proofs about WireParser, for every set of frames, every limit and *)
(* every way of cutting the stream into slices: the parser stays on the    *)
(* stream's frame boundaries (WireInv), never stalls, and implements       *)
(* WireBudget.                                                             *)
(***************************************************************************)
EXTENDS WireParser, TLAPS

\* The parser's header size and the frame's size on the stream agree.
LEMMA Sizes ==
    ASSUME NEW f \in Frames
    PROVE  /\ HeaderSize(f) \in 2 .. 14 /\ f.len \in Nat
           /\ FrameSize(f) = HeaderSize(f) + f.len /\ FrameSize(f) \in Nat
<1>1. f.form \in Forms /\ f.masked \in BOOLEAN /\ f.len \in Nat
  BY WireAssumption DEF FrameHeaders
<1> QED BY <1>1 DEF HeaderSize, FrameSize, Forms, Extended

\* The smaller of two positive numbers is positive and below both.
LEMMA LesserBounds ==
    ASSUME NEW a \in Nat, NEW b \in Nat, a > 0, b > 0
    PROVE  /\ Lesser(a, b) \in Nat /\ Lesser(a, b) > 0
           /\ Lesser(a, b) <= a /\ Lesser(a, b) <= b
BY DEF Lesser

\* The parser starts in sync, with nothing counted.
LEMMA WireInitially == Init => WireInv
<1> SUFFICES ASSUME Init PROVE WireInv
  OBVIOUS
<1>1. FrameSize(cur) \in Nat
  BY Sizes DEF Init
<1>2. TypeOK BY <1>1 DEF Init, TypeOK
<1>3. InSync BY <1>1 DEF Init, InSync
<1>4. Counted BY WireAssumption DEF Init, Counted
<1> QED BY <1>2, <1>3, <1>4 DEF WireInv

\* Where the stream and the parser stand after a copy into the header: at the
\* same byte of the same frame, with the header's length known once two bytes
\* of it are in.
LEMMA HeaderCopied ==
    ASSUME WireInv, CopyHeader
    PROVE  /\ cur' \in Frames /\ left' \in Nat /\ left' < left
           /\ off' = header_len + Copied
           /\ header_len + Copied \in 1 .. 14
           /\ NeededAfter(cur') = IF header_len + Copied = 1 THEN 2
                                  ELSE HeaderSize(cur')
           /\ header_len + Copied <= NeededAfter(cur')
<1>1. /\ cur \in Frames /\ off \in Nat /\ left \in Nat /\ left > 0
      /\ header_len \in 0 .. 14 /\ header_needed \in 2 .. 14
      /\ payload_remaining = 0 /\ failure = "none"
  BY DEF WireInv, TypeOK, CopyHeader, Looping
<1>2. \/ header_len = 0 /\ header_needed = 2 /\ off = FrameSize(cur)
      \/ /\ header_len \in 1 .. (header_needed - 1) /\ off = header_len
         /\ header_needed = IF header_len = 1 THEN 2 ELSE HeaderSize(cur)
  BY <1>1 DEF WireInv, InSync
<1>3. /\ Copied \in Nat /\ Copied > 0
      /\ Copied <= header_needed - header_len /\ Copied <= left
  <2>1. header_needed - header_len \in Nat /\ header_needed - header_len > 0
    BY <1>1, <1>2
  <2> QED BY <1>1, <2>1, LesserBounds DEF Copied
<1>4. /\ HeaderSize(cur) \in 2 .. 14 /\ cur.len \in Nat
      /\ FrameSize(cur) = HeaderSize(cur) + cur.len /\ FrameSize(cur) \in Nat
  BY <1>1, Sizes
<1>5. Consume(Copied)
  BY DEF CopyHeader
<1>6. left' \in Nat /\ left' < left
  BY <1>1, <1>3, <1>5 DEF Consume
<1>7. cur' \in Frames /\ off' = header_len + Copied /\ (header_len > 0 => cur' = cur)
  <2>1. CASE header_len = 0 /\ header_needed = 2 /\ off = FrameSize(cur)
    <3>1. off + Copied > FrameSize(cur)
      BY <2>1, <1>1, <1>3, <1>4
    <3>2. /\ cur' \in Frames
          /\ off' = Lesser(off + Copied - FrameSize(cur), FrameSize(cur'))
      BY <3>1, <1>1, <1>3, <1>4, <1>5 DEF Consume
    <3>3. /\ HeaderSize(cur') \in 2 .. 14 /\ cur'.len \in Nat
          /\ FrameSize(cur') = HeaderSize(cur') + cur'.len
      BY <3>2, Sizes
    <3>4. off + Copied - FrameSize(cur) = Copied /\ Copied <= FrameSize(cur')
      BY <2>1, <3>3, <1>1, <1>3, <1>4
    <3> QED BY <2>1, <3>2, <3>4, <1>3 DEF Lesser
  <2>2. CASE /\ header_len \in 1 .. (header_needed - 1) /\ off = header_len
             /\ header_needed = IF header_len = 1 THEN 2 ELSE HeaderSize(cur)
    <3>1. off + Copied <= FrameSize(cur)
      BY <2>2, <1>1, <1>3, <1>4
    <3> QED BY <3>1, <2>2, <1>1, <1>3, <1>4, <1>5 DEF Consume
  <2> QED BY <1>2, <2>1, <2>2
<1>8. HeaderSize(cur') \in 2 .. 14
  BY <1>7, Sizes
<1>9. header_len + Copied \in 1 .. 14
  BY <1>1, <1>3
<1>10. /\ NeededAfter(cur') = IF header_len + Copied = 1 THEN 2
                              ELSE HeaderSize(cur')
       /\ header_len + Copied <= NeededAfter(cur')
  <2>1. CASE header_len + Copied = 2
    BY <2>1, <1>8 DEF NeededAfter
  <2>2. CASE header_len + Copied = 1
    <3>1. header_len = 0
      BY <2>2, <1>1, <1>3
    <3> QED BY <2>2, <3>1, <1>2 DEF NeededAfter
  <2>3. CASE header_len + Copied > 2
    <3>1. header_len >= 2 /\ header_needed = HeaderSize(cur) /\ cur' = cur
      BY <2>3, <1>1, <1>2, <1>3, <1>7
    <3>2. header_len + Copied <= header_needed
      BY <1>1, <1>3
    <3> QED BY <2>3, <3>1, <3>2, <1>9 DEF NeededAfter
  <2> QED BY <2>1, <2>2, <2>3, <1>9
<1> QED BY <1>6, <1>7, <1>9, <1>10

\* What a payload round consumes: part of the payload, within the frame.
LEMMA PayloadConsumed ==
    ASSUME WireInv, Payload
    PROVE  LET k == Lesser(payload_remaining, left) IN
           /\ k \in Nat /\ k > 0 /\ k <= payload_remaining
           /\ cur' = cur /\ off' = off + k
           /\ left' = left - k /\ left' \in Nat /\ left' < left
           /\ off = FrameSize(cur) - payload_remaining
           /\ header_len = 0 /\ header_needed = 2
<1> DEFINE k == Lesser(payload_remaining, left)
<1>1. /\ cur \in Frames /\ off \in Nat /\ left \in Nat /\ left > 0
      /\ payload_remaining \in Nat /\ payload_remaining > 0 /\ failure = "none"
  BY DEF WireInv, TypeOK, Payload, Looping
<1>2. off = FrameSize(cur) - payload_remaining /\ header_len = 0 /\ header_needed = 2
  BY <1>1 DEF WireInv, InSync
<1>3. k \in Nat /\ k > 0 /\ k <= payload_remaining /\ k <= left
  BY <1>1, LesserBounds
<1>4. FrameSize(cur) \in Nat
  BY <1>1, Sizes
<1>5. Consume(k)
  BY DEF Payload
<1> HIDE DEF k
<1>6. off + k <= FrameSize(cur)
  BY <1>1, <1>2, <1>3, <1>4
<1>7. cur' = cur /\ off' = off + k /\ left' = left - k
  BY <1>1, <1>3, <1>4, <1>5, <1>6 DEF Consume
<1>8. left' \in Nat /\ left' < left
  BY <1>1, <1>3, <1>7
<1> QED BY <1>2, <1>3, <1>7, <1>8 DEF k

\* A new slice changes nothing but the bytes at hand.
LEMMA SliceInv == WireInv /\ Slice => WireInv'
BY WireAssumption
DEF Slice, WireInv, TypeOK, InSync, Counted, parser, accounting

\* A payload round keeps the parser in sync and the counts exact.
LEMMA PayloadInv == WireInv /\ Payload => WireInv'
<1> SUFFICES ASSUME WireInv, Payload PROVE WireInv'
  OBVIOUS
<1> DEFINE k == Lesser(payload_remaining, left)
<1>1. /\ k \in Nat /\ k > 0 /\ k <= payload_remaining
      /\ cur' = cur /\ off' = off + k /\ left' \in Nat
      /\ off = FrameSize(cur) - payload_remaining
      /\ header_len = 0 /\ header_needed = 2
  BY PayloadConsumed
<1>2. /\ bytes' = bytes + k /\ payload_remaining' = payload_remaining - k
      /\ UNCHANGED <<header_len, header_needed, frames, reserved, failure, seen>>
  BY DEF Payload
<1> HIDE DEF k
<1>3. cur \in Frames /\ FrameSize(cur) \in Nat
  BY Sizes DEF WireInv, TypeOK
<1>4. TypeOK'
  BY <1>1, <1>2, <1>3 DEF WireInv, TypeOK
<1>5. InSync'
  <2>1. FrameSize(cur)' = FrameSize(cur)
    BY <1>1 DEF FrameSize
  <2>2. off' = FrameSize(cur)' - payload_remaining'
    BY <1>1, <1>2, <1>3, <2>1 DEF WireInv, TypeOK
  <2> QED BY <1>1, <1>2, <1>3, <2>1, <2>2 DEF InSync
<1>6. Counted'
  BY <1>1, <1>2 DEF WireInv, TypeOK, Counted
<1> QED BY <1>4, <1>5, <1>6 DEF WireInv

\* A copy that does not complete the header keeps the parser in sync.
LEMMA HeaderPartInv == WireInv /\ HeaderPart => WireInv'
<1> SUFFICES ASSUME WireInv, HeaderPart PROVE WireInv'
  OBVIOUS
<1> DEFINE h == header_len + Copied
<1>1. /\ cur' \in Frames /\ left' \in Nat /\ off' = h /\ h \in 1 .. 14
      /\ NeededAfter(cur') = (IF h = 1 THEN 2 ELSE HeaderSize(cur'))
      /\ h <= NeededAfter(cur')
  BY HeaderCopied DEF HeaderPart
<1>2. /\ h # NeededAfter(cur') /\ header_len' = h
      /\ header_needed' = NeededAfter(cur')
      /\ UNCHANGED <<payload_remaining, accounting>> /\ payload_remaining = 0
  BY DEF HeaderPart, CopyHeader
<1> HIDE DEF h
<1>3. HeaderSize(cur') \in 2 .. 14
  BY <1>1, Sizes
<1>4. TypeOK'
  BY <1>1, <1>2, <1>3 DEF WireInv, TypeOK, accounting
<1>5. InSync'
  <2>1. header_len' \in 1 .. (header_needed' - 1)
    BY <1>1, <1>2, <1>3
  <2>2. header_needed' = IF header_len' = 1 THEN 2 ELSE HeaderSize(cur)'
    BY <1>1, <1>2 DEF HeaderSize
  <2> QED BY <1>1, <1>2, <2>1, <2>2 DEF InSync
<1>6. Counted'
  BY <1>2 DEF WireInv, Counted, accounting
<1> QED BY <1>4, <1>5, <1>6 DEF WireInv

\* What an admitted header reserves.
LEMMA AdmitFrameInv == WireInv /\ AdmitFrame => WireInv'
<1> SUFFICES ASSUME WireInv, AdmitFrame PROVE WireInv'
  OBVIOUS
<1> DEFINE h == header_len + Copied
<1>1. /\ cur' \in Frames /\ left' \in Nat /\ off' = h /\ h \in 1 .. 14
      /\ NeededAfter(cur') = (IF h = 1 THEN 2 ELSE HeaderSize(cur'))
  BY HeaderCopied DEF AdmitFrame, HeaderComplete
<1>2. /\ h = NeededAfter(cur') /\ WithinLimits(cur')
      /\ frames' = frames + 1 /\ reserved' = reserved + cur'.len
      /\ payload_remaining' = cur'.len
      /\ header_len' = 0 /\ header_needed' = 2
      /\ seen' = Append(seen, cur')
      /\ UNCHANGED <<bytes, failure>> /\ payload_remaining = 0
  BY DEF AdmitFrame, HeaderComplete, CopyHeader
<1> HIDE DEF h
<1>3. /\ HeaderSize(cur') \in 2 .. 14 /\ cur'.len \in Nat
      /\ FrameSize(cur') = HeaderSize(cur') + cur'.len
  BY <1>1, Sizes
<1>4. off' = HeaderSize(cur')
  BY <1>1, <1>2
<1>5. TypeOK'
  <2>1. seen' \in Seq(Frames)
    BY <1>1, <1>2 DEF WireInv, TypeOK
  <2>2. frames' \in Nat /\ reserved' \in Nat
    BY <1>2, <1>3 DEF WireInv, TypeOK
  <2>3. off' \in Nat /\ left' \in Nat /\ cur' \in Frames
    BY <1>1
  <2> QED BY <1>2, <1>3, <2>1, <2>2, <2>3 DEF WireInv, TypeOK
<1>6. InSync'
  <2>0. FrameSize(cur)' = FrameSize(cur')
    BY DEF FrameSize
  <2>1. off' = FrameSize(cur)' - payload_remaining'
    BY <2>0, <1>2, <1>3, <1>4, SMTT(30)
  <2>2. payload_remaining' = 0 => off' = FrameSize(cur)'
    BY <2>0, <1>2, <1>3, <1>4, SMTT(30)
  <2> QED BY <1>2, <2>1, <2>2 DEF InSync
<1>7. Counted'
  <2>1. Len(seen') = Len(seen) + 1
    BY <1>1, <1>2 DEF WireInv, TypeOK
  <2> QED
    BY <1>2, <1>3, <2>1, WireAssumption
    DEF WireInv, TypeOK, Counted, WithinLimits
<1> QED BY <1>5, <1>6, <1>7 DEF WireInv

\* A refused header changes no count.
LEMMA RefuseFrameInv == WireInv /\ RefuseFrame => WireInv'
<1> SUFFICES ASSUME WireInv, RefuseFrame PROVE WireInv'
  OBVIOUS
<1> DEFINE h == header_len + Copied
<1>1. /\ cur' \in Frames /\ left' \in Nat /\ off' = h /\ h \in 1 .. 14
      /\ NeededAfter(cur') = (IF h = 1 THEN 2 ELSE HeaderSize(cur'))
  BY HeaderCopied DEF RefuseFrame, HeaderComplete
<1>2. /\ failure' \in {"protocol-violation", "budget-exhausted"}
      /\ header_len' = h /\ header_needed' = NeededAfter(cur')
      /\ UNCHANGED <<payload_remaining, frames, reserved, bytes, seen>>
  BY DEF RefuseFrame
<1> HIDE DEF h
<1>3. HeaderSize(cur') \in 2 .. 14
  BY <1>1, Sizes
<1>4. TypeOK'
  BY <1>1, <1>2, <1>3 DEF WireInv, TypeOK
<1>5. InSync' /\ Counted'
  BY <1>2 DEF WireInv, InSync, Counted
<1> QED BY <1>4, <1>5 DEF WireInv

\* Every round of observe preserves the invariant.
LEMMA WireStep == WireInv /\ [Next]_vars => WireInv'
<1> SUFFICES ASSUME WireInv, [Next]_vars PROVE WireInv'
  OBVIOUS
<1>1. CASE Next
  BY <1>1, SliceInv, PayloadInv, HeaderPartInv, AdmitFrameInv, RefuseFrameInv
  DEF Next
<1>2. CASE UNCHANGED vars
  BY <1>2
  DEF vars, stream, parser, accounting, WireInv, TypeOK, InSync, Counted,
      FrameSize, HeaderSize
<1> QED BY <1>1, <1>2

\* The parser is well typed, in sync with the stream and exact in its counts,
\* for every stream and every way of cutting it.
THEOREM WireInvariant == Spec => []WireInv
BY WireInitially, WireStep, PTL DEF Spec

\* Byte-level parsing never leaves the frame boundaries of the stream
\* (WireParser::observe on split headers, lengths, masks and payloads).
THEOREM StaysInSync == Spec => []InSync
BY WireInvariant, PTL DEF WireInv

\* The counters of an observation stay within the sealed limits and trail the
\* reserved bytes by exactly the payload still to come.
THEOREM CountsExactly == Spec => []Counted
BY WireInvariant, PTL DEF WireInv

\* observe's loop makes progress in every round.
THEOREM NeverStalls == Spec => NoStall
<1>1. WireInv /\ [Next]_vars => [left > 0 => left' < left]_vars
  <2> SUFFICES ASSUME WireInv, Next, left > 0 PROVE left' < left
    OBVIOUS
  <2>1. ~Slice
    BY DEF Slice
  <2>2. CASE Payload
    BY <2>2, PayloadConsumed
  <2>3. CASE HeaderPart \/ AdmitFrame \/ RefuseFrame
    BY <2>3, HeaderCopied DEF HeaderPart, AdmitFrame, RefuseFrame, HeaderComplete
  <2> QED BY <2>1, <2>2, <2>3 DEF Next
<1> QED BY <1>1, WireInvariant, PTL DEF Spec, NoStall

\* The byte-level parser implements the frame-level budget: which frame stops
\* a stream does not depend on how the stream was cut.
THEOREM ImplementsBudget == Spec => RefinesBudget
<1>1. Init => WB!Init
  BY DEF Init, WB!Init, Stopper
<1>2. WireInv /\ [Next]_vars => [WB!Next]_(WB!budgetVars)
  <2> SUFFICES ASSUME WireInv, [Next]_vars
               PROVE  WB!Next \/ UNCHANGED WB!budgetVars
    OBVIOUS
  <2>1. CASE Slice \/ Payload \/ HeaderPart \/ UNCHANGED vars
    BY <2>1
    DEF Slice, Payload, HeaderPart, CopyHeader, Looping, vars, stream,
        accounting, Stopper, WB!budgetVars
  <2>2. CASE AdmitFrame
    <3>1. cur' \in Frames
      BY <2>2, HeaderCopied DEF AdmitFrame, HeaderComplete
    <3>2. WB!Admit(cur')
      BY <2>2
      DEF AdmitFrame, HeaderComplete, CopyHeader, Looping, WithinLimits,
          WB!Admit, WB!Fits, WireInv, Counted, Stopper
    <3> QED BY <3>1, <3>2 DEF WB!Next
  <2>3. CASE RefuseFrame
    <3>1. cur' \in Frames
      BY <2>3, HeaderCopied DEF RefuseFrame, HeaderComplete
    <3>2. WB!Refuse(cur')
      BY <2>3
      DEF RefuseFrame, HeaderComplete, CopyHeader, Looping, WithinLimits,
          WB!Refuse, WB!Fits, WireInv, Counted, Stopper
    <3> QED BY <3>1, <3>2 DEF WB!Next
  <2> QED BY <2>1, <2>2, <2>3 DEF Next
<1> QED
  BY <1>1, <1>2, WireInvariant, PTL DEF Spec, RefinesBudget, WB!Spec
=============================================================================
