----------------------------- MODULE WireParser -----------------------------
(***************************************************************************)
(* WireParser of kahea-exec: the accounting that watches one direction of  *)
(* the raw byte stream.  Reads and writes cut the stream anywhere, inside  *)
(* a two-byte header, an extended length, a mask or a payload, and the     *)
(* parser must stay on the frame boundaries of the stream.                 *)
(*                                                                         *)
(* The stream itself is (cur, off): the frame being transmitted and how    *)
(* many of its bytes the parser has consumed.  Header bytes are known by   *)
(* the frame they belong to; the parser's own state is separate from the   *)
(* stream's and never looks at off.                                        *)
(***************************************************************************)
EXTENDS Integers, Sequences

CONSTANTS Frames, MaxFrames, MaxFrameBytes, MaxBytes,
          MaxSlice       (* longest slice one observe call gets             *)

Forms == {"short", "u16", "u64"}

\* How a header announces its payload; malformed is a 64-bit length with its
\* top bit set.
FrameHeaders == [form : Forms, masked : BOOLEAN, malformed : BOOLEAN, len : Nat]

ASSUME WireAssumption ==
    /\ Frames \subseteq FrameHeaders
    /\ \A f \in Frames : f.malformed => f.form = "u64"
    /\ MaxFrames \in Nat /\ MaxFrameBytes \in Nat /\ MaxBytes \in Nat
    /\ MaxSlice \in Nat \ {0}

VARIABLES cur, off,                                     \* the stream
          left,                                         \* bytes of the slice
          header_len, header_needed, payload_remaining, \* WireParser
          frames, reserved, bytes, failure,             \* WireAccounting
          seen                                          \* history: admitted

stream     == <<cur, off, left>>
parser     == <<header_len, header_needed, payload_remaining>>
accounting == <<frames, reserved, bytes, failure, seen>>
vars       == <<stream, parser, accounting>>

-----------------------------------------------------------------------------
\* Bytes of the extended length.
Extended == [short |-> 0, u16 |-> 2, u64 |-> 8]

\* Mutant: the mask of a client frame is taken for payload.
HeaderSizeUnmasked(f) == 2 + Extended[f.form]

\* Bytes of a frame header: two, the extended length and the mask.
HeaderSize(f) ==
    2 + Extended[f.form] + (IF f.masked THEN 4 ELSE 0)

\* Bytes a frame takes on the stream, by RFC 6455.
FrameSize(f) ==
    2 + Extended[f.form] + (IF f.masked THEN 4 ELSE 0) + f.len

Lesser(a, b) == IF a <= b THEN a ELSE b

Init ==
    /\ cur \in Frames /\ off = FrameSize(cur) /\ left = 0
    /\ header_len = 0 /\ header_needed = 2 /\ payload_remaining = 0
    /\ frames = 0 /\ reserved = 0 /\ bytes = 0 /\ failure = "none"
    /\ seen = << >>

\* A read or a write hands observe another slice.
Slice ==
    /\ failure = "none" /\ left = 0
    /\ left' \in 1 .. MaxSlice
    /\ UNCHANGED <<cur, off, parser, accounting>>

\* k bytes of the slice are consumed: within the current frame, or on into the
\* next frames, which are the sender's choice.
Consume(k) ==
    /\ left' = left - k
    /\ \/ off + k <= FrameSize(cur) /\ off' = off + k /\ cur' = cur
       \/ off + k > FrameSize(cur) /\ cur' \in Frames
          /\ off' = Lesser(off + k - FrameSize(cur), FrameSize(cur'))

Looping == failure = "none" /\ left > 0

\* Mutant: the rest of the slice is counted as payload.
PayloadAll ==
    /\ Looping /\ payload_remaining # 0
    /\ Consume(Lesser(payload_remaining, left))
    /\ bytes' = bytes + left
    /\ payload_remaining' = payload_remaining - Lesser(payload_remaining, left)
    /\ UNCHANGED <<header_len, header_needed, frames, reserved, failure, seen>>

\* Inside a payload: count what the slice holds of it.
Payload ==
    /\ Looping /\ payload_remaining # 0
    /\ LET consumed == Lesser(payload_remaining, left) IN
       /\ Consume(consumed)
       /\ bytes' = bytes + consumed
       /\ payload_remaining' = payload_remaining - consumed
    /\ UNCHANGED <<header_len, header_needed, frames, reserved, failure, seen>>

Copied == Lesser(header_needed - header_len, left)

\* After the second byte the parser knows how long the header is.
NeededAfter(f) ==
    IF header_len + Copied = 2 THEN HeaderSize(f) ELSE header_needed

CopyHeader == Looping /\ payload_remaining = 0 /\ Consume(Copied)

\* The slice ends inside the header, or the header turns out to be longer.
HeaderPart ==
    /\ CopyHeader
    /\ header_len + Copied # NeededAfter(cur')
    /\ header_len' = header_len + Copied
    /\ header_needed' = NeededAfter(cur')
    /\ UNCHANGED <<payload_remaining, accounting>>

HeaderComplete == CopyHeader /\ header_len + Copied = NeededAfter(cur')

\* Mutant: the last byte of the budget cannot be used.
WithinLimitsOneLess(f) ==
    ~f.malformed /\ frames < MaxFrames /\ f.len <= MaxFrameBytes
                 /\ reserved + f.len < MaxBytes

WithinLimits(f) ==
    ~f.malformed /\ frames < MaxFrames /\ f.len <= MaxFrameBytes
                 /\ reserved + f.len <= MaxBytes

\* Mutant: the parser is not set back for the next header.
AdmitFrameNoReset ==
    /\ HeaderComplete
    /\ WithinLimits(cur')
    /\ frames' = frames + 1
    /\ reserved' = reserved + cur'.len
    /\ payload_remaining' = cur'.len
    /\ header_len' = header_len + Copied /\ header_needed' = NeededAfter(cur')
    /\ seen' = Append(seen, cur')
    /\ UNCHANGED <<bytes, failure>>

\* A complete header within the limits: reserve its payload.
AdmitFrame ==
    /\ HeaderComplete
    /\ WithinLimits(cur')
    /\ frames' = frames + 1
    /\ reserved' = reserved + cur'.len
    /\ payload_remaining' = cur'.len
    /\ header_len' = 0 /\ header_needed' = 2
    /\ seen' = Append(seen, cur')
    /\ UNCHANGED <<bytes, failure>>

\* A complete header that is malformed or over a limit fails the stream.
RefuseFrame ==
    /\ HeaderComplete
    /\ ~WithinLimits(cur')
    /\ failure' = IF cur'.malformed THEN "protocol-violation"
                  ELSE "budget-exhausted"
    /\ header_len' = header_len + Copied /\ header_needed' = NeededAfter(cur')
    /\ UNCHANGED <<payload_remaining, frames, reserved, bytes, seen>>

Next == Slice \/ Payload \/ HeaderPart \/ AdmitFrame \/ RefuseFrame

Spec == Init /\ [][Next]_vars

-----------------------------------------------------------------------------
(* Properties.                                                             *)

\* Every variable has the type its Rust field gives it; the header always
\* fits the parser's 14-byte array.
TypeOK ==
    /\ cur \in Frames /\ off \in Nat /\ left \in Nat
    /\ header_len \in 0 .. 14 /\ header_needed \in 2 .. 14
    /\ payload_remaining \in Nat
    /\ frames \in Nat /\ reserved \in Nat /\ bytes \in Nat
    /\ failure \in {"none", "budget-exhausted", "protocol-violation"}
    /\ seen \in Seq(Frames)

\* However the stream is cut, the parser stands at the same place of the same
\* frame as the stream: it never takes payload for a header or the reverse.
InSync ==
    failure = "none" =>
       \/ payload_remaining # 0 /\ header_len = 0 /\ header_needed = 2
          /\ off = FrameSize(cur) - payload_remaining
       \/ payload_remaining = 0 /\ header_len = 0 /\ header_needed = 2
          /\ off = FrameSize(cur)
       \/ /\ payload_remaining = 0 /\ header_len \in 1 .. (header_needed - 1)
          /\ off = header_len
          /\ header_needed = IF header_len = 1 THEN 2 ELSE HeaderSize(cur)

\* The byte counters an observation reports trail what was reserved by exactly
\* the payload still to come, and neither passes its limit.
Counted ==
    /\ frames = Len(seen) /\ frames <= MaxFrames
    /\ bytes + payload_remaining = reserved
    /\ reserved <= MaxBytes

\* Every round of observe's loop consumes part of the slice or fails: the loop
\* cannot spin on a header it has already read.
NoStall == [][left > 0 => left' < left]_vars

\* The stream stops at the frame whose header was refused.
Stopper == IF failure = "none" THEN {} ELSE {cur}

WB == INSTANCE WireBudget WITH stopper <- Stopper

\* The parser implements the frame-by-frame budget: which frame stops a stream
\* depends on the frames alone, not on how reads and writes cut it.
RefinesBudget == WB!Spec

WireInv == TypeOK /\ InSync /\ Counted
=============================================================================
