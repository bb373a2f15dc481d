----------------------------- MODULE WireBudget -----------------------------
(***************************************************************************)
(* What the wire accounting of a session promises for one direction: the   *)
(* frames of the stream are judged one by one, in order, on their declared *)
(* length alone, and the first one over a limit stops the stream.  Nothing *)
(* here depends on how the bytes were cut into reads or writes.            *)
(***************************************************************************)
EXTENDS Integers, Sequences

CONSTANTS Frames,         (* frame headers that can appear on the stream    *)
          MaxFrames,      (* max_inbound_frames / max_outbound_frames       *)
          MaxFrameBytes,  (* max_frame_bytes                                *)
          MaxBytes        (* max_inbound_bytes / max_outbound_bytes         *)

VARIABLES seen,      \* frames admitted so far
          reserved,  \* total of their declared lengths
          failure,   \* why the stream was stopped
          stopper    \* the frame that stopped it, in a set

budgetVars == <<seen, reserved, failure, stopper>>

Init == seen = << >> /\ reserved = 0 /\ failure = "none" /\ stopper = {}

Fits(f) ==
    /\ ~f.malformed
    /\ Len(seen) < MaxFrames
    /\ f.len <= MaxFrameBytes
    /\ reserved + f.len <= MaxBytes

Admit(f) ==
    /\ failure = "none" /\ Fits(f)
    /\ seen' = Append(seen, f)
    /\ reserved' = reserved + f.len
    /\ UNCHANGED <<failure, stopper>>

Refuse(f) ==
    /\ failure = "none" /\ ~Fits(f)
    /\ failure' = IF f.malformed THEN "protocol-violation" ELSE "budget-exhausted"
    /\ stopper' = {f}
    /\ UNCHANGED <<seen, reserved>>

Next == \E f \in Frames : Admit(f) \/ Refuse(f)

Spec == Init /\ [][Next]_budgetVars
=============================================================================
