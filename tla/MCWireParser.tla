---------------------------- MODULE MCWireParser ----------------------------
(* A small instance of WireParser for TLC.                                 *)
EXTENDS WireParser

H(form, masked, malformed, len) ==
    [form |-> form, masked |-> masked, malformed |-> malformed, len |-> len]

\* Every header form, masked and not, empty payloads, payloads at the frame
\* limit and over it, and a malformed 64-bit length.
MCFrames ==
    {H("short", FALSE, FALSE, 0), H("short", TRUE, FALSE, 3),
     H("u16", FALSE, FALSE, 2), H("u16", TRUE, FALSE, 1),
     H("u64", FALSE, FALSE, 4), H("u64", TRUE, FALSE, 3),
     H("u64", FALSE, TRUE, 0)}
=============================================================================
