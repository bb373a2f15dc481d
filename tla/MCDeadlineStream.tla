-------------------------- MODULE MCDeadlineStream --------------------------
(* Small instances of DeadlineStream for TLC.                              *)
EXTENDS DeadlineStream

\* Timeouts below, at and above the idle timeout, and beyond the total.
MCPhaseTimeouts == [c \in PhaseCauses |->
                      IF c = "action-timeout" THEN {2, 3, 5, 9} ELSE {4}]
=============================================================================
