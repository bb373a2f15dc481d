--------------------------- MODULE DeadlineStream ---------------------------
(***************************************************************************)
(* DeadlineTcpStream of kahea-exec and the deadlines a session sets on it: *)
(* one shared DeadlineState that the executor reconfigures before it reads *)
(* or writes, that every transferred byte moves, and that a blocked call   *)
(* asks before it believes a timeout or an interruption.                   *)
(*                                                                         *)
(* now is the monotonic clock, in milliseconds.  Time passes while a call  *)
(* is blocked, while await_deadline sleeps and while the executor computes *)
(* between calls; the few instructions of the loop itself take none.       *)
(*                                                                         *)
(* A failed call ends the session here.  The one caller that does not pass *)
(* an interruption on, write_all on a plain transport, is in WsSession.    *)
(***************************************************************************)
EXTENDS Integers

CONSTANTS TotalTimeout,    (* the plan's total, tightened by the invocation *)
          ConnectTimeout,  (* limits.connect_timeout_ms                     *)
          IdleTimeout,     (* limits.idle_timeout_ms                        *)
          PhaseTimeouts,   (* timeouts an action may have, by phase cause   *)
          CancelPoll,      (* the 25 ms between looks at the flag           *)
          Cancellable,     (* whether the caller has a cancellation handle  *)
          MaxTime          (* TLC's bound on the clock                      *)

PhaseCauses   == {"action-timeout", "close-timeout"}
TimeoutCauses == PhaseCauses \cup {"total-timeout", "idle-timeout",
                                   "connect-timeout"}

ASSUME DeadlineAssumption ==
    /\ TotalTimeout \in Nat \ {0} /\ ConnectTimeout \in Nat \ {0}
    /\ IdleTimeout \in Nat \ {0} /\ CancelPoll \in Nat \ {0}
    /\ PhaseTimeouts \in [PhaseCauses -> SUBSET (Nat \ {0})]
    /\ Cancellable \in BOOLEAN /\ MaxTime \in Nat

VARIABLES
    now,        \* Instant::now()
    pc,         \* where the executor thread is
    dl,         \* the shared DeadlineState
    phase,      \* cause and deadline of the current action, on the stack
    expiry,     \* when SO_RCVTIMEO / SO_SNDTIMEO or the sleep runs out
    cancelled,  \* the cancellation flag
    outcome,    \* how the session's last call failed
    idleFrom,   \* history: when the idle time was last restarted
    begun,      \* history: when the current action began, and its timeout
    cancelledAt \* history: when the flag was raised

vars == <<now, pc, dl, phase, expiry, cancelled, outcome, idleFrom, begun,
          cancelledAt>>
historyVars == <<idleFrom, begun, cancelledAt>>

Earlier(a, b) == IF a <= b THEN a ELSE b

\* bounded_total_deadline; the invocation starts at 0.
TotalDeadline == TotalTimeout

ConnectDeadline == Earlier(ConnectTimeout, TotalDeadline)

\* DeadlineState::fixed
Fixed(d, c) == [active |-> d, total |-> d, phase |-> d, idle |-> FALSE,
                phase_cause |-> c, cause |-> c]

\* select_deadline: on a tie the total deadline goes before the phase's, and
\* that before the idle one.
SelectDeadline(t, p, i, c) ==
    IF t <= p /\ t <= i THEN [at |-> t, cause |-> "total-timeout"]
    ELSE IF p <= i THEN [at |-> p, cause |-> c]
    ELSE [at |-> i, cause |-> "idle-timeout"]

\* The DeadlineState with the idle time restarted now.
Restarted(t, p, c) ==
    LET s == SelectDeadline(t, p, now + IdleTimeout, c)
    IN  [active |-> s.at, total |-> t, phase |-> p, idle |-> TRUE,
         phase_cause |-> c, cause |-> s.cause]

\* Mutant: the cause is the one configure_session_deadline computed.
NoteActivityStale ==
    IF dl.idle
    THEN [Restarted(dl.total, dl.phase, dl.phase_cause)
             EXCEPT !.cause = dl.cause]
    ELSE dl

\* DeadlineState::note_activity
NoteActivity ==
    IF dl.idle THEN Restarted(dl.total, dl.phase, dl.phase_cause) ELSE dl

-----------------------------------------------------------------------------
Init ==
    /\ now = 0
    /\ pc = "run"
    /\ dl = Fixed(ConnectDeadline, "connect-timeout")
    /\ phase = [cause |-> "connect-timeout", deadline |-> ConnectDeadline]
    /\ expiry = 0
    /\ cancelled = FALSE
    /\ outcome = "none"
    /\ idleFrom = 0
    /\ begun = [at |-> 0, timeout |-> ConnectTimeout]
    /\ cancelledAt = 0

Connecting == phase.cause = "connect-timeout"

-----------------------------------------------------------------------------
(* The executor.                                                           *)

\* The upgrade has succeeded: the connection gets the total deadline.
Upgraded ==
    /\ pc = "run" /\ Connecting
    /\ dl' = Fixed(TotalDeadline, "total-timeout")
    /\ phase' = [cause |-> "upgraded", deadline |-> TotalDeadline]
    /\ begun' = [at |-> now, timeout |-> TotalDeadline]
    /\ UNCHANGED <<now, pc, expiry, cancelled, outcome, idleFrom, cancelledAt>>

\* The next action: action_deadline, or the head of execute_client_close.
NextAction ==
    /\ pc = "run" /\ ~Connecting
    /\ \E c \in PhaseCauses : \E t \in PhaseTimeouts[c] :
          /\ phase' = [cause |-> c, deadline |-> Earlier(now + t, TotalDeadline)]
          /\ begun' = [at |-> now, timeout |-> t]
    /\ pc' = "configure"
    /\ UNCHANGED <<now, dl, expiry, cancelled, outcome, idleFrom, cancelledAt>>

\* Mutant: every message gives the action its whole timeout again.
ConfigureAfresh ==
    /\ pc = "configure"
    /\ dl' = Restarted(TotalDeadline, now + begun.timeout, phase.cause)
    /\ idleFrom' = now
    /\ pc' = "run"
    /\ UNCHANGED <<now, phase, expiry, cancelled, outcome, begun, cancelledAt>>

\* configure_session_deadline, before each send, each read of the loops and
\* each flush of an automatic pong: the action keeps its deadline, the idle
\* time starts again.
Configure ==
    /\ pc = "configure"
    /\ dl' = Restarted(TotalDeadline, phase.deadline, phase.cause)
    /\ idleFrom' = now
    /\ pc' = "run"
    /\ UNCHANGED <<now, phase, expiry, cancelled, outcome, begun, cancelledAt>>

\* A message that does not end the action: round the loop again.
NextMessage ==
    /\ pc = "run" /\ phase.cause \in PhaseCauses
    /\ pc' = "configure"
    /\ UNCHANGED <<now, dl, phase, expiry, cancelled, outcome, historyVars>>

\* The protocol library or the upgrade reads or writes; it may do so several
\* times between two configurations.
Call ==
    /\ pc = "run" /\ phase.cause # "upgraded"
    /\ pc' = "enter"
    /\ UNCHANGED <<now, dl, phase, expiry, cancelled, outcome, historyVars>>

-----------------------------------------------------------------------------
(* DeadlineTcpStream.                                                      *)

\* A call fails, and socket_error (or io_handshake_failure) ends the session.
Fails(c) ==
    /\ outcome' = c
    /\ pc' = "done"

\* Mutant: the flag is only looked at once the deadline has passed.
RemainingUnpolled == dl.active - now

\* The time the next system call may block.
Remaining ==
    IF Cancellable THEN Earlier(dl.active - now, CancelPoll) ELSE dl.active - now

\* Mutant: only the flag ends a call.
ExpiredUntimed(A) ==
    IF cancelled THEN Fails("cancelled") /\ UNCHANGED expiry
    ELSE A /\ UNCHANGED outcome

\* remaining(): the flag first, then the clock.
Expired(A) ==
    IF cancelled THEN Fails("cancelled") /\ UNCHANGED expiry
    ELSE IF now >= dl.active THEN Fails(dl.cause) /\ UNCHANGED expiry
    ELSE A /\ UNCHANGED outcome

\* The top of the loop of read, write and flush: set the timeout and block.
Enter ==
    /\ pc = "enter"
    /\ Expired(pc' = "blocked" /\ expiry' = now + Remaining)
    /\ UNCHANGED <<now, dl, phase, cancelled, historyVars>>

\* A read or a write transferred bytes.
Transfer ==
    /\ pc = "blocked"
    /\ dl' = NoteActivity
    /\ idleFrom' = IF dl.idle THEN now ELSE idleFrom
    /\ pc' = "run"
    /\ UNCHANGED <<now, phase, expiry, cancelled, outcome, begun, cancelledAt>>

\* A flush succeeded: unlike a transfer it is no activity.
Flushed ==
    /\ pc = "blocked"
    /\ pc' = "run"
    /\ UNCHANGED <<now, dl, phase, expiry, cancelled, outcome, historyVars>>

\* The peer ends the stream or the connection fails.
PeerFails ==
    /\ pc = "blocked"
    /\ Fails("io-failure")
    /\ UNCHANGED <<now, dl, phase, expiry, cancelled, historyVars>>

\* EAGAIN: the socket timeout ran out, or a wake-up with nothing to read.
Wake ==
    /\ pc = "blocked"
    /\ pc' = "await"
    /\ UNCHANGED <<now, dl, phase, expiry, cancelled, outcome, historyVars>>

\* Mutant: the errno is believed.
AwaitDeadlineErrno ==
    /\ pc = "await"
    /\ Fails(dl.cause)
    /\ UNCHANGED <<now, dl, phase, expiry, cancelled, historyVars>>

\* await_deadline: ask the clock, and sleep a millisecond before trying again.
AwaitDeadline ==
    /\ pc = "await"
    /\ Expired(pc' = "pause" /\ expiry' = now + 1)
    /\ UNCHANGED <<now, dl, phase, cancelled, historyVars>>

\* The sleep is over: the second remaining() of await_deadline, then the loop.
Resume ==
    /\ pc = "pause" /\ now = expiry
    /\ Expired(pc' = "enter" /\ UNCHANGED expiry)
    /\ UNCHANGED <<now, dl, phase, cancelled, historyVars>>

\* EINTR: an interruption of a cancelled session ends the call, any other one
\* is retried after remaining().
Interrupt ==
    /\ pc = "blocked"
    /\ Expired(pc' = "enter" /\ UNCHANGED expiry)
    /\ UNCHANGED <<now, dl, phase, cancelled, historyVars>>

-----------------------------------------------------------------------------
(* The environment.                                                        *)

\* WebSocketCancellation, from another thread.
Cancel ==
    /\ Cancellable /\ ~cancelled /\ pc # "done"
    /\ cancelled' = TRUE /\ cancelledAt' = now
    /\ UNCHANGED <<now, pc, dl, phase, expiry, outcome, idleFrom, begun>>

\* A blocked system call and a sleep return when their time is up.
Tick ==
    /\ \/ pc \in {"run", "configure"} /\ now < MaxTime
       \/ pc \in {"blocked", "pause"} /\ now < expiry
    /\ now' = now + 1
    /\ UNCHANGED <<pc, dl, phase, expiry, cancelled, outcome, historyVars>>

Done == pc = "done" /\ UNCHANGED vars

Loop == Enter \/ AwaitDeadline \/ Resume
Returns == Transfer \/ Flushed \/ PeerFails \/ Wake \/ Interrupt

Next == \/ Upgraded \/ NextAction \/ Configure \/ NextMessage \/ Call
        \/ Enter \/ Transfer \/ Flushed \/ PeerFails \/ Wake
        \/ AwaitDeadline \/ Resume \/ Interrupt \/ Cancel \/ Tick \/ Done

Spec == Init /\ [][Next]_vars

\* The thread is scheduled, the clock runs, and a system call whose timeout
\* has run out returns.
LiveSpec ==
    /\ Spec
    /\ WF_vars(Loop)
    /\ WF_vars(pc = "blocked" /\ now = expiry /\ Returns)
    /\ SF_vars(Tick)

-----------------------------------------------------------------------------
(* Properties.                                                             *)

\* Every variable has its type.
TypeOK ==
    /\ now \in Nat /\ expiry \in Nat /\ idleFrom \in Nat /\ cancelledAt \in Nat
    /\ pc \in {"run", "configure", "enter", "blocked", "await", "pause", "done"}
    /\ dl \in [active : Nat, total : Nat, phase : Nat, idle : BOOLEAN,
               phase_cause : TimeoutCauses, cause : TimeoutCauses]
    /\ phase \in [cause : PhaseCauses \cup {"connect-timeout", "upgraded"},
                  deadline : Nat]
    /\ cancelled \in BOOLEAN
    /\ outcome \in TimeoutCauses \cup {"none", "cancelled", "io-failure"}
    /\ begun \in [at : Nat, timeout : Nat]

Waiting == pc \in {"blocked", "pause"}

\* No call waits past a deadline: not the session's total, not the action's
\* own, counted from when the action began however many messages and pings
\* came meanwhile, and not the idle time.
WaitsInTime ==
    Waiting =>
       /\ now <= TotalDeadline
       /\ now <= begun.at + begun.timeout
       /\ ~Connecting => now <= idleFrom + IdleTimeout

\* When each of the deadlines runs out.
DeadlineOf(c) ==
    IF c = "total-timeout" THEN TotalDeadline
    ELSE IF c = "idle-timeout" THEN idleFrom + IdleTimeout
    ELSE phase.deadline

\* A session ends for a timeout only when that deadline has passed, whatever
\* errno the platform gave, and as cancelled only when it was cancelled: a
\* stray signal or a spurious wake-up ends nothing.
EndIsGenuine ==
    /\ outcome \in TimeoutCauses => now >= DeadlineOf(outcome)
    /\ outcome = "cancelled" => cancelled

\* The timeout a session reports is the earliest one that applied, also when
\* bytes have moved the idle deadline since the executor computed a cause.
EarliestWins ==
    outcome \in TimeoutCauses \ {"connect-timeout"} =>
       \A c \in {"total-timeout", "idle-timeout", phase.cause} :
          DeadlineOf(outcome) <= DeadlineOf(c)

\* A cancelled session stops waiting within one poll of the flag.
CancelledPromptly ==
    Waiting /\ cancelled => now <= cancelledAt + CancelPoll

\* Every read, write and flush returns.
CallReturns == pc = "enter" ~> pc \in {"run", "done"}
=============================================================================
