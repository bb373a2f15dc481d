------------------------ MODULE DeadlineStreamProofs ------------------------
(***************************************************************************)
(* Proofs about DeadlineStream, for every value of the timeouts.           *)
(*                                                                         *)
(* WaitsInTime, EndIsGenuine, EarliestWins and CancelledPromptly are not   *)
(* inductive: a waiting call knows only the socket timeout it set and the  *)
(* DeadlineState it read.  DeadlineInv adds what ties the three together:  *)
(* the shared state is the one select_deadline gives for the total, the    *)
(* action's and the idle deadline (Configured), the socket timeout lies    *)
(* within it and within one poll (Armed), and a failure carries the cause  *)
(* of the shared state at a time when it had passed (Ended).               *)
(***************************************************************************)
EXTENDS DeadlineStream, TLAPS

\* The shared DeadlineState matches what the executor is doing.
Configured ==
    /\ Connecting => /\ dl = Fixed(ConnectDeadline, "connect-timeout")
                     /\ phase.deadline = ConnectDeadline
                     /\ begun = [at |-> 0, timeout |-> ConnectTimeout]
    /\ phase.cause \in PhaseCauses /\ pc # "configure" =>
          /\ dl.idle /\ dl.total = TotalDeadline /\ dl.phase = phase.deadline
          /\ dl.phase_cause = phase.cause
          /\ dl.active = SelectDeadline(TotalDeadline, phase.deadline,
                                        idleFrom + IdleTimeout, phase.cause).at
          /\ dl.cause = SelectDeadline(TotalDeadline, phase.deadline,
                                       idleFrom + IdleTimeout, phase.cause).cause
    /\ phase.cause = "upgraded" => pc = "run"
    /\ pc = "configure" => phase.cause \in PhaseCauses
    /\ phase.deadline <= begun.at + begun.timeout
    /\ phase.deadline <= TotalDeadline

\* The timeout a waiting call has set.
Armed ==
    /\ Waiting => now <= expiry /\ expiry <= dl.active
    /\ Waiting /\ Cancellable => expiry <= now + CancelPoll
    /\ Waiting /\ cancelled => expiry <= cancelledAt + CancelPoll
    /\ cancelled => Cancellable

\* What a failed call leaves behind.
Ended ==
    /\ pc # "done" => outcome = "none"
    /\ outcome \in TimeoutCauses => outcome = dl.cause /\ now >= dl.active
    /\ outcome = "cancelled" => cancelled

DeadlineInv == TypeOK /\ Configured /\ Armed /\ Ended

-----------------------------------------------------------------------------
\* select_deadline returns the earliest of the three deadlines.
LEMMA SelectedIsEarliest ==
  ASSUME NEW t \in Nat, NEW p \in Nat, NEW i \in Nat, NEW c \in TimeoutCauses
  PROVE  /\ SelectDeadline(t, p, i, c).at \in Nat
         /\ SelectDeadline(t, p, i, c).cause \in TimeoutCauses
         /\ SelectDeadline(t, p, i, c).at <= t
         /\ SelectDeadline(t, p, i, c).at <= p
         /\ SelectDeadline(t, p, i, c).at <= i
BY DEF SelectDeadline, TimeoutCauses

\* The state note_activity and configure_session_deadline compute.
LEMMA RestartedState ==
  ASSUME NEW t \in Nat, NEW p \in Nat, NEW c \in TimeoutCauses, now \in Nat
  PROVE  /\ Restarted(t, p, c) \in
               [active : Nat, total : Nat, phase : Nat, idle : BOOLEAN,
                phase_cause : TimeoutCauses, cause : TimeoutCauses]
         /\ Restarted(t, p, c).active
               = SelectDeadline(t, p, now + IdleTimeout, c).at
         /\ Restarted(t, p, c).cause
               = SelectDeadline(t, p, now + IdleTimeout, c).cause
         /\ Restarted(t, p, c).total = t /\ Restarted(t, p, c).phase = p
         /\ Restarted(t, p, c).phase_cause = c /\ Restarted(t, p, c).idle
<1> now + IdleTimeout \in Nat
  BY DeadlineAssumption
<1> QED
  BY SelectedIsEarliest DEF Restarted

\* The total and the connect deadline are instants.
LEMMA FixedDeadlines ==
  /\ TotalDeadline \in Nat /\ ConnectDeadline \in Nat
  /\ ConnectDeadline <= TotalDeadline /\ ConnectDeadline <= ConnectTimeout
  /\ CancelPoll \in Nat /\ CancelPoll >= 1 /\ IdleTimeout \in Nat
BY DeadlineAssumption DEF TotalDeadline, ConnectDeadline, Earlier

\* The invariant holds when the stream has just connected.
LEMMA InitEstablishes == Init => DeadlineInv
<1> SUFFICES ASSUME Init PROVE DeadlineInv
  OBVIOUS
<1>1. TypeOK
  BY FixedDeadlines, DeadlineAssumption
  DEF Init, TypeOK, Fixed, TimeoutCauses, PhaseCauses
<1>2. Configured
  BY FixedDeadlines, DeadlineAssumption
  DEF Init, Configured, Connecting, PhaseCauses
<1>3. Armed /\ Ended
  BY DEF Init, Armed, Ended, Waiting, TimeoutCauses, PhaseCauses
<1> QED
  BY <1>1, <1>2, <1>3 DEF DeadlineInv

\* The executor's steps between calls.
LEMMA ExecutorPreserves ==
  ASSUME DeadlineInv,
         Upgraded \/ NextAction \/ Configure \/ NextMessage \/ Call
  PROVE  DeadlineInv'
<1> USE FixedDeadlines DEF DeadlineInv
<1>1. CASE Upgraded
  <2>1. TypeOK'
    BY <1>1 DEF Upgraded, TypeOK, Fixed, TimeoutCauses, PhaseCauses
  <2>2. Configured'
    BY <1>1 DEF Upgraded, TypeOK, Configured, Connecting, PhaseCauses
  <2>3. Armed' /\ Ended'
    BY <1>1 DEF Upgraded, Armed, Ended, Waiting, TimeoutCauses, PhaseCauses
  <2> QED BY <2>1, <2>2, <2>3
<1>2. CASE NextAction
  <2>1. PICK c \in PhaseCauses : \E t \in PhaseTimeouts[c] :
           /\ phase' = [cause |-> c, deadline |-> Earlier(now + t, TotalDeadline)]
           /\ begun' = [at |-> now, timeout |-> t]
    BY <1>2 DEF NextAction
  <2>2. PICK t \in PhaseTimeouts[c] :
           /\ phase' = [cause |-> c, deadline |-> Earlier(now + t, TotalDeadline)]
           /\ begun' = [at |-> now, timeout |-> t]
    BY <2>1
  <2>3. t \in Nat
    BY DeadlineAssumption
  <2>4. /\ Earlier(now + t, TotalDeadline) \in Nat
        /\ Earlier(now + t, TotalDeadline) <= now + t
        /\ Earlier(now + t, TotalDeadline) <= TotalDeadline
    BY <2>3 DEF Earlier, TypeOK
  <2>5. TypeOK'
    BY <1>2, <2>2, <2>3, <2>4 DEF NextAction, TypeOK
  <2>6. Configured'
    BY <1>2, <2>2, <2>3, <2>4
    DEF NextAction, TypeOK, Configured, Connecting, PhaseCauses
  <2>7. Armed' /\ Ended'
    BY <1>2 DEF NextAction, Armed, Ended, Waiting, TimeoutCauses, PhaseCauses
  <2> QED BY <2>5, <2>6, <2>7
<1>3. CASE Configure
  <2>1. phase.cause \in TimeoutCauses /\ phase.cause \in PhaseCauses
    BY <1>3 DEF Configure, Configured, TimeoutCauses
  <2>2. phase.deadline \in Nat /\ now \in Nat
    BY DEF TypeOK
  <2>3. TypeOK'
    BY <1>3, <2>1, <2>2, RestartedState DEF Configure, TypeOK
  <2>4. Configured'
    BY <1>3, <2>1, <2>2, RestartedState
    DEF Configure, Configured, Connecting, PhaseCauses
  <2>5. Armed' /\ Ended'
    BY <1>3 DEF Configure, Armed, Ended, Waiting, TimeoutCauses, PhaseCauses
  <2> QED BY <2>3, <2>4, <2>5
<1>4. CASE NextMessage
  BY <1>4 DEF NextMessage, TypeOK, Configured, Connecting, Armed, Ended,
              Waiting, TimeoutCauses, PhaseCauses, historyVars
<1>5. CASE Call
  BY <1>5 DEF Call, TypeOK, Configured, Connecting, Armed, Ended, Waiting,
              TimeoutCauses, PhaseCauses, historyVars
<1> QED
  BY <1>1, <1>2, <1>3, <1>4, <1>5

\* A call that fails leaves the cause of a deadline that has passed, or a
\* cancellation behind.
LEMMA FailsPreserves ==
  ASSUME DeadlineInv, NEW c, Fails(c), pc \in {"enter", "blocked", "await", "pause"},
         \/ c = "cancelled" /\ cancelled
         \/ c = dl.cause /\ now >= dl.active
         \/ c = "io-failure",
         UNCHANGED <<now, dl, phase, expiry, cancelled, historyVars>>
  PROVE  DeadlineInv'
<1> USE DEF DeadlineInv
<1>1. TypeOK'
  BY DEF Fails, TypeOK, historyVars
<1>2. Configured'
  BY DEF Fails, TypeOK, Configured, Connecting, historyVars, PhaseCauses
<1>3. Armed' /\ Ended'
  BY DEF Fails, TypeOK, Armed, Ended, Waiting, historyVars, TimeoutCauses,
         PhaseCauses
<1> QED BY <1>1, <1>2, <1>3

\* A call that goes on to another place of its loop, with a timeout set if it
\* waits there.
LEMMA GoesOnPreserves ==
  ASSUME DeadlineInv, pc \in {"enter", "blocked", "await", "pause"},
         pc' \in {"enter", "blocked", "await", "pause"}, expiry' \in Nat,
         Waiting' => /\ ~cancelled /\ now <= expiry' /\ expiry' <= dl.active
                     /\ Cancellable => expiry' <= now + CancelPoll,
         UNCHANGED <<now, dl, phase, cancelled, outcome, historyVars>>
  PROVE  DeadlineInv'
<1> USE DEF DeadlineInv
<1>1. TypeOK'
  BY DEF TypeOK, historyVars
<1>2. Configured'
  BY DEF Configured, Connecting, historyVars, PhaseCauses
<1>3. Armed'
  BY DEF Armed, Waiting, historyVars
<1>4. Ended'
  BY DEF Ended, historyVars, TimeoutCauses, PhaseCauses
<1> QED BY <1>1, <1>2, <1>3, <1>4

\* The loop of read, write and flush.
LEMMA LoopPreserves ==
  ASSUME DeadlineInv, Enter \/ AwaitDeadline \/ Resume \/ Interrupt
  PROVE  DeadlineInv'
<1> DEFINE A(e) == \/ cancelled /\ Fails("cancelled") /\ UNCHANGED expiry
                   \/ ~cancelled /\ now >= dl.active /\ Fails(dl.cause)
                      /\ UNCHANGED expiry
                   \/ ~cancelled /\ ~(now >= dl.active) /\ e /\ UNCHANGED outcome
<1>1. CASE Enter
  <2>1. A(pc' = "blocked" /\ expiry' = now + Remaining)
    BY <1>1 DEF Enter, Expired
  <2>2. CASE \/ cancelled /\ Fails("cancelled") /\ UNCHANGED expiry
             \/ now >= dl.active /\ Fails(dl.cause) /\ UNCHANGED expiry
    BY <1>1, <2>2, FailsPreserves DEF Enter
  <2>3. CASE /\ ~cancelled /\ ~(now >= dl.active) /\ UNCHANGED outcome
             /\ pc' = "blocked" /\ expiry' = now + Remaining
    <3>1. /\ Remaining \in Nat /\ now + Remaining <= dl.active
          /\ Cancellable => Remaining <= CancelPoll
      BY <2>3, FixedDeadlines DEF Remaining, Earlier, DeadlineInv, TypeOK
    <3>2. now \in Nat /\ dl.active \in Nat /\ CancelPoll \in Nat
      BY FixedDeadlines DEF DeadlineInv, TypeOK
    <3>3. /\ expiry' \in Nat /\ now <= expiry' /\ expiry' <= dl.active
          /\ Cancellable => expiry' <= now + CancelPoll
      BY <2>3, <3>1, <3>2
    <3> QED BY <1>1, <2>3, <3>3, GoesOnPreserves DEF Enter
  <2> QED BY <2>1, <2>2, <2>3
<1>2. CASE AwaitDeadline
  <2>1. A(pc' = "pause" /\ expiry' = now + 1)
    BY <1>2 DEF AwaitDeadline, Expired
  <2>2. CASE \/ cancelled /\ Fails("cancelled") /\ UNCHANGED expiry
             \/ now >= dl.active /\ Fails(dl.cause) /\ UNCHANGED expiry
    BY <1>2, <2>2, FailsPreserves DEF AwaitDeadline
  <2>3. CASE /\ ~cancelled /\ ~(now >= dl.active) /\ UNCHANGED outcome
             /\ pc' = "pause" /\ expiry' = now + 1
    <3>1. /\ expiry' \in Nat /\ now <= expiry' /\ expiry' <= dl.active
          /\ expiry' <= now + CancelPoll
      BY <2>3, FixedDeadlines DEF DeadlineInv, TypeOK
    <3> QED BY <1>2, <2>3, <3>1, GoesOnPreserves DEF AwaitDeadline
  <2> QED BY <2>1, <2>2, <2>3
<1>3. CASE Resume \/ Interrupt
  <2>1. A(pc' = "enter" /\ UNCHANGED expiry)
    BY <1>3 DEF Resume, Interrupt, Expired
  <2>2. CASE \/ cancelled /\ Fails("cancelled") /\ UNCHANGED expiry
             \/ now >= dl.active /\ Fails(dl.cause) /\ UNCHANGED expiry
    BY <1>3, <2>2, FailsPreserves DEF Resume, Interrupt
  <2>3. CASE /\ ~cancelled /\ ~(now >= dl.active) /\ UNCHANGED outcome
             /\ pc' = "enter" /\ UNCHANGED expiry
    <3>1. expiry' \in Nat /\ ~Waiting'
      BY <2>3 DEF DeadlineInv, TypeOK, Waiting
    <3> QED BY <1>3, <2>3, <3>1, GoesOnPreserves DEF Resume, Interrupt
  <2> QED BY <2>1, <2>2, <2>3
<1> QED
  BY <1>1, <1>2, <1>3

\* What ends a blocked system call, the flag and the clock.
LEMMA EnvironmentPreserves ==
  ASSUME DeadlineInv,
         Transfer \/ Flushed \/ PeerFails \/ Wake \/ Cancel \/ Tick
  PROVE  DeadlineInv'
<1> USE FixedDeadlines
<1>1. CASE Transfer
  <2>1. CASE Connecting
    <3>1. dl' = dl /\ idleFrom' = idleFrom /\ pc' = "run"
      BY <1>1, <2>1
      DEF Transfer, NoteActivity, DeadlineInv, Configured, Fixed
    <3> QED
      BY <1>1, <2>1, <3>1
      DEF Transfer, DeadlineInv, TypeOK, Configured, Connecting, Armed, Ended,
          Waiting, TimeoutCauses, PhaseCauses
  <2>2. CASE ~Connecting
    <3>1. phase.cause \in PhaseCauses /\ pc # "configure"
      BY <1>1, <2>2
      DEF Transfer, DeadlineInv, TypeOK, Configured, Connecting
    <3>2. /\ dl' = Restarted(TotalDeadline, phase.deadline, phase.cause)
          /\ idleFrom' = now
      BY <1>1, <3>1 DEF Transfer, NoteActivity, DeadlineInv, Configured
    <3>3. phase.cause \in TimeoutCauses /\ phase.deadline \in Nat /\ now \in Nat
      BY <3>1 DEF DeadlineInv, TypeOK, TimeoutCauses
    <3>4. TypeOK'
      BY <1>1, <3>2, <3>3, RestartedState DEF Transfer, DeadlineInv, TypeOK
    <3>5. Configured'
      BY <1>1, <3>1, <3>2, <3>3, RestartedState
      DEF Transfer, DeadlineInv, Configured, Connecting, PhaseCauses
    <3>6. Armed' /\ Ended'
      BY <1>1
      DEF Transfer, DeadlineInv, Armed, Ended, Waiting, TimeoutCauses,
          PhaseCauses
    <3> QED BY <3>4, <3>5, <3>6 DEF DeadlineInv
  <2> QED BY <2>1, <2>2
<1>6. CASE Flushed
  <2>1. TypeOK'
    BY <1>6 DEF Flushed, DeadlineInv, TypeOK, historyVars
  <2>2. Configured'
    BY <1>6 DEF Flushed, DeadlineInv, Configured, Connecting, PhaseCauses,
                historyVars
  <2>3. Armed' /\ Ended'
    BY <1>6 DEF Flushed, DeadlineInv, Armed, Ended, Waiting, TimeoutCauses,
                PhaseCauses, historyVars
  <2> QED BY <2>1, <2>2, <2>3 DEF DeadlineInv
<1>2. CASE PeerFails
  BY <1>2, FailsPreserves DEF PeerFails
<1>3. CASE Wake
  <2>1. expiry' \in Nat /\ ~Waiting'
    BY <1>3 DEF Wake, DeadlineInv, TypeOK, Waiting
  <2> QED BY <1>3, <2>1, GoesOnPreserves DEF Wake
<1>4. CASE Cancel
  <2>1. TypeOK'
    BY <1>4 DEF Cancel, DeadlineInv, TypeOK
  <2>2. Configured'
    BY <1>4 DEF Cancel, DeadlineInv, Configured, Connecting, PhaseCauses
  <2>3. Armed' /\ Ended'
    BY <1>4 DEF Cancel, DeadlineInv, Armed, Ended, Waiting, TimeoutCauses,
                PhaseCauses
  <2> QED BY <2>1, <2>2, <2>3 DEF DeadlineInv
<1>5. CASE Tick
  <2>1. TypeOK'
    BY <1>5 DEF Tick, DeadlineInv, TypeOK, historyVars
  <2>2. Configured'
    BY <1>5
    DEF Tick, DeadlineInv, Configured, Connecting, PhaseCauses, historyVars
  <2>3. Armed'
    BY <1>5 DEF Tick, DeadlineInv, TypeOK, Armed, Waiting, historyVars
  <2>4. Ended'
    BY <1>5
    DEF Tick, DeadlineInv, Ended, TimeoutCauses, PhaseCauses, historyVars
  <2> QED BY <2>1, <2>2, <2>3, <2>4 DEF DeadlineInv
<1> QED
  BY <1>1, <1>2, <1>3, <1>4, <1>5, <1>6

\* The inductive invariant: the shared DeadlineState is always the one the
\* three deadlines select, and a waiting call's timeout lies within it.
THEOREM DeadlineInvariant == Spec => []DeadlineInv
<1>1. DeadlineInv /\ [Next]_vars => DeadlineInv'
  <2> SUFFICES ASSUME DeadlineInv, [Next]_vars PROVE DeadlineInv'
    OBVIOUS
  <2>1. CASE Done \/ UNCHANGED vars
    BY <2>1
    DEF Done, vars, DeadlineInv, TypeOK, Configured, Connecting, Armed, Ended,
        Waiting
  <2> QED
    BY <2>1, ExecutorPreserves, LoopPreserves, EnvironmentPreserves DEF Next
<1> QED
  BY <1>1, InitEstablishes, PTL DEF Spec

\* No read, write or flush waits past the total, the action's or the idle
\* deadline, whatever the peer sends and whenever.
THEOREM WaitingIsBounded == Spec => []WaitsInTime
<1>1. DeadlineInv => WaitsInTime
  <2> SUFFICES ASSUME DeadlineInv, Waiting PROVE
        /\ now <= TotalDeadline
        /\ now <= begun.at + begun.timeout
        /\ ~Connecting => now <= idleFrom + IdleTimeout
    BY DEF WaitsInTime
  <2>1. now \in Nat /\ expiry \in Nat /\ dl.active \in Nat /\ now <= dl.active
    BY DEF DeadlineInv, TypeOK, Armed
  <2>2. CASE Connecting
    BY <2>1, <2>2, FixedDeadlines, DeadlineAssumption
    DEF DeadlineInv, Configured, Fixed
  <2>3. CASE ~Connecting
    <3>1. phase.cause \in PhaseCauses /\ pc # "configure"
      BY <2>3 DEF Waiting, DeadlineInv, TypeOK, Configured, Connecting
    <3>2. /\ phase.cause \in TimeoutCauses /\ phase.deadline \in Nat
          /\ idleFrom + IdleTimeout \in Nat /\ idleFrom \in Nat
          /\ begun.at \in Nat /\ begun.timeout \in Nat
      BY <3>1, FixedDeadlines DEF DeadlineInv, TypeOK, TimeoutCauses
    <3>3. /\ dl.active <= TotalDeadline /\ dl.active <= phase.deadline
          /\ dl.active <= idleFrom + IdleTimeout
      BY <3>1, <3>2, FixedDeadlines, SelectedIsEarliest
      DEF DeadlineInv, Configured
    <3>4. phase.deadline <= begun.at + begun.timeout
      BY DEF DeadlineInv, Configured
    <3> QED BY <2>1, <3>2, <3>3, <3>4, FixedDeadlines
  <2> QED BY <2>2, <2>3
<1> QED
  BY <1>1, DeadlineInvariant, PTL

\* In every ended session, the reported deadline is the active one.
LEMMA ReportedIsActive ==
  ASSUME DeadlineInv, outcome \in TimeoutCauses
  PROVE  /\ DeadlineOf(outcome) = dl.active /\ now >= dl.active
         /\ outcome # "connect-timeout" =>
               \A c \in {"total-timeout", "idle-timeout", phase.cause} :
                  DeadlineOf(outcome) <= DeadlineOf(c)
<1>1. outcome = dl.cause /\ now >= dl.active
  BY DEF DeadlineInv, Ended
<1>2. CASE Connecting
  BY <1>1, <1>2 DEF DeadlineInv, Configured, Connecting, Fixed, DeadlineOf
<1>3. CASE ~Connecting
  <2>1. pc = "done"
    BY DEF DeadlineInv, Ended, TimeoutCauses, PhaseCauses
  <2>2. phase.cause \in PhaseCauses /\ pc # "configure"
    BY <1>3, <2>1 DEF DeadlineInv, TypeOK, Configured, Connecting
  <2>3. /\ phase.cause \in TimeoutCauses /\ phase.deadline \in Nat
        /\ idleFrom + IdleTimeout \in Nat
    BY <2>2, FixedDeadlines DEF DeadlineInv, TypeOK, TimeoutCauses
  <2> DEFINE s == SelectDeadline(TotalDeadline, phase.deadline,
                                 idleFrom + IdleTimeout, phase.cause)
  <2>4. dl.active = s.at /\ dl.cause = s.cause
    BY <2>2 DEF DeadlineInv, Configured
  <2>5. s.at = DeadlineOf(s.cause)
    BY <2>2 DEF SelectDeadline, DeadlineOf, PhaseCauses
  <2>6. \A c \in {"total-timeout", "idle-timeout", phase.cause} :
           s.at <= DeadlineOf(c)
    BY <2>2, <2>3, FixedDeadlines, SelectedIsEarliest
    DEF DeadlineOf, PhaseCauses
  <2> QED BY <1>1, <2>4, <2>5, <2>6
<1> QED BY <1>2, <1>3

\* A timeout is reported only once its deadline has passed, a cancellation only
\* when there was one.
THEOREM EndsAreGenuine == Spec => []EndIsGenuine
<1>1. DeadlineInv => EndIsGenuine
  BY ReportedIsActive DEF EndIsGenuine, DeadlineInv, Ended
<1> QED
  BY <1>1, DeadlineInvariant, PTL

\* The reported timeout is the earliest of those that applied.
THEOREM EarliestIsReported == Spec => []EarliestWins
<1>1. DeadlineInv => EarliestWins
  BY ReportedIsActive DEF EarliestWins
<1> QED
  BY <1>1, DeadlineInvariant, PTL

\* A cancelled session stops waiting within one poll.
THEOREM CancellationIsPrompt == Spec => []CancelledPromptly
<1>1. DeadlineInv => CancelledPromptly
  BY FixedDeadlines DEF CancelledPromptly, DeadlineInv, TypeOK, Armed
<1> QED
  BY <1>1, DeadlineInvariant, PTL
=============================================================================
