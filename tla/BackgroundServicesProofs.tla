---------------------- MODULE BackgroundServicesProofs ----------------------
(***************************************************************************)
(* Proofs about BackgroundServices, for any sessions, handlers and delays. *)
(***************************************************************************)
EXTENDS BackgroundServices, FiniteSetTheorems, TLAPS

(***************************************************************************)
(* Type correctness.                                                       *)
(***************************************************************************)

LEMMA TypeInit == Init => TypeOK
<1> SUFFICES ASSUME Init PROVE TypeOK
    OBVIOUS
<1>1. timer \in [stage : {"off", "first", "second"}, left : Nat]
  BY DEF Init, NoTimer
<1>2. unsettled \in [Cause -> SUBSET Handler]
  BY DEF Init
<1> QED BY <1>1, <1>2 DEF Init, TypeOK

LEMMA TypeStep == TypeOK /\ [Next]_vars => TypeOK'
<1> SUFFICES ASSUME TypeOK, [Next]_vars PROVE TypeOK'
    OBVIOUS
<1> USE ConstantAssumption DEF TypeOK
<1>1. ASSUME NEW s \in Session, SessionStarts(s) PROVE TypeOK'
  BY <1>1 DEF SessionStarts, NoTimer
<1>2. ASSUME NEW s \in Session, SessionStops(s) PROVE TypeOK'
  BY <1>2 DEF SessionStops, MaybeScheduleShutdown, CountDown
<1>3. ASSUME NEW k \in Cause, RequestShutdown(k) PROVE TypeOK'
  BY <1>3 DEF RequestShutdown, CallShutdown
<1>4. ASSUME NEW k \in Cause, Exit(k) PROVE TypeOK'
  BY <1>4 DEF Exit
<1>5. ASSUME NEW k \in Cause, NEW h \in Handler, HandlerSettles(k, h) PROVE TypeOK'
  BY <1>5 DEF HandlerSettles
<1>6. ASSUME NEW h \in Handler, Register(h) PROVE TypeOK'
  BY <1>6 DEF Register
<1>7. CASE Minute
  <2>1. timer' \in [stage : {"off", "first", "second"}, left : Nat]
    <3>1. CASE timer.stage = "off"
      BY <1>7, <3>1 DEF Minute
    <3>2. CASE timer.stage # "off"
      <4>1. timer.left \in Nat /\ timer.left > 0
        BY <1>7, <3>2 DEF Minute
      <4>2. timer' = [timer EXCEPT !.left = timer.left - 1]
        BY <1>7, <3>2 DEF Minute
      <4> QED BY <4>1, <4>2
    <3> QED BY <3>1, <3>2
  <2> QED BY <1>7, <2>1 DEF Minute
<1>8. CASE FirstTimer
  BY <1>8 DEF FirstTimer, NoTimer
<1>9. CASE SecondTimer
  <2>1. timer' \in [stage : {"off", "first", "second"}, left : Nat]
    BY <1>9 DEF SecondTimer, NoTimer
  <2>2. shutdownCalls' \subseteq Cause /\ unsettled' \in [Cause -> SUBSET Handler]
    BY <1>9 DEF SecondTimer, CallShutdown, Cause
  <2> QED BY <1>9, <2>1, <2>2 DEF SecondTimer
<1>10. CASE UNCHANGED vars
  BY <1>10 DEF vars
<1> QED BY <1>1, <1>2, <1>3, <1>4, <1>5, <1>6, <1>7, <1>8, <1>9, <1>10 DEF Next

\* The variables keep to their types.
THEOREM TypeCorrect == Spec => []TypeOK
<1>1. Init => TypeOK
  BY TypeInit
<1>2. TypeOK /\ [Next]_vars => TypeOK'
  BY TypeStep
<1> QED BY <1>1, <1>2, PTL DEF Spec

(***************************************************************************)
(* The count.                                                              *)
(***************************************************************************)

LEMMA RunningIsFinite ==
    /\ IsFiniteSet(Running)
    /\ Cardinality(Running) \in Nat
    /\ Cardinality(Running) = 0 <=> Running = {}
<1>1. Running \subseteq Session
  BY DEF Running
<1>2. IsFiniteSet(Running)
  BY <1>1, ConstantAssumption, FS_Subset
<1> QED BY <1>2, FS_CardinalityType, FS_EmptySet

\* A session that starts is one more that runs, and its start is counted once.
LEMMA CountStart ==
    ASSUME TypeOK, CountIsExact, NEW s \in Session, SessionStarts(s)
    PROVE  CountIsExact' /\ s \in Running'
<1>1. Running' = Running \cup {s} /\ s \notin Running
  BY DEF SessionStarts, Running, TypeOK
<1>2. Cardinality(Running \cup {s}) = Cardinality(Running) + 1
  BY <1>1, RunningIsFinite, FS_AddElement
<1> QED BY <1>1, <1>2 DEF CountIsExact, SessionStarts

\* A session that stops was counted, so the clamp at zero never matters.
LEMMA CountStop ==
    ASSUME TypeOK, CountIsExact, NEW s \in Session, SessionStops(s)
    PROVE  CountIsExact' /\ Running # {} /\ s \in Session /\ session'[s] = "stopped"
<1>1. Running' = Running \ {s} /\ s \in Running
  BY DEF SessionStops, Running, TypeOK
<1>2. Cardinality(Running \ {s}) = Cardinality(Running) - 1
  BY <1>1, RunningIsFinite, FS_RemoveElement
<1>3. Cardinality(Running) \in Nat /\ Cardinality(Running) # 0
  BY <1>1, RunningIsFinite
<1>4. activeSessions' = Cardinality(Running) - 1
  BY <1>3 DEF CountIsExact, SessionStops, CountDown
<1> QED BY <1>1, <1>2, <1>4 DEF CountIsExact, SessionStops, TypeOK

(***************************************************************************)
(* The timers.                                                             *)
(***************************************************************************)

\* What the invariant says besides the types depends on these variables only.
LEMMA Frame ==
    ASSUME IInv, UNCHANGED <<session, activeSessions, timer, idle>>,
           shutdownCalls \subseteq shutdownCalls'
    PROVE  Timing'
<1>1. Running' = Running
  BY DEF Running
<1> QED BY <1>1 DEF IInv, Timing, CountIsExact, TimerIsIdle, LastStopIsTimed, IdleIsBounded

LEMMA IInvInit == Init => IInv
<1> SUFFICES ASSUME Init PROVE IInv
    OBVIOUS
<1>1. TypeOK
  BY TypeInit
<1>2. Running = {}
  BY DEF Init, Running
<1>3. ~ \E s \in Session : session[s] = "stopped"
  BY DEF Init
<1>4. Cardinality(Running) = 0
  BY <1>2, RunningIsFinite
<1> QED
  BY <1>1, <1>2, <1>3, <1>4
  DEF Init, IInv, Timing, CountIsExact, TimerIsIdle, LastStopIsTimed, IdleIsBounded, NoTimer

LEMMA StartStep ==
    ASSUME IInv, NEW s \in Session, SessionStarts(s)
    PROVE  Timing'
<1>1. CountIsExact' /\ s \in Running'
  BY CountStart DEF IInv, Timing
<1>2. timer' = NoTimer /\ idle' = 0
  BY DEF SessionStarts
<1> QED BY <1>1, <1>2 DEF Timing, TimerIsIdle, LastStopIsTimed, IdleIsBounded, NoTimer

LEMMA StopStep ==
    ASSUME IInv, NEW s \in Session, SessionStops(s)
    PROVE  Timing'
<1>1. CountIsExact' /\ Running # {}
  BY CountStop DEF IInv, Timing
<1>2. timer = NoTimer /\ idle = 0 /\ idle' = 0
  BY <1>1 DEF IInv, Timing, TimerIsIdle, SessionStops
<1>3. activeSessions' = 0 <=> Running' = {}
  <2>1. session' \in [Session -> {"new", "running", "stopped"}]
    BY TypeStep DEF IInv, Next, TypeOK
  <2>2. Running' \subseteq Session
    BY DEF Running
  <2>3. IsFiniteSet(Running')
    BY <2>2, ConstantAssumption, FS_Subset
  <2>4. Cardinality(Running') = 0 <=> Running' = {}
    BY <2>3, FS_EmptySet
  <2> QED BY <1>1, <2>4 DEF CountIsExact
<1>4. timer' = IF activeSessions' = 0 /\ AutoShutdown
               THEN [stage |-> "first", left |-> FirstDelay] ELSE NoTimer
  BY <1>2 DEF SessionStops, MaybeScheduleShutdown
<1>5. TimerIsIdle'
  BY <1>2, <1>3, <1>4, ConstantAssumption DEF TimerIsIdle, NoTimer
<1>6. LastStopIsTimed'
  BY <1>3, <1>4 DEF LastStopIsTimed
<1>7. IdleIsBounded'
  BY <1>2, ConstantAssumption DEF IdleIsBounded, Limit
<1> QED BY <1>1, <1>5, <1>6, <1>7 DEF Timing

\* A minute passes on both sides of the balance, and only when time is left.
LEMMA MinuteStep ==
    ASSUME IInv, Minute
    PROVE  Timing'
<1>1. Running' = Running /\ session' = session /\ shutdownCalls = {}
  BY DEF Running, Minute
<1>2. CountIsExact'
  BY <1>1 DEF IInv, Timing, CountIsExact, Minute
<1>3. timer \in [stage : {"off", "first", "second"}, left : Nat] /\ idle \in Nat
  BY DEF IInv, TypeOK
<1>4. CASE Running # {}
  <2>1. timer = NoTimer /\ timer' = NoTimer /\ idle' = 0
    BY <1>4 DEF IInv, Timing, TimerIsIdle, NoTimer, Minute
  <2> QED BY <1>1, <1>2, <1>4, <2>1
      DEF Timing, TimerIsIdle, LastStopIsTimed, IdleIsBounded, NoTimer
<1>5. CASE Running = {} /\ timer.stage = "off"
  <2>1. timer' = timer /\ idle' = idle + 1
    BY <1>5 DEF Minute
  <2>2. ~(AutoShutdown /\ \E s \in Session : session[s] = "stopped")
    BY <1>1, <1>5 DEF IInv, Timing, LastStopIsTimed
  <2> QED BY <1>1, <1>2, <1>5, <2>1, <2>2
      DEF Timing, TimerIsIdle, LastStopIsTimed, IdleIsBounded
<1>6. CASE Running = {} /\ timer.stage # "off"
  <2>1. timer.left > 0 /\ idle' = idle + 1
    BY <1>6 DEF Minute
  <2>2. timer'.stage = timer.stage /\ timer'.left = timer.left - 1
    BY <1>3, <1>6 DEF Minute
  <2>3. TimerIsIdle'
    BY <1>1, <1>3, <1>6, <2>1, <2>2, ConstantAssumption DEF IInv, Timing, TimerIsIdle, Limit
  <2>4. idle' <= Limit
    <3>1. timer.stage = "first" \/ timer.stage = "second"
      BY <1>3, <1>6
    <3>2. timer.stage = "first" => idle + timer.left = FirstDelay
      BY DEF IInv, Timing, TimerIsIdle
    <3>3. timer.stage = "second" => idle + timer.left = Limit
      BY DEF IInv, Timing, TimerIsIdle
    <3> QED BY <1>3, <2>1, <3>1, <3>2, <3>3, ConstantAssumption DEF Limit
  <2> QED BY <1>1, <1>2, <1>6, <2>2, <2>3, <2>4
      DEF Timing, LastStopIsTimed, IdleIsBounded
<1> QED BY <1>4, <1>5, <1>6

LEMMA TimerStep ==
    ASSUME IInv, FirstTimer \/ SecondTimer
    PROVE  Timing'
<1>1. Running' = Running /\ UNCHANGED <<session, activeSessions, idle>>
  BY DEF Running, FirstTimer, SecondTimer
<1>2. CountIsExact' /\ IdleIsBounded'
  BY <1>1 DEF IInv, Timing, CountIsExact, IdleIsBounded
<1>3. Running = {} /\ activeSessions = 0
  <2>1. Running = {}
    BY DEF IInv, Timing, TimerIsIdle, FirstTimer, SecondTimer, Due, NoTimer
  <2> QED BY <2>1, RunningIsFinite DEF IInv, Timing, CountIsExact
<1>4. idle \in Nat
  BY DEF IInv, TypeOK
<1>5. CASE FirstTimer
  <2>1. idle = FirstDelay
    BY <1>4, <1>5, ConstantAssumption DEF FirstTimer, Due, IInv, Timing, TimerIsIdle
  <2>2. timer' = [stage |-> "second", left |-> SecondDelay]
    BY <1>3, <1>5 DEF FirstTimer
  <2> QED BY <1>1, <1>2, <1>3, <2>1, <2>2, ConstantAssumption
          DEF Timing, TimerIsIdle, LastStopIsTimed, Limit
<1>6. CASE SecondTimer
  <2>1. timer' = NoTimer /\ shutdownCalls' # {}
    BY <1>3, <1>6 DEF SecondTimer, CallShutdown
  <2> QED BY <1>1, <1>2, <1>3, <2>1 DEF Timing, TimerIsIdle, LastStopIsTimed, NoTimer
<1> QED BY <1>5, <1>6

LEMMA IInvStep == IInv /\ [Next]_vars => IInv'
<1> SUFFICES ASSUME IInv, [Next]_vars PROVE IInv'
    OBVIOUS
<1>1. TypeOK'
  BY TypeStep DEF IInv
<1>2. ASSUME NEW s \in Session, SessionStarts(s) PROVE Timing'
  BY <1>2, StartStep
<1>3. ASSUME NEW s \in Session, SessionStops(s) PROVE Timing'
  BY <1>3, StopStep
<1>4. ASSUME NEW k \in Cause, RequestShutdown(k) PROVE Timing'
  BY <1>4, Frame DEF RequestShutdown, CallShutdown
<1>5. ASSUME NEW k \in Cause, Exit(k) PROVE Timing'
  BY <1>5, Frame DEF Exit
<1>6. ASSUME NEW k \in Cause, NEW h \in Handler, HandlerSettles(k, h) PROVE Timing'
  BY <1>6, Frame DEF HandlerSettles
<1>7. ASSUME NEW h \in Handler, Register(h) PROVE Timing'
  BY <1>7, Frame DEF Register
<1>8. ASSUME Minute PROVE Timing'
  BY <1>8, MinuteStep
<1>9. ASSUME FirstTimer \/ SecondTimer PROVE Timing'
  BY <1>9, TimerStep
<1>10. ASSUME UNCHANGED vars PROVE Timing'
  BY <1>10, Frame DEF vars
<1>11. Timing'
  BY <1>2, <1>3, <1>4, <1>5, <1>6, <1>7, <1>8, <1>9, <1>10 DEF Next
<1> QED BY <1>1, <1>11 DEF IInv

\* The inductive invariant: the count is exact, and the timer measures the time
\* without a session.
THEOREM InvariantCorrect == Spec => []IInv
<1>1. Init => IInv
  BY IInvInit
<1>2. IInv /\ [Next]_vars => IInv'
  BY IInvStep
<1> QED BY <1>1, <1>2, PTL DEF Spec

\* Left without a session after its last one, the server is shut down by
\* maybeScheduleShutdown's timers within their two delays.
THEOREM IdleBounded == Spec => []IdleIsBounded
<1>1. IInv => IdleIsBounded
  BY DEF IInv, Timing
<1> QED BY <1>1, InvariantCorrect, PTL

\* The server shuts itself down only after a whole period without a session.
THEOREM IdleShutdownEarned == Spec => IdleShutdownIsEarned
<1>1. IInv /\ [Next]_vars
        => [shutdownCalls' # shutdownCalls /\ "idle" \in shutdownCalls' \ shutdownCalls
              => Running = {} /\ idle >= Limit]_vars
  <2> SUFFICES ASSUME IInv, Next, "idle" \in shutdownCalls' \ shutdownCalls
               PROVE  Running = {} /\ idle >= Limit
      OBVIOUS
  <2>1. SecondTimer
    BY DEF Next, SessionStarts, SessionStops, RequestShutdown, CallShutdown, Exit,
           HandlerSettles, Register, Minute, FirstTimer
  <2>2. timer.stage = "second" /\ timer.left = 0
    BY <2>1 DEF SecondTimer, Due
  <2>3. Running = {}
    BY <2>2 DEF IInv, Timing, TimerIsIdle, NoTimer
  <2>4. idle \in Nat /\ idle + 0 = Limit
    BY <2>2 DEF IInv, Timing, TypeOK, TimerIsIdle
  <2> QED BY <2>3, <2>4, ConstantAssumption DEF Limit
<1> QED BY <1>1, InvariantCorrect, PTL DEF Spec, IdleShutdownIsEarned

=============================================================================
