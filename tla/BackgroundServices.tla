------------------------- MODULE BackgroundServices -------------------------
(***************************************************************************)
(* manageBackgroundServices (index.ts) and shutdown.ts: the server counts  *)
(* the mock sessions its admin server runs, starts and stops background    *)
(* services with them, shuts itself down when it has been left without     *)
(* sessions for FirstDelay + SecondDelay minutes, and runs its shutdown    *)
(* handlers before the process exits.                                      *)
(***************************************************************************)
EXTENDS Naturals, FiniteSets

CONSTANTS
    Session,        \* mock sessions, each started at most once
    Supported,      \* the sessions with an HTTP mock server
    Handler,        \* functions given to addShutdownHandler
    AutoShutdown,   \* IS_PROD_BUILD, and not on a Mac
    FirstDelay,     \* minutes until the first timer, 1 in the code
    SecondDelay,    \* minutes from the first to the second timer, 9 in the code
    Horizon         \* bound on the minutes without a session that are explored

ASSUME ConstantAssumption ==
    /\ Supported \subseteq Session
    /\ IsFiniteSet(Session)
    /\ AutoShutdown \in BOOLEAN
    /\ FirstDelay \in Nat \ {0} /\ SecondDelay \in Nat \ {0}
    /\ Horizon \in Nat

\* What calls shutdown(): a signal, POST /shutdown, or the second timer.
Cause == {"signal", "api", "idle"}

Limit == FirstDelay + SecondDelay

VARIABLES
    session,        \* session[s]: "new", "running" or "stopped", in the admin server
    activeSessions, \* the count kept by the event handlers
    serving,        \* sessions whose Docker, web extension and export services are on
    timer,          \* shutdownTimer: stage of the pending timer, and minutes left
    shutdownCalls,  \* the causes for which shutdown() has been called
    unsettled,      \* unsettled[k]: handlers the call for k still waits for
    registered,     \* shutdownHandlers
    exited,         \* process.exit has been called
    idle            \* history: minutes since a session last ran

vars == <<session, activeSessions, serving, timer, shutdownCalls, unsettled, registered,
          exited, idle>>

NoTimer == [stage |-> "off", left |-> 0]
Running == {s \in Session : session[s] = "running"}

TypeOK ==
    /\ session \in [Session -> {"new", "running", "stopped"}]
    /\ activeSessions \in Nat
    /\ serving \subseteq Supported
    /\ timer \in [stage : {"off", "first", "second"}, left : Nat]
    /\ shutdownCalls \subseteq Cause
    /\ unsettled \in [Cause -> SUBSET Handler]
    /\ registered \subseteq Handler
    /\ exited \in BOOLEAN
    /\ idle \in Nat

Init ==
    /\ session = [s \in Session |-> "new"]
    /\ activeSessions = 0
    /\ serving = {}
    /\ timer = NoTimer
    /\ shutdownCalls = {}
    /\ unsettled = [k \in Cause |-> {}]
    /\ registered = {}
    /\ exited = FALSE
    /\ idle = 0

(***************************************************************************)
(* Sessions.                                                               *)
(***************************************************************************)
CountDown(n) == IF n = 0 THEN 0 ELSE n - 1

SessionStarts_Mut(s) ==     \* a session is counted once its services are set up
    /\ ~exited
    /\ session[s] = "new"
    /\ session' = [session EXCEPT ![s] = "running"]
    /\ activeSessions' = IF s \in Supported THEN activeSessions + 1 ELSE activeSessions
    /\ timer' = NoTimer
    /\ serving' = serving \cup ({s} \cap Supported)
    /\ idle' = 0
    /\ UNCHANGED <<shutdownCalls, unsettled, registered, exited>>

SessionStarts_Unsupported_Mut(s) ==     \* services for any session
    /\ ~exited
    /\ session[s] = "new"
    /\ session' = [session EXCEPT ![s] = "running"]
    /\ activeSessions' = activeSessions + 1
    /\ timer' = NoTimer
    /\ serving' = serving \cup {s}
    /\ idle' = 0
    /\ UNCHANGED <<shutdownCalls, unsettled, registered, exited>>

SessionStarts_Timer_Mut(s) ==           \* the timer is not cleared
    /\ ~exited
    /\ session[s] = "new"
    /\ session' = [session EXCEPT ![s] = "running"]
    /\ activeSessions' = activeSessions + 1
    /\ serving' = serving \cup ({s} \cap Supported)
    /\ idle' = 0
    /\ UNCHANGED <<timer, shutdownCalls, unsettled, registered, exited>>

\* 'mock-session-started'.
SessionStarts(s) ==
    /\ ~exited
    /\ session[s] = "new"
    /\ session' = [session EXCEPT ![s] = "running"]
    /\ activeSessions' = activeSessions + 1
    /\ timer' = NoTimer
    /\ serving' = serving \cup ({s} \cap Supported)
    /\ idle' = 0
    /\ UNCHANGED <<shutdownCalls, unsettled, registered, exited>>

\* maybeScheduleShutdown, once the session has been counted out.
MaybeScheduleShutdown ==
    timer' = IF activeSessions' = 0 /\ AutoShutdown
             THEN [stage |-> "first", left |-> FirstDelay] ELSE timer

SessionStops_Mut(s) ==      \* a session without services returns early
    /\ ~exited
    /\ session[s] = "running"
    /\ session' = [session EXCEPT ![s] = "stopped"]
    /\ activeSessions' = CountDown(activeSessions)
    /\ serving' = serving \ {s}
    /\ IF s \in Supported THEN MaybeScheduleShutdown ELSE UNCHANGED timer
    /\ UNCHANGED <<shutdownCalls, unsettled, registered, exited, idle>>

\* 'mock-session-stopping': asked by the UI, or the UI's socket stopped
\* responding, or the admin server stops.
SessionStops(s) ==
    /\ ~exited
    /\ session[s] = "running"
    /\ session' = [session EXCEPT ![s] = "stopped"]
    /\ activeSessions' = CountDown(activeSessions)
    /\ serving' = serving \ {s}
    /\ MaybeScheduleShutdown
    /\ UNCHANGED <<shutdownCalls, unsettled, registered, exited, idle>>

(***************************************************************************)
(* Shutdown.                                                               *)
(***************************************************************************)

\* shutdown(): every handler registered by now is started.  A call for each
\* cause; another call runs every handler again.
CallShutdown(k) ==
    /\ shutdownCalls' = shutdownCalls \cup {k}
    /\ unsettled' = [unsettled EXCEPT ![k] = registered]

RequestShutdown(k) ==
    /\ ~exited
    /\ k \in {"signal", "api"} \ shutdownCalls
    /\ CallShutdown(k)
    /\ UNCHANGED <<session, activeSessions, serving, timer, registered, exited, idle>>

\* addShutdownHandler, at any time while the server starts.
Register(h) ==
    /\ ~exited
    /\ h \notin registered
    /\ registered' = registered \cup {h}
    /\ UNCHANGED <<session, activeSessions, serving, timer, shutdownCalls, unsettled,
                   exited, idle>>

\* A handler's promise settles.  An error is logged, and counts as done.
HandlerSettles(k, h) ==
    /\ ~exited
    /\ h \in unsettled[k]
    /\ unsettled' = [unsettled EXCEPT ![k] = @ \ {h}]
    /\ UNCHANGED <<session, activeSessions, serving, timer, shutdownCalls, registered,
                   exited, idle>>

Exit_Mut(k) ==              \* the handlers are not raced with a delay
    /\ ~exited
    /\ k \in shutdownCalls
    /\ unsettled[k] = {}
    /\ exited' = TRUE
    /\ UNCHANGED <<session, activeSessions, serving, timer, shutdownCalls, unsettled,
                   registered, idle>>

\* The end of shutdown(): its handlers have settled, or 3 seconds have passed.
Exit(k) ==
    /\ ~exited
    /\ k \in shutdownCalls
    /\ exited' = TRUE
    /\ UNCHANGED <<session, activeSessions, serving, timer, shutdownCalls, unsettled,
                   registered, idle>>

(***************************************************************************)
(* Time.                                                                   *)
(***************************************************************************)

\* A minute passes.  A timer that is due fires first; a shutdown call does not
\* last a minute.
Minute ==
    /\ ~exited
    /\ shutdownCalls = {}
    /\ timer.stage # "off" => timer.left > 0
    /\ idle < Horizon
    /\ timer' = IF timer.stage = "off" THEN timer ELSE [timer EXCEPT !.left = @ - 1]
    /\ idle' = IF Running = {} THEN idle + 1 ELSE 0
    /\ UNCHANGED <<session, activeSessions, serving, shutdownCalls, unsettled, registered,
                   exited>>

Due(stage) == ~exited /\ timer.stage = stage /\ timer.left = 0

FirstTimer ==
    /\ Due("first")
    /\ timer' = IF activeSessions # 0 THEN NoTimer
                ELSE [stage |-> "second", left |-> SecondDelay]
    /\ UNCHANGED <<session, activeSessions, serving, shutdownCalls, unsettled, registered,
                   exited, idle>>

SecondTimer ==
    /\ Due("second")
    /\ timer' = NoTimer
    /\ IF activeSessions # 0 THEN UNCHANGED <<shutdownCalls, unsettled>>
       ELSE CallShutdown("idle")
    /\ UNCHANGED <<session, activeSessions, serving, registered, exited, idle>>

Next ==
    \/ \E s \in Session : SessionStarts(s) \/ SessionStops(s)
    \/ \E k \in Cause : RequestShutdown(k) \/ Exit(k)
    \/ \E k \in Cause, h \in Handler : HandlerSettles(k, h)
    \/ \E h \in Handler : Register(h)
    \/ Minute \/ FirstTimer \/ SecondTimer

Spec == Init /\ [][Next]_vars

\* Timers fire: those of the event loop, and the 3 seconds of a shutdown call.
\* Nothing is assumed of handlers or UIs.
FairSpec ==
    /\ Spec
    /\ WF_vars(Minute) /\ WF_vars(FirstTimer) /\ WF_vars(SecondTimer)
    /\ \A k \in Cause : WF_vars(Exit(k))

(***************************************************************************)
(* Properties.                                                             *)
(***************************************************************************)

\* The server only gives up on its own after the full delay without a session,
\* counted from the end of the last one: sessions that came and went in between
\* start the count again, and one without services counts as well.
IdleShutdownIsEarned ==
    [][shutdownCalls' # shutdownCalls /\ "idle" \in shutdownCalls' \ shutdownCalls
         => Running = {} /\ idle >= Limit]_vars

\* A server that has had sessions does not outlive the last by more than that.
IdleIsBounded ==
    AutoShutdown /\ Running = {} /\ (\E s \in Session : session[s] = "stopped")
      => idle <= Limit

\* What makes the two above inductive.  The count is the number of sessions that
\* run, although it is kept by events and clamped at zero.
CountIsExact == activeSessions = Cardinality(Running)

\* A pending timer tells how long the server has been idle, and none is pending
\* while a session runs.
TimerIsIdle ==
    /\ Running # {} => idle = 0 /\ timer = NoTimer
    /\ timer.stage = "first" => idle + timer.left = FirstDelay
    /\ timer.stage = "second" => idle + timer.left = Limit

\* Once the last session has stopped a timer runs, until it shuts the server down.
LastStopIsTimed ==
    /\ AutoShutdown
    /\ Running = {}
    /\ \E s \in Session : session[s] = "stopped"
    /\ shutdownCalls = {}
    => timer.stage # "off"

Timing == CountIsExact /\ TimerIsIdle /\ LastStopIsTimed /\ IdleIsBounded

IInv == TypeOK /\ Timing

\* A shutdown that has begun ends, even if a handler never settles.
ShutdownCompletes == (shutdownCalls # {}) ~> exited

\* The comment of maybeScheduleShutdown: "if no Mock sessions are running at
\* all for 10 minutes, the server shuts down automatically".
InactiveServerStops ==
    AutoShutdown /\ Running = {} => idle <= Limit

=============================================================================
