-------------------------- MODULE ConnectionHealth --------------------------
(***************************************************************************)
(* connection-health-service.ts of the lab add-on: polls of the connection *)
(* state, from the growth of the export file, the traffic that was         *)
(* ingested, and the records of start-headless and stop-headless. A poll   *)
(* reads the file and the records, awaits the bridge, and then decides.    *)
(* server.ts gives the service no evidence of the device, and nothing ever *)
(* probes; a stop counts if the activation client implements it.           *)
(***************************************************************************)
EXTENDS Naturals, FiniteSets

CONSTANTS
    Poll,           \* calls of getConnectionHealth that may be under way at the same time
    MaxTime,        \* bound of the clock
    MaxSize,        \* bound of the records in the file
    MaxEvents,      \* bound of the events that are ingested, of starts and of stops
    DataPlaneRecent, ControlPlaneStale, DisconnectedAfter, MobileEvidenceRecent \* thresholds

ASSUME HealthAssumption ==
    {MaxTime, MaxSize, MaxEvents, DataPlaneRecent, ControlPlaneStale, DisconnectedAfter, MobileEvidenceRecent} \subseteq Nat

VARIABLES
    clock,
    size,       \* the records in the export file
    lastJsonlSize, \* what the last poll to end has read, or NoSize
    lastDataPlaneObservedAt, \* the later of it and lastTargetTrafficObservedAt: they decide the same
    firstStrongFailureObservedAt,
    automation, \* the times of the last update, start, stop, and sight of the app
    poll,       \* poll[p]: whether it is under way, and what it has read
    answer,     \* the last answer, until a poll starts; history: whether the session was then down for long enough
    downSince,  \* history: when the session was stopped, or Never while it is up
    growths,    \* history: how many polls have seen the file grow, up to MaxSize + 1
    unseen,     \* history: a start came after a failure was noted, and no poll has seen it
    overlapping, \* history: a poll started before another had ended
    events      \* history: how many events there were

healthVars == <<clock, size, lastJsonlSize, lastDataPlaneObservedAt,
                firstStrongFailureObservedAt, automation, poll, answer, downSince, growths, unseen, overlapping,
                events>>

Never == 0
NoSize == MaxSize + 1
Reads == {p \in Poll : poll[p].at = "asking"}
Recent(time, now, within) == time # Never /\ now <= time + within

NoSnapshot == [updated |-> Never, start |-> Never, stop |-> Never, mobile |-> Never]

NoAnswer == [state |-> "none", justified |-> TRUE]
NotAsking == [at |-> "none", now |-> 0, size |-> 0, growth |-> FALSE, automation |-> NoSnapshot]

HealthInit ==
    /\ clock = 1
    /\ size = 0
    /\ lastJsonlSize = NoSize
    /\ lastDataPlaneObservedAt = Never
    /\ firstStrongFailureObservedAt = Never
    /\ automation = NoSnapshot
    /\ poll = [p \in Poll |-> NotAsking]
    /\ answer = NoAnswer
    /\ downSince = Never
    /\ growths = 0
    /\ unseen = FALSE /\ overlapping = FALSE
    /\ events = 0

Tick ==
    /\ clock < MaxTime
    /\ clock' = clock + 1
    /\ UNCHANGED <<size, lastJsonlSize, lastDataPlaneObservedAt,
                   firstStrongFailureObservedAt, automation, poll, answer, downSince, growths, unseen, overlapping, events>>

Event == events < MaxEvents /\ events' = events + 1

\* noteIngestEvent, after the event was written or not.
NoteIngestEvent(persisted, targetMatched) ==
    /\ Event
    /\ persisted => size < MaxSize
    /\ size' = IF persisted THEN size + 1 ELSE size
    /\ lastDataPlaneObservedAt' = IF persisted \/ targetMatched THEN clock ELSE lastDataPlaneObservedAt
    /\ UNCHANGED <<clock, lastJsonlSize, firstStrongFailureObservedAt, automation, poll, answer, downSince, growths,
                   unseen, overlapping>>

\* start-headless, with or without a sight of the app on the device. It counts as a start if
\* the session and the device were prepared, also when no traffic came.
SessionStarts(prepared, seen) ==
    /\ Event
    /\ automation' = [automation EXCEPT !.updated = clock, !.start = IF prepared THEN clock ELSE @,
                                        !.mobile = IF seen THEN clock ELSE Never]
    /\ downSince' = IF prepared THEN Never ELSE downSince
    /\ unseen' = (unseen \/ (prepared /\ (firstStrongFailureObservedAt # Never \/ Reads # {})))
    /\ UNCHANGED <<clock, size, lastJsonlSize, lastDataPlaneObservedAt,
                   firstStrongFailureObservedAt, poll, answer, growths, overlapping>>

\* recover-headless, which the client does not implement, is recorded.
SessionRecovers ==
    /\ Event
    /\ automation' = [automation EXCEPT !.updated = clock]
    /\ UNCHANGED <<clock, size, lastJsonlSize, lastDataPlaneObservedAt, firstStrongFailureObservedAt,
                   poll, answer, downSince, growths, unseen, overlapping>>

\* stop-headless. One that the client does not implement is recorded, and is no evidence.
SessionStops(implemented) ==
    /\ Event
    /\ automation' = [automation EXCEPT !.updated = clock, !.stop = IF implemented THEN clock ELSE Never]
    /\ downSince' = IF implemented /\ downSince = Never THEN clock ELSE downSince
    /\ UNCHANGED <<clock, size, lastJsonlSize, lastDataPlaneObservedAt,
                   firstStrongFailureObservedAt, poll, answer, growths, unseen, overlapping>>

-----------------------------------------------------------------------------
(* getConnectionHealth.                                                      *)

PollStarts(p) ==
    LET growth == lastJsonlSize # NoSize /\ size > lastJsonlSize
    IN  /\ poll[p].at = "none"
        /\ poll' = [poll EXCEPT ![p] = [at |-> "asking", now |-> clock, size |-> size, growth |-> growth,
                                        automation |-> automation]]
        /\ lastDataPlaneObservedAt' = IF growth THEN clock ELSE lastDataPlaneObservedAt
        /\ growths' = IF growth /\ growths <= MaxSize THEN growths + 1 ELSE growths
        /\ overlapping' = (overlapping \/ Reads # {})
        /\ answer' = NoAnswer
        /\ UNCHANGED <<clock, size, lastJsonlSize, firstStrongFailureObservedAt,
                       automation, downSince, unseen, events>>

\* session-stopped: the only evidence of a disconnection that there is.
StrongFailure(p) == poll[p].automation.stop > poll[p].automation.start

FirstFailure_Mut(p) ==
    IF StrongFailure(p) /\ firstStrongFailureObservedAt = Never THEN poll[p].now ELSE firstStrongFailureObservedAt

FirstFailure(p) ==
    CASE ~StrongFailure(p) -> Never
      [] StrongFailure(p) /\ firstStrongFailureObservedAt = Never -> poll[p].now
      [] OTHER -> firstStrongFailureObservedAt

State(p, controlPlaneAlive) ==
    LET now == poll[p].now
        first == FirstFailure(p)
        stale == ~Recent(poll[p].automation.updated, now, ControlPlaneStale)
        dataPlane == \/ poll[p].growth
                     \/ Recent(lastDataPlaneObservedAt, now, DataPlaneRecent)
        active == dataPlane \/ Recent(poll[p].automation.mobile, now, MobileEvidenceRecent)
        enough == first # Never /\ now > first + DisconnectedAfter
    IN  CASE StrongFailure(p) /\ enough -> IF dataPlane THEN "degraded" ELSE "disconnected"
          [] ~(StrongFailure(p) /\ enough) /\ active -> IF stale THEN "degraded" ELSE "active"
          [] ~active /\ ~StrongFailure(p) /\ controlPlaneAlive -> "idle"
          [] ~active /\ ~StrongFailure(p) /\ ~controlPlaneAlive -> IF stale THEN "stale" ELSE "degraded"
          [] OTHER -> "unknown"

\* What has been ingested meanwhile counts; the size that was read is noted for the next.
PollEnds(p) ==
    /\ poll[p].at = "asking"
    /\ \E controlPlaneAlive \in BOOLEAN :
           answer' = [state |-> State(p, controlPlaneAlive),
                      justified |-> \/ unseen
                                    \/ downSince # Never /\ poll[p].now > downSince + DisconnectedAfter]
    /\ poll' = [poll EXCEPT ![p] = NotAsking]
    /\ firstStrongFailureObservedAt' = FirstFailure(p)
    /\ lastJsonlSize' = poll[p].size
    /\ unseen' = (unseen /\ ~(Reads = {p} /\ poll[p].automation.start = automation.start
                                /\ ~StrongFailure(p)))
    /\ UNCHANGED <<clock, size, lastDataPlaneObservedAt, automation, downSince,
                   growths, overlapping, events>>

HealthNext ==
    \/ Tick
    \/ \E persisted, targetMatched \in BOOLEAN : NoteIngestEvent(persisted, targetMatched)
    \/ \E prepared, seen \in BOOLEAN : SessionStarts(prepared, seen)
    \/ \E implemented \in BOOLEAN : SessionStops(implemented)
    \/ SessionRecovers
    \/ \E p \in Poll : PollStarts(p) \/ PollEnds(p)

-----------------------------------------------------------------------------
\* "disconnected" is a hard signal for those who poll: then the session has been stopped for
\* longer than the threshold, unless it was started again after a failure was noted and no
\* poll has seen that (connection-health-service.ts:146-170, :211-240).
\* And records of the file are taken for new ones once only, unless polls overlap (:98-102,
\* :268).
HealthIsEvidence ==
    /\ answer.state = "disconnected" => answer.justified
    /\ ~overlapping => growths <= size
=============================================================================
