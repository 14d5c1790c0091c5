--------------------------- MODULE HeadlessControl ---------------------------
(***************************************************************************)
(* The headless process of the lab add-on (headless-control-service.ts,    *)
(* headless-process-registry.ts, headless-health-service.ts): start, stop  *)
(* and recover over a runner, and the one record of the latest process.    *)
(* A process is named after the call that has started it.                  *)
(***************************************************************************)
EXTENDS FiniteSets

CONSTANTS
    HeadlessStart,   \* calls of start
    HeadlessStop,    \* calls of stop
    HeadlessRecover, \* calls of recover
    NoProcess

ASSUME HeadlessAssumption ==
    /\ HeadlessStart \cap HeadlessStop = {} /\ HeadlessStart \cap HeadlessRecover = {}
    /\ HeadlessStop \cap HeadlessRecover = {}
    /\ NoProcess \notin HeadlessStart \cup HeadlessRecover

VARIABLES
    headlessConfig, \* the environment: the backend, the command, and whether it is valid
    canKill,    \* the runner kills processes, which NodeProcessRunner does not
    latestProcess,    \* the record of the latest process: its process and its status
    headless,   \* headless[k]: where a call is, and the process that it kills
    alive,      \* the processes that run
    lastAction, \* what headlessHealth tracks: the action, ok and implemented
    lost,       \* history: a start ended while an earlier process ran
    during      \* history: a start ended while a process was being killed

headlessVars == <<headlessConfig, canKill, latestProcess, headless, alive, lastAction, lost, during>>

HeadlessCall == HeadlessStart \cup HeadlessStop \cup HeadlessRecover
NoRecord == [process |-> NoProcess, status |-> "none"]

\* The options of a request: none, or an override, which is a dry run unless it says no.
StartOption == {"none", "dryRun", "execute"}

HeadlessInit ==
    \* The backend is local only with a command (headless-config.ts:87-89).
    /\ headlessConfig \in [local : BOOLEAN, command : BOOLEAN, valid : BOOLEAN]
    /\ headlessConfig.local => headlessConfig.command
    /\ canKill \in BOOLEAN
    /\ latestProcess = NoRecord
    /\ headless = [k \in HeadlessCall |-> [at |-> "new", kills |-> NoProcess]]
    /\ alive = {}
    /\ lastAction = [action |-> "none", ok |-> TRUE, implemented |-> TRUE]
    /\ lost = FALSE /\ during = FALSE

Kind(k) == CASE k \in HeadlessStart -> "start" [] k \in HeadlessStop -> "stop" [] OTHER -> "recover"
HeadlessGoesTo(k, at) == headless' = [headless EXCEPT ![k].at = at]
StartImplemented == headlessConfig.local /\ headlessConfig.valid
Killing == {k \in HeadlessCall : headless[k].at = "killing"}

\* A call ends, and the route tracks its result.
Ends(k, ok, implemented) ==
    /\ HeadlessGoesTo(k, "ended")
    /\ lastAction' = [action |-> Kind(k), ok |-> ok, implemented |-> implemented]

-----------------------------------------------------------------------------
\* start and resolveStartConfig. The registry is not asked whether a process runs.
StartHeadless(k) ==
    /\ headless[k].at = "new" /\ k \in HeadlessStart
    /\ \E option \in StartOption, local \in BOOLEAN, command \in BOOLEAN :
           LET isLocal == IF option = "none" THEN headlessConfig.local ELSE local
               hasCommand == headlessConfig.command \/ (option # "none" /\ command)
           IN  CASE ~headlessConfig.valid \/ (option # "none" /\ local /\ ~hasCommand) -> Ends(k, FALSE, FALSE)
                 [] headlessConfig.valid /\ ~isLocal -> Ends(k, FALSE, FALSE)
                 [] headlessConfig.valid /\ isLocal /\ hasCommand /\ option = "dryRun" -> Ends(k, TRUE, TRUE)
                 [] headlessConfig.valid /\ isLocal /\ hasCommand /\ option # "dryRun" ->
                        HeadlessGoesTo(k, "spawning") /\ UNCHANGED lastAction
    /\ UNCHANGED <<headlessConfig, canKill, latestProcess, alive, lost, during>>

\* The record is replaced, whatever it was.
RecordStarted_Mut(k, record) ==
    /\ latestProcess' = IF latestProcess = NoRecord THEN record ELSE latestProcess
    /\ lost' = (lost \/ latestProcess.process \in alive)
    /\ during' = (during \/ Killing # {})

RecordStarted(k, record) ==
    /\ latestProcess' = record
    /\ lost' = (lost \/ latestProcess.process \in alive)
    /\ during' = (during \/ Killing # {})

Spawned(k) ==
    /\ headless[k].at = "spawning"
    /\ alive' = alive \cup {k}
    /\ RecordStarted(k, [process |-> k, status |-> "running"])
    /\ Ends(k, TRUE, TRUE)
    /\ UNCHANGED <<headlessConfig, canKill>>

\* A start that fails leaves a record without a process.
SpawnFails(k) ==
    /\ headless[k].at = "spawning"
    /\ RecordStarted(k, [process |-> NoProcess, status |-> "failed"])
    /\ Ends(k, FALSE, TRUE)
    /\ UNCHANGED <<headlessConfig, canKill, alive>>

-----------------------------------------------------------------------------
\* stop, as itself or as the first phase of a recovery: the process of the record is killed,
\* whatever its status. A recovery goes on if there is no record.
StopHeadless(k) ==
    /\ headless[k].at = "new" /\ k \in HeadlessStop \cup HeadlessRecover
    /\ CASE k \in HeadlessRecover /\ ~(StartImplemented /\ canKill) -> Ends(k, FALSE, FALSE)
         [] k \in HeadlessStop /\ ~headlessConfig.local -> Ends(k, FALSE, FALSE)
         [] k \in HeadlessStop /\ headlessConfig.local /\ latestProcess.process = NoProcess -> Ends(k, FALSE, TRUE)
         [] k \in HeadlessStop /\ headlessConfig.local /\ latestProcess.process # NoProcess /\ ~canKill ->
                Ends(k, FALSE, FALSE)
         [] k \in HeadlessRecover /\ StartImplemented /\ canKill /\ latestProcess = NoRecord ->
                HeadlessGoesTo(k, "spawning") /\ UNCHANGED lastAction
         [] k \in HeadlessRecover /\ StartImplemented /\ canKill /\ latestProcess # NoRecord
              /\ latestProcess.process = NoProcess -> Ends(k, FALSE, TRUE)
         [] OTHER ->
                /\ headless' = [headless EXCEPT ![k] = [at |-> "killing", kills |-> latestProcess.process]]
                /\ UNCHANGED lastAction
    /\ UNCHANGED <<headlessConfig, canKill, latestProcess, alive, lost, during>>

\* recordStopped and recordFailed change the latest record, whose process it may not be.
KillSucceeds(k) ==
    /\ headless[k].at = "killing"
    /\ alive' = alive \ {headless[k].kills}
    /\ latestProcess' = [latestProcess EXCEPT !.status = "stopped"]
    /\ IF k \in HeadlessStop THEN Ends(k, TRUE, TRUE)
                             ELSE HeadlessGoesTo(k, "spawning") /\ UNCHANGED lastAction
    /\ UNCHANGED <<headlessConfig, canKill, lost, during>>

HeadlessKillFails(k) ==
    /\ headless[k].at = "killing"
    /\ latestProcess' = [latestProcess EXCEPT !.status = "failed"]
    /\ Ends(k, FALSE, TRUE)
    /\ UNCHANGED <<headlessConfig, canKill, alive, lost, during>>

\* The process exits by itself, which nothing watches.
ProcessExits(k) ==
    /\ k \in alive
    /\ alive' = alive \ {k}
    /\ UNCHANGED <<headlessConfig, canKill, latestProcess, headless, lastAction, lost, during>>

HeadlessNext ==
    \E k \in HeadlessCall :
        \/ StartHeadless(k) \/ Spawned(k) \/ SpawnFails(k) \/ StopHeadless(k) \/ KillSucceeds(k) \/ HeadlessKillFails(k)
        \/ ProcessExits(k)

-----------------------------------------------------------------------------
\* A process that the add-on has started is not forgotten: unless a start came while one
\* ran, the only process that runs is the one of the record, which stop and recover kill.
\* And a record that says stopped is of a process that is dead, unless a start ended during
\* the kill, however starts, stops, recoveries and exits interleave
\* (headless-control-service.ts:111-142, :210-223, :255-267).
ProcessIsTracked ==
    /\ ~lost => alive \subseteq {latestProcess.process}
    /\ ~during /\ latestProcess.status = "stopped" => latestProcess.process \notin alive
=============================================================================
