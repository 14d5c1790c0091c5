---------------------------- MODULE ElectronApps ----------------------------
(***************************************************************************)
(* electron.ts: applications started under a debugger, and the clients of  *)
(* the Chrome DevTools protocol by which they are injected, counted as     *)
(* active and closed.  One proxy port.                                     *)
(***************************************************************************)
EXTENDS Naturals, FiniteSets

CONSTANTS
    App,        \* calls of activate, each with an application
    Closing,    \* calls of deactivate or deactivateAll
    Retries     \* attempts to connect after the first: 10

ASSUME ElectronAssumption == Retries \in Nat

VARIABLES
    app,        \* app[a]: the process
    appCall,    \* appCall[a]: where the call is
    retries,    \* retries[a]: attempts left
    spawnError, \* calls whose process had an error
    client,     \* client[a]: the state of debugClient
    debugClients, \* the registered clients
    injected,   \* applications in which the injection was evaluated
    closing,    \* closing[d]: the clients that a deactivation still works on, with its step
    called      \* closings that were made

electronVars ==
    <<app, appCall, retries, spawnError, client, debugClients, injected, closing, called>>

ElectronInit ==
    /\ app = [a \in App |-> "none"]
    /\ appCall = [a \in App |-> "new"]
    /\ retries = [a \in App |-> Retries]
    /\ spawnError = {}
    /\ client = [a \in App |-> "none"]
    /\ debugClients = {} /\ injected = {}
    /\ closing = [d \in Closing |-> [a \in App |-> "none"]]
    /\ called = {}

KeepsClosing == UNCHANGED <<closing, called>>
CallGoesTo(a, step) == appCall' = [appCall EXCEPT ![a] = step]

-----------------------------------------------------------------------------
(* activate.                                                                 *)

\* A port and the executable are found, and the process is spawned.
SpawnApp(a) ==
    /\ appCall[a] = "new"
    /\ CallGoesTo(a, "connect")
    /\ app' = [app EXCEPT ![a] = "running"]
    /\ UNCHANGED <<retries, spawnError, client, debugClients, injected>> /\ KeepsClosing

\* A client that disconnects is removed by its listener, once it is registered.
Disconnect_Mut(as) ==
    /\ client' = [a \in App |-> IF a \in as /\ client[a] = "open" THEN "closed" ELSE client[a]]
    /\ UNCHANGED debugClients

Disconnect(as) ==
    /\ client' = [a \in App |-> IF a \in as /\ client[a] = "open" THEN "closed" ELSE client[a]]
    /\ debugClients' = debugClients \ as

\* The process's error event: a client is closed, and then the error is noted.
AppErrors(a) ==
    /\ app[a] = "running" /\ a \notin injected
    /\ app' = [app EXCEPT ![a] = "ended"]
    /\ spawnError' = spawnError \cup {a}
    /\ Disconnect({a})
    /\ UNCHANGED <<appCall, retries, injected>> /\ KeepsClosing

Connected(a) ==
    /\ appCall[a] = "connect" /\ a \notin spawnError /\ app[a] = "running"
    /\ CallGoesTo(a, "enable")
    /\ client' = [client EXCEPT ![a] = "open"]
    /\ debugClients' = debugClients \cup {a}
    /\ UNCHANGED <<app, retries, spawnError, injected>> /\ KeepsClosing

\* The connection is refused: another attempt 500 ms later.
Refused(a) ==
    /\ appCall[a] = "connect" /\ a \notin spawnError /\ retries[a] > 0
    /\ retries' = [retries EXCEPT ![a] = @ - 1]
    /\ UNCHANGED <<app, appCall, spawnError, client, debugClients, injected>> /\ KeepsClosing

DebuggerFails(a) ==
    /\ appCall[a] = "connect" /\ (a \in spawnError \/ retries[a] = 0)
    /\ CallGoesTo(a, "failed")
    /\ UNCHANGED <<app, retries, spawnError, client, debugClients, injected>> /\ KeepsClosing

\* Runtime.enable, Debugger.enable and the start of the application: they are rejected
\* if the client is closed. The pause may also never be heard of.
DebuggerEnabled(a) ==
    /\ appCall[a] = "enable"
    /\ CallGoesTo(a, IF client[a] = "open" THEN "paused" ELSE "failed")
    /\ UNCHANGED <<app, retries, spawnError, client, debugClients, injected>> /\ KeepsClosing

\* The application is paused: the overrides are evaluated, and it is resumed. A failure
\* leaves the client registered.
InjectApp(a) ==
    /\ appCall[a] = "paused" /\ client[a] = "open"
    /\ \/ CallGoesTo(a, "done") /\ injected' = injected \cup {a}
       \/ CallGoesTo(a, "failed") /\ UNCHANGED injected
    /\ UNCHANGED <<app, retries, spawnError, client, debugClients>> /\ KeepsClosing

\* The application ends, by itself or by its user.
AppEnds(a) ==
    /\ app[a] = "running"
    /\ app' = [app EXCEPT ![a] = "ended"]
    /\ Disconnect({a})
    /\ UNCHANGED <<appCall, retries, spawnError, injected>> /\ KeepsClosing

-----------------------------------------------------------------------------
(* deactivate: what is registered now is closed, each client for itself.     *)

DeactivateApps(d) ==
    /\ d \notin called
    /\ called' = called \cup {d}
    /\ closing' = [closing EXCEPT ![d] = [a \in App |-> IF a \in debugClients THEN "pid" ELSE "none"]]
    /\ UNCHANGED <<app, appCall, retries, spawnError, client, debugClients, injected>>

\* The application's pid is asked for; it gets a SIGTERM if it answers.
Terminate(d, a) ==
    /\ closing[d][a] = "pid"
    /\ closing' = [closing EXCEPT ![d][a] = IF client[a] = "open" THEN "term" ELSE "exit"]
    /\ UNCHANGED <<app, appCall, retries, spawnError, client, debugClients, injected, called>>

\* It disconnects, or a second has passed: then it is told to exit.
TerminateEnds(d, a) ==
    /\ closing[d][a] = "term"
    /\ closing' = [closing EXCEPT ![d][a] = IF client[a] = "open" THEN "exit" ELSE "done"]
    /\ UNCHANGED <<app, appCall, retries, spawnError, client, debugClients, injected, called>>

\* process.exit(0), or the error that there is no connection left.
HardExit(d, a) ==
    /\ closing[d][a] = "exit"
    /\ closing' = [closing EXCEPT ![d][a] = "done"]
    /\ app' = IF client[a] = "open" THEN [app EXCEPT ![a] = "ended"] ELSE app
    /\ Disconnect({a})
    /\ UNCHANGED <<appCall, retries, spawnError, injected, called>>

ElectronNext ==
    \/ \E a \in App :
           \/ SpawnApp(a) \/ AppErrors(a) \/ Connected(a) \/ Refused(a) \/ DebuggerFails(a)
           \/ DebuggerEnabled(a) \/ InjectApp(a) \/ AppEnds(a)
    \/ \E d \in Closing :
           \/ DeactivateApps(d)
           \/ \E a \in App : Terminate(d, a) \/ TerminateEnds(d, a) \/ HardExit(d, a)

-----------------------------------------------------------------------------
\* isActive counts applications that run: whatever order errors, ends, injections and
\* deactivations come in, a client is registered only while its application runs, one
\* that failed to be injected included, and what a deactivation found has ended when it
\* returns (electron.ts:113-116, 167-215). An application that is still connecting then
\* is not found, and goes on.
ElectronIsTracked ==
    /\ debugClients = {a \in App : client[a] = "open"}
    /\ \A a \in debugClients : app[a] = "running"
    /\ \A d \in Closing, a \in App : closing[d][a] = "done" => app[a] = "ended"
    /\ \A a \in App : appCall[a] = "done" /\ app[a] = "running" => a \in debugClients /\ a \in injected
=============================================================================
