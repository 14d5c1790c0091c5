------------------------------ MODULE FridaApps ------------------------------
(***************************************************************************)
(* Interception with Frida on one device (frida-*-interceptor.ts,          *)
(* frida-*-integration.ts): the server is downloaded, pushed, and launched *)
(* on Android, and an app is spawned paused, gets the hooks, and resumes.  *)
(* On iOS the user runs the server, and there is no tunnel.                *)
(***************************************************************************)
EXTENDS FiniteSets

CONSTANTS
    Setup,          \* activations with the action "setup"
    ServerLaunch,   \* activations with the action "launch"
    Interception,   \* activations with the action "intercept", each of its own app
    OnIos,          \* those of the interceptions that are on iOS
    StopApps,       \* calls of deactivate for one port, or of deactivateAll for all
    FridaPort,
    PortOfFrida,    \* the port of a launch or an interception
    PortsOfStop,    \* the ports that a deactivation is for
    NoSetup

ASSUME FridaAssumption ==
    /\ OnIos \subseteq Interception /\ NoSetup \notin Setup
    /\ PortOfFrida \in [ServerLaunch \cup Interception -> FridaPort]
    /\ PortsOfStop \in [StopApps -> SUBSET FridaPort]

VARIABLES
    dependency, \* the server's file is in the store
    setup,      \* setup[s]: where a call is, and whether its stream is a download
    writer,     \* the call whose push the device's file is of
    binary,     \* the server's file on the device: none, partial or whole
    launching,  \* launching[l]: where a call is, "removing" while its clean up may run
    fridaServer, \* fridaServer[l]: the process that the call has started
    fridaServers, \* the launches whose stream the interceptor keeps
    hooking,  \* hooking[c]: where a call is
    tunnelled,  \* the interceptions that have a tunnel
    target,     \* target[c]: the app
    interceptedApps, \* the interceptions whose session the interceptor keeps
    killing,    \* killing[c]: the deactivations that kill its app, or the call itself
    unkilled,   \* history: the apps of which a kill has failed
    stopApps,   \* stopApps[d]: where a deactivation is
    toStop      \* toStop[d]: the interceptions that it has found

fridaVars == <<dependency, setup, writer, binary, launching, fridaServer, fridaServers, hooking, tunnelled,
               target, interceptedApps, killing, unkilled, stopApps, toStop>>
hostVars == <<dependency, setup, writer, binary>>
serverVars == <<launching, fridaServer, fridaServers>>
targetVars == <<hooking, tunnelled, target, interceptedApps, killing, unkilled>>
stopVars == <<stopApps, toStop>>

FridaInit ==
    /\ dependency \in BOOLEAN
    /\ setup = [s \in Setup |-> [at |-> "new", download |-> FALSE]]
    /\ writer = NoSetup
    /\ binary \in {"none", "whole"}
    /\ launching = [l \in ServerLaunch |-> "new"]
    /\ fridaServer = [l \in ServerLaunch |-> "none"]
    /\ fridaServers = {}
    /\ hooking = [c \in Interception |-> "new"]
    /\ tunnelled = {}
    /\ target = [c \in Interception |-> "none"]
    /\ interceptedApps = {} /\ unkilled = {}
    /\ killing = [c \in Interception |-> {}]
    /\ stopApps = [d \in StopApps |-> "new"]
    /\ toStop = [d \in StopApps |-> {}]

IsUp(l) == fridaServer[l] = "up"
Available == \E l \in ServerLaunch : IsUp(l)
InterceptGoesTo(c, at) == hooking' = [hooking EXCEPT ![c] = at]

-----------------------------------------------------------------------------
(* setupAndroidHost and getDependencyStream.                                 *)

\* The ABI may be unknown, and the download may be refused. The push opens the file anew.
SetUpHost(s) ==
    /\ setup[s].at = "new"
    /\ \/ /\ setup' = [setup EXCEPT ![s] = [at |-> "pushing", download |-> ~dependency]]
          /\ writer' = s /\ binary' = "partial"
       \/ setup' = [setup EXCEPT ![s].at = "failed"] /\ UNCHANGED <<writer, binary>>
    /\ UNCHANGED dependency /\ UNCHANGED <<serverVars, targetVars, stopVars>>

\* The whole download has been written beside the push, and is moved to its place.
DownloadIsKept(s) ==
    /\ setup[s].at \in {"pushing", "done"} /\ setup[s].download
    /\ dependency' = TRUE
    /\ setup' = [setup EXCEPT ![s].download = FALSE]
    /\ UNCHANGED <<writer, binary, serverVars, targetVars, stopVars>>

Pushed(s) ==
    /\ setup[s].at = "pushing"
    /\ setup' = [setup EXCEPT ![s].at = "done"]
    /\ binary' = IF writer = s THEN "whole" ELSE binary
    /\ UNCHANGED <<dependency, writer, serverVars, targetVars, stopVars>>

ServerPushFails(s) ==
    /\ setup[s].at = "pushing"
    /\ setup' = [setup EXCEPT ![s] = [at |-> "failed", download |-> FALSE]]
    /\ UNCHANGED <<dependency, writer, binary, serverVars, targetVars, stopVars>>

-----------------------------------------------------------------------------
(* launchAndroidHost.                                                        *)

LaunchHost(l) ==
    /\ launching[l] = "new"
    /\ \/ launching' = [launching EXCEPT ![l] = "failed"] /\ UNCHANGED fridaServer \* no root
       \/ /\ launching' = [launching EXCEPT ![l] = "waiting"]
          /\ fridaServer' = [fridaServer EXCEPT ![l] = IF binary = "whole" THEN "starting" ELSE "closed"]
    /\ UNCHANGED <<fridaServers, hostVars, targetVars, stopVars>>

\* One server has the port, and a second one exits.
ServerListens(l) ==
    /\ fridaServer[l] = "starting"
    /\ fridaServer' = [fridaServer EXCEPT ![l] = IF Available THEN "closed" ELSE "up"]
    /\ fridaServers' = IF Available THEN fridaServers \ {l} ELSE fridaServers
    /\ UNCHANGED <<launching, hostVars, targetVars, stopVars>>

\* The port is open, whichever server it is of.
HostIsAvailable(l) ==
    /\ launching[l] = "waiting" /\ Available
    /\ launching' = [launching EXCEPT ![l] = "done"]
    /\ fridaServers' = fridaServers \cup {l}
    /\ UNCHANGED <<fridaServer, hostVars, targetVars, stopVars>>

LaunchTimesOut(l) ==
    /\ launching[l] = "waiting"
    /\ launching' = [launching EXCEPT ![l] = "removing"]
    /\ UNCHANGED <<fridaServer, fridaServers, hostVars, targetVars, stopVars>>

\* The clean up runs by itself, and removes the file that is there by then.
BinaryRemoved(l) ==
    /\ launching[l] = "removing"
    /\ launching' = [launching EXCEPT ![l] = "failed"]
    /\ binary' \in {binary, "none"}
    /\ UNCHANGED <<fridaServer, fridaServers, dependency, setup, writer, targetVars, stopVars>>

ServerExits(l) ==
    /\ IsUp(l)
    /\ fridaServer' = [fridaServer EXCEPT ![l] = "closed"]
    /\ fridaServers' = fridaServers \ {l}
    /\ UNCHANGED <<launching, hostVars, targetVars, stopVars>>

-----------------------------------------------------------------------------
(* interceptAndroidFridaTarget and interceptIosFridaTarget.                  *)

InterceptTarget(c) ==
    /\ hooking[c] = "new"
    /\ InterceptGoesTo(c, "connecting")
    /\ tunnelled' \in {tunnelled} \cup {tunnelled \cup {d} : d \in {c} \ OnIos}
    /\ UNCHANGED <<target, interceptedApps, killing, unkilled, hostVars, serverVars, stopVars>>

\* Connect, and spawn the app; until it is paused there is nothing to kill.
SpawnPaused(c) ==
    /\ hooking[c] = "connecting" /\ (c \in OnIos \/ Available)
    /\ InterceptGoesTo(c, "selecting")
    /\ target' = [target EXCEPT ![c] = "paused"]
    /\ UNCHANGED <<tunnelled, interceptedApps, killing, unkilled, hostVars, serverVars, stopVars>>

ConnectFails(c) ==
    /\ hooking[c] = "connecting"
    /\ InterceptGoesTo(c, "failed")
    /\ UNCHANGED <<tunnelled, target, interceptedApps, killing, unkilled, hostVars, serverVars, stopVars>>

\* The address that the app can reach the proxy at, or within 1 s none: the tunnel's then.
AddressSelected(c) ==
    /\ hooking[c] = "selecting"
    /\ InterceptGoesTo(c, "scripting")
    /\ UNCHANGED <<tunnelled, target, interceptedApps, killing, unkilled, hostVars, serverVars, stopVars>>

ScriptLaunched(c) ==
    /\ hooking[c] = "scripting"
    /\ InterceptGoesTo(c, "resuming")
    /\ UNCHANGED <<tunnelled, target, interceptedApps, killing, unkilled, hostVars, serverVars, stopVars>>

Resumed(c) ==
    /\ hooking[c] = "resuming"
    /\ InterceptGoesTo(c, "done")
    /\ target' = [target EXCEPT ![c] = IF @ = "paused" THEN "running" ELSE @]
    /\ interceptedApps' = interceptedApps \cup {c}
    /\ UNCHANGED <<tunnelled, killing, unkilled, hostVars, serverVars, stopVars>>

\* With a tunnel the selection does not fail. The call itself kills the app.
InterceptFails_Mut(c) ==
    /\ hooking[c] \in {"selecting", "scripting", "resuming"}
    /\ hooking[c] = "selecting" => c \notin tunnelled
    /\ InterceptGoesTo(c, "failed")
    /\ UNCHANGED <<tunnelled, target, killing, interceptedApps, unkilled, hostVars, serverVars, stopVars>>

InterceptFails(c) ==
    /\ hooking[c] \in {"selecting", "scripting", "resuming"}
    /\ hooking[c] = "selecting" => c \notin tunnelled
    /\ InterceptGoesTo(c, "killing")
    /\ killing' = [killing EXCEPT ![c] = @ \cup {c}]
    /\ UNCHANGED <<tunnelled, target, interceptedApps, unkilled, hostVars, serverVars, stopVars>>

\* killProcess: the app is resumed, and then killed. The failure to resume is ignored, the
\* one to kill is only logged.
KillEnds(c, by) ==
    /\ killing' = [killing EXCEPT ![c] = @ \ {by}]
    /\ hooking' = [hooking EXCEPT ![c] = IF by = c THEN "failed" ELSE @]
    /\ UNCHANGED <<tunnelled, interceptedApps, hostVars, serverVars, stopVars>>

ResumedToKill(c) ==
    /\ killing[c] # {} /\ target[c] = "paused"
    /\ target' = [target EXCEPT ![c] = "running"]
    /\ UNCHANGED <<hooking, tunnelled, interceptedApps, killing, unkilled, hostVars, serverVars, stopVars>>

Killed(c, by) ==
    /\ by \in killing[c]
    /\ target' = [target EXCEPT ![c] = "dead"]
    /\ UNCHANGED unkilled
    /\ KillEnds(c, by)

KillFails(c, by) ==
    /\ by \in killing[c]
    /\ unkilled' = unkilled \cup {c}
    /\ UNCHANGED target
    /\ KillEnds(c, by)

-----------------------------------------------------------------------------
(* deactivate and deactivateAll.                                             *)

\* The servers are closed first, then the apps of all ports are killed at the same time.
\* deactivate of the iOS interceptor fails for a port without apps, with no more effect. A
\* stream that was closed before it was kept stays in the list.
StopsApps(d) ==
    LET found == {c \in interceptedApps : PortOfFrida[c] \in PortsOfStop[d]}
        closed == {l \in fridaServers : PortOfFrida[l] \in PortsOfStop[d]}
    IN  /\ stopApps[d] = "new"
        /\ stopApps' = [stopApps EXCEPT ![d] = "killing"]
        /\ toStop' = [toStop EXCEPT ![d] = found]
        /\ fridaServer' = [l \in ServerLaunch |-> IF l \in closed THEN "closed" ELSE fridaServer[l]]
        /\ fridaServers' = fridaServers \ {l \in closed : fridaServer[l] # "closed"}
        /\ killing' = [c \in Interception |-> IF c \in found THEN killing[c] \cup {d} ELSE killing[c]]
        /\ UNCHANGED <<launching, hooking, tunnelled, target, interceptedApps, unkilled, hostVars>>

AppsAreStopped(d) ==
    /\ stopApps[d] = "killing" /\ \A c \in Interception : d \notin killing[c]
    /\ stopApps' = [stopApps EXCEPT ![d] = "done"]
    /\ UNCHANGED <<toStop, hostVars, serverVars, targetVars>>

FridaNext ==
    \/ \E s \in Setup : SetUpHost(s) \/ DownloadIsKept(s) \/ Pushed(s) \/ ServerPushFails(s)
    \/ \E l \in ServerLaunch :
           \/ LaunchHost(l) \/ ServerListens(l) \/ HostIsAvailable(l) \/ LaunchTimesOut(l)
           \/ BinaryRemoved(l) \/ ServerExits(l)
    \/ \E c \in Interception :
           \/ InterceptTarget(c) \/ SpawnPaused(c) \/ ConnectFails(c) \/ AddressSelected(c) \/ ScriptLaunched(c)
           \/ Resumed(c) \/ InterceptFails(c) \/ ResumedToKill(c)
           \/ \E by \in StopApps \cup {c} : Killed(c, by) \/ KillFails(c, by)
    \/ \E d \in StopApps : StopsApps(d) \/ AppsAreStopped(d)

-----------------------------------------------------------------------------
\* A call that has ended leaves no app paused, and an app that a deactivation has found is
\* dead when it has ended, however the call's own clean up and deactivations overlap, unless
\* a kill failed (frida-android-integration.ts:269-305, frida-android-interceptor.ts:92-116).
\* A server that comes up after its launch has ended is known to deactivateAll, unless the
\* launch timed out (frida-android-interceptor.ts:66-73).
FridaLeavesNothing ==
    /\ \A c \in Interception :
           hooking[c] \in {"done", "failed"} /\ c \notin unkilled => target[c] # "paused"
    /\ \A d \in StopApps : stopApps[d] = "done" => \A c \in toStop[d] \ unkilled : target[c] = "dead"
    /\ \A l \in ServerLaunch : fridaServer[l] \in {"starting", "up"} /\ launching[l] = "done" => l \in fridaServers
=============================================================================
