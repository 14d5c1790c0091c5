--------------------------- MODULE MCInterceptors ---------------------------
(***************************************************************************)
(* The interceptors, the API in front of them and the services of the lab  *)
(* add-on for TLC. They share no state with each other, so one run         *)
(* explores them one at a time: each behaviour has a subject, and the      *)
(* others rest in one of their initial states.                             *)
(***************************************************************************)
EXTENDS ShellScripts, ExistingTerminal, FreshChromium, ExistingChromium, FreshFirefox, ElectronApps,
        JvmAttach, AdbTunnel, SystemCerts, AndroidApp, FridaSessions, FridaApps, HeadlessControl,
        ConnectionHealth, NetworkSafety, LiveExport, DockerBuild, ContainerConfig, ApiModel, ClientSend, TLC

CONSTANTS a1, a2, a3, b1, b2, b3, p1, p2

VARIABLE subject

MCOne == {a1}
MCTwo == {a1, a2}
MCThree == {a1, a2, a3}
MCOther == {b1}
MCOthers == {b1, b2}
MCLast == {b3}
MCPorts == {p1, p2}
MCFirstPort == {p1}
MCCallsTwo == a1 :> p1 @@ a2 :> p2
MCCallsOne == a1 :> p1 @@ a2 :> p1
MCCallsOther == b1 :> p1
MCCallsThree == a1 :> p1 @@ a2 :> p1 @@ a3 :> p2    \* two calls for one port and one for another
MCFridaApps == {a2, a3}
MCFridaStops == b1 :> MCPorts
MCLastOnIos == {a3}
MCFirst == {a1}
MCTimeout == a1 :> 1 @@ a2 :> 2
MCNumbers == {1, 2}
MCText == {"8000", "8001"}

MCGroup == {<<"profile">>, <<"zshenv", "zshrc">>}
MCForced == {<<"profile">>}
Scene(calls, shells, lines, all, stamps) ==
    [calls |-> calls, shells |-> shells, lines |-> lines, all |-> all, stamps |-> stamps]
MCShellScenario == {
    Scene({a1, a2}, MCForced, {}, FALSE, {1, 2}),
    Scene({a1, a2}, MCForced, {"u1"}, FALSE, {1}),
    Scene({a1, a2}, MCForced, {}, TRUE, {1}),
    Scene({a1}, MCForced, {"u1", "u2"}, FALSE, {1}),
    Scene({a1}, MCGroup, {}, FALSE, {1})
}

MCRescueOptions == {
    {"proxy", "vpn"},
    {"dns", "after"},
    {"proxy", "dryRun"}
}

MCDockerfile == {
    <<"FROM">>,
    <<"FROM", "RUN", "COMMENT", "FROM", "RUN">>,
    <<"COMMENT", "FROM", "FROM", "RUN", "RUN">>
}

Subject == {"shells", "terminals", "freshChromium", "existingChromium", "firefox", "electron", "jvm",
            "adbTunnel", "certificates", "androidApp", "fridaSessions", "fridaApps", "headless",
            "health", "networkSafety", "export", "build", "container", "api", "send"}

Rests(name, initially) == subject = name \/ initially

Init ==
    /\ subject \in Subject
    /\ ShellInit
    /\ Rests("shells", /\ scene = Scene({a1, a2}, MCForced, {}, FALSE, {1, 2}) /\ command = "none"
                       /\ script = [f \in Used |-> NoFile])
    /\ ExistingInit /\ FreshInit /\ ExistingChromiumInit /\ FirefoxInit /\ ElectronInit /\ JvmInit
    /\ TunnelInit
    /\ CertInit /\ Rests("certificates", system = {"own"} /\ apex = NoApex)
    /\ AppInit /\ Rests("androidApp", latest = None /\ apks = {} /\ ~isInstalled)
    /\ SessionInit
    /\ FridaInit /\ Rests("fridaApps", ~dependency /\ binary = "none")
    /\ HeadlessInit
    /\ Rests("headless", ~headlessConfig.command /\ ~headlessConfig.valid /\ ~canKill)
    /\ HealthInit
    /\ NetworkInit /\ Rests("networkSafety", deviceSettings = {})
    /\ ExportInit
    /\ Rests("export", ~bridgeConfig.enabled /\ ~bridgeConfig.persist /\ targetsFile = {})
    /\ BuildInit /\ Rests("build", dockerfile = <<"FROM">>)
    /\ ConfigInit /\ Rests("container", config.env = Inherited({}) /\ config.binds = <<>> /\ config.hash = <<>>)
    /\ ApiInit /\ SendInit

\* The variables of the other subjects stay as they are.
OnlySubjectMoves ==
    /\ UNCHANGED subject
    /\ IF subject = "shells" THEN TRUE ELSE UNCHANGED shellVars
    /\ IF subject = "terminals" THEN TRUE ELSE UNCHANGED existingVars
    /\ IF subject = "freshChromium" THEN TRUE ELSE UNCHANGED freshVars
    /\ IF subject = "existingChromium" THEN TRUE ELSE UNCHANGED existingChromiumVars
    /\ IF subject = "firefox" THEN TRUE ELSE UNCHANGED firefoxVars
    /\ IF subject = "electron" THEN TRUE ELSE UNCHANGED electronVars
    /\ IF subject = "jvm" THEN TRUE ELSE UNCHANGED jvmVars
    /\ IF subject = "adbTunnel" THEN TRUE ELSE UNCHANGED tunnelVars
    /\ IF subject = "certificates" THEN TRUE ELSE UNCHANGED certVars
    /\ IF subject = "androidApp" THEN TRUE ELSE UNCHANGED appVars
    /\ IF subject = "fridaSessions" THEN TRUE ELSE UNCHANGED sessionVars
    /\ IF subject = "fridaApps" THEN TRUE ELSE UNCHANGED fridaVars
    /\ IF subject = "headless" THEN TRUE ELSE UNCHANGED headlessVars
    /\ IF subject = "health" THEN TRUE ELSE UNCHANGED healthVars
    /\ IF subject = "networkSafety" THEN TRUE ELSE UNCHANGED networkVars
    /\ IF subject = "export" THEN TRUE ELSE UNCHANGED exportVars
    /\ IF subject = "build" THEN TRUE ELSE UNCHANGED buildVars
    /\ IF subject = "container" THEN TRUE ELSE UNCHANGED configVars
    /\ IF subject = "api" THEN TRUE ELSE UNCHANGED apiVars
    /\ IF subject = "send" THEN TRUE ELSE UNCHANGED sendVars

\* A step of the subject, and of nothing else.
Next ==
    \/ subject = "shells" /\ OnlySubjectMoves /\ ShellNext
    \/ subject = "terminals" /\ OnlySubjectMoves /\ ExistingNext
    \/ subject = "freshChromium" /\ OnlySubjectMoves /\ FreshNext
    \/ subject = "existingChromium" /\ OnlySubjectMoves /\ ExistingChromiumNext
    \/ subject = "firefox" /\ OnlySubjectMoves /\ FirefoxNext
    \/ subject = "electron" /\ OnlySubjectMoves /\ ElectronNext
    \/ subject = "jvm" /\ OnlySubjectMoves /\ JvmNext
    \/ subject = "adbTunnel" /\ OnlySubjectMoves /\ TunnelNext
    \/ subject = "certificates" /\ OnlySubjectMoves /\ CertNext
    \/ subject = "androidApp" /\ OnlySubjectMoves /\ AppNext
    \/ subject = "fridaSessions" /\ OnlySubjectMoves /\ SessionNext
    \/ subject = "fridaApps" /\ OnlySubjectMoves /\ FridaNext
    \/ subject = "headless" /\ OnlySubjectMoves /\ HeadlessNext
    \/ subject = "health" /\ OnlySubjectMoves /\ HealthNext
    \/ subject = "networkSafety" /\ OnlySubjectMoves /\ NetworkNext
    \/ subject = "export" /\ OnlySubjectMoves /\ ExportNext
    \/ subject = "build" /\ OnlySubjectMoves /\ BuildNext
    \/ subject = "container" /\ OnlySubjectMoves /\ ConfigNext
    \/ subject = "api" /\ OnlySubjectMoves /\ ApiNext
    \/ subject = "send" /\ OnlySubjectMoves /\ SendNext

allVars == <<subject, shellVars, existingVars, freshVars, existingChromiumVars, firefoxVars, electronVars, jvmVars, tunnelVars, certVars, appVars, sessionVars, fridaVars, headlessVars, healthVars, networkVars, exportVars, buildVars, configVars, apiVars, sendVars>>

Spec == Init /\ [][Next]_allVars

-----------------------------------------------------------------------------
\* Chromium: as long as calls and clean ups come one after the other, a browser that was launched
\* fresh is the active one of its port and keeps its profile; and the browser that was restarted
\* is the one that runs, unless a start, a close or another call came during a call
\* (chromium-based-interceptors.ts:75-310).
ChromiumIsTracked == BrowserIsTracked /\ OneInstanceIsIntercepted

\* Electron applications are known while a debugger is attached to them, and a JVM in the
\* table of the intercepted ones has a watcher, unless its pid is now of another user's process
\* (electron.ts:52-205, jvm.ts:120-360).
AppsAreTracked == ElectronIsTracked /\ JvmTableIsWatched

\* Android devices: a wanted tunnel has an interval, unless attempts of an earlier one outlived
\* it; between scripts that neither overlapped nor were interrupted the device trusts its own
\* certificates and ours; a VPN that runs is of a port that is mapped or that a call is still
\* about to map, and a corrupted APK of the folder is not installed twice, unless another call
\* came between (adb-commands.ts:230-696, fetch-apk.ts, android-adb-interceptor.ts:69-161).
DevicesArePrepared == TunnelIsMaintained /\ CertsAreInjected /\ DevicesAreReached

\* What Frida opens, starts or pauses on a device is closed, known or killed, unless two calls
\* opened a session each, a kill failed, or a launch timed out (frida-integration.ts:51-257 and
\* the integrations of Android and iOS).
FridaCleansUp == SessionsAreClosed /\ FridaLeavesNothing

\* The lab add-on knows the process that it has started, unless a start came while one ran or
\* was killed; says of a connection what the evidence shows, in polls that do not overlap and
\* that have seen the last start; clears no more of a device than it was asked to; and exports
\* what it says it did, once (headless-control-service.ts, connection-health-service.ts, android-network-safety.ts,
\* export-ingest-service.ts).
LabIsTruthful == ProcessIsTracked /\ HealthIsEvidence /\ RescueIsConservative /\ ExportIsExact

\* The API answers what has timers in time, and ends its streams unless a response switches
\* protocols (api-model.ts, rest-api.ts).
AnswersAreSound == QueriesAreTimely /\ StreamsAreClosed

\* What the server has written into something of the user's can be told from it: startup
\* scripts get back their own lines, but for those behind an end marker or written during a
\* rewrite, a build's output looks like the original's, unless a command prints something like a
\* step, and a container's configuration is of the last port only (terminal-scripts.ts,
\* docker-build-injection.ts, docker-commands.ts).
RewritesAreUndone == ScriptsAreRestored /\ BuildLooksOriginal /\ ConfigIsOfLastPort
=============================================================================
