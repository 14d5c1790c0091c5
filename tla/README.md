# TLA+ models of httptoolkit-server

This directory holds TLA+ modules of the parts of httptoolkit-server whose
correctness depends on the order in which things happen, the TLC configurations
that check them on small instances, and theorems about them that TLAPS checks
for all values of the constants. `PROJECT.json` maps every definition to the
lines of code it models and lists runs, theorems, known disagreements between
code and comments (`findings`), and everything that is hard to test
(`hazards`).

The server is a single Node process, and so is the lab add-on beside it. All
concurrency inside one is cooperative: a handler runs without interruption up to
its next `await`, and anything may happen before it goes on. **One action of a
module is therefore one callback: all that is run between two awaits.** Two
requests that await different answers are interleaved in every order.

Run everything inside this directory:

    tlc -workers 2 -config UiBridgeSafety.cfg MCUiBridge.tla
    tlapm UiBridgeProofs.tla

## 1. Inventory

| component | state | operations | interacts with | what is hard |
|---|---|---|---|---|
| UI operation bridge (`src/src/api/ui-operation-bridge.ts`) | channels in connection order, their auth state, operations and buffered operations, requests in flight | WebSocket open, message, close; auth with an asynchronous JWT validation; list, execute, time out | UI over WebSockets, `ctl` and `mcp` over the local API | stale validations, fail over between channels, state used after the body was read |
| Background services and shutdown (`index.ts`, `shutdown.ts`) | number of mock sessions, two-stage idle timer, shutdown handlers | session started and stopping, the two timers, `shutdown()` | admin server of mockttp, Docker services, web extension, live export | a count kept by events, timers that overlap sessions, handlers that hang |
| MCP server (`commands/mcp.ts`, `api/bridge-client.ts`) | cached operations, key of the last poll, launch in progress | tools/list, tools/call, `start_httptoolkit`, poll every 5 s | bridge over the local API, MCP client over stdio | concurrent refreshes, notifications that overtake answers, a cache that changes without its key |
| Docker tunnel (`interceptors/docker/docker-tunnel-proxy.ts`) | container in Docker, mutex, ongoing check, port cache | ensure running, query and refresh the port, update networks, stop | Docker engine, network monitor, rule parameters | promises in caches, a kill outside the lock, failures |
| Docker network monitor, DNS (`docker-networking.ts`, `dns-server.ts`) | monitor per port, aliases per network, hosts | start, stop, Docker events, refresh all | Docker event stream, tunnel, DNS server | check, await, register; answers out of order |
| Docker interception services (`docker-interception-services.ts`, `docker-interceptor.ts`, `docker-data-injection.ts`) | rule parameters, pending deletions, volume promise | start, ensure, stop, delete all, inject data | background services, shutdown, API proxy | deactivation against activation, cached failures, half-written volume |
| Docker API proxy and builds (`docker-proxy.ts`, `docker-commands.ts`, ...) | one proxy per port | rewrite create, start, build | Docker clients and engine | cached failure |
| Android proxy sessions (`src/src/automation`) | registry of sessions by port | prepare a session, apply bootstrap rules | admin server, lab add-on | stale entries, a session lost after a failure |
| Lab add-on: session, automation, `server.ts` | latest session, health records | start, stop, start headless on Android, health | admin server, adb, activation bridge | overlapping starts and stops, giving up on a bridge that goes on |
| Lab add-on: headless processes | latest process, health | start, stop, recover | child processes | overlapping starts and stops |
| Lab add-on: Android network safety | none; the device's proxy and VPN settings | inspect, rescue | adb | a rescue of which some commands fail |
| Export (`live-export-addon-bridge.ts`, lab `export`, `qidian`) | requests without response, lazily made sink and service, JSONL file | track, post, ingest, match, append | mock server's events | posts that time out, a service made around an await |
| Browser, terminal, JVM, Electron interceptors | processes by port, shell scripts | activate, deactivate, deactivate all | API model, processes | state read before the awaits of an activation |
| Android and iOS interceptors (adb, Frida) | tunnels, cached Frida sessions, device lists | activate, deactivate, keep tunnels | adb, Frida | ticks in flight, check, await, cache |
| API server and model | none | routes, `withFallback` time outs | all interceptors | late answers are dropped |
| `ctl`, `start` commands; HTTP client; web extension; certificates; small servers; utilities; migration status | little or none | one request or file at a time | | I/O |

What makes each of them correct:

* **bridge**: operations are exposed only from channels that gave the token; the
  newest auth message decides about the account; every request sent is answered
  once, by the channel it was sent to, and the tier rules hold when it is sent;
  who follows the events knows whether the bridge is ready.
* **background services**: the server never stops while it is used, stops after
  the delay when it no longer is, and a shutdown ends.
* **MCP**: the cache follows the bridge; the client is told when its list is out
  of date; every call ends.
* **Docker tunnel**: the mutex is passed on; no failure stays in a cache; the
  cached port becomes the container's; the tunnel is on the wanted networks.
* **monitor, services**: one monitor per port; a destroyed network stays
  destroyed; a stop leaves nothing of its session and takes nothing of the next.
* **Android sessions, lab add-on**: a session that is handed out runs; no session
  or process is started and forgotten.
* **interceptors**: what is listed as active runs, and what runs is listed until
  it has ended; what they change on the user's machine or device is changed back,
  and taken for done only when it was done.
* **API**: a query is answered in time whatever the interceptors do; a stream ends
  once, and nothing is fetched for a client that has left.

## 2. Modules

| module | models | runs |
|---|---|---|
| `UiBridge` | the UI operation bridge | `MCUiBridge` with `UiBridgeSafety.cfg`, `UiBridgeBroker.cfg` |
| `SessionBroker` | abstract specification of what the bridge promises its clients | through `UiBridge`'s `ImplementsBroker` |
| `BackgroundServices` | `manageBackgroundServices` and `shutdown()` | `MCBackgroundServices` with `BackgroundServices.cfg` |
| `McpTools` | the MCP server and its client | `MCMcpTools` with `McpTools.cfg` |
| `DockerTunnel` | the tunnel container of one proxy port | `MCDockerTunnel` with `DockerTunnel.cfg`, `DockerNetworks.cfg` |
| `AndroidStart` | an Android capture's start: the add-on's `startHeadless` and session, the bridge's route, registry and rules | `MCAndroidStart` with `AndroidStart.cfg`, `AndroidPorts.cfg` |
| `DockerEngine` | external: Docker's containers, networks, volume and event stream, and its user | `MCDockerServices` with `DockerServices.cfg`, `DockerDeadStream.cfg` |
| `DockerMonitor` | the network monitors, their event stream and the DNS server | the same |
| `DockerVolume` | the injection volume and its promise | the same |
| `DockerServices` | starts and stops of Docker interception, the API proxy, clients' requests, deletions; composes the three above | the same |
| `ShellScripts` | terminals, and the sections in shell startup scripts | `MCInterceptors` with `Interceptors.cfg` |
| `ExistingTerminal` | the servers of the set up commands | the same |
| `FreshChromium`, `ExistingChromium` | a Chromium with its own profile; the user's one, restarted | the same |
| `FreshFirefox` | Firefox, the set up of its profile, its certificate check | the same |
| `ElectronApps`, `JvmAttach` | debugged applications; attached JVMs and their watchers | the same |
| `AdbTunnel`, `AndroidApp` | persistent reverse tunnels; the Android app, its APKs and VPN | the same |
| `SystemCerts` | the script that injects the system certificate | the same, and alone with `ExistingCerts.cfg` |
| `FridaSessions`, `FridaApps` | cached sessions; Frida's server, and the apps it starts | the same |
| `HeadlessControl`, `ConnectionHealth` | the lab add-on's headless process; its connection health | the same |
| `NetworkSafety` | inspections and rescues of a device's network settings | the same |
| `LiveExport` | the bridge that exports exchanges, and the add-on's route and file for them | the same |
| `DockerBuild`, `ContainerConfig` | a build's Dockerfile and output; a container's configuration | the same |
| `ArrayFilter` | the filter of an array, which both of them apply | through them |
| `ApiModel`, `ClientSend` | the API's queries and commands; `client/send` with the HTTP client | the same |
| `UiBridgeProofs`, `BackgroundServicesProofs`, `McpToolsProofs`, `DockerTunnelProofs`, `AndroidStartProofs`, `DockerServicesProofs` | proofs about the modules they are named after | |
| `RewriteProofs` | proofs about `ShellScripts`, `DockerBuild` and `ContainerConfig` | |
| `InterceptorProofs` | proofs about the other interceptors, the services of the lab add-on, `ApiModel` and `ClientSend`, and their composition in `MCInterceptors` | |

A definition whose name ends in `_Mut` is not part of a model. It is the
definition that follows it (or the one `PROJECT.json` names) with a plausible
bug; replacing one by the other must make TLC find the listed property violated,
which shows that the property depends on the code. `PROJECT.json` names one for
each property of each run. A property that is a conjunction over several modules
has more of them: each module keeps the mutant that breaks its own conjunct, and
TLC finds these as well when they are put in place by hand.

### UiBridge

`channels`, `ws`, `operations`, `pendingOps`, `user`, `authenticated`, `authSeq`
are the fields of a channel and of the bridge. `validating` is the set of JWT
validations that are awaited, each with the number of the auth message that
started it (`seq` in `handleAuth`). `phase`, `sentTo` and `code` follow each
`POST /api/execute`: new, reading its body (the await of `handleApiExecute`),
sent, done. `heard`, `tokenShown`, `exposed` and `intent` are history variables:
what a listener read at the last event, who gave the token, whose operations
were shown or run, and what each channel asked last.

Actions: `Connect` (`setWebSocket`), `OperationsMessage`, `AuthMessage`,
`ValidationSucceeds`, `ValidationFails` (`handleAuth`), `Response`,
`ChannelClose`, `RequestTimeout`, `ApiExecute`, `BodyRead`, `BodyFails`,
`ListOperations`, `Destroy`, and `PeerCloses` for the environment. A JWT is
abstracted to the account that its validation yields, an operation list to the
operations' names and whether each is free.

### SessionBroker

The bridge as its clients see it: one current session, and requests that are
refused, or handed to that session once and settled once; when the current
session changes, everything it was asked fails. `UiBridge` implements it under
the mapping `current <- CurrentSession` and `job <- JobOf`, checked by TLC in
`ui_bridge_broker` and proved as `BrokerImplemented`.

### BackgroundServices

`session` is the admin server's truth; `activeSessions`, `serving` and `timer`
are what the event handlers keep. Time passes in minutes (`Minute`), which must
not pass a timer that is due. `shutdownCalls` and `unsettled` follow each call of
`shutdown()`, which runs all handlers and races them with three seconds (`Exit`).
`idle` counts the minutes without a session, up to `Horizon`.

### McpTools

The bridge is an environment with `ready` and `ops`. Every refresh of the cache
(initial, poll, each launch) is asked, answered with what the bridge offers then,
and applied later, so that answers can be applied out of order. `launch[c]` is
the await at which a call of `start_httptoolkit` is. `client` is the MCP client:
what it holds, and whether it was told to list again.

### DockerTunnel

`tunnel` is the container in Docker; `lock` is `containerMutex` as the queue of
those who asked for it; `ensure` is the one ongoing `ensureDockerTunnelRunning`
(with what it inspected); `refresh[j]` are runs of `refreshDockerTunnelPortCache`;
`cache` is `portCache`: a promise of a refresh, a port, or nothing; `update[u]`
are calls of `updateDockerTunnelledNetworks`, whose inspection is made before the
lock. Docker and its user are the environment: a container disappears
(`AutoRemove`), loses its mapping, or a request fails; `MaxFaults` bounds all of
them. Ports come from the set `Port`, and a restart may map any of them.

### AndroidStart

Two processes ask one admin server for mock sessions. `lab[c]` is the add-on's
handler of the call `c`: an `Attempt` (`startHeadless`), a `Start` or a `Stop`
(the two session routes); `latest` is `latestSession` together with its state.
`bridge[a]` is the server's handler of the request that attempt `a` sent through
`tryOfficialBridge`, `registry` is `activeSessionRegistry`, `rules[s]` how many of
the three bootstrap rules session `s` has. `server`, `created`, `portOf` and
`owner` are the admin server's; what it does and what its caller does next are
two actions, such as `AdminStarts` and `SessionStarted`, because the answer
travels between processes. `ended`, `lastFailed` and `overlap` are history.

The bridge is asked first. Its success means that the add-on starts no session;
a 409 is a failed activation that starts one all the same; a 500, a missing
bridge, or five seconds without an answer (`AbortBridge`) mean adb. The bridge's
handler goes on after that. A failed attempt stops the latest session if it was
given one, also if another call started it.

Left out, because no step of the code leads there: the branches of
`prepareAndroidProxySession` without configuration or certificate (`getConfig` in
`api-model.ts`, with a fall back for each of its parts, always has both), its
`existing` mode (the default one returns nothing), an activation of `android-adb`
that answers without success (it resolves or rejects), and
`ensureAndroidBootstrapRules` of the add-on, which nothing calls. Of
`AutomationHealthStore` only `lastFailure` is kept.

### DockerEngine, DockerMonitor, DockerVolume, DockerServices

`DockerEngine` is the environment: `networks`, `attached`, `container`, `volume`
and `wire`, the events that were sent and not yet received. `left` is the scenario
that a behaviour explores, see the bounds. `DockerMonitor` names a monitor after
the call that created it: `call` is the await at which a call of
`monitorDockerNetworkAliases` is, `registered` is `dockerNetworkMonitors`,
`monitor[m].targets` its `networkTargets`, `query` the calls of
`getNetworkAliases` that are awaited, and `refresh` is `refreshAllNetworks`.
`monitor[m].stream` is the event stream that the call was given before it awaited the
DNS server, and to which it listens after, whatever has become of the stream.
`DockerVolume` has `setup`, the one `volumeSetupPromise`, with its steps in order
and those of the clean up. An inspection that fails stands for a volume that is not
there, one that a container has is not removed, and a container may be given the name of
a volume that is not there, which Docker then makes, empty. `halfMade` marks a volume
that a server labelled, and died before it was written; the next process looks only at
the label. `DockerServices` extends both: `rule`, `proxyMap` and `pending` are
`ruleParameters`, `DOCKER_PROXY_MAP` and `pendingDeactivations`, `session[s]` is a
session's lifetime, `deletion[d]` a call of `deleteAllInterceptedDockerData` (of a session's
stop, of shutdown, or of the interceptor's `deactivate`), and
`request[r]` a client's create or start through the proxy, or an activation of
`docker-attach`. Every start makes the calls that
`startDockerInterceptionServices` makes, in its order and without an await between
them. A request may find Docker unavailable, which is a 504 (`ClientRefused`), and a deletion
may be rejected because the tunnel was not stopped, while the rest of it goes on
(`TunnelNotStopped`). The tunnel keeps its own module.

### The interceptors

Each is one module. Its calls are constants, a function such as `opening` or
`attach` holds the await at which each call is, the tables of active processes are
named as in the code, and the processes themselves are the environment, which
ends them at any time. History variables mark what the code cannot be blamed for
(such as `overlapped`, `disturbed`, `interfered`, `outlived`), and each property
says which of them it excepts; every exception was met in a counterexample first. Where
a comment of the code says otherwise, what it says is a definition of its own, which TLC
refutes (see Violations).

* `ShellScripts`: a file is a sequence of lines, a line a sequence of parts, so
  that `Strip` takes sections away by their markers as the code does, one in each round
  of its loop (`RemoveSection`). Reading, the temporary file and the
  rename are three steps, between which the user or another reset may write.
* `ExistingTerminal`: `servers` is the entry of the port, and `server[a]` whether a
  server listens; the entry is deleted after the stop of the server.
* `FreshChromium`: the launcher's cached promise, and the launcher process that ends at
  once when a window of an open browser is asked for, of the same port or another. A clean
  up (`cleaning`) looks for active browsers once, a second after one has closed; the
  deletion of the profile (`deleting`) and the second attempt, another second after a
  failure, run whatever was opened since.
* `ExistingChromium`: the restart of the user's browser, which needs a
  confirmation, and whose close is awaited.
* `FreshFirefox`: set up, certutil, certificate check, clean up, and the deletions of the
  profile that nothing waits for (`unwanted`).
* `ElectronApps`: the debugger's connection with its retries, the injection, and a
  deactivation that asks, waits and kills.
* `JvmAttach`: pids are reused (`Generations`); `watchers` are the polls of
  `waitForExit`, and `listing` the calls that share `targetsPromise`.
* `AdbTunnel`: `attempts` counts the awaited ticks of an interval, which may end
  after it was cleared.
* `SystemCerts`: whether the certificate is there is checked first, and a check that fails
  counts as no. The script runs on the device line by line, also after the server
  has stopped waiting; certificates are the device's own, ours and an earlier one
  of ours.
* `AndroidApp`: the APKs in the folder, whole or corrupt, and the release;
  installation with its one retry; the intent that starts the VPN, which is sent up to
  eleven times, takes effect before it is answered and may fail all the same, and
  `deviceProxyMapping`, which gets the device only after one that succeeds (`MapDevice`).
* `FridaSessions`: the cache of one host, whose idle timer is a timer of the session.
* `FridaApps`: download and push of the server, its launch and late start, and
  spawned apps that get hooks, are resumed or killed.

### The API and the lab add-on

`ApiModel` gives each query the parts that it awaits together, each with the time
at which `withFallback` gives it up; the clock does not pass a due timer. The DNS
servers of `getConfig` are awaited inside of the arguments of its `Promise.all`,
whose first part has been started then, so both have the same deadline, as its
comment says ("in parallel", `api-model.ts:99`). The fingerprint and the tools come after
these and have no timer (`"untimed"`), so nothing is said of the time of a configuration
that awaits them. `ClientSend` is the stream of one request's events, up to its end, its
error or the client's close. An upstream that answers with 101, or to CONNECT, has no
listener in `http-client.ts:137-139`: its stream may never end.

`HeadlessControl` has one record, as the registry's `getLatest` has, and the
processes that are alive. `ConnectionHealth` follows polls of
`getConnectionHealth`, each of which reads the file and the records before it
awaits the bridge.

`NetworkSafety` keeps a device's settings as the set of those that are set. A report
of an inspection may have whatever was set at some time of it, since its reads are
concurrent, and may lack anything, since a read that fails is null. The commands of
a rescue are taken one at a time; one that fails is in the report as executed.
`LiveExport` follows an exchange through `requestsById`, the post and its time out,
and each request to ingest through the route's one await, the load of the targets, to an
append that may fail.
The sink and the service are made when they are first needed and lost when the
add-on restarts; the file stays. Targets are what they match.

`DockerBuild` and `ContainerConfig` are the two transformations
with state: the counters kept over a build's output, and a configuration that is
transformed again for another port. Their loops over commands and mounts are recursive
functions whose domain is the number of rounds, so that they can be reasoned about.

## 3. Runs

| run | question | bounds | result |
|---|---|---|---|
| `ui_bridge_safety` | can authentication, buffering, fail over and tiers be interleaved into an exposure, a revived account, a missed event or a request above its tier? | 2 channels (symmetric), 1 request, 2 auth messages per channel, lists with no, a free or a paid operation | holds, 1.2 million states |
| `ui_bridge_broker` | does the bridge implement the broker, and is everything answered? | 2 channels, 2 requests of two sources, no token | holds, 330 thousand states |
| `background_services` | does the server stop exactly when it has been left alone? | 3 sessions, delays of 1 and 2 minutes, horizon 5, 2 handlers | holds |
| `mcp_tools` | what does `list_changed` guarantee, and does every call end? | 1 launch of 2 rounds, 1 operation, 2 changes, 1 time out | holds, 190 thousand states |
| `docker_tunnel` | can overlapping checks, refreshes, updates and a stop leave a held lock, a cached failure or a stale port? | 2 refreshes, 1 update, 1 stop, 2 ports, 1 fault, 1 early inspection | holds, 210 thousand states |
| `docker_networks` | are the tunnel's networks those of the last change? | 2 updates, no faults | violated |
| `docker_services` | can starts, stops, clients' requests, deletions, events, failures and a crash leave something of a stopped session, a pending mark without a deletion, a wrong list of aliases or an unwritten volume? | 2 sessions and 2 requests (symmetric), 1 deletion of everything, 1 deactivation, 2 containers, 2 networks; 8 scenarios | holds, 770 thousand states |
| `docker_dead_stream` | is a monitor whose event stream is dead dropped, as its comment says? | the same | violated |
| `android_start` | can two starts on a port and a stop, in two processes, activate an unprepared session, lose the bridge's or, without overlap, the add-on's? | 2 attempts (symmetric), 1 stop, 1 port, 4 sessions, 1 end from outside | holds, 1.7 million states |
| `android_ports` | does the latest session run, and does an attempt end whatever becomes of the bridge? | 1 attempt, 1 start, 2 ports, 4 sessions, 1 other client's, 1 end | holds, 70 thousand states |
| `interceptors` | do the interceptors, the API and the services of the lab add-on keep what they promise, whatever calls, exits and failures overlap? | see below | holds, 870 thousand states |
| `existing_certs` | does a device keep its certificates when it is activated for two ports at a time? | 2 activations, 1 restart | violated |

Why the bounds are enough. Two channels are the least with a fail over, and the
bridge treats all but the first alike. Two auth messages are the least in which a
stale validation ends after a newer message. Two requests of different sources
are the least in which one settles and one is rejected by the same event. Three
sessions let two overlap and a third, without services, come later; delays of one
and two minutes let sessions come and go in each stage of the timer. Two changes
of the bridge take it away and bring it back, which is what a stale cache needs.
Two refreshes in flight are what a forced refresh and a query give; each may fail
or find the other's container. One port more than one is what a stale port needs.
Two attempts on one port, each of which can start a session in either process, are
the least with a registry that is reused, read again after EADDRINUSE, or
overwritten; `MaxSessions` is at least the number of starts that these callers can
make, so it never keeps one from starting. One end from outside is enough for a
stale handle, at any point of the other steps.

`docker_services` has too many parts to interleave all of them with each other at
once. A scenario names the parts that are prompt: what they await is answered, in
a fixed order, before anything else happens (`Turn`). Each scenario leaves one or
two parts free to interleave with users, sessions and requests, and grants one
failure, one change of the networks or one crash; every part is free in one of
them. So a violation that needs three free parts, or two failures, is not
explored. A restart of the server is a crash at that point: what was awaited fails
and what was in Docker stays.

`interceptors` runs 20 modules that share no state. One run explores each of them
by itself: a behaviour picks a `subject`, and the variables of the others stay as
they are (`MCInterceptors`). So the states add up and do not multiply. Two calls on
one port, or on two where ports matter, and one or two deactivations are the least
in which one call overtakes another; `AdbTunnel` has three calls and two closes,
because a tick outlives two intervals; shells have five scenes, of which the first
lets two resets use one temporary file and one adds the user's lines; a fresh
Chromium is launched twice on one port, which is an open browser asked for a
window, and once on another, whose launch finds that browser too; a pid has two generations, the least for a reused one; a certificate
script may meet a restart and another script; the clock of `ConnectionHealth` stops
at 2 with all thresholds 0, so that each of them passes at its next minute, and
`MaxEvents` lets a start, a stop and a start follow each other; the API has one
request at a time, since its calls share only what is active, with different time
outs so that the longest is not the first; two rescues with three sets of options,
of the proxy and the VPN, of private DNS with an inspection after it, and a dry run, and one setting that others write (`DeviceWrites`); one
exchange and one other client's event, the least in which an event that persists
and one that does not meet at the load of the targets, whose file comes to match
nothing or everything, with one restart of the add-on (`AddonRestarts`).

CHECK_DEADLOCK is FALSE in every run because each system really stops: the bridge
when it is destroyed or its auth messages and requests are used up, the process
when it has exited, the MCP server when its input is closed, the tunnel's
environment, Docker's, the interceptors and the Android starts when the calls that
are explored were made.

**Fairness.** Weak fairness is assumed of what the code's timers and the event
loop guarantee: the 30 s time out of a request (`ui_bridge_broker`), minutes that
pass, due timers and the three seconds of `shutdown()` (`background_services`),
answers to the API client, which gives up by itself after 2 s, polls, and the
launch loop's delay (`mcp_tools`), Docker's answers and the mutex,
and that `ensureDockerTunnelRunning` is called again and again, as the comment on
`portCache` says (`docker_tunnel`). In `android_ports`, the admin server answers, adb
commands and polls have their time outs and the bridge is given up after 5 s;
nothing is assumed of the bridge's handler, whose activation has no time out.
No fairness is assumed of users, UIs, containers or failures. In `docker_tunnel`
the bound `MaxEarly` is an assumption of liveness too: two refreshes could restart
the container in turn for ever if each inspected it every time in the instant
between its creation and its start.

`docker_services` and `interceptors` check safety only: what may stay after the last
step (a section in a script, a paused app, a container) is stated of the states in
which nothing is under way, and so needs no fairness.

**Violations** (see `findings`): two updates of the tunnel's networks can overtake each
other on the way to the lock; a network monitor whose event stream fails to open, or dies
while the DNS server is awaited, is registered and stays; two certificate scripts on one
device share a directory, so that one can empty it before the other has moved the device's
certificates back.

TLC refutes more statements of comments, which have a definition and no run of their own.
To see a counterexample, put the definition in the place of the properties of the
configuration that is named.

| definition | comment | configuration | what happens |
|---|---|---|---|
| `InactiveServerStops` | `index.ts:124` | `BackgroundServices.cfg` | the idle timer is only set when a session stops, so a server that never had one runs on |
| `LaunchToolDisappears` | `mcp.ts:183` | `McpTools.cfg` | a launch's refresh replaces the cached operations behind the polls' key, so the client can keep `start_httptoolkit` |
| `OneMonitorRuns` | `docker-networking.ts:79` | `DockerServices.cfg` | two overlapping calls both find no monitor, before the await of the DNS server, and make one each |
| `SettledMonitorIsRight` | `docker-networking.ts:177` | `DockerServices.cfg` | the older of two answers about a network is used last and stays |
| `NamedVolumeExists` | `docker-data-injection.ts:23` | `DockerServices.cfg` | a request is given the volume's name when Docker was unavailable and no volume was looked for |
| `FoundVolumeIsWritten` | `docker-data-injection.ts:109` | `DockerServices.cfg` | a server dies between the creation of the volume and the write, and the next one takes it for complete |
| `NextTimeIsTried` | `docker-data-injection.ts:180` | `DockerServices.cfg` | a set up of the volume that failed once is returned to every later call |
| `OnlyLastDeletesProfile` | `chromium-based-interceptors.ts:144` | `Interceptors.cfg` | a browser that is opened while the last one's clean up runs, or waits to delete again, loses its profile |
| `WantedTunnelIsMaintained` | `adb-commands.ts:664` | `Interceptors.cfg` | a late failure of an interval that was closed takes the one that replaced it out of the table |
| `OpenShellsAreConfigured` | `terminal-scripts.ts:167` | `Interceptors.cfg` | a reset after the last close takes away the sections that another activation has just written |
| `OnlyOurLinesAreStripped` | `terminal-scripts.ts:256` | `Interceptors.cfg` | a line of the user right behind the end marker is taken away with the section |
| `FailureRecorded` | `MINIMAL_CORE_HOOK_ANDROID_ACTIVATION.md:399` | `AndroidStart.cfg` | an attempt that is rejected because its port is in use does not become `lastFailure` |

Two more are what a reader might expect rather than what a comment says, and do not hold
either. `TrackedCanBeAnswered` (`live-export-addon-bridge.ts:137`): a request whose client
leaves before the response stays in `requestsById`. `QuietReportIsClean`
(`android-network-safety.ts:299`): a read that fails counts as a setting that is not set,
and a rescue whose first command for private DNS failed leaves the mode "hostname" without
a host name, of which the report does not warn.

## 4. Proofs

TLAPS proves for all values of the constants, under the named assumptions of each
module. These are the types of the constants; that `None` and the like are not
members of the sets, and that sets of callers which stand for different kinds of
calls are disjoint (`ServicesAssumption`, `ExistingAssumption`,
`NetworkAssumption`); that `Network` and `ProxyKey` are finite (`EngineAssumption`,
`NetworkAssumption`); and that there is a newest release of the Android app and a
longest time out (`AppAssumption`, `ApiAssumption`), as there is of any finitely
many. Of what is rewritten they say that a Dockerfile is a sequence of `FROM`, `RUN` and
comments (`DockerBuildAssumption`), that `"none"` is no port (`ConfigAssumption`), and that
a shell has a script at least and the user's own lines are not our markers
(`ShellAssumption`); the scripts, lines, calls and Dockerfiles may be any.

* **UiBridge**: `IInv` is inductive. `PendingOnPrimary`, `ExposedAfterToken`,
  `LatestAuthWins` and `ListenerUpToDate` are not inductive alone. They need to
  know that an unauthenticated channel has no operations and no account
  (`ChannelAuthInv`), that a validation that is still current belongs to a channel
  whose last message was a token, and that only a channel whose token was checked
  has one (`ValidationInv`), and that a channel is listed once, so that removing
  the primary removes it (`ChannelsListedOnce`). The action property
  `SentWithinTier` and the refinement `ImplementsBroker` follow from `IInv`, the
  latter action by action.
* **BackgroundServices**: `IInv` is types and `Timing`: the count kept by the events
  is the number of sessions that run, a pending timer tells how long the server
  has been idle, and after a last stop one is pending. `IdleIsBounded` and
  `IdleShutdownIsEarned` follow.
* **McpTools**: `IInv` adds to `PolledListIsWatched` the same statement for a list
  that was read while the app is still looked for.
* **DockerTunnel**: `EnsureIsQueuedOnce` and `TypeOK` are inductive together: that
  the mutex has something to pass on when a check ends is a fact about its queue,
  which rests on lemmas about where `"ensure"` stands in a queue after an append
  and a tail. `CachedPromiseIsLive` is inductive on top.
* **AndroidStart**: `IInv` adds to `StartedIsRegistered` and `LatestRuns` who owns
  what. Sessions of the bridge end only from outside, because the add-on stops
  only sessions of its own (`SessionInv`, `LabInv`); handles in the registry or in
  a handler's hands are sessions of their port (`HandleInv`); a session has at
  least the rules that a handler has counted (`RulesInv`); and a session on its way
  to the add-on is in nobody else's hands (`LabInv`). That one session's handle is
  replaced only by that of a newer one or after it has ended is then a matter of a
  port having one listener. `ActivatedIsPrepared` follows from `IInv` at once.

  `SessionIsKept` needs the history: as long as no two calls have overlapped
  (`AloneInv`), at most one attempt, start or stop is at work, so that a session it
  was given is the latest or in its hands until it is noted.
* **DockerServices**: four invariants, one on top of the other.
  - `VolumeInv` gives `VolumesAreWritten`: unless a server has died and left a volume that
    is labelled and not written (`halfMade`), requests that
    build the volume are of the set up that runs or its clean up (`BuildingIsOfSetup`),
    a volume that is found is not an empty one (`FoundIsWritten`), and from its creation
    on each stage knows what the last one did (`StagesFollow`).
  - `DockerInv` gives `ServicesInv`: types of the engine, requests, monitors, queries
    and deletions, and `PendingIsLive`: a mark in `pendingDeactivations` stands for a
    deletion of that key that runs or has failed, by induction over who set it last.
    Queries have serial numbers up to a bound; that there is always a free one is the
    pigeonhole principle on `Network`, hence the assumption that it is finite.
  - `LeavesInv` gives `StopLeavesNothing`. A monitor that listens unregistered was not
    the only one (`LostIsNotAlone`), and the proxy in the map is there or has failed
    (`ProxyIsThere`). Unless sessions have overlapped, no deletion fails and no stop
    waits for a proxy (`NothingRefused`), the parameter is that of the one session that
    runs (`RunsAlone`), and once it was stopped, what is left is what its deletion still
    has to remove (`StopsCleanly`).
  - `QuietInv` gives `QuietMonitorIsRight`. Every step that changes a network's containers
    is told while the stream is open (`EngineTells`). A registered monitor that was not
    registered too early hears it, if the stream of its call is still the last one made
    (`StreamInv`); of another one nothing is said. So about each network whose last event or
    listing did not come during an earlier answer, either an event is still on its way,
    or the one answer that is awaited (`OneAnswer`) was asked of what Docker has
    (`AnswersRight`), or what was answered is what Docker has, in the targets or still
    in the answers of a refresh (`TargetsRight`). It needs that only what exists has and
    is on networks (`AttachedInv`), that what is announced of a network that is gone ends
    with its destruction (`WireInv`), that a refresh waits for the queries of what it has
    listed (`QueriesInv`), and that a lone monitor has published what it knows
    (`Published`). The first attempt failed for a container that is connected to networks
    after it was removed, which the model had allowed and `connectNetworks` does not.
* **InterceptorProofs**: one inductive invariant per module. For instance, while calls
  do not overlap, the registered server runs until the call that stops it
  (`ExistingInv`); a browser that has been handed over is the active one of its port,
  and its profile is there, as no deletion of it starts or is retried while a browser runs or
  is opened (`FreshInv`); unless attempts outlived their interval, only the registered one has
  attempts in flight (`TunnelInv`); an app is paused only as long as its call or a
  deactivation has still to resume or kill it (`FridaInv`); the parts that a query
  still awaits are due before its deadline (`ApiInv`, which needs what `Longest` returns
  for the sets it is applied to); the stream of a client that stays has ended exactly when its outgoing request
  has (`SendInv`). Of the lab add-on, `HeadlessInv` adds to `ProcessIsTracked` that what is
  being killed is the process of the record, until a start ends (`KillsTheLatest`);
  `HealthInv` relates each poll in flight to the records it has read (`GrowthIsOfRecords`,
  `FailuresAreReal`); `ExportInv` follows an event, which is posted once, to its outcome
  and the file, across restarts of the add-on, with whatever the targets' file has ever
  matched; and `NetworkInv` says of a rescue that what it was asked to clear is still in
  its plan or clear, if no command failed and nobody wrote it again. A step of the composition is for each of the modules a step or a
  stutter (`EachStep`), so that each module's theorem holds of `MCInterceptors`'
  `Spec`, where the run checks them: all nine invariants of that run are theorems.
* **RewriteProofs** gives `RewritesAreUndone`, in three parts. Files, environments and
  outputs are sequences of any length, so each part first shows what a loop over them
  computes. The library's induction theorems cannot be instantiated here, so induction is
  over sets: a set of numbers that has 0 and every successor of its members is `Nat`
  (`NatSetInduction`, from the well-foundedness of `<`), and from it a recursive function
  exists and obeys its equations (`RecursionDefines`; the least set of pairs that is closed
  under the recursion is a function). Each recursive definition of the models is an
  instance of it.
  - `ConfigOfLastPort`: Docker reads the last entry of a variable (`LookupIsLast`), so what
    is appended to an environment wins (`LookupOfBoth`). `ConfigInv` says that each value
    that is inherited or prepended to keeps one shape however often a container is
    intercepted, and of mounts that one is ours, since `Without` leaves none
    (`WithoutLacks`).
  - `BuildLooksRight`: `InjectionExpands` is the heart: what Docker executes is the original's
    steps with a section of four commands behind each `FROM`, for any Dockerfile, by
    induction from its end, as the code splices from its end. It yields which step of the
    original each executed one is (`Counts`). `BuildInv` relates Docker's position to the
    pipeline's: which output is hidden, what total it believes, and that it has shown as
    many steps as it counts, each as in the original (`BuildShape`). The proof of the
    pipeline needed that its cases exclude each other, which two cases of the model had not:
    an undetermined choice, of which TLC takes the first.
  - `ScriptsRestored`: in a text every start marker is followed by its end marker
    (`IsText`); a round of the loop keeps it one, and is two lines shorter
    (`SectionIsRemoved`), so that after as many rounds as lines none is left
    (`StripCleans`). `ShellInv` holds across all interleavings of activations, resets,
    timers and edits. A script with a section has a terminal that is open or closed less
    than 500 ms ago, or a reset that has not written the file yet (`ShellOwed`). A reset
    whose temporary file was moved by another one counts as done, as that other one has
    moved a clean file. While a terminal is open, each shell has a section, or an append or
    an edit to come, unless a reset came between (`ShellConfigures`, `ShellRaces`). And each
    line that the user has written is in the file, in the memory of each reset that is to
    write it, and in the temporary file, unless it is excused (`ShellKeeps`).

Only model-checked:

* all liveness (`SentIsAnswered`, `ShutdownCompletes`, `CacheConverges`, `CallsEnd`,
  `WaitsEnd`, `PortConverges`, `AttemptEnds`), because TLAPS cannot reason about
  fairness and ENABLED.

## 5. Plan

The modules of the plan are written, and every invariant and action property that a passing
run checks is a theorem, as is the refinement of `SessionBroker`. What is left of the plan is
breadth: the parts that section 6 lists.

## 6. Not modelled

Payloads, headers, certificates, formats and logging; the programs that
interceptors start and the scripts injected into them (`overrides/`);
`core-patches`, migration assets and build scripts, which are no part of the
running server; `prepareDockerTunnel`, which only pulls an image. Of the
interceptors: the environment variables of a terminal, the search for browsers,
terminals and Java, how macOS and Windows launch things, the list and the names of
Android devices. Of the API: access checks and the routes that read a constant. The
start-up sequence of `runHTK` and the update mutex. Of the export: the normalisation
of events, the routing of endpoints and the Qidian matcher, which are functions of
text.
`PROJECT.json` lists every component and the reason.
