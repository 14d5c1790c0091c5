------------------------- MODULE InterceptorProofs -------------------------
(***************************************************************************)
(* The interceptors, the API and the lab add-on: the invariants by which   *)
(* terminals, browsers, applications, JVMs and devices are known for what  *)
(* they are, of any number of calls, ports and processes. Each is proved   *)
(* of its component alone, and holds of all of them as no step of one      *)
(* moves another.                                                          *)
(***************************************************************************)
EXTENDS MCInterceptors, RewriteProofs, FiniteSetTheorems, SequenceTheorems, TLAPS

(***************************************************************************)
(* Existing terminals.                                                     *)
(***************************************************************************)

ExistingTypeOK ==
    /\ servers \in ShellCall \cup {NoServer}
    /\ server \in [ShellCall -> {"none", "starting", "up", "stopped"}]
    /\ isActive \in SUBSET ShellCall
    /\ opening \in [ShellCall -> {"new", "starting", "done", "failed"}]
    /\ given \in [ShellCall -> ShellCall \cup {NoServer}]
    /\ stopping \in [Stopping -> {"new", "done"} \cup ShellCall]
    /\ lastCall \in ShellCall \cup Stopping \cup {NoServer}
    /\ reported \in BOOLEAN /\ overlapped \in BOOLEAN

\* A server starts while the call that creates it does, and only one that has started is
\* given to a shell, or heard of.
ServersStart ==
    /\ \A a \in ShellCall : server[a] = "starting" <=> opening[a] = "starting"
    /\ \A a \in ShellCall : opening[a] = "new" => server[a] = "none"
    /\ servers # NoServer => server[servers] \in {"up", "stopped"}
    /\ \A a \in ShellCall : given[a] # NoServer => server[given[a]] \in {"up", "stopped"}
    /\ \A a \in isActive : server[a] \in {"up", "stopped"}

\* Without overlapping calls, the call that is under way is the last one; a server that runs
\* is the registered one, and the registered one runs until the call that stops it.
OneCallAtATime ==
    ~overlapped =>
        /\ \A a \in ShellCall : opening[a] = "starting" => lastCall = a /\ servers = NoServer
        /\ \A d \in Stopping : stopping[d] \in ShellCall => lastCall = d /\ servers = stopping[d]
        /\ \A a \in ShellCall : server[a] = "up" => servers = a
        /\ servers # NoServer =>
               \/ server[servers] = "up"
               \/ server[servers] = "stopped" /\ \E d \in Stopping : stopping[d] = servers
        /\ lastCall \in ShellCall /\ opening[lastCall] = "done" =>
               /\ servers # NoServer /\ given[lastCall] = servers
               /\ servers \in isActive => reported

ExistingInv == ExistingTypeOK /\ ServersStart /\ OneCallAtATime

LEMMA ExistingInitially == ExistingInit => ExistingInv
BY ExistingAssumption DEF ExistingInit, ExistingInv, ExistingTypeOK, ServersStart, OneCallAtATime

LEMMA ExistingReaches == ExistingInv => CommandsReachTheServer
<1> SUFFICES ASSUME ExistingInv, ~overlapped, ~InFlight
             PROVE  /\ lastCall \in ShellCall /\ opening[lastCall] = "done" =>
                           /\ given[lastCall] = servers /\ server[servers] = "up"
                           /\ servers \in isActive => reported
                    /\ {a \in ShellCall : server[a] = "up"} = {servers} \ {NoServer}
  BY DEF CommandsReachTheServer
<1>1. \A d \in Stopping : stopping[d] \notin ShellCall
  BY ExistingAssumption DEF InFlight
<1>2. servers # NoServer => server[servers] = "up"
  BY <1>1 DEF ExistingInv, ExistingTypeOK, OneCallAtATime
<1>3. \A a \in ShellCall : server[a] = "up" => servers = a
  BY DEF ExistingInv, OneCallAtATime
<1>4. {a \in ShellCall : server[a] = "up"} = {servers} \ {NoServer}
  BY <1>2, <1>3, ExistingAssumption DEF ExistingInv, ExistingTypeOK
<1>5. lastCall \in ShellCall /\ opening[lastCall] = "done" =>
          servers # NoServer /\ given[lastCall] = servers /\ (servers \in isActive => reported)
  BY DEF ExistingInv, OneCallAtATime
<1> QED BY <1>2, <1>4, <1>5

LEMMA ExistingStep == ExistingInv /\ [ExistingNext]_existingVars => ExistingInv'
<1> SUFFICES ASSUME ExistingInv, [ExistingNext]_existingVars PROVE ExistingInv'
  OBVIOUS
<1> USE ExistingAssumption DEF ExistingInv
<1>1. ASSUME NEW a \in ShellCall, ActivateExisting(a) PROVE ExistingInv'
  <2> USE <1>1 DEF ActivateExisting, Called
  <2>1. ExistingTypeOK'
    BY DEF ExistingTypeOK
  <2>2. ServersStart'
    <3>1. CASE servers = NoServer
      BY <3>1 DEF ExistingTypeOK, ServersStart
    <3>2. CASE servers # NoServer
      BY <3>2 DEF ExistingTypeOK, ServersStart
    <3> QED BY <3>1, <3>2
  <2>3. OneCallAtATime'
    <3>1. SUFFICES ASSUME ~overlapped, ~InFlight PROVE OneCallAtATime'
      BY DEF OneCallAtATime
    <3>2. \A d \in Stopping : stopping[d] \notin ShellCall
      BY <3>1 DEF InFlight
    <3>3. \A b \in ShellCall : opening[b] # "starting"
      BY <3>1 DEF InFlight
    <3> QED BY <3>1, <3>2, <3>3 DEF ExistingTypeOK, ServersStart, OneCallAtATime
  <2> QED BY <2>1, <2>2, <2>3
<1>2. ASSUME NEW a \in ShellCall, ServerStarted(a) PROVE ExistingInv'
  <2> USE <1>2 DEF ServerStarted
  <2>1. ExistingTypeOK'
    BY DEF ExistingTypeOK
  <2>2. ServersStart'
    BY DEF ExistingTypeOK, ServersStart
  <2>3. OneCallAtATime'
    BY DEF ExistingTypeOK, ServersStart, OneCallAtATime
  <2> QED BY <2>1, <2>2, <2>3
<1>3. ASSUME NEW a \in ShellCall, ServerFails(a) PROVE ExistingInv'
  BY <1>3 DEF ServerFails, ExistingTypeOK, ServersStart, OneCallAtATime
<1>4. ASSUME NEW a \in ShellCall, ShellReports(a) PROVE ExistingInv'
  BY <1>4 DEF ShellReports, ExistingTypeOK, ServersStart, OneCallAtATime
<1>5. ASSUME NEW d \in Stopping, DeactivateExisting(d) PROVE ExistingInv'
  <2> USE <1>5 DEF DeactivateExisting, Called
  <2>1. ExistingTypeOK'
    BY DEF ExistingTypeOK
  <2>2. ServersStart'
    BY DEF ExistingTypeOK, ServersStart
  <2>3. OneCallAtATime'
    <3>1. SUFFICES ASSUME ~overlapped, ~InFlight PROVE OneCallAtATime'
      BY DEF OneCallAtATime
    <3>2. \A e \in Stopping : stopping[e] \notin ShellCall
      BY <3>1 DEF InFlight
    <3>3. \A b \in ShellCall : opening[b] # "starting"
      BY <3>1 DEF InFlight
    <3> QED BY <3>1, <3>2, <3>3 DEF ExistingTypeOK, OneCallAtATime
  <2> QED BY <2>1, <2>2, <2>3
<1>6. ASSUME NEW d \in Stopping, ServerStops(d) PROVE ExistingInv'
  BY <1>6 DEF ServerStops, ExistingTypeOK, ServersStart, OneCallAtATime
<1>7. ASSUME NEW d \in Stopping, Deactivated(d) PROVE ExistingInv'
  BY <1>7 DEF Deactivated, ExistingTypeOK, ServersStart, OneCallAtATime
<1>8. CASE UNCHANGED existingVars
  BY <1>8 DEF existingVars, ExistingTypeOK, ServersStart, OneCallAtATime
<1> QED BY <1>1, <1>2, <1>3, <1>4, <1>5, <1>6, <1>7, <1>8 DEF ExistingNext

\* The user has the commands of a server that runs and that isActive looks at, and after a
\* deactivation nothing runs, whatever calls that do not overlap were made
\* (existing-terminal-interceptor.ts:70-79, :114, :121-126).
THEOREM CommandsReach == ExistingInit /\ [][ExistingNext]_existingVars => []CommandsReachTheServer
BY ExistingInitially, ExistingStep, ExistingReaches, PTL

(***************************************************************************)
(* Fresh Chromium browsers.                                                *)
(***************************************************************************)

LauncherOK ==
    /\ launcher \in [state : {"none", "pending", "ready", "failed"}, reloaded : BOOLEAN]
    /\ launcher.state = "failed" => launcher.reloaded

FreshTypeOK ==
    /\ activeBrowsers \in [ProxyPort -> Launch \cup {NoBrowser}]
    /\ launch \in [Launch -> {"new", "server", "details", "launch", "loading", "done", "failed"}]
    /\ process \in [Launch -> {"none", "main", "window", "closed"}]
    /\ already \in SUBSET Launch /\ handled \in SUBSET Launch /\ cleaning \in SUBSET Launch
    /\ deleting \in SUBSET (Launch \X {1, 2})
    /\ disturbed \in BOOLEAN /\ profile \in BOOLEAN /\ stuck \in BOOLEAN

\* One process has the profile open; a call has one once it has launched it.
OneMain ==
    /\ \A j, k \in Main : j = k
    /\ \A k \in Launch : process[k] # "none" => launch[k] \in {"loading", "done"}
    /\ \A k \in already : launch[k] # "new"

\* A call that found its port active asks that browser for a window; for one that did not, the
\* port stays free until it registers.
CallsFindBrowsers ==
    ~disturbed =>
        /\ \A j, k \in LaunchInFlight : j = k
        /\ \A k \in LaunchInFlight : k \in already => \E j \in Main : j # k
        /\ \A k \in LaunchInFlight : k \notin already => ~IsActive(PortOfCall[k])
        /\ \A k \in Main : launch[k] = "loading" => k \notin already

\* A browser is the active one of its port, once its call has registered it, and so is a process
\* that is listened to as long as it runs.
ActiveRuns ==
    ~disturbed =>
        /\ \A k \in Main \ LaunchInFlight : k \in handled
        /\ \A k \in handled : process[k] # "closed" => activeBrowsers[PortOfCall[k]] = k

\* The profile is there as long as the browser, and its clean up needs a table without entries
\* and that nothing starts meanwhile.
ProfileIsCleaned ==
    ~disturbed =>
        /\ Main # {} => profile
        /\ cleaning # {} \/ deleting # {} => LaunchInFlight = {}
        /\ deleting # {} => Main = {}
        /\ profile /\ ~stuck => Main # {} \/ cleaning # {} \/ deleting # {} \/ \E p \in ProxyPort : IsActive(p)

FreshInv ==
    LauncherOK /\ FreshTypeOK /\ OneMain /\ CallsFindBrowsers /\ ActiveRuns /\ ProfileIsCleaned

LEMMA FreshInitially == FreshInit => FreshInv
<1> SUFFICES ASSUME FreshInit PROVE FreshInv
  OBVIOUS
<1>1. LauncherOK
  BY DEF FreshInit, LauncherOK
<1>2. FreshTypeOK /\ OneMain
  BY DEF FreshInit, FreshTypeOK, OneMain, Main
<1>3. Main = {} /\ LaunchInFlight = {} /\ \A p \in ProxyPort : ~IsActive(p)
  BY DEF FreshInit, Main, LaunchInFlight, IsActive
<1>4. CallsFindBrowsers
  BY <1>3 DEF FreshInit, CallsFindBrowsers
<1>5. ActiveRuns /\ ProfileIsCleaned
  BY <1>3 DEF FreshInit, ActiveRuns, ProfileIsCleaned
<1> QED BY <1>1, <1>2, <1>4, <1>5 DEF FreshInv

LEMMA FreshTracks == FreshInv => BrowserIsTracked
<1> SUFFICES ASSUME FreshInv PROVE BrowserIsTracked
  OBVIOUS
<1>1. launcher.state = "failed" => launcher.reloaded
  BY DEF FreshInv, LauncherOK
<1>2. ASSUME ~disturbed, LaunchInFlight = {}, NEW k \in Main
      PROVE  activeBrowsers[PortOfCall[k]] = k
  <2>1. process[k] # "closed"
    BY <1>2 DEF Main
  <2> QED BY <1>2, <2>1 DEF FreshInv, ActiveRuns
<1>3. ASSUME ~disturbed, CleanUps = {} PROVE cleaning = {} /\ deleting = {}
  BY <1>3 DEF CleanUps
<1> QED BY <1>1, <1>2, <1>3 DEF FreshInv, ProfileIsCleaned, BrowserIsTracked

LEMMA FreshStep == FreshInv /\ [FreshNext]_freshVars => FreshInv'
<1> SUFFICES ASSUME FreshInv, [FreshNext]_freshVars PROVE FreshInv'
  OBVIOUS
<1> USE FreshAssumption DEF FreshInv, FreshTypeOK, OneMain, CallsFindBrowsers, ActiveRuns, ProfileIsCleaned,
            Main, LaunchInFlight, IsActive, KeepsBrowsers
<1>1. CASE LauncherReady
  BY <1>1 DEF LauncherReady, LauncherOK
<1>2. CASE LauncherFails
  <2> USE <1>2 DEF LauncherFails, LauncherOK
  <2>1. LauncherOK'
    OBVIOUS
  <2>2. FreshTypeOK'
    OBVIOUS
  <2>3. OneMain'
    OBVIOUS
  <2>4. CallsFindBrowsers'
    OBVIOUS
  <2>5. ActiveRuns'
    OBVIOUS
  <2>6. ProfileIsCleaned'
    OBVIOUS
  <2> HIDE DEF FreshTypeOK, OneMain, CallsFindBrowsers, ActiveRuns, ProfileIsCleaned
  <2> QED BY ONLY <2>1, <2>2, <2>3, <2>4, <2>5, <2>6 DEF FreshInv
<1>3. CASE Updated
  <2> USE <1>3 DEF Updated
  <2>1. LauncherOK'
    <3>1. CASE launcher' = [state |-> "pending", reloaded |-> TRUE]
      BY ONLY <3>1 DEF LauncherOK
    <3>2. CASE UNCHANGED launcher
      BY <3>2 DEF LauncherOK
    <3> QED BY <3>1, <3>2
  <2>2. FreshTypeOK'
    OBVIOUS
  <2>3. OneMain'
    OBVIOUS
  <2>4. CallsFindBrowsers'
    OBVIOUS
  <2>5. ActiveRuns'
    OBVIOUS
  <2>6. ProfileIsCleaned'
    OBVIOUS
  <2> HIDE DEF FreshTypeOK, OneMain, CallsFindBrowsers, ActiveRuns, ProfileIsCleaned
  <2> QED BY ONLY <2>1, <2>2, <2>3, <2>4, <2>5, <2>6 DEF FreshInv
<1>4. ASSUME NEW k \in Launch, StartLaunch(k) PROVE FreshInv'
  <2> USE <1>4 DEF StartLaunch
  <2>1. LauncherOK' /\ FreshTypeOK' /\ OneMain'
    BY DEF LauncherOK
  <2>2. Main' = Main /\ LaunchInFlight' = LaunchInFlight \cup {k}
    OBVIOUS
  <2>3. SUFFICES ASSUME ~disturbed' PROVE CallsFindBrowsers' /\ ActiveRuns' /\ ProfileIsCleaned'
    BY <2>1
  <2>4. /\ ~disturbed /\ LaunchInFlight = {} /\ cleaning = {} /\ deleting = {}
        /\ IsActive(PortOfCall[k]) => activeBrowsers[PortOfCall[k]] \in Main
    <3>1. disturbed' = \/ disturbed \/ LaunchInFlight # {} \/ CleanUps # {}
                       \/ IsActive(PortOfCall[k]) /\ activeBrowsers[PortOfCall[k]] \notin Main
      OBVIOUS
    <3> HIDE DEF Main, LaunchInFlight, IsActive
    <3> QED BY ONLY <2>3, <3>1 DEF CleanUps
  <2>5. k \notin Main
    OBVIOUS
  <2>6. CallsFindBrowsers'
    BY <2>2, <2>4, <2>5
  <2>7. ActiveRuns'
    BY <2>2, <2>4
  <2>8. ProfileIsCleaned'
    BY <2>2, <2>4
  <2> QED BY <2>6, <2>7, <2>8
<1>5. ASSUME NEW k \in Launch, WarningStarts(k) PROVE FreshInv'
  BY <1>5 DEF WarningStarts, GetLauncher, LauncherOK
<1>6. ASSUME NEW k \in Launch, DetailsKnown(k) PROVE FreshInv'
  BY <1>6 DEF DetailsKnown, LauncherOK
<1>7. ASSUME NEW k \in Launch, LaunchBrowser(k) PROVE FreshInv'
  BY <1>7 DEF LaunchBrowser, LauncherOK
<1>8. ASSUME NEW k \in Launch, PageLoaded(k) PROVE FreshInv'
  BY <1>8 DEF PageLoaded, LauncherOK
<1>9. ASSUME NEW k \in Launch, WarningStops(k) PROVE FreshInv'
  BY <1>9 DEF WarningStops, LauncherOK
<1>10. ASSUME NEW k \in Launch, ProcessCloses(k) PROVE FreshInv'
  <2> USE <1>10 DEF ProcessCloses, LauncherOK
  <2>1. LauncherOK'
    OBVIOUS
  <2>2. FreshTypeOK'
    OBVIOUS
  <2>3. OneMain'
    OBVIOUS
  <2>4. CallsFindBrowsers'
    OBVIOUS
  <2>5. ActiveRuns'
    OBVIOUS
  <2>6. ProfileIsCleaned'
    <3>1. CASE k \in Main /\ k \notin handled
      <4>1. disturbed'
        BY <3>1
      <4> QED BY <4>1
    <3>2. CASE k \in handled
      <4>1. SUFFICES ASSUME ~disturbed' PROVE ProfileIsCleaned'
        OBVIOUS
      <4>2. ~disturbed /\ LaunchInFlight = {} /\ LaunchInFlight' = {}
        <5>1. disturbed' = (disturbed \/ (k \in Main \cup handled /\ LaunchInFlight # {}))
          OBVIOUS
        <5>2. LaunchInFlight' = LaunchInFlight
          OBVIOUS
        <5> HIDE DEF Main, LaunchInFlight
        <5> QED BY ONLY <3>2, <4>1, <5>1, <5>2
      <4>3. Main' \subseteq Main /\ UNCHANGED <<deleting, profile, stuck>> /\ cleaning' # {}
        <5>1. Main' \subseteq Main
          BY ONLY <1>10 DEF ProcessCloses, Main
        <5>2. UNCHANGED <<deleting, profile, stuck>> /\ k \in cleaning'
          BY ONLY <1>10, <3>2 DEF ProcessCloses
        <5> QED BY ONLY <5>1, <5>2
      <4> HIDE DEF Main, LaunchInFlight
      <4> QED BY <4>2, <4>3
    <3>3. CASE k \notin Main /\ k \notin handled
      <4>1. Main' = Main /\ UNCHANGED <<activeBrowsers, launch, cleaning, deleting, profile, stuck>>
        BY <3>3
      <4>2. disturbed' = disturbed
        BY <3>3
      <4> HIDE DEF Main
      <4> QED BY <4>1, <4>2
    <3> QED BY <3>1, <3>2, <3>3
  <2> HIDE DEF FreshTypeOK, OneMain, CallsFindBrowsers, ActiveRuns, ProfileIsCleaned
  <2> QED BY ONLY <2>1, <2>2, <2>3, <2>4, <2>5, <2>6 DEF FreshInv
<1>11. ASSUME NEW k \in Launch, CleanUp(k) PROVE FreshInv'
  <2> USE <1>11 DEF CleanUp
  <2>1. LauncherOK'
    BY DEF LauncherOK
  <2>2. FreshTypeOK' /\ OneMain' /\ CallsFindBrowsers' /\ ActiveRuns'
    <3>1. profile' \in BOOLEAN /\ stuck' \in BOOLEAN
      OBVIOUS
    <3>2. UNCHANGED <<launcher, update, activeBrowsers, launch, already, warning, process, handled, disturbed>>
          /\ cleaning' \in SUBSET Launch /\ deleting' \in SUBSET (Launch \X {1, 2})
      OBVIOUS
    <3> QED BY <3>1, <3>2
  <2>3. SUFFICES ASSUME ~disturbed PROVE ProfileIsCleaned'
    BY <2>1, <2>2
  <2>4. LaunchInFlight = {}
    BY <2>3
  <2>5. UNCHANGED <<Main, LaunchInFlight, profile, stuck, disturbed>> /\ \A p \in ProxyPort : IsActive(p)' = IsActive(p)
    OBVIOUS
  <2>6. CASE \A p \in ProxyPort : ~IsActive(p)
    <3>1. Main = {}
      BY <2>3, <2>4, <2>6
    <3>2. deleting' # {}
      BY <2>6
    <3> HIDE DEF Main, LaunchInFlight, IsActive
    <3> QED BY <2>4, <2>5, <3>1, <3>2
  <2>7. CASE \E p \in ProxyPort : IsActive(p)
    <3>1. deleting' = deleting
      BY <2>7
    <3> HIDE DEF Main, LaunchInFlight, IsActive
    <3> QED BY <2>3, <2>4, <2>5, <2>7, <3>1
  <2> QED BY <2>6, <2>7
<1>12. ASSUME NEW k \in Launch, NEW n \in {1, 2}, DeleteFolder(k, n) PROVE FreshInv'
  <2> USE <1>12 DEF DeleteFolder
  <2>1. LauncherOK'
    BY DEF LauncherOK
  <2>2. UNCHANGED <<launcher, update, activeBrowsers, launch, already, warning, process, handled, cleaning, disturbed>>
        /\ profile' \in BOOLEAN /\ stuck' \in BOOLEAN /\ deleting' \in SUBSET (Launch \X {1, 2})
    <3>1. UNCHANGED <<launcher, update, activeBrowsers, launch, already, warning, process, handled, cleaning, disturbed>>
          /\ profile' \in {profile, FALSE} /\ stuck' \in {stuck, stuck \/ n = 2}
      BY ONLY <1>12 DEF DeleteFolder
    <3>2. deleting' \subseteq deleting \cup {<<k, 2>>}
      BY ONLY <1>12 DEF DeleteFolder
    <3>3. <<k, 2>> \in Launch \X {1, 2}
      OBVIOUS
    <3>4. profile \in BOOLEAN /\ stuck \in BOOLEAN /\ deleting \subseteq Launch \X {1, 2}
      OBVIOUS
    <3> QED BY ONLY <3>1, <3>2, <3>3, <3>4
  <2>3. FreshTypeOK' /\ OneMain' /\ CallsFindBrowsers' /\ ActiveRuns'
    BY <2>2
  <2>4. SUFFICES ASSUME ~disturbed PROVE ProfileIsCleaned'
    BY <2>1, <2>3
  <2>5. Main = {} /\ LaunchInFlight = {}
    BY <2>4
  <2>6. Main' = {} /\ LaunchInFlight' = {}
    BY <2>2, <2>5
  <2>7. profile' => profile /\ (stuck' \/ deleting' # {})
    <3>1. CASE profile' = FALSE
      BY ONLY <3>1
    <3>2. CASE n = 1 /\ deleting' = (deleting \ {<<k, n>>}) \cup {<<k, 2>>} /\ profile' = profile
      BY ONLY <3>2
    <3>3. CASE n = 2 /\ stuck' = (stuck \/ n = 2) /\ profile' = profile
      BY ONLY <3>3
    <3> QED BY ONLY <1>12, <3>1, <3>2, <3>3 DEF DeleteFolder
  <2> HIDE DEF Main, LaunchInFlight
  <2> QED BY ONLY <2>6, <2>7 DEF ProfileIsCleaned
<1>13. CASE UNCHANGED freshVars
  BY <1>13 DEF freshVars, LauncherOK
<1> HIDE DEF FreshInv
<1> QED BY ONLY FreshInv, [FreshNext]_freshVars, <1>1, <1>2, <1>3, <1>4, <1>5, <1>6, <1>7, <1>8, <1>9, <1>10, <1>11, <1>12, <1>13 DEF FreshNext

\* As long as calls do not overlap, no registered process closes during a call and no call starts
\* during a clean up or on a port whose entry is not a browser: a fresh Chromium browser that
\* runs is the active one of its port, and its profile is neither deleted under it nor left
\* behind, unless it could not be deleted (chromium-based-interceptors.ts:131-165,
\* browsers.ts:60-70).
THEOREM BrowserTracked == FreshInit /\ [][FreshNext]_freshVars => []BrowserIsTracked
BY FreshInitially, FreshStep, FreshTracks, PTL

(***************************************************************************)
(* The user's own Chromium browser.                                        *)
(***************************************************************************)

ExistingChromiumTypeOK ==
    /\ intercept \in [Intercept -> {"new", "list", "found", "exit", "launch", "loading", "done", "failed"}]
    /\ pid \in [Intercept -> Intercept \cup UserStart \cup {Nobody}]
    /\ running \in launched \cup {Nobody}
    /\ launched \in SUBSET (Intercept \cup UserStart)
    /\ interfered \in BOOLEAN
    /\ heard \in SUBSET Intercept

\* A call has started its browser, and others can have found that only later.
CallsLaunch ==
    /\ \A k \in Intercept : k \in launched <=> intercept[k] \in {"loading", "done"}
    /\ \A k \in Intercept : pid[k] \in launched \cup {Nobody}

\* A call that goes on to launch has seen that no browser runs, and nobody starts one.
CallsReplace ==
    ~interfered =>
        /\ \A j, k \in Intercepting : j = k
        /\ \A k \in Intercept :
               /\ intercept[k] \in {"found", "exit"} => running \in {pid[k], Nobody}
               /\ intercept[k] = "launch" => running = Nobody
               /\ intercept[k] = "loading" => running = k /\ \A j \in Intercept : pid[j] # k
        /\ windows \subseteq UserStart

ActiveBrowserRuns ==
    ~interfered =>
        /\ activeBrowser # Nobody => activeBrowser = running /\ activeBrowser \in heard
        /\ running \in Intercept => activeBrowser = running \/ intercept[running] = "loading"

ExistingChromiumInv == ExistingChromiumTypeOK /\ CallsLaunch /\ CallsReplace /\ ActiveBrowserRuns

LEMMA ExistingChromiumInitially == ExistingChromiumInit => ExistingChromiumInv
BY ExistingChromiumAssumption
   DEF ExistingChromiumInit, ExistingChromiumInv, ExistingChromiumTypeOK, CallsLaunch, CallsReplace,
       ActiveBrowserRuns, Intercepting

LEMMA ExistingChromiumStep ==
    ExistingChromiumInv /\ [ExistingChromiumNext]_existingChromiumVars => ExistingChromiumInv'
<1> SUFFICES ASSUME ExistingChromiumInv, [ExistingChromiumNext]_existingChromiumVars
             PROVE  ExistingChromiumInv'
  OBVIOUS
<1> USE ExistingChromiumAssumption
    DEF ExistingChromiumInv, ExistingChromiumTypeOK, CallsLaunch, CallsReplace, ActiveBrowserRuns,
        Intercepting, GoTo
<1>1. ASSUME NEW u \in UserStart, UserStarts(u) PROVE ExistingChromiumInv'
  <2> USE <1>1 DEF UserStarts
  <2>1. ExistingChromiumTypeOK'
    OBVIOUS
  <2>2. CallsLaunch'
    OBVIOUS
  <2>3. CallsReplace'
    <3>1. SUFFICES ASSUME ~interfered' PROVE CallsReplace'
      OBVIOUS
    <3>2. ~interfered /\ Intercepting = {}
      BY <3>1
    <3> QED BY <3>2
  <2>4. ActiveBrowserRuns'
    OBVIOUS
  <2> QED BY <2>1, <2>2, <2>3, <2>4
<1>2. ASSUME NEW c \in Intercept \cup UserStart, UserCloses(c) PROVE ExistingChromiumInv'
  <2> USE <1>2 DEF UserCloses, Exits
  <2>1. ExistingChromiumTypeOK'
    OBVIOUS
  <2>2. CallsLaunch'
    OBVIOUS
  <2>3. CallsReplace'
    OBVIOUS
  <2>4. ActiveBrowserRuns'
    OBVIOUS
  <2> QED BY <2>1, <2>2, <2>3, <2>4
<1>3. ASSUME NEW k \in Intercept, StartIntercept(k) PROVE ExistingChromiumInv'
  <2> USE <1>3 DEF StartIntercept
  <2>1. ExistingChromiumTypeOK'
    OBVIOUS
  <2>2. CallsLaunch'
    OBVIOUS
  <2>3. CallsReplace'
    BY ZenonT(40)
  <2>4. ActiveBrowserRuns'
    OBVIOUS
  <2> QED BY <2>1, <2>2, <2>3, <2>4
<1>4. ASSUME NEW k \in Intercept, ProcessesListed(k) PROVE ExistingChromiumInv'
  BY <1>4 DEF ProcessesListed, FindExistingPid
<1>5. ASSUME NEW k \in Intercept, CloseExisting(k) PROVE ExistingChromiumInv'
  BY <1>5 DEF CloseExisting
<1>6. ASSUME NEW k \in Intercept, KilledExits(k) PROVE ExistingChromiumInv'
  BY <1>6 DEF KilledExits, Exits
<1>7. ASSUME NEW k \in Intercept, ExitSeen(k) PROVE ExistingChromiumInv'
  BY <1>7 DEF ExitSeen
<1>8. ASSUME NEW k \in Intercept, ExitTimesOut(k) \/ LaunchFails(k) PROVE ExistingChromiumInv'
  BY <1>8 DEF ExitTimesOut, LaunchFails
<1>9. ASSUME NEW k \in Intercept, LaunchIntercepted(k) PROVE ExistingChromiumInv'
  BY <1>9 DEF LaunchIntercepted
<1>10. ASSUME NEW k \in Intercept, InterceptLoaded(k) PROVE ExistingChromiumInv'
  BY <1>10 DEF InterceptLoaded
<1>11. CASE UNCHANGED existingChromiumVars
  BY <1>11 DEF existingChromiumVars
<1> QED BY <1>1, <1>2, <1>3, <1>4, <1>5, <1>6, <1>7, <1>8, <1>9, <1>10, <1>11 DEF ExistingChromiumNext

\* A browser that was intercepted is the one that runs, and a user's own is never taken for it
\* (chromium-based-interceptors.ts:192-296).
THEOREM OneInstance ==
    ExistingChromiumInit /\ [][ExistingChromiumNext]_existingChromiumVars => []OneInstanceIsIntercepted
<1>1. ExistingChromiumInv => OneInstanceIsIntercepted
  BY DEF ExistingChromiumInv, ActiveBrowserRuns, OneInstanceIsIntercepted, Intercepting
<1> QED BY <1>1, ExistingChromiumInitially, ExistingChromiumStep, PTL

(***************************************************************************)
(* Firefox.                                                                *)
(***************************************************************************)

FirefoxStep == {"new", "skipped", "failed", "details", "prepare", "setup", "shown", "stopping", "certutil",
                "launch", "check", "done", "untrusted"}

FirefoxTypeOK ==
    /\ profileSetupBrowser \in Opening \cup {NoFirefox}
    /\ setupProcess \in [Opening -> {"none", "open", "closed"}]
    /\ setupAwaited \in [Opening -> Opening \cup {NoFirefox}]
    /\ activeFirefox \in [FirefoxPort -> Opening \cup {NoFirefox}]
    /\ openingAt \in [Opening -> FirefoxStep]
    /\ firefox \in [Opening -> {"none", "open", "tab", "closed"}]
    /\ certCheck \in [Opening -> {"none", "ok", "bad"}]
    /\ closedFirefox \in SUBSET Opening /\ unwanted \in SUBSET Opening
    /\ firefoxProfile \in {"none", "new", "trusted"}
    /\ lastOpening \in Opening \cup {NoFirefox}
    /\ overlap \in BOOLEAN /\ undeleted \in BOOLEAN

\* A call's own browser is launched at the end, and that of its set up in the middle of it.
ProcessesFollowCalls ==
    \A o \in Opening :
        /\ openingAt[o] \notin {"check", "done", "untrusted"} => firefox[o] = "none"
        /\ openingAt[o] \in {"new", "details", "prepare"} => setupProcess[o] = "none"
        /\ certCheck[o] # "none" => openingAt[o] \in {"done", "untrusted"}

\* Without overlapping calls there is one under way, the last; it set the browser of the set
\* up, and no other browser is open or being cleaned up but for one that it has launched.
OneOpeningAtATime ==
    ~overlap =>
        /\ \A o \in OpeningInFlight : lastOpening = o /\ closedFirefox = {} /\ unwanted = {}
        /\ \A o \in OpeningInFlight, b \in Opening : firefox[b] = "open" => b = o /\ openingAt[o] = "check"
        /\ \A o \in Opening : setupProcess[o] = "open" =>
               profileSetupBrowser = o /\ openingAt[o] \in {"setup", "shown", "stopping"}
        /\ profileSetupBrowser # NoFirefox => setupProcess[profileSetupBrowser] = "open"
        /\ \A o \in Opening : openingAt[o] = "stopping" => setupAwaited[o] = o

\* One browser is open, the active one, and its profile is there until it has closed and was
\* cleaned up; a check that it passed is of that profile.
ActiveFirefoxIsOpen ==
    ~overlap =>
        /\ \A o \in Opening : firefox[o] # "tab"
        /\ \A o, b \in Opening : firefox[o] = "open" /\ firefox[b] = "open" => o = b
        /\ \A o \in Opening : firefox[o] = "open" =>
               /\ activeFirefox[PortOfOpening[o]] = o /\ firefoxProfile # "none"
               /\ closedFirefox = {} /\ unwanted = {}
        /\ \A p \in FirefoxPort : activeFirefox[p] # NoFirefox =>
               firefox[activeFirefox[p]] = "open" /\ PortOfOpening[activeFirefox[p]] = p
        /\ \A o, b \in closedFirefox : o = b
        /\ closedFirefox # {} => unwanted = {}
        /\ \A o \in Opening : (firefox[o] = "open" \/ o \in closedFirefox) /\ certCheck[o] = "ok" =>
               firefoxProfile = "trusted"

\* A profile that is not trusted belongs to something that is under way, or that has failed.
UntrustedIsUnderWay ==
    ~overlap /\ ~undeleted /\ firefoxProfile = "new" =>
        \/ \E o \in Opening : \/ o \in OpeningInFlight \/ firefox[o] = "open"
                              \/ o \in closedFirefox \/ o \in unwanted
        \/ lastOpening \in Opening /\ openingAt[lastOpening] = "failed"

FirefoxInv ==
    FirefoxTypeOK /\ ProcessesFollowCalls /\ OneOpeningAtATime /\ ActiveFirefoxIsOpen /\ UntrustedIsUnderWay

LEMMA FirefoxInitially == FirefoxInit => FirefoxInv
<1> SUFFICES ASSUME FirefoxInit PROVE FirefoxInv
  OBVIOUS
<1>1. FirefoxTypeOK /\ ProcessesFollowCalls
  BY DEF FirefoxInit, FirefoxTypeOK, FirefoxStep, ProcessesFollowCalls
<1>2. OpeningInFlight = {}
  BY DEF FirefoxInit, OpeningInFlight
<1>3. OneOpeningAtATime /\ ActiveFirefoxIsOpen /\ UntrustedIsUnderWay
  BY <1>2 DEF FirefoxInit, OneOpeningAtATime, ActiveFirefoxIsOpen, UntrustedIsUnderWay
<1> QED BY <1>1, <1>3 DEF FirefoxInv

LEMMA FirefoxRecovering == FirefoxInv => FirefoxRecovers
<1> SUFFICES ASSUME FirefoxInv, ~overlap PROVE FirefoxRecovers
  BY DEF FirefoxRecovers
<1>1. {o \in Opening : firefox[o] = "open"} # {} => firefoxProfile # "none"
  BY DEF FirefoxInv, ActiveFirefoxIsOpen
<1>2. {o \in Opening : firefox[o] = "open"} =
      {activeFirefox[p] : p \in {q \in FirefoxPort : activeFirefox[q] # NoFirefox}}
  <2>1. \A o \in Opening : firefox[o] = "open" =>
            PortOfOpening[o] \in FirefoxPort /\ activeFirefox[PortOfOpening[o]] = o /\ o # NoFirefox
    BY FirefoxAssumption DEF FirefoxInv, ActiveFirefoxIsOpen
  <2>2. \A p \in FirefoxPort : activeFirefox[p] # NoFirefox =>
            activeFirefox[p] \in Opening /\ firefox[activeFirefox[p]] = "open"
    BY DEF FirefoxInv, FirefoxTypeOK, ActiveFirefoxIsOpen
  <2> QED BY <2>1, <2>2
<1>3. ASSUME OpeningInFlight \cup OpenFirefox \cup closedFirefox \cup unwanted = {}, ~undeleted
      PROVE  firefoxProfile \in {"none", "trusted"} \/ openingAt[lastOpening] = "failed"
  BY <1>3 DEF FirefoxInv, FirefoxTypeOK, UntrustedIsUnderWay, OpenFirefox
<1> QED BY <1>1, <1>2, <1>3 DEF FirefoxRecovers

LEMMA FirefoxSteps == FirefoxInv /\ [FirefoxNext]_firefoxVars => FirefoxInv'
<1> SUFFICES ASSUME FirefoxInv, [FirefoxNext]_firefoxVars PROVE FirefoxInv'
  OBVIOUS
<1> USE FirefoxAssumption
    DEF FirefoxInv, FirefoxTypeOK, FirefoxStep, ProcessesFollowCalls, OneOpeningAtATime, ActiveFirefoxIsOpen,
        UntrustedIsUnderWay, OpeningInFlight, OpeningGoesTo, KeepsProcesses, KeepsHistory
<1>1. ASSUME NEW o \in Opening, ActivateFirefox(o) PROVE FirefoxInv'
  BY <1>1 DEF ActivateFirefox
<1>2. ASSUME NEW o \in Opening, ProfileFound(o) PROVE FirefoxInv'
  BY <1>2 DEF ProfileFound
<1>3. ASSUME NEW o \in Opening, SetupStarts(o) PROVE FirefoxInv'
  BY <1>3 DEF SetupStarts
<1>4. ASSUME NEW o \in Opening, SetupFails(o) \/ CertutilFails(o) \/ LaunchFirefoxFails(o) PROVE FirefoxInv'
  BY <1>4 DEF SetupFails, CertutilFails, LaunchFirefoxFails
<1>5. ASSUME NEW o \in Opening, MessageShown(o) PROVE FirefoxInv'
  BY <1>5 DEF MessageShown
<1>6. ASSUME NEW o \in Opening, SetupCloses(o) PROVE FirefoxInv'
  <2> USE <1>6 DEF SetupCloses
  <2>1. FirefoxTypeOK'
    OBVIOUS
  <2>2. ProcessesFollowCalls'
    OBVIOUS
  <2>3. OneOpeningAtATime'
    OBVIOUS
  <2>4. ActiveFirefoxIsOpen'
    OBVIOUS
  <2>5. UntrustedIsUnderWay'
    OBVIOUS
  <2> QED BY <2>1, <2>2, <2>3, <2>4, <2>5
<1>7. ASSUME NEW o \in Opening, StopSetup(o) PROVE FirefoxInv'
  BY <1>7 DEF StopSetup
<1>8. ASSUME NEW o \in Opening, SetupStopped(o) PROVE FirefoxInv'
  BY <1>8 DEF SetupStopped
<1>9. ASSUME NEW o \in Opening, CertutilAdds(o) PROVE FirefoxInv'
  BY <1>9 DEF CertutilAdds
<1>10. ASSUME NEW o \in Opening, LaunchFirefox(o) PROVE FirefoxInv'
  BY <1>10 DEF LaunchFirefox, OpenFirefox
<1>11. ASSUME NEW o \in Opening, CheckAnswered(o) PROVE FirefoxInv'
  BY <1>11 DEF CheckAnswered, OpenFirefox
<1>12. ASSUME NEW o \in Opening, FirefoxCloses(o) PROVE FirefoxInv'
  BY <1>12 DEF FirefoxCloses
<1>13. ASSUME NEW o \in Opening, FirefoxCleanUp(o) PROVE FirefoxInv'
  <2> USE <1>13 DEF FirefoxCleanUp
  <2>1. FirefoxTypeOK'
    OBVIOUS
  <2>2. ProcessesFollowCalls'
    OBVIOUS
  <2>3. OneOpeningAtATime'
    OBVIOUS
  <2>4. ActiveFirefoxIsOpen'
    OBVIOUS
  <2>5. UntrustedIsUnderWay'
    OBVIOUS
  <2> QED BY <2>1, <2>2, <2>3, <2>4, <2>5
<1>14. ASSUME NEW o \in Opening, DeleteProfile(o) PROVE FirefoxInv'
  <2> USE <1>14 DEF DeleteProfile
  <2>1. FirefoxTypeOK'
    OBVIOUS
  <2>2. ProcessesFollowCalls'
    OBVIOUS
  <2>3. OneOpeningAtATime'
    OBVIOUS
  <2>4. ActiveFirefoxIsOpen'
    OBVIOUS
  <2>5. UntrustedIsUnderWay'
    OBVIOUS
  <2> QED BY <2>1, <2>2, <2>3, <2>4, <2>5
<1>15. CASE UNCHANGED firefoxVars
  BY <1>15 DEF firefoxVars
<1> HIDE DEF FirefoxInv
<1> QED BY ONLY FirefoxInv, [FirefoxNext]_firefoxVars, <1>1, <1>2, <1>3, <1>4, <1>5, <1>6, <1>7, <1>8, <1>9, <1>10, <1>11,
                <1>12, <1>13, <1>14, <1>15
        DEF FirefoxNext, SetupStep

\* As long as calls, clean ups and other ports' browsers do not overlap: a Firefox that runs is
\* the active one, with its profile, and at rest a profile that is not trusted is left only by a
\* latest call that failed or a deletion that failed (fresh-firefox.ts:193-311).
THEOREM FirefoxRecovered == FirefoxInit /\ [][FirefoxNext]_firefoxVars => []FirefoxRecovers
BY FirefoxInitially, FirefoxSteps, FirefoxRecovering, PTL

(***************************************************************************)
(* Electron applications.                                                  *)
(***************************************************************************)

ElectronTypeOK ==
    /\ app \in [App -> {"none", "running", "ended"}]
    /\ appCall \in [App -> {"new", "connect", "enable", "paused", "done", "failed"}]
    /\ client \in [App -> {"none", "open", "closed"}]
    /\ debugClients \in SUBSET App
    /\ closing \in [Closing -> [App -> {"none", "pid", "term", "exit", "done"}]]

\* A client is open while the application runs, and closed when it has ended; a client that
\* a deactivation has found was open, and the call that has injected it had one.
ClientsFollow ==
    /\ \A a \in App : a \in debugClients <=> client[a] = "open"
    /\ \A a \in App : client[a] = "open" => app[a] = "running"
    /\ \A a \in App : client[a] = "closed" => app[a] = "ended"
    /\ \A a \in App : appCall[a] = "new" => app[a] = "none"
    /\ \A a \in App : appCall[a] \in {"enable", "paused", "done"} => client[a] # "none"
    /\ \A a \in App : appCall[a] = "done" => a \in injected
    /\ \A d \in Closing, a \in App : closing[d][a] # "none" => client[a] # "none"
    /\ \A d \in Closing, a \in App : closing[d][a] = "done" => app[a] = "ended"

ElectronInv == ElectronTypeOK /\ ClientsFollow

LEMMA ElectronInitially == ElectronInit => ElectronInv
BY DEF ElectronInit, ElectronInv, ElectronTypeOK, ClientsFollow

LEMMA ElectronTracks == ElectronInv => ElectronIsTracked
BY DEF ElectronInv, ElectronTypeOK, ClientsFollow, ElectronIsTracked

LEMMA ElectronStep == ElectronInv /\ [ElectronNext]_electronVars => ElectronInv'
<1> SUFFICES ASSUME ElectronInv, [ElectronNext]_electronVars PROVE ElectronInv'
  OBVIOUS
<1> USE DEF ElectronInv, ElectronTypeOK, ClientsFollow
<1>1. ASSUME NEW a \in App, SpawnApp(a) PROVE ElectronInv'
  BY <1>1 DEF SpawnApp, CallGoesTo, KeepsClosing
<1>2. ASSUME NEW a \in App, AppErrors(a) PROVE ElectronInv'
  BY <1>2 DEF AppErrors, Disconnect, KeepsClosing
<1>3. ASSUME NEW a \in App, Connected(a) PROVE ElectronInv'
  BY <1>3 DEF Connected, CallGoesTo, KeepsClosing
<1>4. ASSUME NEW a \in App, Refused(a) PROVE ElectronInv'
  BY <1>4 DEF Refused, KeepsClosing
<1>5. ASSUME NEW a \in App, DebuggerFails(a) PROVE ElectronInv'
  BY <1>5 DEF DebuggerFails, CallGoesTo, KeepsClosing
<1>6. ASSUME NEW a \in App, DebuggerEnabled(a) PROVE ElectronInv'
  BY <1>6 DEF DebuggerEnabled, CallGoesTo, KeepsClosing
<1>7. ASSUME NEW a \in App, InjectApp(a) PROVE ElectronInv'
  BY <1>7 DEF InjectApp, CallGoesTo, KeepsClosing
<1>8. ASSUME NEW a \in App, AppEnds(a) PROVE ElectronInv'
  BY <1>8 DEF AppEnds, Disconnect, KeepsClosing
<1>9. ASSUME NEW d \in Closing, DeactivateApps(d) PROVE ElectronInv'
  BY <1>9 DEF DeactivateApps
<1>10. ASSUME NEW d \in Closing, NEW a \in App, Terminate(d, a) PROVE ElectronInv'
  BY <1>10 DEF Terminate
<1>11. ASSUME NEW d \in Closing, NEW a \in App, TerminateEnds(d, a) PROVE ElectronInv'
  BY <1>11 DEF TerminateEnds
<1>12. ASSUME NEW d \in Closing, NEW a \in App, HardExit(d, a) PROVE ElectronInv'
  BY <1>12 DEF HardExit, Disconnect
<1>13. CASE UNCHANGED electronVars
  BY <1>13 DEF electronVars
<1> QED BY <1>1, <1>2, <1>3, <1>4, <1>5, <1>6, <1>7, <1>8, <1>9, <1>10, <1>11, <1>12, <1>13
        DEF ElectronNext

\* A debugger's client is registered exactly while it is open, its application runs then, and
\* what a deactivation has found has ended with it (electron.ts:113-116, 167-215).
THEOREM ElectronTracked == ElectronInit /\ [][ElectronNext]_electronVars => []ElectronIsTracked
BY ElectronInitially, ElectronStep, ElectronTracks, PTL

(***************************************************************************)
(* JVMs with an agent.                                                     *)
(***************************************************************************)

FirstPid == CHOOSE p \in Pid : TRUE

JvmTypeOK ==
    /\ jvm \in [Pid -> {"ours", "other", "none"}]
    /\ agent \in [Pid -> JvmPort \cup {NoPort}]
    /\ attach \in [Attach -> [at : {"new", "spawned", "loaded", "done", "failed"},
                              pid : Pid \cup {FirstPid}, port : JvmPort \cup {NoPort}]]
    /\ interceptedProcesses \in [Pid -> JvmPort \cup {NoPort}]
    /\ watchers \in SUBSET Attach

\* A call has chosen a process before it does anything, and only one that has exited with 0
\* watches it.
CallsChoose ==
    /\ \A c \in Attach : attach[c].at # "new" => attach[c].pid \in Pid /\ attach[c].port \in JvmPort
    /\ \A c \in watchers : attach[c].at = "done"

\* A process that has an agent runs, and is in the table unless the call that has loaded the
\* agent has still to enter it; what is in the table is watched.
AgentsAreEntered ==
    \A p \in Pid :
        /\ agent[p] # NoPort =>
               /\ jvm[p] = "ours"
               /\ \/ interceptedProcesses[p] # NoPort
                  \/ \E c \in Attach : attach[c].at = "loaded" /\ attach[c].pid = p
        /\ interceptedProcesses[p] # NoPort =>
               p \in foreign \/ \E c \in watchers : attach[c].pid = p

JvmInv == JvmTypeOK /\ CallsChoose /\ AgentsAreEntered

LEMMA JvmInitially == JvmInit => JvmInv
BY JvmAssumption DEF JvmInit, JvmInv, JvmTypeOK, CallsChoose, AgentsAreEntered, FirstPid

LEMMA JvmWatches == JvmInv => JvmTableIsWatched
BY DEF JvmInv, AgentsAreEntered, JvmTableIsWatched, AttachingTo

LEMMA JvmStep == JvmInv /\ [JvmNext]_jvmVars => JvmInv'
<1> SUFFICES ASSUME JvmInv, [JvmNext]_jvmVars PROVE JvmInv'
  OBVIOUS
<1> USE JvmAssumption DEF JvmInv, JvmTypeOK, CallsChoose, AgentsAreEntered, KeepsMachine
<1>1. CASE \/ JavaTested \/ TargetsListed \/ TargetsEnd
           \/ \E l \in Listing : ListTargets(l)
           \/ UNCHANGED jvmVars
  BY <1>1 DEF JavaTested, TargetsListed, TargetsEnd, ListTargets, jvmVars
<1>2. ASSUME NEW c \in Attach, AttachTo(c) PROVE JvmInv'
  BY <1>2 DEF AttachTo
<1>3. ASSUME NEW c \in Attach, AgentLoaded(c) PROVE JvmInv'
  BY <1>3 DEF AgentLoaded
<1>4. ASSUME NEW c \in Attach, AttachFails(c) PROVE JvmInv'
  BY <1>4 DEF AttachFails
<1>5. ASSUME NEW c \in Attach, AttachEnds(c) PROVE JvmInv'
  BY <1>5 DEF AttachEnds
<1>6. ASSUME NEW c \in Attach, WatcherProbes(c) PROVE JvmInv'
  BY <1>6 DEF WatcherProbes
<1>7. ASSUME NEW p \in Pid, ProcessEnds(p) PROVE JvmInv'
  BY <1>7 DEF ProcessEnds
<1>8. ASSUME NEW p \in Pid, ProcessStarts(p) PROVE JvmInv'
  BY <1>8 DEF ProcessStarts
<1> QED BY <1>1, <1>2, <1>3, <1>4, <1>5, <1>6, <1>7, <1>8 DEF JvmNext

\* A pid in the table has a watcher, unless another user's process has taken it over, and a JVM
\* with an agent is in the table once no attach to it is under way (jvm.ts:208-260).
THEOREM JvmWatched == JvmInit /\ [][JvmNext]_jvmVars => []JvmTableIsWatched
BY JvmInitially, JvmStep, JvmWatches, PTL

(***************************************************************************)
(* The reverse tunnel to a device.                                         *)
(***************************************************************************)

TunnelTypeOK ==
    /\ adbTunnelIds \in Tunnelling \cup {NoTunnel}
    /\ tunnelCheckInterval \in [Tunnelling -> {"none", "running", "cleared"}]
    /\ attempts \in [Tunnelling -> Nat]
    /\ wanted \in BOOLEAN /\ outlived \in BOOLEAN

\* Unless an interval was registered during attempts of an earlier one, only the registered
\* interval has attempts in flight, so that only those can give the tunnel up.
OnlyTheRegisteredTries ==
    ~outlived /\ adbTunnelIds # NoTunnel =>
        \A c \in Tunnelling : attempts[c] > 0 => c = adbTunnelIds

TunnelInv == TunnelTypeOK /\ OnlyTheRegisteredTries /\ TunnelIsMaintained

LEMMA TunnelInitially == TunnelInit => TunnelInv
<1> SUFFICES ASSUME TunnelInit PROVE TunnelInv
  OBVIOUS
<1>1. TunnelTypeOK
  BY DEF TunnelInit, TunnelTypeOK
<1>2. OnlyTheRegisteredTries /\ TunnelIsMaintained
  BY DEF TunnelInit, OnlyTheRegisteredTries, TunnelIsMaintained, WantedTunnelIsMaintained
<1> QED BY <1>1, <1>2 DEF TunnelInv

LEMMA TunnelStep == TunnelInv /\ [TunnelNext]_tunnelVars => TunnelInv'
<1> SUFFICES ASSUME TunnelInv, [TunnelNext]_tunnelVars PROVE TunnelInv'
  OBVIOUS
<1> USE TunnelAssumption DEF TunnelInv, TunnelTypeOK, OnlyTheRegisteredTries, TunnelIsMaintained, WantedTunnelIsMaintained
<1>1. ASSUME NEW c \in Tunnelling, CreateTunnel(c) PROVE TunnelInv'
  BY <1>1 DEF CreateTunnel
<1>2. ASSUME NEW c \in Tunnelling, TunnelCreated(c) PROVE TunnelInv'
  BY <1>2 DEF TunnelCreated
<1>3. ASSUME NEW c \in Tunnelling, IntervalTicks(c) PROVE TunnelInv'
  BY <1>3 DEF IntervalTicks
<1>4. ASSUME NEW c \in Tunnelling, AttemptSucceeds(c) PROVE TunnelInv'
  BY <1>4 DEF AttemptSucceeds
<1>5. ASSUME NEW c \in Tunnelling, AttemptFails(c) PROVE TunnelInv'
  <2>1. attempts' \in [Tunnelling -> Nat] /\ \A b \in Tunnelling : attempts'[b] > 0 => attempts[b] > 0
    BY <1>5 DEF AttemptFails
  <2>2. CASE tunnelConnectFailures'[c] >= MaxFailures
    <3>1. adbTunnelIds' = NoTunnel /\ wanted' = (wanted /\ adbTunnelIds # c) /\ outlived' = outlived
      BY <1>5, <2>2 DEF AttemptFails
    <3>2. TunnelTypeOK'
      BY <1>5, <2>1, <2>2, <3>1 DEF AttemptFails
    <3>3. ~outlived /\ adbTunnelIds # NoTunnel => adbTunnelIds = c
      BY <1>5 DEF AttemptFails
    <3>4. wanted' => outlived
      BY <3>1, <3>3
    <3> QED BY <3>1, <3>2, <3>4
  <2>3. CASE ~(tunnelConnectFailures'[c] >= MaxFailures)
    BY <1>5, <2>1, <2>3 DEF AttemptFails
  <2> QED BY <2>2, <2>3
<1>6. ASSUME NEW u \in Untunnelling, CloseReverseTunnel(u) PROVE TunnelInv'
  BY <1>6 DEF CloseReverseTunnel
<1>7. CASE UNCHANGED tunnelVars
  BY <1>7 DEF tunnelVars
<1> QED BY <1>1, <1>2, <1>3, <1>4, <1>5, <1>6, <1>7 DEF TunnelNext

\* The registered interval of a tunnel runs, and a tunnel that is wanted has one, unless it was
\* registered during attempts of an earlier one (adb-commands.ts:641-696).
THEOREM TunnelMaintained == TunnelInit /\ [][TunnelNext]_tunnelVars => []TunnelIsMaintained
<1>1. TunnelInv => TunnelIsMaintained
  BY DEF TunnelInv
<1> QED BY <1>1, TunnelInitially, TunnelStep, PTL

(***************************************************************************)
(* The certificate on a device.                                            *)
(***************************************************************************)

ScriptLines == {"clear", "copy", "mount", "back", "ours", "bind"}

CertTypeOK ==
    /\ line \in [Inject -> {"none", "end"} \cup ScriptLines]
    /\ ended \in [Inject -> {"none", "ok", "failed", "rebooted"}]
    /\ parallel \in BOOLEAN /\ interrupted \in BOOLEAN

\* Where a certificate is at each line of the script: in the directory, and while the new
\* mount hides that, in the copy.
Carries(cert) ==
    /\ apex = NoApex \/ cert \in apex
    /\ Running = {} => cert \in system
    /\ \A i \in Inject :
           /\ line[i] \in {"clear", "copy", "ours", "bind"} => cert \in system
           /\ line[i] \in {"mount", "back"} => cert \in copy

ScriptsKeepCerts ==
    ~parallel /\ ~interrupted =>
        /\ \A i, j \in Running : i = j
        /\ \A i \in Inject : line[i] = "bind" => "ours" \in system
        /\ Carries("own")
        /\ (\E i \in Inject : ended[i] = "ok") => Carries("ours")

CertInv == CertTypeOK /\ ScriptsKeepCerts

LEMMA CertInitially == CertInit => CertInv
BY DEF CertInit, CertInv, CertTypeOK, ScriptLines, ScriptsKeepCerts, Carries, Running

LEMMA CertsInjected == CertInv => CertsAreInjected
BY DEF CertInv, ScriptsKeepCerts, Carries, CertsAreInjected, Trusts

LEMMA CertStep == CertInv /\ [CertNext]_certVars => CertInv'
<1> SUFFICES ASSUME CertInv, [CertNext]_certVars PROVE CertInv'
  OBVIOUS
<1> USE DEF CertInv, CertTypeOK, ScriptLines, ScriptsKeepCerts, Carries, Running
<1>1. ASSUME NEW i \in Inject,
             RootFound(i) \/ CertChecked(i) \/ PushFails(i) \/ ScriptPushFails(i) \/ ScriptAwaited(i) \/ SetChromeFlags(i)
      PROVE  CertInv'
  BY <1>1 DEF RootFound, CertChecked, PushFails, ScriptPushFails, ScriptAwaited, SetChromeFlags, KeepsFiles, KeepsScripts
<1>2. ASSUME NEW i \in Inject, ScriptStarts(i) PROVE CertInv'
  <2>1. CertTypeOK'
    BY <1>2 DEF ScriptStarts
  <2>2. SUFFICES ASSUME ~parallel', ~interrupted' PROVE ScriptsKeepCerts'
    BY <2>1
  <2>3. ~parallel /\ ~interrupted /\ Running = {}
    BY <1>2, <2>2 DEF ScriptStarts
  <2> QED BY <1>2, <2>3 DEF ScriptStarts, KeepsFiles
<1>3. ASSUME NEW i \in Inject, ClearCopy(i) PROVE CertInv'
  BY <1>3 DEF ClearCopy, Succeeds
<1>4. ASSUME NEW i \in Inject, CopyOut(i) PROVE CertInv'
  BY <1>4 DEF CopyOut, Succeeds, Fails
<1>5. ASSUME NEW i \in Inject, Mount(i) PROVE CertInv'
  BY <1>5 DEF Mount, Succeeds
<1>6. ASSUME NEW i \in Inject, MoveBack(i) PROVE CertInv'
  BY <1>6 DEF MoveBack, Succeeds, Fails
<1>7. ASSUME NEW i \in Inject, MoveOurs(i) PROVE CertInv'
  BY <1>7 DEF MoveOurs, Succeeds, Fails
<1>8. ASSUME NEW i \in Inject, BindApex(i) PROVE CertInv'
  BY <1>8 DEF BindApex, Succeeds
<1>9. ASSUME NEW i \in Inject, Interrupt(i) PROVE CertInv'
  BY <1>9 DEF Interrupt
<1>10. CASE Reboot
  BY <1>10 DEF Reboot
<1>11. CASE UNCHANGED certVars
  BY <1>11 DEF certVars
<1> QED BY <1>1, <1>2, <1>3, <1>4, <1>5, <1>6, <1>7, <1>8, <1>9, <1>10, <1>11 DEF CertNext, ScriptLine

\* Between scripts, none of which ran at a time or was interrupted, a device trusts its own
\* certificates, and ours after one that succeeded (adb-commands.ts:429-520).
THEOREM CertsStayInjected == CertInit /\ [][CertNext]_certVars => []CertsAreInjected
BY CertInitially, CertStep, CertsInjected, PTL

(***************************************************************************)
(* The Android app.                                                        *)
(***************************************************************************)

ProxyingStep == {"new", "install", "clear", "stream", "again", "tunnel", "started", "retry", "done", "failed", "lost"}

AppTypeOK ==
    /\ latest \in {None, Unknown} \cup Release
    /\ proxying \in [Proxying -> [at : ProxyingStep, apk : Stream, local : BOOLEAN]]
    /\ crossed \in BOOLEAN

\* Once a call has cleared the folder nothing comes into it, but by another call.
FolderStaysClear ==
    ~crossed => \A c \in Proxying :
        /\ proxying[c].at = "stream" => apks = {}
        /\ proxying[c].at = "again" => ~proxying[c].local

AppInv == AppTypeOK /\ FolderStaysClear /\ (vpn # NoVpn => vpn \in deviceProxyMapping \cup Unmapped)

LEMMA AppInitially == AppInit => AppInv
<1> SUFFICES ASSUME AppInit PROVE AppInv
  OBVIOUS
<1>1. Max(Release) \in Release
  BY AppAssumption DEF Max
<1>2. AppTypeOK
  BY <1>1 DEF AppInit, AppTypeOK, ProxyingStep, Stream
<1> QED BY <1>2 DEF AppInit, AppInv, FolderStaysClear

\* What streaming an APK does to a call: it fails, or has an APK, of the folder only if there
\* is one.
LEMMA StreamMoves ==
    ASSUME AppTypeOK, NEW c \in Proxying, NEW next \in ProxyingStep, StreamLatestApk(c, next)
    PROVE  \/ proxying' = [proxying EXCEPT ![c].at = "failed"]
           \/ \E s \in Stream, l \in BOOLEAN :
                  /\ proxying' = [proxying EXCEPT ![c] = [at |-> next, apk |-> s, local |-> l]]
                  /\ l => apks # {}
<1>1. CASE apks # {}
  BY <1>1 DEF StreamLatestApk, ProxyingGoesTo, Stream
<1>2. CASE apks = {}
  BY <1>2 DEF AppTypeOK, StreamLatestApk, ProxyingGoesTo, Stream
<1> QED BY <1>1, <1>2

LEMMA AppStep == AppInv /\ [AppNext]_appVars => AppInv'
<1> SUFFICES ASSUME AppInv, [AppNext]_appVars PROVE AppInv'
  OBVIOUS
<1> USE AppAssumption
    DEF AppInv, AppTypeOK, FolderStaysClear, Unmapped, KeepsStore, KeepsDevice, ProxyingGoesTo, ProxyingStep
<1>1. ASSUME NEW c \in Proxying, DownloadEnds(c) PROVE AppInv'
  BY <1>1 DEF DownloadEnds
<1>2. ASSUME NEW c \in Proxying, StartProxying(c) PROVE AppInv'
  BY <1>2, StreamMoves DEF StartProxying
<1>3. ASSUME NEW c \in Proxying, InstallApk(c) PROVE AppInv'
  BY <1>3 DEF InstallApk
<1>4. ASSUME NEW c \in Proxying, ClearAllApks(c) PROVE AppInv'
  BY <1>4 DEF ClearAllApks
<1>5. ASSUME NEW c \in Proxying, ClearFails(c) PROVE AppInv'
  BY <1>5 DEF ClearFails
<1>6. ASSUME NEW c \in Proxying, StreamAgain(c) PROVE AppInv'
  BY <1>6, StreamMoves DEF StreamAgain
<1>7. ASSUME NEW c \in Proxying, StartVpn(c) PROVE AppInv'
  BY <1>7 DEF StartVpn
<1>8. ASSUME NEW c \in Proxying, IntentFails(c) \/ StartVpnFails(c) \/ MapDevice(c) PROVE AppInv'
  BY <1>8 DEF IntentFails, StartVpnFails, MapDevice
<1>9. ASSUME NEW d \in Unproxying, StopProxying(d) \/ StopVpn(d) PROVE AppInv'
  BY <1>9 DEF StopProxying, StopVpn
<1>10. CASE UNCHANGED appVars
  BY <1>10 DEF appVars
<1> QED BY <1>1, <1>2, <1>3, <1>4, <1>5, <1>6, <1>7, <1>8, <1>9, <1>10 DEF AppNext

\* A VPN that runs is of a port that has the device, or that a call has started it for and not
\* mapped, and no call installs an APK of the folder that it has just cleared, unless another came
\* between (android-adb-interceptor.ts:79-128).
THEOREM DevicesReached == AppInit /\ [][AppNext]_appVars => []DevicesAreReached
<1>1. AppInv => DevicesAreReached
  BY DEF AppInv, FolderStaysClear, DevicesAreReached
<1> QED BY <1>1, AppInitially, AppStep, PTL

(***************************************************************************)
(* Frida sessions.                                                         *)
(***************************************************************************)

SessionInv ==
    /\ fridaSessionCache \in Query \cup {NoSession}
    /\ connected \in SUBSET Query /\ timers \in SUBSET Query
    /\ SessionsAreClosed

LEMMA SessionStep == SessionInv /\ [SessionNext]_sessionVars => SessionInv'
<1> SUFFICES ASSUME SessionInv, [SessionNext]_sessionVars PROVE SessionInv'
  OBVIOUS
<1> USE SessionAssumption DEF SessionInv, SessionsAreClosed
<1>1. ASSUME NEW q \in Query, GetFridaTargets(q) \/ ApplicationsListed(q) PROVE SessionInv'
  BY <1>1 DEF GetFridaTargets, ApplicationsListed
<1>2. ASSUME NEW q \in Query, Connects(q) PROVE SessionInv'
  BY <1>2 DEF Connects
<1>3. ASSUME NEW q \in Query, ConnectingFails(q) \/ ListingFails(q) PROVE SessionInv'
  BY <1>3 DEF ConnectingFails, ListingFails, ClearFridaSessionCache
<1>4. ASSUME NEW s \in Query, StreamFails(s) \/ SessionIsIdle(s) PROVE SessionInv'
  BY <1>4 DEF StreamFails, SessionIsIdle
<1>5. CASE UNCHANGED sessionVars
  BY <1>5 DEF sessionVars
<1> QED BY <1>1, <1>2, <1>3, <1>4, <1>5 DEF SessionNext

\* The only open session is the cached one, unless two calls opened one each, and the cached one
\* has its idle time out set (frida-integration.ts:220-257).
THEOREM SessionsStayClosed == SessionInit /\ [][SessionNext]_sessionVars => []SessionsAreClosed
<1>1. SessionInit => SessionInv
  BY DEF SessionInit, SessionInv, SessionsAreClosed
<1>2. SessionInv => SessionsAreClosed
  BY DEF SessionInv
<1> QED BY <1>1, <1>2, SessionStep, PTL

(***************************************************************************)
(* Apps intercepted with Frida.                                            *)
(***************************************************************************)

FridaTypeOK ==
    /\ launching \in [ServerLaunch -> {"new", "waiting", "done", "removing", "failed"}]
    /\ fridaServer \in [ServerLaunch -> {"none", "starting", "up", "closed"}]
    /\ hooking \in [Interception -> {"new", "connecting", "selecting", "scripting", "resuming",
                                     "killing", "done", "failed"}]
    /\ target \in [Interception -> {"none", "paused", "running", "dead"}]
    /\ interceptedApps \in SUBSET Interception
    /\ killing \in [Interception -> SUBSET (Interception \cup StopApps)]
    /\ stopApps \in [StopApps -> {"new", "killing", "done"}]
    /\ toStop \in [StopApps -> SUBSET Interception]

\* Only an app that its call has spawned is kept, found or killed.
HasTarget(c) == hooking[c] \notin {"new", "connecting"}
OnlySpawnedAreStopped ==
    /\ \A c \in Interception : c \in interceptedApps \/ killing[c] # {} => HasTarget(c)
    /\ \A d \in StopApps : \A c \in toStop[d] : HasTarget(c)

\* No call that has not spawned its app, or that has ended, has it paused; and what a
\* deactivation has found it kills.
StoppedAreKilled ==
    /\ \A c \in Interception :
           target[c] = "paused" => HasTarget(c) /\ (hooking[c] \notin {"done", "failed"} \/ c \in unkilled)
    /\ \A d \in StopApps : \A c \in toStop[d] :
           \/ target[c] = "dead" \/ c \in unkilled
           \/ stopApps[d] = "killing" /\ d \in killing[c]

ServersAreKept ==
    \A l \in ServerLaunch : fridaServer[l] \in {"starting", "up"} /\ launching[l] = "done" => l \in fridaServers

FridaInv == FridaTypeOK /\ OnlySpawnedAreStopped /\ StoppedAreKilled /\ ServersAreKept

LEMMA FridaInitially == FridaInit => FridaInv
BY DEF FridaInit, FridaInv, FridaTypeOK, OnlySpawnedAreStopped, StoppedAreKilled, ServersAreKept, HasTarget

LEMMA FridaLeaves == FridaInv => FridaLeavesNothing
BY DEF FridaInv, FridaTypeOK, StoppedAreKilled, ServersAreKept, FridaLeavesNothing

LEMMA FridaStep == FridaInv /\ [FridaNext]_fridaVars => FridaInv'
<1> SUFFICES ASSUME FridaInv, [FridaNext]_fridaVars PROVE FridaInv'
  OBVIOUS
<1> USE DEF FridaInv, FridaTypeOK, OnlySpawnedAreStopped, StoppedAreKilled, ServersAreKept, HasTarget,
            hostVars, serverVars, targetVars, stopVars, InterceptGoesTo
<1>1. ASSUME NEW s \in Setup, SetUpHost(s) \/ DownloadIsKept(s) \/ Pushed(s) \/ ServerPushFails(s)
      PROVE  FridaInv'
  BY <1>1 DEF SetUpHost, DownloadIsKept, Pushed, ServerPushFails
<1>2. ASSUME NEW l \in ServerLaunch, LaunchHost(l) PROVE FridaInv'
  BY <1>2 DEF LaunchHost
<1>3. ASSUME NEW l \in ServerLaunch, ServerListens(l) \/ ServerExits(l) PROVE FridaInv'
  BY <1>3 DEF ServerListens, ServerExits
<1>4. ASSUME NEW l \in ServerLaunch, HostIsAvailable(l) \/ LaunchTimesOut(l) \/ BinaryRemoved(l)
      PROVE  FridaInv'
  BY <1>4 DEF HostIsAvailable, LaunchTimesOut, BinaryRemoved
<1>5. ASSUME NEW c \in Interception, InterceptTarget(c) \/ AddressSelected(c) \/ ScriptLaunched(c)
      PROVE  FridaInv'
  BY <1>5 DEF InterceptTarget, AddressSelected, ScriptLaunched
<1>6. ASSUME NEW c \in Interception, SpawnPaused(c) PROVE FridaInv'
  BY <1>6 DEF SpawnPaused
<1>7. ASSUME NEW c \in Interception, ConnectFails(c) PROVE FridaInv'
  BY <1>7 DEF ConnectFails
<1>8. ASSUME NEW c \in Interception, Resumed(c) PROVE FridaInv'
  BY <1>8 DEF Resumed
<1>9. ASSUME NEW c \in Interception, InterceptFails(c) PROVE FridaInv'
  BY <1>9 DEF InterceptFails
<1>10. ASSUME NEW c \in Interception, ResumedToKill(c) PROVE FridaInv'
  BY <1>10 DEF ResumedToKill
<1>11. ASSUME NEW c \in Interception, NEW by \in StopApps \cup {c}, Killed(c, by) PROVE FridaInv'
  BY <1>11 DEF Killed, KillEnds
<1>12. ASSUME NEW c \in Interception, NEW by \in StopApps \cup {c}, KillFails(c, by) PROVE FridaInv'
  BY <1>12 DEF KillFails, KillEnds
<1>13. ASSUME NEW d \in StopApps, StopsApps(d) PROVE FridaInv'
  BY <1>13 DEF StopsApps
<1>14. ASSUME NEW d \in StopApps, AppsAreStopped(d) PROVE FridaInv'
  BY <1>14 DEF AppsAreStopped
<1>15. CASE UNCHANGED fridaVars
  BY <1>15 DEF fridaVars
<1> HIDE DEF FridaInv
<1> QED BY ONLY FridaInv, [FridaNext]_fridaVars, <1>1, <1>2, <1>3, <1>4, <1>5, <1>6, <1>7, <1>8, <1>9, <1>10, <1>11,
                <1>12, <1>13, <1>14, <1>15
        DEF FridaNext

\* A call that has ended leaves no app paused and a deactivation none alive of those it found,
\* unless a kill failed, and a launch that did not time out no unknown server
\* (frida-android-integration.ts:269-305, frida-android-interceptor.ts:66-116).
THEOREM FridaLeavesNone == FridaInit /\ [][FridaNext]_fridaVars => []FridaLeavesNothing
BY FridaInitially, FridaStep, FridaLeaves, PTL

(***************************************************************************)
(* The headless process.                                                   *)
(***************************************************************************)

HeadlessTypeOK ==
    /\ headlessConfig \in [local : BOOLEAN, command : BOOLEAN, valid : BOOLEAN]
    /\ headlessConfig.local => headlessConfig.command
    /\ latestProcess \in [process : HeadlessCall \cup {NoProcess},
                          status : {"none", "running", "failed", "stopped"}]
    /\ headless \in [HeadlessCall -> [at : {"new", "spawning", "killing", "ended"},
                                      kills : HeadlessCall \cup {NoProcess}]]
    /\ alive \in SUBSET HeadlessCall
    /\ lost \in BOOLEAN /\ during \in BOOLEAN

\* What a call is killing is the process of the record, until a start ends.
KillsTheLatest ==
    ~during => \A k \in Killing : headless[k].kills = latestProcess.process

HeadlessInv == HeadlessTypeOK /\ KillsTheLatest /\ ProcessIsTracked

LEMMA HeadlessInitially == HeadlessInit => HeadlessInv
<1> SUFFICES ASSUME HeadlessInit PROVE HeadlessInv
  OBVIOUS
<1>1. HeadlessTypeOK
  BY DEF HeadlessInit, HeadlessTypeOK, NoRecord
<1>2. Killing = {} /\ alive = {}
  BY DEF HeadlessInit, Killing
<1> QED BY <1>1, <1>2 DEF HeadlessInv, KillsTheLatest, ProcessIsTracked

\* A call that ends, or goes on, is no longer killing.
LEMMA EndsLemma ==
    ASSUME HeadlessTypeOK, NEW k \in HeadlessCall,
           NEW to \in {"spawning", "ended"}, HeadlessGoesTo(k, to)
    PROVE  /\ headless' \in [HeadlessCall -> [at : {"new", "spawning", "killing", "ended"},
                                              kills : HeadlessCall \cup {NoProcess}]]
           /\ Killing' \subseteq Killing
           /\ \A q \in HeadlessCall : headless'[q].kills = headless[q].kills
BY DEF HeadlessTypeOK, HeadlessGoesTo, Killing

LEMMA HeadlessStep == HeadlessInv /\ [HeadlessNext]_headlessVars => HeadlessInv'
<1> SUFFICES ASSUME HeadlessInv, [HeadlessNext]_headlessVars PROVE HeadlessInv'
  OBVIOUS
<1> USE DEF HeadlessInv
<1>1. ASSUME NEW k \in HeadlessCall, StartHeadless(k) PROVE HeadlessInv'
  <2>1. UNCHANGED <<headlessConfig, latestProcess, alive, lost, during>>
    BY <1>1 DEF StartHeadless
  <2>2. HeadlessGoesTo(k, "ended") \/ HeadlessGoesTo(k, "spawning")
    BY <1>1, ZenonT(40) DEF StartHeadless, Ends, HeadlessTypeOK, StartOption
  <2> QED BY <2>1, <2>2, EndsLemma DEF HeadlessTypeOK, KillsTheLatest, ProcessIsTracked, Killing
<1>2. ASSUME NEW k \in HeadlessCall, Spawned(k) PROVE HeadlessInv'
  <2>1. HeadlessGoesTo(k, "ended")
    BY <1>2 DEF Spawned, Ends
  <2>2. HeadlessTypeOK' /\ Killing' \subseteq Killing
    BY <1>2, <2>1, EndsLemma DEF Spawned, RecordStarted, HeadlessTypeOK
  <2>3. KillsTheLatest'
    BY <1>2, <2>2 DEF Spawned, RecordStarted, KillsTheLatest
  <2>4. ProcessIsTracked'
    BY <1>2 DEF Spawned, RecordStarted, ProcessIsTracked, HeadlessTypeOK
  <2> QED BY <2>2, <2>3, <2>4
<1>3. ASSUME NEW k \in HeadlessCall, SpawnFails(k) PROVE HeadlessInv'
  <2>1. HeadlessGoesTo(k, "ended")
    BY <1>3 DEF SpawnFails, Ends
  <2>2. HeadlessTypeOK' /\ Killing' \subseteq Killing
    BY <1>3, <2>1, EndsLemma DEF SpawnFails, RecordStarted, HeadlessTypeOK
  <2>3. KillsTheLatest'
    BY <1>3, <2>2 DEF SpawnFails, RecordStarted, KillsTheLatest
  <2>4. ProcessIsTracked'
    BY <1>3 DEF SpawnFails, RecordStarted, ProcessIsTracked, HeadlessTypeOK
  <2> QED BY <2>2, <2>3, <2>4
<1>4. ASSUME NEW k \in HeadlessCall, StopHeadless(k) PROVE HeadlessInv'
  <2>1. UNCHANGED <<headlessConfig, latestProcess, alive, lost, during>>
    BY <1>4 DEF StopHeadless
  <2>2. \/ HeadlessGoesTo(k, "ended") \/ HeadlessGoesTo(k, "spawning")
        \/ headless' = [headless EXCEPT ![k] = [at |-> "killing", kills |-> latestProcess.process]]
    BY <1>4 DEF StopHeadless, Ends
  <2>3. CASE HeadlessGoesTo(k, "ended") \/ HeadlessGoesTo(k, "spawning")
    BY <2>1, <2>3, EndsLemma DEF HeadlessTypeOK, KillsTheLatest, ProcessIsTracked, Killing
  <2>4. CASE headless' = [headless EXCEPT ![k] = [at |-> "killing", kills |-> latestProcess.process]]
    BY <2>1, <2>4 DEF HeadlessTypeOK, KillsTheLatest, ProcessIsTracked, Killing
  <2> QED BY <2>2, <2>3, <2>4
<1>5. ASSUME NEW k \in HeadlessCall, KillSucceeds(k) PROVE HeadlessInv'
  <2>1. HeadlessGoesTo(k, "ended") \/ HeadlessGoesTo(k, "spawning")
    BY <1>5 DEF KillSucceeds, Ends
  <2>2. HeadlessTypeOK' /\ Killing' \subseteq Killing
    BY <1>5, <2>1, EndsLemma DEF KillSucceeds, HeadlessTypeOK
  <2>3. latestProcess'.process = latestProcess.process /\ alive' = alive \ {headless[k].kills}
    BY <1>5 DEF KillSucceeds, HeadlessTypeOK
  <2>4. KillsTheLatest'
    BY <1>5, <2>1, <2>2, <2>3, EndsLemma DEF KillSucceeds, KillsTheLatest, Killing
  <2>5. ProcessIsTracked'
    BY <1>5, <2>3 DEF KillSucceeds, ProcessIsTracked, KillsTheLatest, Killing
  <2> QED BY <2>2, <2>4, <2>5
<1>6. ASSUME NEW k \in HeadlessCall, HeadlessKillFails(k) PROVE HeadlessInv'
  <2>1. HeadlessGoesTo(k, "ended")
    BY <1>6 DEF HeadlessKillFails, Ends
  <2>2. HeadlessTypeOK' /\ Killing' \subseteq Killing
    BY <1>6, <2>1, EndsLemma DEF HeadlessKillFails, HeadlessTypeOK
  <2>3. latestProcess'.process = latestProcess.process /\ latestProcess'.status = "failed"
    BY <1>6 DEF HeadlessKillFails, HeadlessTypeOK
  <2>4. KillsTheLatest'
    BY <1>6, <2>1, <2>2, <2>3, EndsLemma DEF HeadlessKillFails, KillsTheLatest, Killing
  <2>5. ProcessIsTracked'
    BY <1>6, <2>3 DEF HeadlessKillFails, ProcessIsTracked
  <2> QED BY <2>2, <2>4, <2>5
<1>7. ASSUME NEW k \in HeadlessCall, ProcessExits(k) PROVE HeadlessInv'
  BY <1>7 DEF ProcessExits, HeadlessTypeOK, KillsTheLatest, ProcessIsTracked, Killing
<1>8. CASE UNCHANGED headlessVars
  BY <1>8 DEF headlessVars, HeadlessTypeOK, KillsTheLatest, ProcessIsTracked, Killing
<1> QED BY <1>1, <1>2, <1>3, <1>4, <1>5, <1>6, <1>7, <1>8 DEF HeadlessNext

\* A process that runs is the one of the record, which stop and recover kill, unless a start
\* came while one ran; and a record that says stopped is of a dead process, unless a start ended
\* during the kill (headless-control-service.ts:111-142, :210-223, :255-267).
THEOREM ProcessTracked == HeadlessInit /\ [][HeadlessNext]_headlessVars => []ProcessIsTracked
<1>1. HeadlessInv => ProcessIsTracked
  BY DEF HeadlessInv
<1> QED BY <1>1, HeadlessInitially, HeadlessStep, PTL

(***************************************************************************)
(* The health of the connection.                                           *)
(***************************************************************************)

Snapshot == [updated : Nat, start : Nat, stop : Nat, mobile : Nat]

HealthTypeOK ==
    /\ clock \in Nat \ {0}
    /\ size \in Nat /\ size <= MaxSize
    /\ lastJsonlSize \in Nat
    /\ firstStrongFailureObservedAt \in Nat
    /\ automation \in Snapshot
    /\ poll \in [Poll -> [at : {"none", "asking"}, now : Nat, size : Nat, growth : BOOLEAN, automation : Snapshot]]
    /\ answer \in [state : {"none", "active", "degraded", "disconnected", "idle", "stale", "unknown"},
                   justified : BOOLEAN]
    /\ downSince \in Nat
    /\ growths \in Nat
    /\ unseen \in BOOLEAN /\ overlapping \in BOOLEAN

\* Nothing is of the future.
NothingIsAhead ==
    /\ automation.stop <= clock /\ downSince <= clock
    /\ \A p \in Reads : poll[p].now <= clock /\ poll[p].size <= size
    /\ lastJsonlSize = NoSize \/ lastJsonlSize <= size

\* A failure that is recorded, read by a poll or noted is of a session that was stopped by
\* then and has not been started since, unless a start has not been seen.
FailuresAreReal ==
    /\ automation.stop > automation.start => downSince # Never
    /\ \A p \in Reads :
           StrongFailure(p) => unseen \/ (downSince # Never /\ downSince <= poll[p].now)
    /\ firstStrongFailureObservedAt # Never =>
           unseen \/ (downSince # Never /\ downSince <= firstStrongFailureObservedAt)

\* Each growth that was seen is of a record that had not been read.
GrowthIsOfRecords ==
    ~overlapping =>
        /\ \A p, q \in Reads : p = q
        /\ \A p \in Reads : growths <= poll[p].size
        /\ Reads = {} => IF lastJsonlSize = NoSize THEN growths = 0 ELSE growths <= lastJsonlSize

HealthInv ==
    /\ HealthTypeOK /\ NothingIsAhead /\ FailuresAreReal /\ GrowthIsOfRecords
    /\ answer.state = "disconnected" => answer.justified

LEMMA HealthInitially == HealthInit => HealthInv
<1> SUFFICES ASSUME HealthInit PROVE HealthInv
  OBVIOUS
<1> USE HealthAssumption
<1>1. HealthTypeOK
  <2>1. NoSnapshot \in Snapshot /\ NoSize \in Nat /\ MaxSize \in Nat
    BY DEF Snapshot, NoSnapshot, Never, NoSize
  <2>2. NotAsking \in [at : {"none", "asking"}, now : Nat, size : Nat, growth : BOOLEAN, automation : Snapshot]
    BY <2>1 DEF NotAsking
  <2>3. NoAnswer \in [state : {"none", "active", "degraded", "disconnected", "idle", "stale", "unknown"},
                      justified : BOOLEAN]
    BY DEF NoAnswer
  <2>4. /\ clock \in Nat \ {0} /\ size \in Nat /\ size <= MaxSize
    BY <2>1 DEF HealthInit
  <2>5. /\ downSince \in Nat /\ growths \in Nat /\ unseen \in BOOLEAN /\ overlapping \in BOOLEAN
        /\ lastJsonlSize \in Nat /\ firstStrongFailureObservedAt \in Nat /\ automation \in Snapshot
        /\ poll \in [Poll -> [at : {"none", "asking"}, now : Nat, size : Nat, growth : BOOLEAN,
                              automation : Snapshot]]
    BY <2>1, <2>2 DEF HealthInit, Never
  <2> QED BY <2>3, <2>4, <2>5 DEF HealthInit, HealthTypeOK
<1>2. Reads = {}
  BY DEF HealthInit, Reads, NotAsking
<1> QED
  BY <1>1, <1>2 DEF HealthInit, HealthInv, NothingIsAhead, FailuresAreReal, GrowthIsOfRecords,
                    NoSnapshot, NoAnswer, Never

LEMMA HealthEvidence == HealthInv => HealthIsEvidence
<1> SUFFICES ASSUME HealthInv, ~overlapping PROVE growths <= size
  BY DEF HealthInv, HealthIsEvidence
<1> USE HealthAssumption DEF HealthInv, HealthTypeOK, NothingIsAhead, GrowthIsOfRecords
<1>1. CASE Reads = {}
  BY <1>1
<1>2. CASE Reads # {}
  <2>1. PICK p \in Reads : TRUE
    BY <1>2
  <2>2. p \in Poll
    BY DEF Reads
  <2> QED BY <2>1, <2>2
<1> QED BY <1>1, <1>2

(***************************************************************************)
(* Steps that leave the polls alone.                                       *)
(***************************************************************************)

LEMMA HealthTick == HealthInv /\ Tick => HealthInv'
<1> SUFFICES ASSUME HealthInv, Tick PROVE HealthInv'
  OBVIOUS
<1> USE DEF HealthInv, Tick
<1>1. HealthTypeOK' /\ clock <= clock'
  BY DEF HealthTypeOK
<1>2. Reads' = Reads /\ Reads \subseteq Poll
  BY DEF Reads
<1>3. NothingIsAhead'
  BY <1>1, <1>2 DEF NothingIsAhead, HealthTypeOK, Snapshot, NoSize
<1>4. FailuresAreReal' /\ GrowthIsOfRecords'
  BY <1>2 DEF FailuresAreReal, GrowthIsOfRecords, StrongFailure, NoSize
<1> QED BY <1>1, <1>3, <1>4

LEMMA HealthEvent ==
    ASSUME HealthInv, NEW persisted \in BOOLEAN, NEW targetMatched \in BOOLEAN,
           NoteIngestEvent(persisted, targetMatched)
    PROVE  HealthInv'
BY HealthAssumption
   DEF HealthInv, NoteIngestEvent, HealthTypeOK, NothingIsAhead, FailuresAreReal, GrowthIsOfRecords,
       Reads, StrongFailure, NoSize

LEMMA HealthStart ==
    ASSUME HealthInv, NEW prepared \in BOOLEAN, NEW seen \in BOOLEAN, SessionStarts(prepared, seen)
    PROVE  HealthInv'
<1> USE DEF HealthInv, SessionStarts
<1>1. HealthTypeOK'
  BY DEF HealthTypeOK, Snapshot, Never
<1>2. /\ automation'.stop = automation.stop
      /\ automation'.start = IF prepared THEN clock ELSE automation.start
  BY DEF HealthTypeOK, Snapshot
<1>3. NothingIsAhead'
  BY <1>2 DEF NothingIsAhead, Never, HealthTypeOK, Reads, NoSize
<1>4. FailuresAreReal'
  <2>1. CASE ~prepared
    BY <1>2, <2>1 DEF FailuresAreReal, Reads, StrongFailure
  <2>2. CASE prepared
    <3>1. Reads' = Reads /\ ~(automation'.stop > automation'.start)
      BY <1>2, <2>2 DEF NothingIsAhead, Reads, HealthTypeOK, Snapshot
    <3>2. firstStrongFailureObservedAt' # Never \/ Reads' # {} => unseen'
      BY <2>2, <3>1
    <3> QED BY <3>1, <3>2 DEF FailuresAreReal
  <2> QED BY <2>1, <2>2
<1>5. GrowthIsOfRecords'
  BY DEF GrowthIsOfRecords, Reads, NoSize
<1> QED BY <1>1, <1>3, <1>4, <1>5

LEMMA HealthRecovery == HealthInv /\ SessionRecovers => HealthInv'
<1> SUFFICES ASSUME HealthInv, SessionRecovers PROVE HealthInv'
  OBVIOUS
<1> USE DEF HealthInv, SessionRecovers
<1>1. HealthTypeOK' /\ automation'.stop = automation.stop /\ automation'.start = automation.start
  BY DEF HealthTypeOK, Snapshot
<1> QED
  BY <1>1 DEF NothingIsAhead, FailuresAreReal, GrowthIsOfRecords, Reads, StrongFailure, NoSize

LEMMA HealthStop ==
    ASSUME HealthInv, NEW implemented \in BOOLEAN, SessionStops(implemented)
    PROVE  HealthInv'
<1> USE DEF HealthInv, SessionStops
<1>1. HealthTypeOK'
  BY DEF HealthTypeOK, Snapshot, Never
<1>2. /\ automation'.stop = IF implemented THEN clock ELSE Never
      /\ automation'.start = automation.start
  BY DEF HealthTypeOK, Snapshot
<1>3. NothingIsAhead'
  BY <1>2 DEF NothingIsAhead, Never, HealthTypeOK, Reads, NoSize
<1>4. FailuresAreReal'
  BY <1>2 DEF FailuresAreReal, Reads, StrongFailure, HealthTypeOK, Snapshot, Never
<1>5. GrowthIsOfRecords'
  BY DEF GrowthIsOfRecords, Reads, NoSize
<1> QED BY <1>1, <1>3, <1>4, <1>5

(***************************************************************************)
(* A poll.                                                                 *)
(***************************************************************************)

LEMMA HealthPollStarts ==
    ASSUME HealthInv, NEW p \in Poll, PollStarts(p)
    PROVE  HealthInv'
<1> USE HealthAssumption DEF HealthInv
<1> DEFINE growth == lastJsonlSize # NoSize /\ size > lastJsonlSize
<1>1. /\ poll' = [poll EXCEPT ![p] = [at |-> "asking", now |-> clock, size |-> size, growth |-> growth,
                                     automation |-> automation]]
      /\ growths' = IF growth /\ growths <= MaxSize THEN growths + 1 ELSE growths
      /\ overlapping' = (overlapping \/ Reads # {})
      /\ answer' = NoAnswer
      /\ UNCHANGED <<clock, size, lastJsonlSize, firstStrongFailureObservedAt, automation, downSince, unseen>>
  BY DEF PollStarts
<1> HIDE DEF growth
<1>2. HealthTypeOK'
  BY <1>1 DEF HealthTypeOK, NoAnswer, growth
<1>3. Reads' = Reads \cup {p} /\ p \notin Reads
  BY <1>1 DEF PollStarts, Reads, HealthTypeOK
<1>4. /\ poll'[p].now = clock /\ poll'[p].size = size /\ poll'[p].automation = automation
      /\ \A q \in Reads : poll'[q] = poll[q]
  BY <1>1, <1>3 DEF HealthTypeOK, Reads
<1>5. NothingIsAhead'
  BY <1>1, <1>3, <1>4 DEF NothingIsAhead, HealthTypeOK, NoSize
<1>6. FailuresAreReal'
  BY <1>1, <1>3, <1>4 DEF FailuresAreReal, NothingIsAhead, StrongFailure, HealthTypeOK
<1>7. GrowthIsOfRecords'
  <2>1. SUFFICES ASSUME ~overlapping, Reads = {} PROVE growths' <= size
    BY <1>1, <1>3, <1>4 DEF GrowthIsOfRecords
  <2> QED
    BY <1>1, <2>1 DEF GrowthIsOfRecords, NothingIsAhead, HealthTypeOK, growth, NoSize
<1> QED BY <1>1, <1>2, <1>5, <1>6, <1>7 DEF NoAnswer

LEMMA HealthPollEnds ==
    ASSUME HealthInv, NEW p \in Poll, PollEnds(p)
    PROVE  HealthInv'
<1> USE HealthAssumption DEF HealthInv
<1>1. /\ p \in Reads
      /\ poll' = [poll EXCEPT ![p] = NotAsking]
      /\ firstStrongFailureObservedAt' = FirstFailure(p)
      /\ lastJsonlSize' = poll[p].size
      /\ unseen' = (unseen /\ ~(Reads = {p} /\ poll[p].automation.start = automation.start
                                 /\ ~StrongFailure(p)))
      /\ UNCHANGED <<clock, size, automation, downSince, growths, overlapping>>
  BY DEF PollEnds, Reads
<1>2. PICK alive1 \in BOOLEAN :
         answer' = [state |-> State(p, alive1),
                    justified |-> \/ unseen
                                  \/ downSince # Never /\ poll[p].now > downSince + DisconnectedAfter]
  BY DEF PollEnds
<1>3. FirstFailure(p) \in Nat
  BY DEF FirstFailure, HealthTypeOK, Never
<1>4. /\ State(p, alive1) \in {"active", "degraded", "disconnected", "idle", "stale", "unknown"}
      /\ State(p, alive1) = "disconnected" =>
             /\ StrongFailure(p) /\ FirstFailure(p) # Never
             /\ poll[p].now > FirstFailure(p) + DisconnectedAfter
  BY DEF State
<1>5. HealthTypeOK'
  <2>1. poll' \in [Poll -> [at : {"none", "asking"}, now : Nat, size : Nat, growth : BOOLEAN, automation : Snapshot]]
    BY <1>1 DEF HealthTypeOK, NotAsking, NoSnapshot, Snapshot, Never
  <2> QED BY <1>1, <1>2, <1>3, <1>4, <2>1 DEF HealthTypeOK
<1>6. Reads' = Reads \ {p} /\ \A q \in Reads' : poll'[q] = poll[q]
  BY <1>1 DEF Reads, HealthTypeOK, NotAsking
<1>7. NothingIsAhead'
  BY <1>1, <1>6 DEF NothingIsAhead, NoSize
<1>8. FailuresAreReal'
  <2>1. CASE unseen /\ ~unseen'
    BY <1>1, <1>6, <2>1 DEF FailuresAreReal, FirstFailure
  <2>2. CASE unseen'
    BY <1>1, <1>6, <2>2 DEF FailuresAreReal
  <2>3. CASE ~unseen
    BY <1>1, <1>6, <2>3 DEF FailuresAreReal, FirstFailure, StrongFailure, HealthTypeOK
  <2> QED BY <2>1, <2>2, <2>3
<1>9. GrowthIsOfRecords'
  BY <1>1, <1>6 DEF GrowthIsOfRecords, NothingIsAhead, NoSize, HealthTypeOK
<1>10. State(p, alive1) = "disconnected" => answer'.justified
  <2>1. SUFFICES ASSUME State(p, alive1) = "disconnected", ~unseen
                 PROVE  downSince # Never /\ poll[p].now > downSince + DisconnectedAfter
    BY <1>2
  <2>2. firstStrongFailureObservedAt # Never /\ FirstFailure(p) = firstStrongFailureObservedAt
    BY <1>4, <2>1, <1>1 DEF FirstFailure, HealthTypeOK
  <2> QED BY <1>4, <2>1, <2>2, <1>1 DEF FailuresAreReal, HealthTypeOK
<1> QED BY <1>2, <1>5, <1>7, <1>8, <1>9, <1>10

LEMMA HealthStep == HealthInv /\ [HealthNext]_healthVars => HealthInv'
<1> SUFFICES ASSUME HealthInv, [HealthNext]_healthVars PROVE HealthInv'
  OBVIOUS
<1>1. CASE UNCHANGED healthVars
  BY <1>1 DEF healthVars, HealthInv, HealthTypeOK, NothingIsAhead, FailuresAreReal, GrowthIsOfRecords,
              Reads, StrongFailure, NoSize
<1> QED
  BY <1>1, HealthTick, HealthEvent, HealthStart, HealthRecovery, HealthStop, HealthPollStarts, HealthPollEnds
     DEF HealthNext

\* "disconnected" is said of a session that has been stopped for longer than the threshold,
\* unless a start has not been seen, and polls that do not overlap take no record of the file
\* for a new one twice (connection-health-service.ts:98-102, :146-170, :211-240, :268).
THEOREM HealthEvidenced == HealthInit /\ [][HealthNext]_healthVars => []HealthIsEvidence
BY HealthInitially, HealthStep, HealthEvidence, PTL

(***************************************************************************)
(* The export.                                                             *)
(***************************************************************************)

ExportTypeOK ==
    /\ bridgeConfig \in [enabled : BOOLEAN, persist : BOOLEAN]
    /\ exchange \in [Exchange -> {"new", "requested", "aborted", "reading", "posted", "ended", "failed", "timedOut"}]
    /\ sinkExists \in BOOLEAN
    /\ ingest \in [Ingestion -> [at : {"none", "received", "loading", "loaded", "ended"}, persist : BOOLEAN,
                                 targets : SUBSET Ingestion]]
    /\ outcome \in [Ingestion -> {"none", "persisted", "noSink", "noTarget", "notAsked", "error"}]
    /\ jsonl \in Seq(Ingestion)
    /\ everTargets \in SUBSET Ingestion

\* Whatever decides what is exported has been in the file of the targets.
TargetsAreOfTheFile ==
    /\ targetsFile \subseteq everTargets
    /\ \A c \in Ingestion : ingest[c].targets \subseteq everTargets

ServiceIsOfTheFile ==
    ingestService # NoService => ingestService \in [matches : SUBSET everTargets, sink : BOOLEAN]

\* An event is posted once, and its request has an outcome when it has ended; one that
\* persists has a sink by the time it loads the targets.
IngestionsAreOnce ==
    /\ \A e \in Exchange : exchange[e] \in {"new", "requested", "reading"} => ingest[e].at = "none"
    /\ \A c \in Ingestion :
        /\ outcome[c] # "none" => ingest[c].at = "ended"
        /\ ingest[c].at \in {"loading", "loaded"} /\ ingest[c].persist => sinkExists

ExportInv ==
    ExportTypeOK /\ TargetsAreOfTheFile /\ ServiceIsOfTheFile /\ IngestionsAreOnce /\ IsFiniteSet(Recorded) /\ ExportIsExact

\* The records of a file that another record is appended to.
LEMMA RecordedAppend ==
    ASSUME jsonl \in Seq(Ingestion), NEW c \in Ingestion, jsonl' = Append(jsonl, c)
    PROVE  /\ jsonl' \in Seq(Ingestion) /\ Len(jsonl') = Len(jsonl) + 1
           /\ Recorded' = Recorded \cup {c}
<1>1. /\ jsonl' \in Seq(Ingestion) /\ Len(jsonl') = Len(jsonl) + 1
      /\ \A i \in 1..Len(jsonl) : jsonl'[i] = jsonl[i]
      /\ jsonl'[Len(jsonl) + 1] = c
  BY AppendProperties
<1>2. DOMAIN jsonl = 1..Len(jsonl) /\ DOMAIN jsonl' = 1..(Len(jsonl) + 1) /\ Len(jsonl) \in Nat
  BY <1>1, LenProperties
<1> QED BY <1>1, <1>2 DEF Recorded

\* What a request to ingest is stays so when it has loaded the targets.
LEMMA LoadsType ==
    ASSUME NEW S, NEW At, NEW Targets, NEW c \in S, NEW to \in At, NEW targets \in Targets,
           NEW f \in [S -> [at : At, persist : BOOLEAN, targets : Targets]]
    PROVE  [f EXCEPT ![c].at = to, ![c].targets = targets] \in [S -> [at : At, persist : BOOLEAN, targets : Targets]]
OBVIOUS

LEMMA ExportInitially == ExportInit => ExportInv
<1> SUFFICES ASSUME ExportInit PROVE ExportInv
  OBVIOUS
<1>1. ExportTypeOK
  <2>1. NotIngesting \in [at : {"none", "received", "loading", "loaded", "ended"}, persist : BOOLEAN,
                          targets : SUBSET Ingestion]
    BY DEF NotIngesting
  <2>2. jsonl \in Seq(Ingestion)
    BY DEF ExportInit
  <2>3. everTargets \in SUBSET Ingestion
    BY DEF ExportInit
  <2> QED BY <2>1, <2>2, <2>3 DEF ExportInit, ExportTypeOK
<1>4. IngestionsAreOnce
  BY DEF ExportInit, IngestionsAreOnce, NotIngesting, Ingestion
<1>2. TargetsAreOfTheFile /\ ServiceIsOfTheFile
  BY DEF ExportInit, TargetsAreOfTheFile, ServiceIsOfTheFile, NotIngesting
<1>3. Recorded = {} /\ Len(jsonl) = 0
  BY DEF ExportInit, Recorded
<1> QED
  BY <1>1, <1>2, <1>3, <1>4, FS_EmptySet DEF ExportInit, ExportInv, ExportIsExact

\* The steps of the bridge, and those of the add-on that neither read nor decide.
LEMMA ExportFrame ==
    ASSUME ExportInv, ExportTypeOK', IngestionsAreOnce',
           UNCHANGED <<jsonl, outcome, targetsFile, everTargets, ingestService>>,
           \A c \in Ingestion : ingest'[c].targets \subseteq ingest[c].targets,
           \A c \in Recorded : ingest'[c].persist = ingest[c].persist
    PROVE  ExportInv'
<1>1. Recorded' = Recorded
  BY DEF Recorded
<1>2. TargetsAreOfTheFile' /\ ServiceIsOfTheFile'
  <2>1. TargetsAreOfTheFile'
    BY DEF ExportInv, TargetsAreOfTheFile
  <2>2. ServiceIsOfTheFile'
    BY DEF ExportInv, ServiceIsOfTheFile
  <2> QED BY <2>1, <2>2
<1>3. ExportIsExact'
  <2>1. ASSUME NEW c \in Ingestion
        PROVE  /\ c \in Recorded' <=> outcome'[c] = "persisted"
               /\ c \in Recorded' => ingest'[c].persist /\ c \in everTargets'
               /\ outcome'[c] # "noSink"
    BY <1>1, <2>1 DEF ExportInv, ExportIsExact
  <2>2. Len(jsonl') = Cardinality(Recorded')
    BY <1>1 DEF ExportInv, ExportIsExact
  <2> QED BY <2>1, <2>2 DEF ExportIsExact
<1> QED BY <1>1, <1>2, <1>3 DEF ExportInv

\* A request that ends with a service whose targets the file has had.
LEMMA IngestsStep ==
    ASSUME ExportInv, NEW c \in Ingestion, NEW using \in [matches : SUBSET everTargets, sink : BOOLEAN],
           ingest[c].at \in {"received", "loaded"}, ingest[c].persist => using.sink,
           Ingests(c, using),
           sinkExists' \in BOOLEAN, sinkExists => sinkExists',
           UNCHANGED <<bridgeConfig, exchange, targetsFile, everTargets>>,
           ingestService' # NoService => ingestService' \in [matches : SUBSET everTargets, sink : BOOLEAN]
    PROVE  ExportInv'
<1> USE DEF ExportInv
<1> DEFINE appends == ingest[c].persist /\ using.sink /\ c \in using.matches
<1> DEFINE isAppended == appends /\ jsonl' = Append(jsonl, c)
<1>1. /\ ingest' = [ingest EXCEPT ![c].at = "ended"]
      /\ \/ /\ appends /\ jsonl' = Append(jsonl, c) /\ outcome' = [outcome EXCEPT ![c] = "persisted"]
         \/ /\ jsonl' = jsonl
            /\ \E said \in {"noTarget", "notAsked", "error"} : outcome' = [outcome EXCEPT ![c] = said]
  BY DEF Ingests
<1>a. jsonl \in Seq(Ingestion) /\ Append(jsonl, c) # jsonl
  <2>1. jsonl \in Seq(Ingestion)
    BY DEF ExportTypeOK
  <2>2. Len(Append(jsonl, c)) = Len(jsonl) + 1 /\ Len(jsonl) \in Nat
    BY <2>1
  <2> QED BY <2>1, <2>2
<1> HIDE DEF appends
<1>2. /\ outcome'[c] \in {"persisted", "noTarget", "notAsked", "error"}
      /\ outcome'[c] = "persisted" <=> isAppended
      /\ \A q \in Ingestion \ {c} : outcome'[q] = outcome[q] /\ ingest'[q] = ingest[q]
      /\ ingest'[c].persist = ingest[c].persist /\ ingest'[c].at = "ended" /\ ingest'[c].targets = ingest[c].targets
  BY <1>1, <1>a DEF ExportTypeOK
<1>b. /\ isAppended \/ jsonl' = jsonl
      /\ isAppended => jsonl' = Append(jsonl, c) /\ ingest[c].persist /\ c \in using.matches
  BY <1>1 DEF appends
<1> HIDE DEF isAppended
<1>3. c \notin Recorded
  BY DEF IngestionsAreOnce, ExportIsExact
<1>4. /\ jsonl' \in Seq(Ingestion)
      /\ Recorded' = IF isAppended THEN Recorded \cup {c} ELSE Recorded
      /\ IsFiniteSet(Recorded') /\ Len(jsonl') = Cardinality(Recorded')
  <2>1. CASE isAppended
    <3>1. jsonl' \in Seq(Ingestion) /\ Len(jsonl') = Len(jsonl) + 1 /\ Recorded' = Recorded \cup {c}
      BY <1>a, <1>b, <2>1, RecordedAppend
    <3>2. IsFiniteSet(Recorded) /\ Len(jsonl) = Cardinality(Recorded)
      BY DEF ExportIsExact
    <3>3. IsFiniteSet(Recorded \cup {c}) /\ Cardinality(Recorded \cup {c}) = Cardinality(Recorded) + 1
      BY <1>3, <3>2, FS_AddElement
    <3> HIDE DEF ExportInv
    <3> QED BY <2>1, <3>1, <3>2, <3>3
  <2>2. CASE ~isAppended
    <3>1. jsonl' = jsonl
      BY <1>b, <2>2
    <3>2. Recorded' = Recorded
      BY <3>1 DEF Recorded
    <3>3. IsFiniteSet(Recorded) /\ Len(jsonl) = Cardinality(Recorded)
      BY DEF ExportIsExact
    <3> HIDE DEF ExportInv
    <3> QED BY <1>a, <2>2, <3>1, <3>2, <3>3
  <2> QED BY <2>1, <2>2
<1>5. ExportTypeOK'
  <2>1. outcome' \in [Ingestion -> {"none", "persisted", "noSink", "noTarget", "notAsked", "error"}]
    BY <1>1 DEF ExportTypeOK
  <2>2. ingest' \in [Ingestion -> [at : {"none", "received", "loading", "loaded", "ended"}, persist : BOOLEAN,
                                  targets : SUBSET Ingestion]]
    <3> DEFINE At == {"none", "received", "loading", "loaded", "ended"}
               Sets == SUBSET Ingestion
    <3>1. ingest \in [Ingestion -> [at : At, persist : BOOLEAN, targets : Sets]] /\ "ended" \in At
      BY DEF ExportTypeOK
    <3>2. ingest' = [ingest EXCEPT ![c].at = "ended"]
      BY <1>1
    <3> HIDE DEF At, Sets, ExportInv
    <3>3. ingest' \in [Ingestion -> [at : At, persist : BOOLEAN, targets : Sets]]
      BY <3>1, <3>2
    <3> QED BY <3>3 DEF At, Sets
  <2>3. jsonl' \in Seq(Ingestion)
    BY <1>4
  <2>4. /\ bridgeConfig' \in [enabled : BOOLEAN, persist : BOOLEAN]
        /\ exchange' \in [Exchange -> {"new", "requested", "aborted", "reading", "posted", "ended", "failed", "timedOut"}]
        /\ sinkExists' \in BOOLEAN /\ everTargets' \in SUBSET Ingestion
    BY DEF ExportTypeOK
  <2> HIDE DEF ExportInv
  <2> QED BY <2>1, <2>2, <2>3, <2>4 DEF ExportTypeOK
<1>6. TargetsAreOfTheFile' /\ ServiceIsOfTheFile'
  BY <1>2 DEF TargetsAreOfTheFile, ServiceIsOfTheFile
<1>7. IngestionsAreOnce'
  BY <1>2 DEF IngestionsAreOnce, ExportTypeOK, Ingestion
<1>8. ExportIsExact'
  BY <1>2, <1>3, <1>4, <1>b DEF ExportIsExact
<1> QED BY <1>4, <1>5, <1>6, <1>7, <1>8

LEMMA BridgeSteps ==
    ASSUME ExportInv, NEW e \in Exchange,
           TrackRequest(e) \/ ExchangeAborts(e) \/ TrackResponse(e) \/ PostEvent(e) \/ PostEnds(e)
    PROVE  ExportInv'
<1> USE DEF ExportInv
<1>1. UNCHANGED <<jsonl, outcome, targetsFile, everTargets, ingestService, sinkExists, bridgeConfig>>
  BY DEF TrackRequest, ExchangeAborts, TrackResponse, PostEvent, PostEnds, AddonRests
<1>2. CASE UNCHANGED ingest
  <2>1. \E to \in {"requested", "aborted", "reading", "posted", "ended", "failed", "timedOut"} :
            /\ exchange' = [exchange EXCEPT ![e] = to]
            /\ to \in {"requested", "reading"} => exchange[e] \in {"new", "requested"}
    BY <1>2 DEF TrackRequest, ExchangeAborts, TrackResponse, PostEvent, PostEnds, ExchangeGoesTo
  <2>2. ExportTypeOK'
    BY <1>1, <1>2, <2>1 DEF ExportTypeOK
  <2>3. IngestionsAreOnce'
    BY <1>1, <1>2, <2>1 DEF ExportTypeOK, IngestionsAreOnce, Ingestion
  <2> QED BY <1>1, <1>2, <2>2, <2>3, ExportFrame
<1>3. CASE ~UNCHANGED ingest
  <2>1. /\ exchange' = [exchange EXCEPT ![e] = "posted"] /\ exchange[e] = "reading"
        /\ ingest' = [ingest EXCEPT ![e] = [NotIngesting EXCEPT !.at = "received", !.persist = bridgeConfig.persist]]
    BY <1>3 DEF TrackRequest, ExchangeAborts, TrackResponse, PostEvent, PostEnds, ExchangeGoesTo
  <2>2. ExportTypeOK'
    BY <1>1, <2>1 DEF ExportTypeOK, NotIngesting
  <2>3. ingest[e].at = "none" /\ e \notin Recorded
    BY <2>1 DEF IngestionsAreOnce, ExportIsExact, Ingestion
  <2>4. IngestionsAreOnce'
    BY <1>1, <2>1, <2>3 DEF ExportTypeOK, IngestionsAreOnce, Ingestion, NotIngesting
  <2>5. /\ \A c \in Ingestion : ingest'[c].targets \subseteq ingest[c].targets
        /\ \A c \in Recorded : ingest'[c].persist = ingest[c].persist
    BY <2>1, <2>3 DEF ExportTypeOK, NotIngesting
  <2> QED BY <1>1, <2>2, <2>4, <2>5, ExportFrame
<1> QED BY <1>2, <1>3

LEMMA AddonSteps ==
    ASSUME ExportInv, NEW c \in Ingestion,
           OtherPosts(c) \/ IngestStarts(c) \/ TargetsAreRead(c) \/ IngestResumes(c)
    PROVE  ExportInv'
<1> USE DEF ExportInv
<1>1. CASE OtherPosts(c)
  <2>1. PICK persist \in BOOLEAN :
           ingest' = [ingest EXCEPT ![c] = [NotIngesting EXCEPT !.at = "received", !.persist = persist]]
    BY <1>1 DEF OtherPosts
  <2>2. /\ UNCHANGED <<jsonl, outcome, targetsFile, everTargets, ingestService, sinkExists, bridgeConfig, exchange>>
        /\ ingest[c].at = "none" /\ c \in Ingest
    BY <1>1 DEF OtherPosts, AddonRests
  <2>3. c \notin Recorded /\ c \notin Exchange
    BY <2>2, ExportAssumption DEF IngestionsAreOnce, ExportIsExact
  <2>4. ExportTypeOK'
    BY <2>1, <2>2 DEF ExportTypeOK, NotIngesting
  <2>5. IngestionsAreOnce'
    BY <2>1, <2>2, <2>3 DEF ExportTypeOK, IngestionsAreOnce, Ingestion, NotIngesting
  <2>6. /\ \A q \in Ingestion : ingest'[q].targets \subseteq ingest[q].targets
        /\ \A q \in Recorded : ingest'[q].persist = ingest[q].persist
    BY <2>1, <2>3 DEF ExportTypeOK, NotIngesting
  <2> QED BY <2>2, <2>4, <2>5, <2>6, ExportFrame
<1>2. CASE IngestStarts(c)
  <2>1. /\ ingest[c].at = "received" /\ sinkExists' = (sinkExists \/ ingest[c].persist)
        /\ UNCHANGED <<bridgeConfig, exchange, targetsFile, ingestService, everTargets>>
    BY <1>2 DEF IngestStarts
  <2>2. CASE Suffices(ingestService, ingest[c].persist)
    <3>1. Ingests(c, ingestService)
      BY <1>2, <2>2 DEF IngestStarts
    <3>2. ingestService \in [matches : SUBSET everTargets, sink : BOOLEAN] /\ (ingest[c].persist => ingestService.sink)
      BY <2>2 DEF Suffices, ServiceIsOfTheFile
    <3>3. sinkExists' \in BOOLEAN /\ (sinkExists => sinkExists')
      BY <2>1 DEF ExportTypeOK
    <3> QED BY <2>1, <3>1, <3>2, <3>3, IngestsStep
  <2>3. CASE ~Suffices(ingestService, ingest[c].persist)
    <3>1. ingest' = [ingest EXCEPT ![c].at = "loading"] /\ UNCHANGED <<jsonl, outcome>>
      BY <1>2, <2>3 DEF IngestStarts
    <3>2. ExportTypeOK'
      <4>1. ingest' \in [Ingestion -> [at : {"none", "received", "loading", "loaded", "ended"}, persist : BOOLEAN,
                                      targets : SUBSET Ingestion]]
        <5>1. ingest \in [Ingestion -> [at : {"none", "received", "loading", "loaded", "ended"}, persist : BOOLEAN,
                                       targets : SUBSET Ingestion]]
          BY DEF ExportTypeOK
        <5>2. [ingest[c] EXCEPT !.at = "loading"]
                 \in [at : {"none", "received", "loading", "loaded", "ended"}, persist : BOOLEAN, targets : SUBSET Ingestion]
          BY <5>1
        <5>3. ingest' = [ingest EXCEPT ![c] = [ingest[c] EXCEPT !.at = "loading"]]
          BY <3>1
        <5> HIDE DEF ExportInv
        <5> QED BY <5>1, <5>2, <5>3
      <4>2. sinkExists' \in BOOLEAN
        BY <2>1 DEF ExportTypeOK
      <4> QED BY <2>1, <3>1, <4>1, <4>2 DEF ExportTypeOK
    <3>3. IngestionsAreOnce'
      BY <2>1, <3>1 DEF ExportTypeOK, IngestionsAreOnce, Ingestion
    <3>4. \A q \in Ingestion : ingest'[q].targets = ingest[q].targets /\ ingest'[q].persist = ingest[q].persist
      BY <3>1 DEF ExportTypeOK
    <3> QED BY <2>1, <3>1, <3>2, <3>3, <3>4, ExportFrame
  <2> QED BY <2>2, <2>3
<1>3. CASE TargetsAreRead(c)
  <2>1. /\ ingest[c].at = "loading"
        /\ UNCHANGED <<bridgeConfig, exchange, targetsFile, sinkExists, ingestService, jsonl, everTargets>>
    BY <1>3 DEF TargetsAreRead, AddonRests
  <2>2. c \notin Recorded
    BY <2>1 DEF IngestionsAreOnce, ExportIsExact
  <2>3. CASE ingest' = [ingest EXCEPT ![c].at = "loaded", ![c].targets = targetsFile] /\ UNCHANGED outcome
    <3>1. targetsFile \subseteq everTargets /\ everTargets \subseteq Ingestion
      BY DEF TargetsAreOfTheFile, ExportTypeOK
    <3>2. ingest' \in [Ingestion -> [at : {"none", "received", "loading", "loaded", "ended"}, persist : BOOLEAN,
                                    targets : SUBSET Ingestion]]
      <4> DEFINE At == {"none", "received", "loading", "loaded", "ended"}
                 Sets == SUBSET Ingestion
      <4>1. ingest \in [Ingestion -> [at : At, persist : BOOLEAN, targets : Sets]]
        BY DEF ExportTypeOK
      <4>2. targetsFile \in Sets /\ "loaded" \in At /\ c \in Ingestion
        BY <3>1
      <4> HIDE DEF At, Sets
      <4>3. [ingest EXCEPT ![c].at = "loaded", ![c].targets = targetsFile] \in
                [Ingestion -> [at : At, persist : BOOLEAN, targets : Sets]]
        BY ONLY <4>1, <4>2, LoadsType
      <4> QED BY <2>3, <4>3 DEF At, Sets
    <3>3. ExportTypeOK'
      BY <2>1, <2>3, <3>2 DEF ExportTypeOK
    <3>4. IngestionsAreOnce'
      BY <2>1, <2>3 DEF ExportTypeOK, IngestionsAreOnce, Ingestion
    <3>5. /\ ingest'[c].targets = targetsFile /\ ingest'[c].persist = ingest[c].persist
          /\ \A q \in Ingestion \ {c} : ingest'[q] = ingest[q]
      BY <2>3 DEF ExportTypeOK
    <3>7. TargetsAreOfTheFile' /\ ServiceIsOfTheFile'
      BY <2>1, <3>1, <3>5 DEF TargetsAreOfTheFile, ServiceIsOfTheFile
    <3>6. Recorded' = Recorded
      BY <2>1 DEF Recorded
    <3> QED BY <2>1, <2>3, <3>3, <3>4, <3>5, <3>6, <3>7 DEF ExportIsExact
  <2>4. CASE ingest' = [ingest EXCEPT ![c].at = "ended"] /\ outcome' = [outcome EXCEPT ![c] = "error"]
    <3>1. ExportTypeOK'
      BY <2>1, <2>4 DEF ExportTypeOK
    <3>2. IngestionsAreOnce'
      BY <2>1, <2>4 DEF ExportTypeOK, IngestionsAreOnce, Ingestion
    <3>3. \A q \in Ingestion : /\ ingest'[q].targets = ingest[q].targets /\ ingest'[q].persist = ingest[q].persist
                                /\ outcome'[q] = IF q = c THEN "error" ELSE outcome[q]
      BY <2>4 DEF ExportTypeOK
    <3>4. TargetsAreOfTheFile' /\ ServiceIsOfTheFile' /\ Recorded' = Recorded
      BY <2>1, <3>3 DEF TargetsAreOfTheFile, ServiceIsOfTheFile, Recorded
    <3> QED BY <2>1, <2>2, <3>1, <3>2, <3>3, <3>4 DEF ExportIsExact
  <2> QED BY <1>3, <2>3, <2>4 DEF TargetsAreRead
<1>4. CASE IngestResumes(c)
  <2>1. /\ ingest[c].at = "loaded" /\ ingestService' = [matches |-> ingest[c].targets, sink |-> sinkExists]
        /\ Ingests(c, ingestService')
        /\ UNCHANGED <<bridgeConfig, exchange, targetsFile, sinkExists, everTargets>>
    BY <1>4 DEF IngestResumes
  <2>2. ingestService' \in [matches : SUBSET everTargets, sink : BOOLEAN] /\ ingestService'.sink = sinkExists
    BY <2>1 DEF TargetsAreOfTheFile, ExportTypeOK
  <2>3. ingest[c].persist => sinkExists
    BY <2>1 DEF IngestionsAreOnce
  <2> QED BY <2>1, <2>2, <2>3, IngestsStep DEF ExportTypeOK
<1> QED BY <1>1, <1>2, <1>3, <1>4

LEMMA OutsideSteps ==
    ASSUME ExportInv, OutputStatus \/ TargetsAreEdited \/ AddonStartsAgain
    PROVE  ExportInv'
<1> USE DEF ExportInv
<1>1. Recorded' = Recorded
  BY DEF OutputStatus, TargetsAreEdited, AddonStartsAgain, Recorded
<1>2. CASE OutputStatus
  BY <1>1, <1>2 DEF OutputStatus, ExportTypeOK, TargetsAreOfTheFile, ServiceIsOfTheFile, IngestionsAreOnce,
                    ExportIsExact
<1>3. CASE TargetsAreEdited
  BY <1>1, <1>3 DEF TargetsAreEdited, ExportTypeOK, TargetsAreOfTheFile, ServiceIsOfTheFile, IngestionsAreOnce,
                    ExportIsExact
<1>4. CASE AddonStartsAgain
  <2> DEFINE cut == {c \in Ingestion : ingest[c].at \in {"received", "loading", "loaded"}}
  <2>1. /\ sinkExists' = FALSE /\ ingestService' = NoService
        /\ ingest' = [c \in Ingestion |-> IF c \in cut THEN [ingest[c] EXCEPT !.at = "ended"] ELSE ingest[c]]
        /\ outcome' = [c \in Ingestion |-> IF c \in cut THEN "error" ELSE outcome[c]]
        /\ UNCHANGED <<bridgeConfig, tracked, exchange, targetsFile, jsonl, everTargets>>
    BY <1>4 DEF AddonStartsAgain
  <2>2. ExportTypeOK'
    <3>1. \A c \in Ingestion :
              [ingest[c] EXCEPT !.at = "ended"] = [at |-> "ended", persist |-> ingest[c].persist,
                                                   targets |-> ingest[c].targets]
      BY DEF ExportTypeOK
    <3>2. ingest' \in [Ingestion -> [at : {"none", "received", "loading", "loaded", "ended"}, persist : BOOLEAN,
                                    targets : SUBSET Ingestion]]
      <4>1. ASSUME NEW c \in Ingestion
            PROVE  (IF c \in cut THEN [ingest[c] EXCEPT !.at = "ended"] ELSE ingest[c])
                     \in [at : {"none", "received", "loading", "loaded", "ended"}, persist : BOOLEAN,
                          targets : SUBSET Ingestion]
        BY <3>1 DEF ExportTypeOK
      <4> QED BY <2>1, <4>1
    <3> QED BY <2>1, <3>2 DEF ExportTypeOK
  <2>3. \A c \in Ingestion :
            /\ ingest'[c].targets = ingest[c].targets /\ ingest'[c].persist = ingest[c].persist
            /\ c \in cut => ingest'[c].at = "ended" /\ outcome'[c] = "error" /\ outcome[c] = "none"
            /\ c \notin cut => ingest'[c].at = ingest[c].at /\ outcome'[c] = outcome[c]
    BY <2>1 DEF ExportTypeOK, IngestionsAreOnce
  <2>4. TargetsAreOfTheFile' /\ ServiceIsOfTheFile'
    BY <2>1, <2>3 DEF TargetsAreOfTheFile, ServiceIsOfTheFile
  <2>5. IngestionsAreOnce'
    BY <2>1, <2>3 DEF IngestionsAreOnce, Ingestion
  <2>6. ExportIsExact'
    BY <1>1, <2>1, <2>3 DEF ExportIsExact
  <2> QED BY <1>1, <2>2, <2>4, <2>5, <2>6
<1> QED BY <1>2, <1>3, <1>4

LEMMA ExportStep == ExportInv /\ [ExportNext]_exportVars => ExportInv'
<1> SUFFICES ASSUME ExportInv, [ExportNext]_exportVars PROVE ExportInv'
  OBVIOUS
<1>1. CASE UNCHANGED exportVars
  BY <1>1 DEF exportVars, ExportInv, ExportTypeOK, TargetsAreOfTheFile, ServiceIsOfTheFile, IngestionsAreOnce,
              ExportIsExact, Recorded
<1> QED BY <1>1, BridgeSteps, AddonSteps, OutsideSteps DEF ExportNext

\* The file has one record of every event that was persisted, of one that was to be and that
\* the targets matched, and no request that persists finds no sink, whatever posts, edits and
\* restarts interleave (server.ts:404-413, export-ingest-service.ts:95-123).
THEOREM ExportExact == ExportInit /\ [][ExportNext]_exportVars => []ExportIsExact
<1>1. ExportInv => ExportIsExact
  BY DEF ExportInv
<1> QED BY <1>1, ExportInitially, ExportStep, PTL

(***************************************************************************)
(* The rescue of the network.                                              *)
(***************************************************************************)

\* SetToSeq lists a finite set.
LEMMA SetToSeqLists ==
    ASSUME NEW S, IsFiniteSet(S)
    PROVE  SetToSeq(S) \in Seq(S) /\ Range(SetToSeq(S)) = S
<1> DEFINE n == Cardinality(S)
<1>1. n \in Nat /\ ExistsBijection(1..n, S)
  BY FS_CardinalityType
<1>2. \E f \in [1..n -> S] : IsInjective(f)
  BY <1>1 DEF ExistsBijection, Bijection, Injection
<1>3. SetToSeq(S) \in [1..n -> S] /\ IsInjective(SetToSeq(S))
  BY <1>2 DEF SetToSeq
<1>4. SetToSeq(S) \in Injection(1..n, S)
  BY <1>3 DEF Injection
<1>5. IsFiniteSet(1..n) /\ Cardinality(1..n) = n
  BY <1>1, FS_Interval
<1>6. SetToSeq(S) \in Surjection(1..n, S)
  BY <1>4, <1>5, FS_Injection
<1>7. Range(SetToSeq(S)) = S
  BY <1>3, <1>6 DEF Range, Surjection
<1>8. SetToSeq(S) \in Seq(S)
  BY <1>1, <1>3, SeqDef
<1> QED BY <1>7, <1>8

\* The head of a sequence and the range of its tail.
LEMMA RangeOfTail ==
    ASSUME NEW S, NEW s \in Seq(S), s # <<>>
    PROVE  /\ Head(s) \in S /\ Tail(s) \in Seq(S)
           /\ Range(s) = {Head(s)} \cup Range(Tail(s))
<1>1. /\ Head(s) \in S /\ Tail(s) \in Seq(S) /\ Len(s) \in Nat \ {0}
      /\ Len(Tail(s)) = Len(s) - 1 /\ \A i \in 1..Len(Tail(s)) : Tail(s)[i] = s[i + 1]
  BY HeadTailProperties, EmptySeq
<1>2. Head(s) = s[1]
  OBVIOUS
<1>3. Range(s) = {s[i] : i \in 1..Len(s)}
  BY RangeEquality
<1>4. Range(Tail(s)) = {Tail(s)[i] : i \in 1..Len(Tail(s))}
  BY <1>1, RangeEquality
<1>5. \A i \in 1..Len(s) : i = 1 \/ (i - 1 \in 1..Len(Tail(s)) /\ s[i] = Tail(s)[i - 1])
  BY <1>1
<1>6. \A i \in 1..Len(Tail(s)) : i + 1 \in 1..Len(s)
  BY <1>1
<1>7. Range(s) \subseteq {Head(s)} \cup Range(Tail(s))
  <2>1. SUFFICES ASSUME NEW x \in Range(s) PROVE x \in {Head(s)} \cup Range(Tail(s))
    OBVIOUS
  <2>2. PICK i \in 1..Len(s) : x = s[i]
    BY <1>3
  <2>3. CASE i = 1
    BY <1>2, <2>2, <2>3
  <2>4. CASE i - 1 \in 1..Len(Tail(s)) /\ s[i] = Tail(s)[i - 1]
    BY <1>4, <2>2, <2>4
  <2> QED BY <1>5, <2>3, <2>4
<1>8. {Head(s)} \cup Range(Tail(s)) \subseteq Range(s)
  BY <1>1, <1>2, <1>3, <1>4, <1>6
<1> QED BY <1>1, <1>7, <1>8

\* The settings that a rescue with these options is to clear.
Asked(options) ==
    IF "dryRun" \in options THEN {}
    ELSE {key \in ProxyKey : "proxy" \in options} \cup {key \in DnsKey : "dns" \in options}

LEMMA PlanIsOfAsked ==
    ASSUME NEW r, NEW options
    PROVE  /\ RescuePlans(r, options) \in Seq(NetworkSetting)
           /\ Range(RescuePlans(r, options)) = Asked(options)
<1> DEFINE first == IF "proxy" \in options THEN SetToSeq(ProxyKey) ELSE <<>>
           second == IF "dns" \in options THEN <<"dnsMode", "dnsSpecifier">> ELSE <<>>
<1>1. SetToSeq(ProxyKey) \in Seq(ProxyKey) /\ Range(SetToSeq(ProxyKey)) = ProxyKey
  BY NetworkAssumption, SetToSeqLists
<1>2. SetToSeq(ProxyKey) \in Seq(NetworkSetting)
  BY <1>1, SeqMonotonic DEF NetworkSetting
<1>3. <<>> \in Seq(NetworkSetting) /\ Range(<<>>) = {}
  BY EmptySeq DEF Range
<1>4. /\ <<"dnsMode", "dnsSpecifier">> \in Seq(NetworkSetting)
      /\ Range(<<"dnsMode", "dnsSpecifier">>) = DnsKey
  BY DEF Range, DnsKey, NetworkSetting
<1>5. first \in Seq(NetworkSetting) /\ Range(first) = {key \in ProxyKey : "proxy" \in options}
  BY <1>1, <1>2, <1>3
<1>6. second \in Seq(NetworkSetting) /\ Range(second) = {key \in DnsKey : "dns" \in options}
  BY <1>3, <1>4
<1> HIDE DEF first, second
<1>7. first \o second \in Seq(NetworkSetting) /\ Range(first \o second) = Range(first) \cup Range(second)
  BY <1>5, <1>6, ConcatProperties, RangeConcatenation
<1>8. Planned(options \ {"vpn"}) = (first \o second) \o <<>>
  BY DEF Planned, first, second
<1>9. Planned(options \ {"vpn"}) = first \o second
  BY <1>7, <1>8, ConcatEmptySeq
<1> QED BY <1>3, <1>5, <1>6, <1>7, <1>9 DEF RescuePlans, Asked

RescuePhase == {"new", "before", "acting", "after", "ended", "error"}
OptionSets == SUBSET RescueOption
Plans == Seq(NetworkSetting)
SettingSets == SUBSET NetworkSetting

NetworkTypeOK ==
    /\ deviceSettings \in SettingSets
    /\ rescue \in [Rescue -> [at : RescuePhase, options : OptionSets, plan : Plans, after : SettingSets]]
    /\ everSet \in [Rescue -> SettingSets]
    /\ cleared \in [Rescue -> SettingSets]
    /\ missed \in [Rescue -> BOOLEAN]

\* What a rescue has cleared and is to clear is what it was asked for.
RescuesAsked(r) ==
    /\ Range(rescue[r].plan) \subseteq Asked(rescue[r].options)
    /\ cleared[r] \subseteq Asked(rescue[r].options)
    /\ rescue[r].at \in {"new", "before", "error"} => cleared[r] = {} /\ rescue[r].plan = <<>>

\* What it was asked for is still to be cleared or is clear, while nothing is missed.
RescueProgresses(r) ==
    LET asked == Asked(rescue[r].options)
    IN  ~missed[r] =>
            /\ rescue[r].at = "acting" => asked \cap deviceSettings \subseteq Range(rescue[r].plan)
            /\ rescue[r].at = "after" => asked \cap deviceSettings = {} /\ asked \cap everSet[r] = {}
            /\ rescue[r].at = "ended" /\ "after" \in rescue[r].options => asked \cap rescue[r].after = {}

NetworkInv ==
    NetworkTypeOK /\ \A r \in Rescue : RescuesAsked(r) /\ RescueProgresses(r)

LEMMA NetworkInitially == NetworkInit => NetworkInv
<1> SUFFICES ASSUME NetworkInit PROVE NetworkInv
  OBVIOUS
<1>1. NoRescue \in [at : RescuePhase, options : OptionSets, plan : Plans, after : SettingSets]
  BY EmptySeq DEF NoRescue, RescuePhase, OptionSets, Plans, SettingSets
<1>2. {} \in SettingSets
  BY DEF SettingSets
<1>3. NetworkTypeOK
  BY <1>1, <1>2 DEF NetworkInit, NetworkTypeOK, SettingSets
<1>4. ASSUME NEW r \in Rescue PROVE RescuesAsked(r) /\ RescueProgresses(r)
  <2>1. rescue[r] = NoRescue /\ cleared[r] = {}
    BY DEF NetworkInit
  <2>2. Range(<<>>) = {}
    BY DEF Range
  <2> QED BY <2>1, <2>2 DEF RescuesAsked, RescueProgresses, NoRescue
<1> QED BY <1>3, <1>4 DEF NetworkInv

\* A rescue that is as conservative as it says.
LEMMA RescueConserves == NetworkInv => RescueIsConservative
<1> SUFFICES ASSUME NetworkInv, NEW r \in Rescue
             PROVE  LET options == rescue[r].options
                    IN  /\ "dryRun" \in options => cleared[r] = {}
                        /\ "vpn" \notin cleared[r]
                        /\ cleared[r] \cap ProxyKey # {} => "proxy" \in options
                        /\ cleared[r] \cap DnsKey # {} => "dns" \in options
                        /\ rescue[r].at = "ended" /\ ~missed[r] /\ "dryRun" \notin options /\ "after" \in options
                             => NetworkWarnings(rescue[r].after) \cap options \subseteq {"vpn"}
  BY DEF RescueIsConservative
<1> DEFINE options == rescue[r].options
<1>1. cleared[r] \subseteq Asked(options)
  BY DEF NetworkInv, RescuesAsked
<1>2. /\ "dryRun" \in options => Asked(options) = {}
      /\ "vpn" \notin Asked(options)
      /\ Asked(options) \cap ProxyKey # {} => "proxy" \in options
      /\ Asked(options) \cap DnsKey # {} => "dns" \in options
  BY NetworkAssumption DEF Asked, DnsKey
<1>3. ASSUME rescue[r].at = "ended", ~missed[r], "dryRun" \notin options, "after" \in options
      PROVE  NetworkWarnings(rescue[r].after) \cap options \subseteq {"vpn"}
  <2>1. Asked(options) \cap rescue[r].after = {}
    BY <1>3 DEF NetworkInv, RescueProgresses
  <2>2. "proxy" \in options => rescue[r].after \cap ProxyKey = {}
    BY <1>3, <2>1 DEF Asked
  <2>3. "dns" \in options => ~(DnsKey \subseteq rescue[r].after)
    BY <1>3, <2>1 DEF Asked, DnsKey
  <2> QED BY <2>2, <2>3 DEF NetworkWarnings
<1> QED BY <1>1, <1>2, <1>3

\* A step of a rescue leaves the other ones where they are, and sets nothing on the device.
LEMMA OthersProgress ==
    ASSUME NetworkInv, NEW r \in Rescue, NEW q \in Rescue \ {r},
           rescue'[q] = rescue[q], cleared'[q] = cleared[q], missed'[q] = missed[q],
           deviceSettings' \subseteq deviceSettings,
           everSet'[q] \subseteq everSet[q] \cup deviceSettings
    PROVE  RescuesAsked(q)' /\ RescueProgresses(q)'
<1> USE DEF NetworkInv
<1>1. RescuesAsked(q)'
  BY DEF RescuesAsked
<1>2. RescueProgresses(q)'
  BY DEF RescueProgresses
<1> QED BY <1>1, <1>2

LEMMA RescueStartsStep ==
    ASSUME NetworkInv, NEW r \in Rescue, RescueStarts(r)
    PROVE  NetworkInv'
<1> USE DEF NetworkInv
<1>1. /\ UNCHANGED <<deviceSettings, cleared, missed>> /\ rescue[r].at = "new"
      /\ everSet' = [everSet EXCEPT ![r] = deviceSettings] \/ UNCHANGED everSet
  BY DEF RescueStarts, InspectionStarts
<1>2. \/ \E options \in OptionSets : rescue' = [rescue EXCEPT ![r].at = "before", ![r].options = options]
      \/ rescue' = [rescue EXCEPT ![r].at = "error"]
  BY NetworkAssumption DEF RescueStarts, OptionSets
<1>3. NetworkTypeOK'
  BY <1>1, <1>2 DEF NetworkTypeOK, RescuePhase
<1>4. /\ rescue'[r].at \in {"before", "error"} /\ rescue'[r].plan = rescue[r].plan
      /\ \A q \in Rescue \ {r} : rescue'[q] = rescue[q]
  BY <1>2 DEF NetworkTypeOK
<1>5. cleared[r] = {} /\ Range(rescue[r].plan) = {} /\ rescue[r].plan = <<>>
  BY <1>1 DEF RescuesAsked, Range
<1>6. RescuesAsked(r)' /\ RescueProgresses(r)'
  BY <1>1, <1>4, <1>5 DEF RescuesAsked, RescueProgresses
<1>7. ASSUME NEW q \in Rescue \ {r} PROVE RescuesAsked(q)' /\ RescueProgresses(q)'
  BY <1>1, <1>4, OthersProgress DEF NetworkTypeOK
<1> QED BY <1>3, <1>6, <1>7

LEMMA BeforeEndsStep ==
    ASSUME NetworkInv, NEW r \in Rescue, BeforeEnds(r)
    PROVE  NetworkInv'
<1> USE DEF NetworkInv
<1> DEFINE plan == RescuePlans(r, rescue[r].options)
<1>1. PICK report \in SUBSET everSet[r] :
         /\ InspectionEnds(r, report)
         /\ rescue' = [rescue EXCEPT ![r].at = "acting", ![r].plan = plan]
  BY DEF BeforeEnds
<1>2. rescue[r].at = "before" /\ UNCHANGED <<deviceSettings, cleared>>
  BY DEF BeforeEnds
<1>3. plan \in Plans /\ Range(plan) = Asked(rescue[r].options)
  BY PlanIsOfAsked DEF Plans
<1> HIDE DEF plan
<1>4. /\ missed' \in [Rescue -> BOOLEAN] /\ everSet' = [everSet EXCEPT ![r] = {}]
      /\ \A q \in Rescue \ {r} : missed'[q] = missed[q]
  BY <1>1 DEF InspectionEnds, NetworkTypeOK
<1>5. NetworkTypeOK'
  <2>1. rescue' \in [Rescue -> [at : RescuePhase, options : OptionSets, plan : Plans, after : SettingSets]]
    BY <1>1, <1>3 DEF NetworkTypeOK, RescuePhase
  <2>2. {} \in SettingSets
    BY DEF SettingSets
  <2> QED BY <1>2, <1>4, <2>1, <2>2 DEF NetworkTypeOK
<1>6. /\ rescue'[r].at = "acting" /\ rescue'[r].plan = plan /\ rescue'[r].options = rescue[r].options
      /\ \A q \in Rescue \ {r} : rescue'[q] = rescue[q] /\ everSet'[q] = everSet[q]
  BY <1>1, <1>4 DEF NetworkTypeOK
<1>7. RescuesAsked(r)' /\ RescueProgresses(r)'
  BY <1>2, <1>3, <1>6 DEF RescuesAsked, RescueProgresses
<1>8. ASSUME NEW q \in Rescue \ {r} PROVE RescuesAsked(q)' /\ RescueProgresses(q)'
  BY <1>2, <1>4, <1>6, OthersProgress
<1> QED BY <1>5, <1>7, <1>8

LEMMA RescueCommandStep ==
    ASSUME NetworkInv, NEW r \in Rescue, RescueCommand(r)
    PROVE  NetworkInv'
<1> USE DEF NetworkInv
<1> DEFINE plan == rescue[r].plan
<1>1. rescue[r].at = "acting" /\ plan # <<>> /\ rescue' = [rescue EXCEPT ![r].plan = Tail(plan)]
  BY DEF RescueCommand, NetworkTypeOK
<1>2. /\ Head(plan) \in NetworkSetting /\ Tail(plan) \in Plans
      /\ Range(plan) = {Head(plan)} \cup Range(Tail(plan))
  BY <1>1, RangeOfTail DEF NetworkTypeOK, Plans
<1>3. /\ rescue'[r].at = "acting" /\ rescue'[r].plan = Tail(plan) /\ rescue'[r].options = rescue[r].options
      /\ \A q \in Rescue \ {r} : rescue'[q] = rescue[q]
      /\ rescue' \in [Rescue -> [at : RescuePhase, options : OptionSets, plan : Plans, after : SettingSets]]
  BY <1>1, <1>2 DEF NetworkTypeOK
<1>4. Head(plan) \in Asked(rescue[r].options) /\ Range(Tail(plan)) \subseteq Asked(rescue[r].options)
  BY <1>2 DEF RescuesAsked
<1>5. CASE /\ DeviceChanges(deviceSettings \ {Head(plan)})
           /\ cleared' = [cleared EXCEPT ![r] = @ \cup {Head(plan)}]
           /\ UNCHANGED missed
  <2>1. /\ deviceSettings' = deviceSettings \ {Head(plan)}
        /\ everSet' = [q \in Rescue |-> IF Inspecting(q) THEN everSet[q] \cup deviceSettings' ELSE everSet[q]]
    BY <1>5 DEF DeviceChanges
  <2>2. deviceSettings' \in SettingSets /\ \A q \in Rescue : everSet[q] \cup deviceSettings' \in SettingSets
    BY <2>1 DEF NetworkTypeOK, SettingSets
  <2>3. cleared[r] \cup {Head(plan)} \in SettingSets
    BY <1>2 DEF NetworkTypeOK, SettingSets
  <2>4. NetworkTypeOK'
    BY <1>3, <1>5, <2>1, <2>2, <2>3 DEF NetworkTypeOK
  <2>5. cleared'[r] = cleared[r] \cup {Head(plan)} /\ \A q \in Rescue \ {r} : cleared'[q] = cleared[q]
    BY <1>5 DEF NetworkTypeOK
  <2>6. RescuesAsked(r)'
    BY <1>3, <1>4, <2>5 DEF RescuesAsked
  <2>7. RescueProgresses(r)'
    BY <1>1, <1>2, <1>3, <1>5, <2>1 DEF RescueProgresses
  <2>8. ASSUME NEW q \in Rescue \ {r} PROVE RescuesAsked(q)' /\ RescueProgresses(q)'
    BY <1>3, <1>5, <2>1, <2>5, OthersProgress
  <2> QED BY <2>4, <2>6, <2>7, <2>8
<1>6. CASE missed' = [missed EXCEPT ![r] = TRUE] /\ UNCHANGED <<deviceSettings, everSet, cleared>>
  <2>1. NetworkTypeOK' /\ missed'[r] /\ \A q \in Rescue \ {r} : missed'[q] = missed[q]
    BY <1>3, <1>6 DEF NetworkTypeOK
  <2>2. RescuesAsked(r)' /\ RescueProgresses(r)'
    BY <1>3, <1>4, <1>6, <2>1 DEF RescuesAsked, RescueProgresses
  <2>3. ASSUME NEW q \in Rescue \ {r} PROVE RescuesAsked(q)' /\ RescueProgresses(q)'
    BY <1>3, <1>6, <2>1, OthersProgress
  <2> QED BY <2>1, <2>2, <2>3
<1> QED BY <1>5, <1>6 DEF RescueCommand

LEMMA RescueActedStep ==
    ASSUME NetworkInv, NEW r \in Rescue, RescueActed(r)
    PROVE  NetworkInv'
<1> USE DEF NetworkInv
<1>1. /\ rescue[r].at = "acting" /\ rescue[r].plan = <<>> /\ UNCHANGED <<deviceSettings, cleared, missed>>
      /\ IF "after" \in rescue[r].options
         THEN rescue' = [rescue EXCEPT ![r].at = "after"] /\ everSet' = [everSet EXCEPT ![r] = deviceSettings]
         ELSE rescue' = [rescue EXCEPT ![r].at = "ended"] /\ UNCHANGED everSet
  BY DEF RescueActed, InspectionStarts
<1>2. NetworkTypeOK'
  <2>1. rescue' \in [Rescue -> [at : RescuePhase, options : OptionSets, plan : Plans, after : SettingSets]]
    BY <1>1, SMTT(20) DEF NetworkTypeOK, RescuePhase
  <2>2. everSet' \in [Rescue -> SettingSets]
    BY <1>1 DEF NetworkTypeOK
  <2> QED BY <1>1, <2>1, <2>2 DEF NetworkTypeOK
<1>3. /\ rescue'[r].options = rescue[r].options /\ rescue'[r].plan = <<>>
      /\ rescue'[r].at = IF "after" \in rescue[r].options THEN "after" ELSE "ended"
      /\ "after" \in rescue[r].options => everSet'[r] = deviceSettings
      /\ \A q \in Rescue \ {r} : rescue'[q] = rescue[q] /\ everSet'[q] = everSet[q]
  BY <1>1 DEF NetworkTypeOK
<1>4. Range(<<>>) = {}
  BY DEF Range
<1>5. RescuesAsked(r)' /\ RescueProgresses(r)'
  BY <1>1, <1>3, <1>4 DEF RescuesAsked, RescueProgresses
<1>6. ASSUME NEW q \in Rescue \ {r} PROVE RescuesAsked(q)' /\ RescueProgresses(q)'
  BY <1>1, <1>3, OthersProgress
<1> QED BY <1>2, <1>5, <1>6

LEMMA AfterEndsStep ==
    ASSUME NetworkInv, NEW r \in Rescue, AfterEnds(r)
    PROVE  NetworkInv'
<1> USE DEF NetworkInv
<1>1. PICK report \in SUBSET everSet[r] :
         /\ InspectionEnds(r, report)
         /\ rescue' = [rescue EXCEPT ![r].at = "ended", ![r].after = report]
  BY DEF AfterEnds
<1>2. rescue[r].at = "after" /\ UNCHANGED <<deviceSettings, cleared>>
  BY DEF AfterEnds
<1>3. report \in SettingSets
  BY DEF NetworkTypeOK, SettingSets
<1>4. /\ missed' \in [Rescue -> BOOLEAN] /\ everSet' = [everSet EXCEPT ![r] = {}]
      /\ missed[r] => missed'[r]
      /\ \A q \in Rescue \ {r} : missed'[q] = missed[q]
  BY <1>1 DEF InspectionEnds, NetworkTypeOK
<1>5. NetworkTypeOK'
  <2>1. rescue' \in [Rescue -> [at : RescuePhase, options : OptionSets, plan : Plans, after : SettingSets]]
    BY <1>1, <1>3 DEF NetworkTypeOK, RescuePhase
  <2>2. {} \in SettingSets
    BY DEF SettingSets
  <2> QED BY <1>2, <1>4, <2>1, <2>2 DEF NetworkTypeOK
<1>6. /\ rescue'[r].at = "ended" /\ rescue'[r].after = report
      /\ rescue'[r].options = rescue[r].options /\ rescue'[r].plan = rescue[r].plan
      /\ \A q \in Rescue \ {r} : rescue'[q] = rescue[q] /\ everSet'[q] = everSet[q]
  BY <1>1, <1>4 DEF NetworkTypeOK
<1>7. RescuesAsked(r)' /\ RescueProgresses(r)'
  BY <1>2, <1>4, <1>6 DEF RescuesAsked, RescueProgresses
<1>8. ASSUME NEW q \in Rescue \ {r} PROVE RescuesAsked(q)' /\ RescueProgresses(q)'
  BY <1>2, <1>4, <1>6, OthersProgress
<1> QED BY <1>5, <1>7, <1>8

LEMMA OthersWriteStep == NetworkInv /\ OthersWrite => NetworkInv'
<1> SUFFICES ASSUME NetworkInv, OthersWrite PROVE NetworkInv'
  OBVIOUS
<1> USE DEF NetworkInv
<1>1. PICK key \in NetworkSetting :
         \/ DeviceChanges(deviceSettings \cup {key})
         \/ DeviceChanges(deviceSettings \ {key})
  BY DEF OthersWrite
<1>2. /\ deviceSettings' \in SettingSets
      /\ everSet' = [q \in Rescue |-> IF Inspecting(q) THEN everSet[q] \cup deviceSettings' ELSE everSet[q]]
  BY <1>1 DEF DeviceChanges, NetworkTypeOK, SettingSets
<1>3. \A q \in Rescue : everSet[q] \cup deviceSettings' \in SettingSets
  BY <1>2 DEF NetworkTypeOK, SettingSets
<1>4. /\ UNCHANGED <<rescue, cleared>>
      /\ missed' = [r \in Rescue |-> missed[r] \/ rescue[r].at \notin {"new", "ended", "error"}]
  BY DEF OthersWrite
<1>5. NetworkTypeOK'
  BY <1>2, <1>3, <1>4 DEF NetworkTypeOK
<1>6. ASSUME NEW r \in Rescue PROVE RescuesAsked(r)' /\ RescueProgresses(r)'
  BY <1>4 DEF RescuesAsked, RescueProgresses
<1> QED BY <1>5, <1>6

LEMMA NetworkStep == NetworkInv /\ [NetworkNext]_networkVars => NetworkInv'
<1> SUFFICES ASSUME NetworkInv, [NetworkNext]_networkVars PROVE NetworkInv'
  OBVIOUS
<1>1. CASE UNCHANGED networkVars
  BY <1>1 DEF networkVars, NetworkInv, NetworkTypeOK, RescuesAsked, RescueProgresses
<1> QED
  BY <1>1, RescueStartsStep, BeforeEndsStep, RescueCommandStep, RescueActedStep, AfterEndsStep, OthersWriteStep
     DEF NetworkNext

\* A dry run clears nothing, the VPN is never touched, nothing is cleared that was not asked
\* for, and the last report of a rescue that missed nothing lacks what it was to clear,
\* however rescues overlap (android-network-safety.ts:89-183, :205-283).
THEOREM RescueConservative == NetworkInit /\ [][NetworkNext]_networkVars => []RescueIsConservative
BY NetworkInitially, NetworkStep, RescueConserves, PTL

(***************************************************************************)
(* The API.                                                                *)
(***************************************************************************)

ApiKind == Queries \union {"none", "activate", "deactivate"}
ApiParts == [of : Served \union {NoInterceptor},
             what : {"metadata", "activable", "active", "systemProxy", "dns", "untimed"}, due : Nat]
ApiRecords == [kind : ApiKind, started : Nat, nested : BOOLEAN, awaited : SUBSET ApiParts, reported : BOOLEAN]

\* The longest time of the list of the interceptors.
ListWithin == AnswerWithin("interceptors")

\* A call whose parts are due in time, and for GraphQL each of its two rounds.
IsTimely(r, time) ==
    /\ r.kind \in Queries /\ ~HasNoTimer(r) =>
           /\ time <= r.started + AnswerWithin(r.kind)
           /\ \A part \in r.awaited : part.due <= r.started + AnswerWithin(r.kind)
    /\ r.kind = "graphql" /\ ~r.nested =>
           /\ time <= r.started + ListWithin
           /\ \A part \in r.awaited : part.due <= r.started + ListWithin
    /\ r.kind = "activate" /\ time > r.started + ReportAfter => r.reported

ApiInv ==
    /\ now \in Nat /\ apiCall \in [ApiCall -> ApiRecords]
    /\ \A c \in ApiCall : IsTimely(apiCall[c], now)

\* A set of times has at most one longest one.
LEMMA LongestIs ==
    ASSUME NEW times, times \subseteq Nat, NEW t \in times, \A u \in times : u <= t
    PROVE  Longest(times) = t
<1> DEFINE IsLongest(v) == v \in times /\ \A u \in times : u <= v
<1>1. Longest(times) = CHOOSE v : IsLongest(v)
  BY DEF Longest
<1>2. IsLongest(t)
  OBVIOUS
<1> HIDE DEF IsLongest
<1>3. IsLongest(Longest(times))
  BY <1>1, <1>2
<1> USE DEF IsLongest
<1>4. Longest(times) \in Nat /\ t \in Nat /\ Longest(times) <= t /\ t <= Longest(times)
  BY <1>2, <1>3
<1> QED BY <1>4

LEMMA AnswersWithin ==
    /\ \A kind \in Queries : AnswerWithin(kind) \in Nat
    /\ InterceptorTimeout <= ListWithin /\ \A i \in Served : ActivableTimeout[i] <= ListWithin
    /\ \E more \in Nat : /\ AnswerWithin("graphql") = ListWithin + more
                         /\ InterceptorTimeout <= more /\ DetailedTimeout <= more
    /\ DetailedTimeout = AnswerWithin("metadata") /\ ConfigTimeout = AnswerWithin("config")
<1> DEFINE times == {InterceptorTimeout} \union {ActivableTimeout[i] : i \in Served}
<1>1. InterceptorTimeout \in Nat /\ DetailedTimeout \in Nat /\ ConfigTimeout \in Nat
  BY ApiAssumption
<1>2. times \subseteq Nat
  BY ApiAssumption
<1>3. PICK t \in times : \A i \in Served : t >= InterceptorTimeout /\ t >= ActivableTimeout[i]
  BY ApiAssumption
<1>4. t >= InterceptorTimeout
  BY <1>1, <1>3
<1>5. \A u \in times : u <= t
  BY <1>3, <1>4
<1>6. ListWithin = Longest(times)
  BY DEF ListWithin, AnswerWithin
<1>7. ListWithin = t /\ ListWithin \in Nat
  <2> HIDE DEF times
  <2> QED BY <1>2, <1>3, <1>5, <1>6, LongestIs
<1>8. PICK more \in {InterceptorTimeout, DetailedTimeout} :
          more >= InterceptorTimeout /\ more >= DetailedTimeout
  BY <1>1
<1>9. Longest({InterceptorTimeout, DetailedTimeout}) = more
  BY <1>1, <1>8, LongestIs
<1>10. AnswerWithin("graphql") = ListWithin + more
  BY <1>6, <1>9 DEF AnswerWithin
<1>11. DetailedTimeout = AnswerWithin("metadata") /\ ConfigTimeout = AnswerWithin("config")
  BY DEF AnswerWithin
<1>12. \A kind \in Queries : AnswerWithin(kind) \in Nat
  BY <1>1, <1>7, <1>8, <1>10, <1>11 DEF Queries, ListWithin
<1> QED BY <1>1, <1>3, <1>4, <1>7, <1>8, <1>10, <1>11, <1>12

\* The parts that a query awaits are due in time.
LEMMA PartsAreDue ==
    ASSUME now \in Nat, NEW kind \in Queries, NEW i \in Served, NEW ofPort \in BOOLEAN
    PROVE  /\ Parts(kind, i, ofPort) \subseteq ApiParts
           /\ kind # "graphql" => \A part \in Parts(kind, i, ofPort) : part.due <= now + AnswerWithin(kind)
           /\ kind = "graphql" => \A part \in Parts(kind, i, ofPort) : part.due <= now + ListWithin
<1>1. /\ InterceptorTimeout \in Nat /\ DetailedTimeout \in Nat /\ ConfigTimeout \in Nat
      /\ \A j \in Served : ActivableTimeout[j] \in Nat
      /\ AnswerWithin(kind) \in Nat /\ ListWithin \in Nat
  BY ApiAssumption, AnswersWithin DEF Queries, ListWithin
<1>2. ASSUME NEW j \in Served
      PROVE  /\ Summary(j) \subseteq ApiParts /\ Activity(j) \in ApiParts
             /\ \A part \in Summary(j) : part.due <= now + ListWithin
             /\ Activity(j).due <= now + ListWithin
  BY <1>1, AnswersWithin DEF Summary, Activity, Part, ApiParts
<1>3. CASE kind = "interceptors"
  <2>1. \A part \in Parts(kind, i, ofPort) :
            \E j \in Served : part \in Summary(j) \/ part = Activity(j)
    <3> DEFINE summaries == UNION {Summary(j) : j \in Served}
               activities == {Activity(j) : j \in Served}
    <3>1. \A part \in summaries : \E j \in Served : part \in Summary(j)
      OBVIOUS
    <3>2. \A part \in activities : \E j \in Served : part = Activity(j)
      OBVIOUS
    <3>3. /\ ofPort => Parts(kind, i, ofPort) = summaries \union activities
          /\ ~ofPort => Parts(kind, i, ofPort) = summaries \union {}
      BY <1>3 DEF Parts
    <3> HIDE DEF summaries, activities
    <3>4. \A part \in Parts(kind, i, ofPort) : part \in summaries \/ part \in activities
      BY <3>3
    <3> QED BY <3>1, <3>2, <3>4
  <2> QED BY <1>2, <1>3, <2>1 DEF ListWithin
<1>4. CASE kind = "graphql"
  <2>1. \A part \in Parts(kind, i, ofPort) : \E j \in Served : part \in Summary(j)
    BY <1>4 DEF Parts
  <2> QED BY <1>2, <1>4, <2>1
<1>5. CASE kind = "metadata"
  <2>1. Parts(kind, i, ofPort) = {[of |-> i, what |-> "metadata", due |-> now + DetailedTimeout]}
    BY <1>5 DEF Parts, Part
  <2> QED BY <1>1, <1>5, <2>1, AnswersWithin DEF ApiParts
<1>6. CASE kind = "config"
  <2>1. Parts(kind, i, ofPort) \subseteq
            {[of |-> NoInterceptor, what |-> "systemProxy", due |-> now + ConfigTimeout],
             [of |-> NoInterceptor, what |-> "dns", due |-> now + ConfigTimeout]}
    BY <1>6 DEF Parts, Part
  <2> QED BY <1>1, <1>6, <2>1, AnswersWithin DEF ApiParts
<1> QED BY <1>3, <1>4, <1>5, <1>6 DEF Queries

\* The second round of GraphQL is due after the longest of its times.
LEMMA NestedAreDue ==
    ASSUME now \in Nat
    PROVE  /\ Nested("graphql") \subseteq ApiParts
           /\ \A t \in Nat : now <= t + ListWithin =>
                  \A part \in Nested("graphql") : part.due <= t + AnswerWithin("graphql")
<1>1. /\ InterceptorTimeout \in Nat /\ DetailedTimeout \in Nat /\ ListWithin \in Nat
  BY ApiAssumption, AnswersWithin DEF Queries, ListWithin
<1>2. PICK more \in Nat : /\ AnswerWithin("graphql") = ListWithin + more
                          /\ InterceptorTimeout <= more /\ DetailedTimeout <= more
  BY AnswersWithin
<1>3. \A part \in Nested("graphql") : part \in ApiParts /\ part.due <= now + more
  BY <1>1, <1>2 DEF Nested, Activity, Part, ApiParts
<1>4. \A part \in Nested("graphql") : part.due \in Nat
  BY <1>3 DEF ApiParts
<1> QED BY <1>1, <1>2, <1>3, <1>4

LEMMA NoCallIsTimely == NoCall \in ApiRecords /\ \A time \in Nat : IsTimely(NoCall, time)
<1>1. NoCall \in ApiRecords
  BY DEF NoCall, ApiRecords, ApiKind
<1>2. NoCall.kind = "none"
  BY DEF NoCall
<1> QED BY <1>1, <1>2 DEF IsTimely, Queries

\* A step that gives one call another record, which is timely, keeps the invariant.
LEMMA CallIsTimely ==
    ASSUME ApiInv, NEW c \in ApiCall, NEW r \in ApiRecords, IsTimely(r, now),
           apiCall' = [apiCall EXCEPT ![c] = r], UNCHANGED now
    PROVE  ApiInv'
<1>1. apiCall' \in [ApiCall -> ApiRecords]
  BY DEF ApiInv
<1>2. \A d \in ApiCall : apiCall'[d] = IF d = c THEN r ELSE apiCall[d]
  BY DEF ApiInv
<1>3. \A d \in ApiCall : IsTimely(apiCall'[d], now)
  BY <1>2 DEF ApiInv
<1> QED BY <1>1, <1>3 DEF ApiInv

LEMMA ApiStep == ApiInv /\ [ApiNext]_apiVars => ApiInv'
<1> SUFFICES ASSUME ApiInv, [ApiNext]_apiVars PROVE ApiInv'
  OBVIOUS
<1>0. now \in Nat /\ \A c \in ApiCall : apiCall[c] \in ApiRecords /\ IsTimely(apiCall[c], now)
  BY DEF ApiInv
<1>1. CASE UNCHANGED <<now, apiCall>>
  BY <1>1 DEF ApiInv
<1>2. ASSUME NEW c \in ApiCall, NEW kind \in Queries, NEW i \in Served, NEW ofPort \in BOOLEAN,
             ApiQuery(c, kind, i, ofPort)
      PROVE  ApiInv'
  <2> DEFINE parts == Parts(kind, i, ofPort)
             r == [NoCall EXCEPT !.kind = kind, !.started = now, !.awaited = parts]
  <2>2. parts \subseteq ApiParts
    BY <1>0, PartsAreDue
  <2>3. r \in ApiRecords /\ r.kind = kind /\ r.started = now /\ r.awaited = parts
    <3>1. kind \in ApiKind
      BY DEF ApiKind
    <3>2. parts \in SUBSET ApiParts /\ now \in Nat
      BY <1>0, <2>2
    <3> HIDE DEF parts
    <3> QED BY ONLY <3>1, <3>2 DEF NoCall, ApiRecords
  <2>4. apiCall' = [apiCall EXCEPT ![c] = r] /\ UNCHANGED now
    BY <1>2 DEF ApiQuery
  <2>5. /\ kind # "graphql" => \A part \in parts : part.due <= now + AnswerWithin(kind)
        /\ kind = "graphql" => \A part \in parts : part.due <= now + ListWithin
    BY <1>0, PartsAreDue
  <2>6. /\ AnswerWithin(kind) \in Nat /\ ListWithin \in Nat
        /\ \E more \in Nat : AnswerWithin("graphql") = ListWithin + more
    BY AnswersWithin DEF ListWithin, Queries
  <2>7. \A part \in parts : part.due \in Nat
    BY <2>2 DEF ApiParts
  <2> HIDE DEF parts, r
  <2>8. \A part \in parts : part.due <= now + AnswerWithin(kind)
    BY <1>0, <2>5, <2>6, <2>7
  <2>9. kind # "activate"
    BY DEF Queries
  <2>10. IsTimely(r, now)
    BY <1>0, <2>3, <2>5, <2>6, <2>8, <2>9 DEF IsTimely
  <2> QED BY <2>3, <2>4, <2>10, CallIsTimely
<1>3. ASSUME NEW c \in ApiCall, NEW part \in apiCall[c].awaited, PartSettles(c, part) PROVE ApiInv'
  <2> DEFINE q == apiCall[c]
             r == [q EXCEPT !.awaited = @ \ {part}]
  <2>1. q \in ApiRecords /\ IsTimely(q, now)
    BY <1>0
  <2>2. apiCall' = [apiCall EXCEPT ![c] = r] /\ UNCHANGED now
    BY <1>3 DEF PartSettles
  <2> HIDE DEF q
  <2>3. /\ r \in ApiRecords /\ r.kind = q.kind /\ r.started = q.started /\ r.nested = q.nested
        /\ r.reported = q.reported /\ r.awaited \subseteq q.awaited
    BY <2>1 DEF ApiRecords
  <2> HIDE DEF r
  <2>4. IsTimely(r, now)
    BY <2>1, <2>3 DEF IsTimely, HasNoTimer
  <2> QED BY <2>2, <2>3, <2>4, CallIsTimely
<1>4. ASSUME NEW c \in ApiCall, RespondToQuery(c) PROVE ApiInv'
  <2>1. CASE apiCall' = [apiCall EXCEPT ![c] = NoCall] /\ UNCHANGED now
    BY <1>0, <2>1, NoCallIsTimely, CallIsTimely
  <2>2. CASE /\ apiCall[c].kind = "graphql" /\ ~apiCall[c].nested
             /\ apiCall' = [apiCall EXCEPT ![c].nested = TRUE, ![c].awaited = Nested("graphql")] /\ UNCHANGED now
    <3> DEFINE q == apiCall[c]
               r == [q EXCEPT !.nested = TRUE, !.awaited = Nested("graphql")]
    <3>1. q \in ApiRecords /\ IsTimely(q, now) /\ q.kind = "graphql" /\ ~q.nested
      BY <1>0, <2>2
    <3>2. apiCall' = [apiCall EXCEPT ![c] = r]
      BY <2>2 DEF ApiInv
    <3>3. Nested("graphql") \subseteq ApiParts
      BY <1>0, NestedAreDue
    <3> HIDE DEF q
    <3>4. /\ r \in ApiRecords /\ r.kind = "graphql" /\ r.started = q.started /\ r.nested = TRUE
          /\ r.awaited = Nested("graphql") /\ q.started \in Nat
      BY <3>1, <3>3 DEF ApiRecords
    <3> HIDE DEF r
    <3>5. now <= q.started + ListWithin /\ now <= q.started + AnswerWithin("graphql")
      BY <3>1 DEF IsTimely, Queries, HasNoTimer
    <3>6. \A p \in Nested("graphql") : p.due <= q.started + AnswerWithin("graphql")
      BY <1>0, <3>4, <3>5, NestedAreDue
    <3>7. IsTimely(r, now)
      BY <3>4, <3>5, <3>6 DEF IsTimely
    <3> QED BY <2>2, <3>2, <3>4, <3>7, CallIsTimely
  <2>3. CASE /\ apiCall[c].kind = "config" /\ ~apiCall[c].nested
             /\ apiCall' = [apiCall EXCEPT ![c].nested = TRUE, ![c].awaited = Nested("config")] /\ UNCHANGED now
    <3> DEFINE q == apiCall[c]
               r == [q EXCEPT !.nested = TRUE, !.awaited = Nested("config")]
    <3>1. q \in ApiRecords /\ q.kind = "config" /\ apiCall' = [apiCall EXCEPT ![c] = r]
      BY <1>0, <2>3 DEF ApiInv
    <3>2. Nested("config") \subseteq ApiParts
      <4>1. MaxApiTime \in Nat
        BY ApiAssumption
      <4> QED BY <1>0, <4>1 DEF Nested, Part, ApiParts
    <3> HIDE DEF q
    <3>3. r \in ApiRecords /\ r.kind = "config" /\ r.nested = TRUE
      BY <3>1, <3>2 DEF ApiRecords
    <3> HIDE DEF r
    <3>4. IsTimely(r, now)
      BY <3>3 DEF IsTimely, HasNoTimer
    <3> QED BY <2>3, <3>1, <3>3, <3>4, CallIsTimely
  <2> QED BY <1>4, <2>1, <2>2, <2>3 DEF RespondToQuery
<1>5. ASSUME NEW c \in ApiCall, NEW kind \in {"activate", "deactivate"}, Command(c, kind) PROVE ApiInv'
  <2> DEFINE r == [NoCall EXCEPT !.kind = kind, !.started = now]
  <2>1. apiCall' = [apiCall EXCEPT ![c] = r] /\ UNCHANGED now
    BY <1>5 DEF Command
  <2>2. r \in ApiRecords /\ r.kind = kind /\ r.started = now
    <3>1. kind \in ApiKind
      BY DEF ApiKind
    <3>2. now \in Nat
      BY <1>0
    <3> QED BY ONLY <3>1, <3>2 DEF NoCall, ApiRecords
  <2> HIDE DEF r
  <2>3. ReportAfter \in Nat
    BY ApiAssumption
  <2>4. IsTimely(r, now)
    BY <1>0, <2>2, <2>3 DEF IsTimely, Queries
  <2> QED BY <2>1, <2>2, <2>4, CallIsTimely
<1>6. ASSUME NEW c \in ApiCall, CommandEnds(c) PROVE ApiInv'
  BY <1>0, <1>6, NoCallIsTimely, CallIsTimely DEF CommandEnds
<1>7. ASSUME NEW c \in ApiCall, ReportSlow(c) PROVE ApiInv'
  <2> DEFINE q == apiCall[c]
             r == [q EXCEPT !.reported = TRUE]
  <2>1. q \in ApiRecords /\ IsTimely(q, now)
    BY <1>0
  <2>2. apiCall' = [apiCall EXCEPT ![c] = r] /\ UNCHANGED now
    BY <1>7 DEF ReportSlow
  <2> HIDE DEF q
  <2>3. /\ r \in ApiRecords /\ r.kind = q.kind /\ r.started = q.started /\ r.nested = q.nested
        /\ r.reported = TRUE /\ r.awaited = q.awaited
    BY <2>1 DEF ApiRecords
  <2> HIDE DEF r
  <2>4. IsTimely(r, now)
    BY <2>1, <2>3 DEF IsTimely, HasNoTimer
  <2> QED BY <2>2, <2>3, <2>4, CallIsTimely
<1>8. CASE TimePasses
  <2>1. /\ now' = now + 1 /\ UNCHANGED apiCall
        /\ \A c \in ApiCall : /\ apiCall[c].kind \in Queries => apiCall[c].awaited # {}
                              /\ \A part \in apiCall[c].awaited : now < part.due
                              /\ IsSlow(c) => apiCall[c].reported
    BY <1>8 DEF TimePasses, Settled
  <2>2. ASSUME NEW c \in ApiCall PROVE IsTimely(apiCall[c], now + 1)
    <3> DEFINE q == apiCall[c]
    <3>1. q \in ApiRecords /\ IsTimely(q, now)
      BY <1>0
    <3>2. /\ q.kind \in Queries => q.awaited # {}
          /\ \A part \in q.awaited : now < part.due
          /\ q.kind = "activate" /\ now >= q.started + ReportAfter => q.reported
      BY <2>1 DEF IsSlow
    <3> HIDE DEF q
    <3>3. q.started \in Nat /\ \A part \in q.awaited : part.due \in Nat
      BY <3>1 DEF ApiRecords, ApiParts
    <3>4. ReportAfter \in Nat /\ ListWithin \in Nat /\ \A kind \in Queries : AnswerWithin(kind) \in Nat
      BY ApiAssumption, AnswersWithin DEF ListWithin, Queries
    <3>5. q.kind \in Queries /\ ~HasNoTimer(q) => now + 1 <= q.started + AnswerWithin(q.kind)
      <4> SUFFICES ASSUME q.kind \in Queries, ~HasNoTimer(q) PROVE now + 1 <= q.started + AnswerWithin(q.kind)
        OBVIOUS
      <4>1. PICK part \in q.awaited : part.due <= q.started + AnswerWithin(q.kind) /\ now < part.due
        BY <3>1, <3>2 DEF IsTimely
      <4> QED BY <1>0, <3>3, <3>4, <4>1
    <3>6. q.kind = "graphql" /\ ~q.nested => now + 1 <= q.started + ListWithin
      <4> SUFFICES ASSUME q.kind = "graphql", ~q.nested PROVE now + 1 <= q.started + ListWithin
        OBVIOUS
      <4>1. PICK part \in q.awaited : part.due <= q.started + ListWithin /\ now < part.due
        BY <3>1, <3>2 DEF IsTimely, Queries, HasNoTimer
      <4> QED BY <1>0, <3>3, <3>4, <4>1
    <3>7. q.kind = "activate" /\ now + 1 > q.started + ReportAfter => q.reported
      <4>1. now + 1 > q.started + ReportAfter => now >= q.started + ReportAfter
        BY <1>0, <3>3, <3>4
      <4> QED BY <3>2, <4>1
    <3>8. IsTimely(q, now + 1)
      BY <3>1, <3>5, <3>6, <3>7 DEF IsTimely
    <3> QED BY <3>8 DEF q
  <2> QED BY <1>0, <2>1, <2>2 DEF ApiInv
<1>9. CASE UNCHANGED apiVars
  BY <1>1, <1>9 DEF apiVars
<1> QED BY <1>2, <1>3, <1>4, <1>5, <1>6, <1>7, <1>8, <1>9 DEF ApiNext

\* A query is answered within the longest of the time outs of its parts, but for the part of a
\* configuration that has none, and a slow activation is reported (api-model.ts:98-223, 231-235).
THEOREM QueriesTimely == ApiInit /\ [][ApiNext]_apiVars => []QueriesAreTimely
<1>1. ApiInit => ApiInv
  BY NoCallIsTimely DEF ApiInit, ApiInv
<1>2. ApiInv => QueriesAreTimely
  BY DEF ApiInv, IsTimely, QueriesAreTimely
<1> QED BY <1>1, <1>2, ApiStep, PTL

(***************************************************************************)
(* Requests that are sent for a client.                                    *)
(***************************************************************************)

StreamEvent == {"request-start", "response-head", "response-body-part"} \union Terminal

SendTypeOK ==
    /\ send \in [Send -> {"none", "refused", "agent", "streaming", "stalled", "ended"}]
    /\ upstream \in [Send -> {"none", "sent", "responding", "switched", "done", "destroyed"}]
    /\ written \in [Send -> Seq(StreamEvent)]
    /\ closed \in SUBSET Send /\ aborting \in SUBSET Send

Unended(es) == \A n \in 1..Len(es) : es[n] \notin Terminal

\* The stream follows the outgoing request: before it there is nothing, while it is under way
\* no event has ended the stream, and after it the client has the last event, if it has stayed.
StreamFollows(r) ==
    /\ send[r] \in {"none", "refused", "agent"} =>
           upstream[r] = "none" /\ written[r] = <<>> /\ r \notin aborting
    /\ send[r] = "none" => r \notin closed
    /\ send[r] \in {"streaming", "stalled"} => Unended(written[r])
    /\ send[r] = "streaming" <=> upstream[r] \in {"sent", "responding"}
    /\ send[r] = "streaming" /\ r \notin closed => written[r] # <<>> /\ r \in aborting
    /\ send[r] = "streaming" /\ r \in closed => r \notin aborting
    /\ send[r] = "ended" => \A n \in 1..Len(written[r]) : written[r][n] \in Terminal => n = Len(written[r])
    /\ send[r] = "ended" /\ r \notin closed =>
           written[r] # <<>> /\ written[r][Len(written[r])] \in Terminal

SendInv == SendTypeOK /\ \A r \in Send : StreamFollows(r)

\* An event at the end of a stream.
LEMMA EventIsWritten ==
    ASSUME NEW es \in Seq(StreamEvent), NEW event \in StreamEvent, Unended(es)
    PROVE  /\ Append(es, event) \in Seq(StreamEvent) /\ Append(es, event) # <<>>
           /\ event \notin Terminal => Unended(Append(es, event))
           /\ \A n \in 1..Len(Append(es, event)) :
                  Append(es, event)[n] \in Terminal => n = Len(Append(es, event))
           /\ Append(es, event)[Len(Append(es, event))] = event
<1>1. /\ Append(es, event) \in Seq(StreamEvent)
      /\ Len(Append(es, event)) = Len(es) + 1 /\ Len(es) \in Nat
      /\ Append(es, event)[Len(es) + 1] = event
      /\ \A n \in 1..Len(es) : Append(es, event)[n] = es[n]
  OBVIOUS
<1>2. \A n \in 1..Len(es) + 1 : n \in 1..Len(es) \/ n = Len(es) + 1
  BY <1>1
<1>3. Append(es, event) # <<>>
  BY <1>1
<1> QED BY <1>1, <1>2, <1>3 DEF Unended

\* What a step of one request leaves alone.
LEMMA OthersFollow ==
    ASSUME SendInv, NEW r \in Send, SendTypeOK', StreamFollows(r)',
           \A q \in Send \ {r} : /\ send'[q] = send[q] /\ upstream'[q] = upstream[q]
                                 /\ written'[q] = written[q]
                                 /\ q \in closed' <=> q \in closed
                                 /\ q \in aborting' <=> q \in aborting
    PROVE  SendInv'
<1>1. ASSUME NEW q \in Send \ {r} PROVE StreamFollows(q)'
  <2>1. StreamFollows(q)
    BY DEF SendInv
  <2> QED BY <1>1, <2>1 DEF StreamFollows
<1> QED BY <1>1 DEF SendInv

\* A step that writes an event of a request that is under way.
LEMMA WriteFollows ==
    ASSUME SendInv, NEW r \in Send, send[r] = "streaming", NEW event \in StreamEvent, Write(r, event),
           NEW phase \in {"responding", "done", "destroyed"}, upstream' = [upstream EXCEPT ![r] = phase],
           event \in Terminal <=> phase # "responding", UNCHANGED <<closed, aborting>>
    PROVE  SendInv'
<1>1. SendTypeOK /\ StreamFollows(r) /\ written[r] \in Seq(StreamEvent)
  BY DEF SendInv, SendTypeOK
<1>2. Unended(written[r])
  BY <1>1 DEF StreamFollows
<1> DEFINE es == Append(written[r], event)
<1>3. /\ es \in Seq(StreamEvent) /\ es # <<>> /\ (event \notin Terminal => Unended(es))
      /\ \A n \in 1..Len(es) : es[n] \in Terminal => n = Len(es)
      /\ es[Len(es)] = event
  BY <1>1, <1>2, EventIsWritten
<1>4. /\ r \notin closed => written' = [written EXCEPT ![r] = es]
      /\ r \in closed => written' = written
      /\ event \in Terminal => send' = [send EXCEPT ![r] = "ended"]
      /\ event \notin Terminal => send' = send
  BY DEF Write
<1> HIDE DEF es
<1>5. SendTypeOK'
  <2>1. written' \in [Send -> Seq(StreamEvent)]
    BY <1>1, <1>3, <1>4 DEF SendTypeOK
  <2>2. send' \in [Send -> {"none", "refused", "agent", "streaming", "stalled", "ended"}]
    BY <1>1, <1>4 DEF SendTypeOK
  <2>3. upstream' \in [Send -> {"none", "sent", "responding", "switched", "done", "destroyed"}]
    BY <1>1 DEF SendTypeOK
  <2> QED BY <1>1, <2>1, <2>2, <2>3 DEF SendTypeOK
<1>6. /\ upstream'[r] = phase /\ (r \notin closed => written'[r] = es)
      /\ (r \in closed => written'[r] = written[r])
      /\ send'[r] = IF event \in Terminal THEN "ended" ELSE "streaming"
      /\ \A q \in Send \ {r} : /\ send'[q] = send[q] /\ upstream'[q] = upstream[q]
                               /\ written'[q] = written[q]
  BY <1>1, <1>4 DEF SendTypeOK
<1>7. StreamFollows(r)'
  <2>1. CASE event \in Terminal
    <3>1. r \in closed => \A n \in 1..Len(written[r]) : written[r][n] \notin Terminal
      BY <1>2 DEF Unended
    <3> QED BY <1>1, <1>3, <1>6, <2>1, <3>1 DEF StreamFollows
  <2>2. CASE event \notin Terminal
    BY <1>1, <1>2, <1>3, <1>6, <2>2 DEF StreamFollows
  <2> QED BY <2>1, <2>2
<1> QED BY <1>5, <1>6, <1>7, OthersFollow

LEMMA SendStep == SendInv /\ [SendNext]_sendVars => SendInv'
<1> SUFFICES ASSUME SendInv, [SendNext]_sendVars PROVE SendInv'
  OBVIOUS
<1>0. SendTypeOK /\ \A r \in Send : StreamFollows(r)
  BY DEF SendInv
<1>1. ASSUME NEW r \in Send, Post(r) \/ AgentFails(r) PROVE SendInv'
  <2>1. /\ send[r] \in {"none", "agent"} /\ UNCHANGED <<upstream, written, closed, aborting>>
        /\ \/ send' = [send EXCEPT ![r] = "refused"]
           \/ send' = [send EXCEPT ![r] = "agent"]
    BY <1>1 DEF Post, AgentFails, Refuse
  <2>2. SendTypeOK' /\ send'[r] \in {"refused", "agent"} /\ \A q \in Send \ {r} : send'[q] = send[q]
    BY <1>0, <2>1 DEF SendTypeOK
  <2>3. StreamFollows(r)'
    BY <1>0, <2>1, <2>2 DEF StreamFollows
  <2> QED BY <2>1, <2>2, <2>3, OthersFollow
<1>2. ASSUME NEW r \in Send, RequestStarts(r) PROVE SendInv'
  <2>1. /\ send[r] = "agent" /\ send' = [send EXCEPT ![r] = "streaming"]
        /\ upstream' = [upstream EXCEPT ![r] = "sent"] /\ UNCHANGED closed
        /\ r \in closed => UNCHANGED <<written, aborting>>
        /\ r \notin closed => /\ written' = [written EXCEPT ![r] = <<"request-start">>]
                              /\ aborting' = aborting \union {r}
    BY <1>2 DEF RequestStarts
  <2>2. <<"request-start">> \in Seq(StreamEvent) /\ <<"request-start">> # <<>>
    BY DEF StreamEvent
  <2>3. Unended(<<"request-start">>) /\ Unended(<<>>)
    BY DEF Unended, Terminal
  <2>4. SendTypeOK'
    BY <1>0, <2>1, <2>2 DEF SendTypeOK
  <2>5. /\ send'[r] = "streaming" /\ upstream'[r] = "sent"
        /\ r \in closed => written'[r] = written[r]
        /\ r \notin closed => written'[r] = <<"request-start">> /\ r \in aborting'
        /\ \A q \in Send \ {r} : /\ send'[q] = send[q] /\ upstream'[q] = upstream[q]
                                 /\ written'[q] = written[q]
                                 /\ q \in aborting' <=> q \in aborting
    BY <1>0, <2>1 DEF SendTypeOK
  <2>6. written[r] = <<>> /\ r \notin aborting
    BY <1>0, <2>1 DEF StreamFollows
  <2>7. StreamFollows(r)'
    BY <2>1, <2>2, <2>3, <2>5, <2>6 DEF StreamFollows
  <2> QED BY <2>1, <2>4, <2>5, <2>7, OthersFollow
<1>3. ASSUME NEW r \in Send, ResponseHead(r) \/ ResponsePart(r) \/ ResponseEnds(r) \/ UpstreamFails(r)
      PROVE  SendInv'
  <2>1. send[r] = "streaming"
    BY <1>0, <1>3 DEF ResponseHead, ResponsePart, ResponseEnds, UpstreamFails, IsInFlight, StreamFollows
  <2>2. CASE ResponseHead(r)
    <3>1. "response-head" \in StreamEvent /\ "response-head" \notin Terminal
      BY DEF StreamEvent, Terminal
    <3> QED BY <2>1, <2>2, <3>1, WriteFollows DEF ResponseHead
  <2>3. CASE ResponsePart(r)
    <3>1. "response-body-part" \in StreamEvent /\ "response-body-part" \notin Terminal
      BY DEF StreamEvent, Terminal
    <3>2. upstream' = [upstream EXCEPT ![r] = "responding"]
      BY <1>0, <2>3 DEF ResponsePart, SendTypeOK
    <3> QED BY <2>1, <2>3, <3>1, <3>2, WriteFollows DEF ResponsePart
  <2>4. CASE ResponseEnds(r)
    <3>1. "response-end" \in StreamEvent /\ "response-end" \in Terminal
      BY DEF StreamEvent, Terminal
    <3> QED BY <2>1, <2>4, <3>1, WriteFollows DEF ResponseEnds
  <2>5. CASE UpstreamFails(r)
    <3>1. "error" \in StreamEvent /\ "error" \in Terminal
      BY DEF StreamEvent, Terminal
    <3> QED BY <2>1, <2>5, <3>1, WriteFollows DEF UpstreamFails
  <2> QED BY <1>3, <2>2, <2>3, <2>4, <2>5
<1>4. ASSUME NEW r \in Send, ClientCloses(r) PROVE SendInv'
  <2>1. /\ r \notin closed /\ send[r] # "none" /\ closed' = closed \union {r}
        /\ UNCHANGED <<written, aborting>>
    BY <1>4 DEF ClientCloses
  <2>2. CASE r \in aborting /\ IsInFlight(r)
    <3>1. upstream' = [upstream EXCEPT ![r] = "destroyed"] /\ send' = [send EXCEPT ![r] = "ended"]
      BY <1>4, <2>2 DEF ClientCloses
    <3>2. /\ SendTypeOK' /\ upstream'[r] = "destroyed" /\ send'[r] = "ended"
          /\ \A q \in Send \ {r} : send'[q] = send[q] /\ upstream'[q] = upstream[q]
      BY <1>0, <2>1, <3>1 DEF SendTypeOK
    <3>3. Unended(written[r])
      BY <1>0, <2>2 DEF StreamFollows, IsInFlight
    <3>4. StreamFollows(r)'
      BY <2>1, <3>2, <3>3 DEF StreamFollows, Unended
    <3> QED BY <2>1, <3>2, <3>4, OthersFollow
  <2>3. CASE ~(r \in aborting /\ IsInFlight(r))
    <3>1. UNCHANGED <<upstream, send>>
      BY <1>4, <2>3 DEF ClientCloses
    <3>2. SendTypeOK'
      BY <1>0, <2>1, <3>1 DEF SendTypeOK
    <3>3. send[r] # "streaming"
      BY <1>0, <2>1, <2>3 DEF StreamFollows, IsInFlight
    <3>4. StreamFollows(r)'
      BY <1>0, <2>1, <3>1, <3>3 DEF StreamFollows
    <3> QED BY <2>1, <3>1, <3>2, <3>4, OthersFollow
  <2> QED BY <2>2, <2>3
<1>5. CASE UNCHANGED sendVars
  BY <1>0, <1>5 DEF sendVars, SendInv, SendTypeOK, StreamFollows
<1>6. ASSUME NEW r \in Send, UpstreamSwitches(r) PROVE SendInv'
  <2>1. /\ upstream[r] = "sent" /\ upstream' = [upstream EXCEPT ![r] = "switched"]
        /\ send' = [send EXCEPT ![r] = "stalled"] /\ UNCHANGED <<written, closed, aborting>>
    BY <1>6 DEF UpstreamSwitches
  <2>2. /\ SendTypeOK' /\ upstream'[r] = "switched" /\ send'[r] = "stalled"
        /\ \A q \in Send \ {r} : send'[q] = send[q] /\ upstream'[q] = upstream[q]
    BY <1>0, <2>1 DEF SendTypeOK
  <2>3. StreamFollows(r)'
    BY <1>0, <2>1, <2>2 DEF StreamFollows
  <2> QED BY <2>1, <2>2, <2>3, OthersFollow
<1> QED BY <1>1, <1>2, <1>3, <1>4, <1>5, <1>6 DEF SendNext

\* The stream of a client that stays ends once and when the outgoing request does, unless the
\* response switches protocols, and none is under way for one that closed once the route listened
\* (rest-api.ts:116-156, http-client.ts:115-170).
THEOREM StreamsClose == SendInit /\ [][SendNext]_sendVars => []StreamsAreClosed
<1>1. SendInit => SendInv
  <2> SUFFICES ASSUME SendInit PROVE SendInv
    OBVIOUS
  <2>1. <<>> \in Seq(StreamEvent)
    OBVIOUS
  <2>2. SendTypeOK
    BY <2>1 DEF SendInit, SendTypeOK
  <2> QED BY <2>2 DEF SendInit, SendInv, StreamFollows
<1>2. SendInv => StreamsAreClosed
  <2> SUFFICES ASSUME SendInv, NEW r \in Send
               PROVE  /\ \A n \in 1..Len(written[r]) : written[r][n] \in Terminal => n = Len(written[r])
                      /\ r \notin closed /\ send[r] \notin {"none", "agent", "refused", "stalled"} =>
                             (IsInFlight(r) <=> Last(written[r]) \notin Terminal)
                      /\ r \in closed \intersect aborting => ~IsInFlight(r)
    BY DEF StreamsAreClosed
  <2>1. /\ send[r] \in {"none", "refused", "agent", "streaming", "stalled", "ended"}
        /\ written[r] \in Seq(StreamEvent)
        /\ StreamFollows(r)
    BY DEF SendInv, SendTypeOK
  <2>2. \A n \in 1..Len(written[r]) : written[r][n] \in Terminal => n = Len(written[r])
    <3>1. CASE send[r] \in {"none", "refused", "agent"}
      BY <2>1, <3>1 DEF StreamFollows
    <3>2. CASE send[r] \in {"streaming", "stalled", "ended"}
      BY <2>1, <3>2 DEF StreamFollows, Unended
    <3> QED BY <2>1, <3>1, <3>2
  <2>3. r \in closed \intersect aborting => ~IsInFlight(r)
    BY <2>1 DEF StreamFollows, IsInFlight
  <2>4. ASSUME r \notin closed, send[r] \notin {"none", "agent", "refused", "stalled"}
        PROVE  IsInFlight(r) <=> Last(written[r]) \notin Terminal
    <3>1. Last(written[r]) = written[r][Len(written[r])]
      BY DEF Last
    <3>2. CASE send[r] = "streaming"
      <4>1. Len(written[r]) \in 1..Len(written[r])
        <5>1. written[r] # <<>>
          BY <2>1, <2>4, <3>2 DEF StreamFollows
        <5> QED BY <2>1, <5>1
      <4> QED BY <2>1, <3>1, <3>2, <4>1 DEF StreamFollows, Unended, IsInFlight
    <3>3. CASE send[r] = "ended"
      BY <2>1, <2>4, <3>1, <3>3 DEF StreamFollows, IsInFlight
    <3> QED BY <2>1, <2>4, <3>2, <3>3
  <2> QED BY <2>2, <2>3, <2>4
<1> QED BY <1>1, <1>2, SendStep, PTL

(***************************************************************************)
(* All of them.                                                            *)
(***************************************************************************)

EachSteps ==
    /\ [ShellNext]_shellVars
    /\ [ExistingNext]_existingVars
    /\ [FreshNext]_freshVars
    /\ [ExistingChromiumNext]_existingChromiumVars
    /\ [FirefoxNext]_firefoxVars
    /\ [ElectronNext]_electronVars
    /\ [JvmNext]_jvmVars
    /\ [TunnelNext]_tunnelVars
    /\ [CertNext]_certVars
    /\ [AppNext]_appVars
    /\ [SessionNext]_sessionVars
    /\ [FridaNext]_fridaVars
    /\ [HeadlessNext]_headlessVars
    /\ [HealthNext]_healthVars
    /\ [NetworkNext]_networkVars
    /\ [ExportNext]_exportVars
    /\ [BuildNext]_buildVars
    /\ [ConfigNext]_configVars
    /\ [ApiNext]_apiVars
    /\ [SendNext]_sendVars

LEMMA SubjectMoves ==
    Next => /\ OnlySubjectMoves
            /\ subject = "shells" => ShellNext
            /\ subject = "terminals" => ExistingNext
            /\ subject = "freshChromium" => FreshNext
            /\ subject = "existingChromium" => ExistingChromiumNext
            /\ subject = "firefox" => FirefoxNext
            /\ subject = "electron" => ElectronNext
            /\ subject = "jvm" => JvmNext
            /\ subject = "adbTunnel" => TunnelNext
            /\ subject = "certificates" => CertNext
            /\ subject = "androidApp" => AppNext
            /\ subject = "fridaSessions" => SessionNext
            /\ subject = "fridaApps" => FridaNext
            /\ subject = "headless" => HeadlessNext
            /\ subject = "health" => HealthNext
            /\ subject = "networkSafety" => NetworkNext
            /\ subject = "export" => ExportNext
            /\ subject = "build" => BuildNext
            /\ subject = "container" => ConfigNext
            /\ subject = "api" => ApiNext
            /\ subject = "send" => SendNext
  BY DEF Next

\* A step is one of the subject, and all others rest.
LEMMA EachStep == [Next]_allVars => EachSteps
<1> SUFFICES ASSUME [Next]_allVars PROVE EachSteps
  OBVIOUS
<1>1. CASE UNCHANGED allVars
  BY <1>1 DEF allVars, EachSteps
<1>2. CASE Next
  BY <1>2, SubjectMoves DEF OnlySubjectMoves, EachSteps
<1> QED BY <1>1, <1>2

\* Terminals: whatever calls are made, those that do not overlap reach the server of the scripts
\* (existing-terminal-interceptor.ts:60-126).
THEOREM CommandsAlwaysReach == Spec => []CommandsReachTheServer
<1>1. Init => ExistingInit
  BY DEF Init
<1>2. [Next]_allVars =>
          /\ [ExistingNext]_existingVars
  BY EachStep DEF EachSteps
<1> QED BY <1>1, <1>2, CommandsReach, PTL DEF Spec

\* Chromium, for any number of calls and of ports: unless calls, closes and clean ups come between
\* each other's steps, a fresh browser that runs is the active one of its port and has its
\* profile, and the restarted browser is the one that runs (chromium-based-interceptors.ts:75-310).
THEOREM ChromiumTracked == Spec => []ChromiumIsTracked
<1>1. Init => FreshInit /\ ExistingChromiumInit
  BY DEF Init
<1>2. [Next]_allVars =>
          /\ [FreshNext]_freshVars
          /\ [ExistingChromiumNext]_existingChromiumVars
  BY EachStep DEF EachSteps
<1>3. ChromiumIsTracked <=> BrowserIsTracked /\ OneInstanceIsIntercepted
  BY DEF ChromiumIsTracked
<1> QED BY <1>1, <1>2, <1>3, BrowserTracked, OneInstance, PTL DEF Spec

\* Firefox, as long as calls, clean ups and browsers of other ports do not overlap: at rest a
\* profile that is not trusted is left only by a latest call that failed or by a deletion that
\* failed, whatever else fails or is closed (fresh-firefox.ts:193-311).
THEOREM FirefoxAlwaysRecovers == Spec => []FirefoxRecovers
<1>1. Init => FirefoxInit
  BY DEF Init
<1>2. [Next]_allVars =>
          /\ [FirefoxNext]_firefoxVars
  BY EachStep DEF EachSteps
<1> QED BY <1>1, <1>2, FirefoxRecovered, PTL DEF Spec

\* Electron applications and JVMs: what is registered runs, what is in the table of the JVMs is
\* watched, unless its pid is now of another user's process, and a JVM with an agent is in the
\* table (electron.ts:52-215, jvm.ts:208-260).
THEOREM AppsTracked == Spec => []AppsAreTracked
<1>1. Init => ElectronInit /\ JvmInit
  BY DEF Init
<1>2. [Next]_allVars =>
          /\ [ElectronNext]_electronVars
          /\ [JvmNext]_jvmVars
  BY EachStep DEF EachSteps
<1>3. AppsAreTracked <=> ElectronIsTracked /\ JvmTableIsWatched
  BY DEF AppsAreTracked
<1> QED BY <1>1, <1>2, <1>3, ElectronTracked, JvmWatched, PTL DEF Spec

\* Android devices: a wanted tunnel is maintained, unless attempts of an earlier interval outlived
\* it; scripts that neither overlap nor are interrupted leave the device's certificates and ours;
\* a VPN that runs is of a mapped port or of one that a call has not mapped yet, or never will;
\* and no second attempt installs an APK of the folder, unless another call came between
\* (adb-commands.ts:429-696, android-adb-interceptor.ts:69-161).
THEOREM DevicesPrepared == Spec => []DevicesArePrepared
<1>1. Init => TunnelInit /\ CertInit /\ AppInit
  BY DEF Init
<1>2. [Next]_allVars =>
          /\ [TunnelNext]_tunnelVars
          /\ [CertNext]_certVars
          /\ [AppNext]_appVars
  BY EachStep DEF EachSteps
<1>3. DevicesArePrepared <=> TunnelIsMaintained /\ CertsAreInjected /\ DevicesAreReached
  BY DEF DevicesArePrepared
<1> QED BY <1>1, <1>2, <1>3, TunnelMaintained, CertsStayInjected, DevicesReached, PTL DEF Spec

\* Frida: no session is left open, unless two calls opened one each; no app is left paused, unless
\* a kill failed; and no server is unknown, unless its launch timed out
\* (frida-integration.ts:207-257, frida-android-integration.ts:269-305).
THEOREM FridaCleaned == Spec => []FridaCleansUp
<1>1. Init => SessionInit /\ FridaInit
  BY DEF Init
<1>2. [Next]_allVars =>
          /\ [SessionNext]_sessionVars
          /\ [FridaNext]_fridaVars
  BY EachStep DEF EachSteps
<1>3. FridaCleansUp <=> SessionsAreClosed /\ FridaLeavesNothing
  BY DEF FridaCleansUp
<1> QED BY <1>1, <1>2, <1>3, SessionsStayClosed, FridaLeavesNone, PTL DEF Spec

\* The lab add-on tells the truth about what it clears and exports, about its process, unless a
\* start came while one ran or was killed, and about its connections, in polls that do not overlap
\* and have seen the last start (headless-control-service.ts, connection-health-service.ts, android-network-safety.ts,
\* export-ingest-service.ts).
THEOREM LabTruthful == Spec => []LabIsTruthful
<1>1. Init => HeadlessInit /\ HealthInit /\ NetworkInit /\ ExportInit
  BY DEF Init
<1>2. [Next]_allVars =>
          /\ [HeadlessNext]_headlessVars
          /\ [HealthNext]_healthVars
          /\ [NetworkNext]_networkVars
          /\ [ExportNext]_exportVars
  BY EachStep DEF EachSteps
<1>3. LabIsTruthful <=> ProcessIsTracked /\ HealthIsEvidence /\ RescueIsConservative /\ ExportIsExact
  BY DEF LabIsTruthful
<1> QED BY <1>1, <1>2, <1>3, ProcessTracked, HealthEvidenced, RescueConservative, ExportExact, PTL DEF Spec

\* The API answers what has timers in time, and the streams it sends end, unless a response
\* switches protocols (api-model.ts, rest-api.ts).
THEOREM AnswersSound == Spec => []AnswersAreSound
<1>1. Init => ApiInit /\ SendInit
  BY DEF Init
<1>2. [Next]_allVars =>
          /\ [ApiNext]_apiVars
          /\ [SendNext]_sendVars
  BY EachStep DEF EachSteps
<1> QED BY <1>1, <1>2, QueriesTimely, StreamsClose, PTL DEF Spec, AnswersAreSound

\* Under ShellAssumption and DockerBuildAssumption: startup scripts have no section left at the
\* end, open terminals find theirs unless a reset raced with their activation, and the user's
\* lines are kept but for those behind an end marker or written during a rewrite; a build's output
\* looks like the original's unless a command prints something like a step; and a container is of
\* the last port (terminal-scripts.ts:170-262, docker-build-injection.ts:31-141,
\* docker-commands.ts:78-168).
THEOREM RewritesUndone == Spec => []RewritesAreUndone
<1>1. Init => ShellInit /\ BuildInit /\ ConfigInit
  BY DEF Init
<1>2. [Next]_allVars =>
          /\ [ShellNext]_shellVars
          /\ [BuildNext]_buildVars
          /\ [ConfigNext]_configVars
  BY EachStep DEF EachSteps
<1>3. RewritesAreUndone <=> ScriptsAreRestored /\ BuildLooksOriginal /\ ConfigIsOfLastPort
  BY DEF RewritesAreUndone
<1> QED BY <1>1, <1>2, <1>3, ScriptsRestored, BuildLooksRight, ConfigOfLastPort, PTL DEF Spec
=============================================================================
