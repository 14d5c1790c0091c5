--------------------------- MODULE FreshChromium ---------------------------
(***************************************************************************)
(* Fresh browsers of one Chromium variant (chromium-based-interceptors.ts, *)
(* FreshChromiumBasedInterceptor), with the launcher that all browsers     *)
(* share (browsers.ts) and the page that hides the first tab's warning     *)
(* (hide-warning-server.ts).                                               *)
(*                                                                         *)
(* All ports share one profile.  As always with Chromium, a process that   *)
(* is launched while a browser has the profile open only asks that browser *)
(* for a window, and exits.                                                *)
(***************************************************************************)
EXTENDS Naturals, FiniteSets

CONSTANTS
    Launch,     \* calls of activate
    ProxyPort,
    PortOfCall, \* PortOfCall[k]: the port of call k
    NoBrowser

ASSUME FreshAssumption ==
    NoBrowser \notin Launch /\ PortOfCall \in [Launch -> ProxyPort]

VARIABLES
    launcher,   \* launcher: the promise, and whether it was made after an update
    update,     \* the update of the browsers' configuration
    activeBrowsers, \* activeBrowsers[p]
    launch,     \* launch[k]: where the call is
    already,    \* alreadyActive of the calls
    warning,    \* warning[k]: the server of the page
    process,    \* process[k]: "main" is a browser, "window" asks for a window
    handled,    \* processes whose close is listened to
    cleaning,   \* processes closed less than a second ago
    deleting,   \* <<k, n>>: attempt n of k's clean up to delete the profile
    profile,    \* the profile's folder exists
    stuck,      \* history: the folder could not be deleted
    disturbed   \* history: something came between the steps of a call or of a clean up

freshVars == <<launcher, update, activeBrowsers, launch, already, warning, process, handled,
               cleaning, deleting, profile, stuck, disturbed>>

FreshInit ==
    /\ launcher = [state |-> "none", reloaded |-> FALSE]
    /\ update = "none"
    /\ activeBrowsers = [p \in ProxyPort |-> NoBrowser]
    /\ launch = [k \in Launch |-> "new"]
    /\ already = {}
    /\ warning = [k \in Launch |-> "none"]
    /\ process = [k \in Launch |-> "none"]
    /\ handled = {} /\ cleaning = {} /\ deleting = {}
    /\ profile = FALSE /\ stuck = FALSE /\ disturbed = FALSE

Main == {k \in Launch : process[k] = "main"}
LaunchInFlight == {k \in Launch : launch[k] \in {"server", "details", "launch", "loading"}}
IsActive(p) == activeBrowsers[p] # NoBrowser    \* a process that was started keeps its pid
CleanUps == cleaning \cup {attempt[1] : attempt \in deleting}

-----------------------------------------------------------------------------
(* getBrowserLauncher.                                                       *)

GetLauncher ==
    launcher' = IF launcher.state = "none" THEN [launcher EXCEPT !.state = "pending"] ELSE launcher

KeepsBrowsers == UNCHANGED <<activeBrowsers, already, process, handled, cleaning, deleting,
                             profile, stuck, disturbed>>

\* The first launcher triggers an update, two seconds later.
LauncherReady ==
    /\ launcher.state = "pending"
    /\ launcher' = [launcher EXCEPT !.state = "ready"]
    /\ update' = IF launcher.reloaded THEN update ELSE "due"
    /\ UNCHANGED <<launch, warning>> /\ KeepsBrowsers

\* Those that wait for it fail. It is dropped, but not if it was made after an update.
LauncherFails_Mut ==
    /\ launcher.state = "pending"
    /\ launcher' = [launcher EXCEPT !.state = "failed"]
    /\ launch' = [k \in Launch |-> IF launch[k] \in {"details", "launch"} THEN "failed" ELSE launch[k]]
    /\ UNCHANGED <<update, warning>> /\ KeepsBrowsers

LauncherFails ==
    /\ launcher.state = "pending"
    /\ launcher' = [launcher EXCEPT !.state = IF launcher.reloaded THEN "failed" ELSE "none"]
    /\ launch' = [k \in Launch |-> IF launch[k] \in {"details", "launch"} THEN "failed" ELSE launch[k]]
    /\ UNCHANGED <<update, warning>> /\ KeepsBrowsers

Updated ==
    /\ update = "due"
    /\ update' = "done"
    /\ \/ launcher' = [state |-> "pending", reloaded |-> TRUE]
       \/ UNCHANGED launcher    \* the update failed
    /\ UNCHANGED <<launch, warning>> /\ KeepsBrowsers

-----------------------------------------------------------------------------
(* activate.                                                                 *)

\* Up to the first await: whether a browser is active is asked now and used later.
StartLaunch(k) ==
    /\ launch[k] = "new"
    /\ launch' = [launch EXCEPT ![k] = "server"]
    /\ already' = IF IsActive(PortOfCall[k]) THEN already \cup {k} ELSE already
    /\ disturbed' = \/ disturbed \/ LaunchInFlight # {} \/ CleanUps # {}
                    \/ IsActive(PortOfCall[k]) /\ activeBrowsers[PortOfCall[k]] \notin Main
    /\ UNCHANGED <<launcher, update, activeBrowsers, warning, process, handled, cleaning, deleting,
                   profile, stuck>>

\* The page's server is up: the browser's details are asked for.
WarningStarts(k) ==
    /\ launch[k] = "server"
    /\ warning' = [warning EXCEPT ![k] = "up"]
    /\ launch' = [launch EXCEPT ![k] = "details"]
    /\ GetLauncher
    /\ UNCHANGED update /\ KeepsBrowsers

\* The profile's path and the launch options; the launcher is asked for again.
DetailsKnown(k) ==
    /\ launch[k] = "details" /\ launcher.state \in {"ready", "failed"}
    /\ launch' = [launch EXCEPT ![k] = IF launcher.state = "ready" THEN "launch" ELSE "failed"]
    /\ UNCHANGED <<launcher, update, warning>> /\ KeepsBrowsers

\* The launcher is there since the details were.
LaunchBrowser(k) ==
    /\ launch[k] = "launch" /\ launcher.state = "ready"
    /\ launch' = [launch EXCEPT ![k] = "loading"]
    /\ process' = [process EXCEPT ![k] = IF Main = {} THEN "main" ELSE "window"]
    /\ profile' = TRUE
    /\ UNCHANGED <<launcher, update, activeBrowsers, already, warning, handled, cleaning, deleting,
                   stuck, disturbed>>

\* A browser loads the page: completedPromise. The process is registered, unless a
\* browser was active before; if it is closed already that is never heard.
PageLoaded_Mut(k) ==
    /\ launch[k] = "loading" /\ Main # {}
    /\ launch' = [launch EXCEPT ![k] = "done"]
    /\ activeBrowsers' = [activeBrowsers EXCEPT ![PortOfCall[k]] = k]
    /\ handled' = IF process[k] = "closed" THEN handled ELSE handled \cup {k}
    /\ UNCHANGED <<launcher, update, already, warning, process, cleaning, deleting, profile, stuck,
                   disturbed>>

PageLoaded(k) ==
    /\ launch[k] = "loading" /\ Main # {}
    /\ launch' = [launch EXCEPT ![k] = "done"]
    /\ IF k \in already
       THEN UNCHANGED <<activeBrowsers, handled>>
       ELSE /\ activeBrowsers' = [activeBrowsers EXCEPT ![PortOfCall[k]] = k]
            /\ handled' = IF process[k] = "closed" THEN handled ELSE handled \cup {k}
    /\ UNCHANGED <<launcher, update, already, warning, process, cleaning, deleting, profile, stuck,
                   disturbed>>

\* Ten seconds after that.
WarningStops(k) ==
    /\ launch[k] = "done" /\ warning[k] = "up"
    /\ warning' = [warning EXCEPT ![k] = "stopped"]
    /\ UNCHANGED <<launcher, update, launch>> /\ KeepsBrowsers

-----------------------------------------------------------------------------
\* A process exits: a browser when the user or deactivate closes it, the others soon.
ProcessCloses(k) ==
    /\ process[k] \in {"main", "window"}
    /\ process' = [process EXCEPT ![k] = "closed"]
    /\ IF k \in handled
       THEN /\ activeBrowsers' = [activeBrowsers EXCEPT ![PortOfCall[k]] = NoBrowser]
            /\ cleaning' = cleaning \cup {k}
       ELSE UNCHANGED <<activeBrowsers, cleaning>>
    /\ disturbed' = (disturbed \/ (k \in Main \cup handled /\ LaunchInFlight # {}))
    /\ UNCHANGED <<launcher, update, launch, already, warning, handled, deleting, profile, stuck>>

\* A second later, with no browser active, the folder's deletion starts; nothing waits for it.
CleanUp(k) ==
    /\ k \in cleaning
    /\ cleaning' = cleaning \ {k}
    /\ deleting' = IF \A p \in ProxyPort : ~IsActive(p) THEN deleting \cup {<<k, 1>>} ELSE deleting
    /\ UNCHANGED <<launcher, update, activeBrowsers, launch, already, warning, process, handled,
                   profile, stuck, disturbed>>

\* deleteFolder. After a failure it is called once more, another second later and whatever
\* has been opened since.
DeleteFolder(k, n) ==
    /\ <<k, n>> \in deleting
    /\ \/ /\ profile' = FALSE
          /\ deleting' = deleting \ {<<k, n>>}
          /\ UNCHANGED stuck
       \/ /\ deleting' = (deleting \ {<<k, n>>}) \cup (IF n = 1 THEN {<<k, 2>>} ELSE {})
          /\ stuck' = (stuck \/ n = 2)
          /\ UNCHANGED profile
    /\ UNCHANGED <<launcher, update, activeBrowsers, launch, already, warning, process, handled,
                   cleaning, disturbed>>

FreshNext ==
    \/ LauncherReady \/ LauncherFails \/ Updated
    \/ \E k \in Launch :
           \/ StartLaunch(k) \/ WarningStarts(k) \/ DetailsKnown(k) \/ LaunchBrowser(k)
           \/ PageLoaded(k) \/ WarningStops(k) \/ ProcessCloses(k) \/ CleanUp(k)
           \/ \E n \in {1, 2} : DeleteFolder(k, n)

-----------------------------------------------------------------------------
\* Browsers that are opened, asked for more windows and closed, one call after the other
\* on any port: the browser that runs is the active one of its port, so that deactivate
\* closes it; its profile is not deleted under it; and none is left for the next browser,
\* unless it could not be deleted or the table still has an entry: that of a process that
\* only asked another port's browser for a window and was gone before it was registered
\* stays for ever (chromium-based-interceptors.ts:131-145). A failed launcher is not used
\* again, unless it was made after an update (browsers.ts:60-70).
\* All but the last is said only as long as calls do not overlap, no registered process is
\* closed during a call, and no call starts during a clean up, its retry included, or on a
\* port whose entry is not a browser: OnlyLastDeletesProfile says what else may happen.
BrowserIsTracked ==
    /\ launcher.state = "failed" => launcher.reloaded
    /\ ~disturbed =>
        /\ Main # {} => profile
        /\ LaunchInFlight = {} => \A k \in Main : activeBrowsers[PortOfCall[k]] = k
        /\ LaunchInFlight \cup CleanUps \cup Main = {} /\ (\A p \in ProxyPort : ~IsActive(p)) =>
               ~profile \/ stuck

\* The profile is deleted only by the clean up of the last browser. The comment is
\* chromium-based-interceptors.ts:144-145: "If we were the last browser and we have a
\* profile path, and it's definitely part of our local/snap config (just in case
\* something's gone wrong) -> delete it & reset everything."
OnlyLastDeletesProfile == Main # {} => profile
=============================================================================
