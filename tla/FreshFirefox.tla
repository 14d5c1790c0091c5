---------------------------- MODULE FreshFirefox ----------------------------
(***************************************************************************)
(* Firefox with a profile of the server (fresh-firefox.ts).  A new profile *)
(* is set up by a first run of the browser and by certutil; every later    *)
(* run checks that the certificate is trusted, and a profile that fails    *)
(* is deleted once the browser has closed.                                 *)
(*                                                                         *)
(* As with any Firefox, a process that is started on a profile in use only *)
(* opens a tab in the browser that has it, and exits.                      *)
(***************************************************************************)
EXTENDS Naturals, FiniteSets

CONSTANTS
    Opening,    \* calls of activate
    FirefoxPort,
    PortOfOpening,
    NoFirefox

ASSUME FirefoxAssumption ==
    NoFirefox \notin Opening /\ PortOfOpening \in [Opening -> FirefoxPort]

VARIABLES
    profileSetupBrowser, \* the call that has set it
    setupProcess,   \* setupProcess[o]: the browser of the call's set up
    setupAwaited,   \* setupAwaited[o]: the set up whose close the call awaits
    activeFirefox,  \* activeBrowsers[p]: the call whose browser it is
    openingAt,      \* openingAt[o]: where a call is
    firefox,        \* firefox[o]: its browser
    certCheck,      \* certCheck[o]: certCheckSuccessful
    closedFirefox,  \* browsers closed less than two seconds ago
    unwanted,       \* calls whose deletion of the profile has not ended
    firefoxProfile, \* none, or with prefs.js and without or with the certificate
    lastOpening,    \* history: the latest call
    undeleted,      \* history: the profile's folder could not be deleted
    overlap         \* history: a call came during one or a clean up, or for another port

firefoxVars == <<profileSetupBrowser, setupProcess, setupAwaited, activeFirefox, openingAt, firefox,
                 certCheck, closedFirefox, unwanted, firefoxProfile, lastOpening, undeleted, overlap>>

FirefoxInit ==
    /\ profileSetupBrowser = NoFirefox
    /\ setupProcess = [o \in Opening |-> "none"]
    /\ setupAwaited = [o \in Opening |-> NoFirefox]
    /\ activeFirefox = [p \in FirefoxPort |-> NoFirefox]
    /\ openingAt = [o \in Opening |-> "new"]
    /\ firefox = [o \in Opening |-> "none"]
    /\ certCheck = [o \in Opening |-> "none"]
    /\ closedFirefox = {} /\ unwanted = {}
    /\ firefoxProfile = "none"
    /\ lastOpening = NoFirefox /\ undeleted = FALSE /\ overlap = FALSE

\* The browser that has the profile open.
OpenFirefox == {o \in Opening : firefox[o] = "open"} \cup {o \in Opening : setupProcess[o] = "open"}

\* Calls that are still under way. One whose browser was closed too early never ends.
OpeningInFlight ==
    {o \in Opening : \/ openingAt[o] \in {"details", "prepare", "shown", "stopping", "certutil", "launch"}
                     \/ openingAt[o] = "setup" /\ setupProcess[o] = "open"
                     \/ openingAt[o] = "check" /\ firefox[o] \in {"open", "tab"}}

OpeningGoesTo(o, phase) == openingAt' = [openingAt EXCEPT ![o] = phase]
KeepsProcesses == UNCHANGED <<setupProcess, activeFirefox, firefox, certCheck, closedFirefox, unwanted>>
KeepsHistory == UNCHANGED <<lastOpening, undeleted, overlap>>

\* deleteFolder, which nothing waits for and which is only logged if it fails.
DeleteProfile(o) ==
    /\ o \in unwanted
    /\ unwanted' = unwanted \ {o}
    /\ \/ firefoxProfile' = "none" /\ UNCHANGED undeleted
       \/ undeleted' = TRUE /\ UNCHANGED firefoxProfile
    /\ UNCHANGED <<profileSetupBrowser, setupProcess, setupAwaited, activeFirefox, openingAt,
                   firefox, certCheck, closedFirefox, lastOpening, overlap>>

-----------------------------------------------------------------------------
(* activate, up to the set up.                                               *)

\* An active browser, or a set up for whichever port, ends the call at once.
ActivateFirefox(o) ==
    /\ openingAt[o] = "new"
    /\ OpeningGoesTo(o, IF activeFirefox[PortOfOpening[o]] # NoFirefox \/ profileSetupBrowser # NoFirefox
                        THEN "skipped" ELSE "details")
    /\ lastOpening' = o
    /\ overlap' = \/ overlap \/ OpeningInFlight # {} \/ closedFirefox \cup unwanted # {}
                  \/ \E p \in FirefoxPort \ {PortOfOpening[o]} : activeFirefox[p] # NoFirefox
    /\ UNCHANGED <<profileSetupBrowser, setupAwaited, firefoxProfile, undeleted>> /\ KeepsProcesses

\* The browser's details, the profile's path and whether it has a prefs.js.
ProfileFound(o) ==
    /\ openingAt[o] = "details"
    /\ \/ OpeningGoesTo(o, IF firefoxProfile = "none" THEN "prepare" ELSE "launch")
       \/ OpeningGoesTo(o, "failed")
    /\ UNCHANGED <<profileSetupBrowser, setupAwaited, firefoxProfile>> /\ KeepsProcesses /\ KeepsHistory

-----------------------------------------------------------------------------
(* setupFirefoxProfile.                                                      *)

SetupStarts(o) ==
    /\ openingAt[o] = "prepare"
    /\ OpeningGoesTo(o, "setup")
    /\ profileSetupBrowser' = o
    /\ setupProcess' = [setupProcess EXCEPT ![o] = "open"]
    /\ UNCHANGED <<setupAwaited, activeFirefox, firefox, certCheck, closedFirefox, unwanted,
                   firefoxProfile>>
    /\ KeepsHistory

\* The message server has no page to show, or there is no browser to launch.
SetupFails(o) ==
    /\ openingAt[o] = "prepare"
    /\ OpeningGoesTo(o, "failed")
    /\ UNCHANGED <<profileSetupBrowser, setupAwaited, firefoxProfile>> /\ KeepsProcesses /\ KeepsHistory

\* The browser has written its profile and loads the message.
MessageShown(o) ==
    /\ openingAt[o] = "setup" /\ setupProcess[o] = "open"
    /\ OpeningGoesTo(o, "shown")
    /\ firefoxProfile' = IF firefoxProfile = "none" THEN "new" ELSE firefoxProfile
    /\ UNCHANGED <<profileSetupBrowser, setupAwaited>> /\ KeepsProcesses /\ KeepsHistory

\* Its browser closes, for this call, for deactivateAll or for the user: too early, the
\* profile is deleted, and the call waits for the message for ever.
SetupCloses(o) ==
    /\ setupProcess[o] = "open"
    /\ setupProcess' = [setupProcess EXCEPT ![o] = "closed"]
    /\ profileSetupBrowser' = NoFirefox
    /\ unwanted' = IF openingAt[o] = "setup" THEN unwanted \cup {o} ELSE unwanted
    /\ UNCHANGED <<setupAwaited, activeFirefox, openingAt, firefox, certCheck, closedFirefox,
                   firefoxProfile>>
    /\ KeepsHistory

\* 200 ms later the browser is stopped: the call fails if it has closed itself.
StopSetup(o) ==
    /\ openingAt[o] = "shown"
    /\ OpeningGoesTo(o, IF profileSetupBrowser = NoFirefox THEN "failed" ELSE "stopping")
    /\ setupAwaited' = [setupAwaited EXCEPT ![o] = profileSetupBrowser]
    /\ UNCHANGED <<profileSetupBrowser, firefoxProfile>> /\ KeepsProcesses /\ KeepsHistory

SetupStopped(o) ==
    /\ openingAt[o] = "stopping" /\ setupProcess[setupAwaited[o]] = "closed"
    /\ OpeningGoesTo(o, "certutil")
    /\ UNCHANGED <<profileSetupBrowser, setupAwaited, firefoxProfile>> /\ KeepsProcesses /\ KeepsHistory

\* certutil fails, or is not there: the profile stays as it is.
CertutilFails(o) ==
    /\ openingAt[o] = "certutil"
    /\ OpeningGoesTo(o, "failed")
    /\ UNCHANGED <<profileSetupBrowser, setupAwaited, firefoxProfile>> /\ KeepsProcesses /\ KeepsHistory

CertutilAdds(o) ==
    /\ openingAt[o] = "certutil" /\ firefoxProfile # "none"
    /\ OpeningGoesTo(o, "launch")
    /\ firefoxProfile' = "trusted"
    /\ UNCHANGED <<profileSetupBrowser, setupAwaited>> /\ KeepsProcesses /\ KeepsHistory

-----------------------------------------------------------------------------
(* activate: the browser and its check.                                      *)

\* The server of the check has started. The browser is registered at once.
LaunchFirefox(o) ==
    /\ openingAt[o] = "launch"
    /\ OpeningGoesTo(o, "check")
    /\ firefox' = [firefox EXCEPT ![o] = IF OpenFirefox = {} THEN "open" ELSE "tab"]
    /\ activeFirefox' = [activeFirefox EXCEPT ![PortOfOpening[o]] = o]
    /\ firefoxProfile' = IF firefoxProfile = "none" THEN "new" ELSE firefoxProfile
    /\ UNCHANGED <<profileSetupBrowser, setupProcess, setupAwaited, certCheck, closedFirefox, unwanted>>
    /\ KeepsHistory

LaunchFirefoxFails(o) ==
    /\ openingAt[o] = "launch"
    /\ OpeningGoesTo(o, "failed")
    /\ UNCHANGED <<profileSetupBrowser, setupAwaited, firefoxProfile>> /\ KeepsProcesses /\ KeepsHistory

\* The page has asked for the test over HTTPS, or for /failed-test. An update can break
\* what was trusted.
CheckAnswered(o) ==
    /\ openingAt[o] = "check" /\ OpenFirefox # {}
    /\ \E success \in BOOLEAN :
           /\ success => firefoxProfile = "trusted"
           /\ certCheck' = [certCheck EXCEPT ![o] = IF success THEN "ok" ELSE "bad"]
           /\ OpeningGoesTo(o, IF success THEN "done" ELSE "untrusted")
    /\ UNCHANGED <<profileSetupBrowser, setupProcess, setupAwaited, activeFirefox, firefox,
                   closedFirefox, unwanted, firefoxProfile>>
    /\ KeepsHistory

\* The user, deactivate or deactivateAll closes it.
FirefoxCloses(o) ==
    /\ firefox[o] \in {"open", "tab"}
    /\ firefox' = [firefox EXCEPT ![o] = "closed"]
    /\ activeFirefox' = [activeFirefox EXCEPT ![PortOfOpening[o]] = NoFirefox]
    /\ closedFirefox' = closedFirefox \cup {o}
    /\ UNCHANGED <<profileSetupBrowser, setupProcess, setupAwaited, openingAt, certCheck, unwanted,
                   firefoxProfile>>
    /\ KeepsHistory

\* Two seconds later.
FirefoxCleanUp_Mut(o) ==
    /\ o \in closedFirefox
    /\ closedFirefox' = closedFirefox \ {o}
    /\ unwanted' = IF certCheck[o] = "none" THEN unwanted \cup {o} ELSE unwanted
    /\ UNCHANGED <<profileSetupBrowser, setupProcess, setupAwaited, activeFirefox, openingAt,
                   firefox, certCheck, firefoxProfile>>
    /\ KeepsHistory

FirefoxCleanUp(o) ==
    /\ o \in closedFirefox
    /\ closedFirefox' = closedFirefox \ {o}
    /\ unwanted' = IF certCheck[o] # "ok" THEN unwanted \cup {o} ELSE unwanted
    /\ UNCHANGED <<profileSetupBrowser, setupProcess, setupAwaited, activeFirefox, openingAt,
                   firefox, certCheck, firefoxProfile>>
    /\ KeepsHistory

SetupStep(o) ==
    \/ SetupStarts(o) \/ SetupFails(o) \/ MessageShown(o) \/ SetupCloses(o)
    \/ StopSetup(o) \/ SetupStopped(o) \/ CertutilFails(o) \/ CertutilAdds(o)

FirefoxNext ==
    \E o \in Opening :
        \/ ActivateFirefox(o) \/ ProfileFound(o) \/ SetupStep(o)
        \/ LaunchFirefox(o) \/ LaunchFirefoxFails(o) \/ CheckAnswered(o)
        \/ FirefoxCloses(o) \/ FirefoxCleanUp(o) \/ DeleteProfile(o)

-----------------------------------------------------------------------------
\* As long as no call comes during another, during a clean up or while another port's
\* browser runs: the browser that runs is the one that is active, its profile is not deleted
\* under it, and at rest a profile that was not trusted is left only by a latest call that
\* failed itself or by a deletion that failed, at any time; whatever else fails and whenever
\* a browser is closed, also in the middle of a call (fresh-firefox.ts:193-244, 287-311).
\* So a certutil that failed once, after which no set up is made again, costs one run.
FirefoxRecovers ==
    ~overlap =>
        /\ {o \in Opening : firefox[o] = "open"} # {} => firefoxProfile # "none"
        /\ OpeningInFlight = {} =>
               {o \in Opening : firefox[o] = "open"} =
               {activeFirefox[p] : p \in {q \in FirefoxPort : activeFirefox[q] # NoFirefox}}
        /\ OpeningInFlight \cup OpenFirefox \cup closedFirefox \cup unwanted = {} /\ ~undeleted =>
               \/ firefoxProfile \in {"none", "trusted"}
               \/ openingAt[lastOpening] = "failed"
=============================================================================
