-------------------------- MODULE ExistingChromium --------------------------
(***************************************************************************)
(* The user's own browser of one Chromium variant, closed and launched     *)
(* again with interception (chromium-based-interceptors.ts,                *)
(* ExistingChromiumBasedInterceptor): the processes of the default         *)
(* profile, of which one at most has it open, and the single               *)
(* activeBrowser.                                                          *)
(***************************************************************************)
EXTENDS Naturals, FiniteSets

CONSTANTS
    Intercept,  \* calls of activate
    UserStart,  \* times that the user starts the browser
    Confirmed,  \* the calls with closeConfirmed
    Nobody

ASSUME ExistingChromiumAssumption ==
    Confirmed \subseteq Intercept /\ Intercept \cap UserStart = {} /\ Nobody \notin Intercept \cup UserStart

VARIABLES
    running,    \* the process that has the default profile open
    windows,    \* processes that only asked it for a window, and have not exited
    intercept,  \* intercept[k]: where the call is
    pid,        \* pid[k]: the process that the call has found
    activeBrowser, \* the call whose process is the activeBrowser
    heard,      \* calls whose process has a listener for its close
    launched,   \* history: processes that were started
    interfered  \* history: a start, a close or a call came during a call

existingChromiumVars ==
    <<running, windows, intercept, pid, activeBrowser, heard, launched, interfered>>

ExistingChromiumInit ==
    /\ running = Nobody /\ windows = {}
    /\ intercept = [k \in Intercept |-> "new"]
    /\ pid = [k \in Intercept |-> Nobody]
    /\ activeBrowser = Nobody
    /\ heard = {} /\ launched = {} /\ interfered = FALSE

Intercepting == {k \in Intercept : intercept[k] \notin {"new", "done", "failed"}}
GoTo(k, phase) == intercept' = [intercept EXCEPT ![k] = phase]

\* The user opens the browser: a second process only opens a window in the first.
UserStarts(u) ==
    /\ u \notin launched
    /\ launched' = launched \cup {u}
    /\ IF running = Nobody THEN running' = u /\ UNCHANGED windows
                           ELSE windows' = windows \cup {u} /\ UNCHANGED running
    /\ interfered' = (interfered \/ Intercepting # {})
    /\ UNCHANGED <<intercept, pid, activeBrowser, heard>>

\* A process exits. The listener of any deletes the activeBrowser.
Exits(c) ==
    /\ running' = IF c = running THEN Nobody ELSE running
    /\ windows' = windows \ {c}
    /\ activeBrowser' = IF c \in heard THEN Nobody ELSE activeBrowser

UserCloses(c) ==
    /\ c = running \/ c \in windows
    /\ Exits(c)
    /\ interfered' = (interfered \/ (c = running /\ Intercepting # {}))
    /\ UNCHANGED <<intercept, pid, heard, launched>>

-----------------------------------------------------------------------------
\* activate: its check of isActivable looks at a promise, and so always goes on.
StartIntercept(k) ==
    /\ intercept[k] = "new"
    /\ GoTo(k, "list")
    /\ interfered' = (interfered \/ Intercepting # {})
    /\ UNCHANGED <<running, windows, pid, activeBrowser, heard, launched>>

\* Of the browser's processes the one without a type and a profile of its own.
FindExistingPid == running

\* listRunningProcesses. Its best guess at a process's arguments is taken to be right.
ProcessesListed(k) ==
    /\ intercept[k] = "list"
    /\ pid' = [pid EXCEPT ![k] = FindExistingPid]
    /\ GoTo(k, "found")
    /\ UNCHANGED <<running, windows, activeBrowser, heard, launched, interfered>>

\* The browser's details are known: the user is asked to confirm that the browser is
\* closed, or it is killed; that fails if it has exited meanwhile.
CloseExisting_Mut(k) ==
    /\ intercept[k] = "found"
    /\ GoTo(k, IF pid[k] # Nobody /\ k \notin Confirmed THEN "failed" ELSE "launch")
    /\ UNCHANGED <<running, windows, pid, activeBrowser, heard, launched, interfered>>

CloseExisting(k) ==
    /\ intercept[k] = "found"
    /\ GoTo(k, CASE pid[k] = Nobody -> "launch"
                 [] pid[k] # Nobody /\ (k \notin Confirmed \/ pid[k] # running) -> "failed"
                 [] OTHER -> "exit")
    /\ UNCHANGED <<running, windows, pid, activeBrowser, heard, launched, interfered>>

\* waitForExit: the killed browser exits, sooner or later.
KilledExits(k) ==
    /\ intercept[k] \in {"exit", "failed"} /\ k \in Confirmed
    /\ pid[k] # Nobody /\ pid[k] = running
    /\ Exits(pid[k])
    /\ UNCHANGED <<intercept, pid, heard, launched, interfered>>

ExitSeen(k) ==
    /\ intercept[k] = "exit" /\ pid[k] # running
    /\ GoTo(k, "launch")
    /\ UNCHANGED <<running, windows, pid, activeBrowser, heard, launched, interfered>>

ExitTimesOut(k) ==
    /\ intercept[k] = "exit" /\ pid[k] = running
    /\ GoTo(k, "failed")
    /\ UNCHANGED <<running, windows, pid, activeBrowser, heard, launched, interfered>>

\* The page's server, the details and the launcher, any of which can fail; a browser that
\* was killed is then not started again.
LaunchFails(k) ==
    /\ intercept[k] = "launch"
    /\ GoTo(k, "failed")
    /\ UNCHANGED <<running, windows, pid, activeBrowser, heard, launched, interfered>>

LaunchIntercepted(k) ==
    /\ intercept[k] = "launch"
    /\ launched' = launched \cup {k}
    /\ IF running = Nobody THEN running' = k /\ UNCHANGED windows
                           ELSE windows' = windows \cup {k} /\ UNCHANGED running
    /\ GoTo(k, "loading")
    /\ UNCHANGED <<pid, activeBrowser, heard, interfered>>

\* The page is loaded, and its server stopped: the process is the activeBrowser. If it
\* is closed already that is never heard.
InterceptLoaded(k) ==
    /\ intercept[k] = "loading" /\ running # Nobody
    /\ activeBrowser' = k
    /\ heard' = IF k = running \/ k \in windows THEN heard \cup {k} ELSE heard
    /\ GoTo(k, "done")
    /\ UNCHANGED <<running, windows, pid, launched, interfered>>

ExistingChromiumNext ==
    \/ \E u \in UserStart : UserStarts(u)
    \/ \E c \in Intercept \cup UserStart : UserCloses(c)
    \/ \E k \in Intercept :
           \/ StartIntercept(k) \/ ProcessesListed(k) \/ CloseExisting(k)
           \/ KilledExits(k) \/ ExitSeen(k) \/ ExitTimesOut(k)
           \/ LaunchFails(k) \/ LaunchIntercepted(k) \/ InterceptLoaded(k)

-----------------------------------------------------------------------------
\* "We can only intercept one instance" (chromium-based-interceptors.ts:192): whatever
\* the user starts and closes between calls, also when a call is made while a browser is
\* intercepted, the one that is intercepted is the one that runs, and a user's browser
\* that runs is never taken for it.
OneInstanceIsIntercepted ==
    ~interfered /\ Intercepting = {} =>
        /\ activeBrowser # Nobody => activeBrowser = running
        /\ running \in Intercept => activeBrowser = running
=============================================================================
