-------------------------- MODULE ExistingTerminal --------------------------
(***************************************************************************)
(* existing-terminal-interceptor.ts: a server per proxy port gives shells  *)
(* the script that intercepts them, and hears from the ones that have run  *)
(* it.  One port; a server is named after the call that creates it.        *)
(***************************************************************************)
EXTENDS Naturals, FiniteSets

CONSTANTS
    ShellCall, \* calls of activate
    Stopping,   \* calls of deactivate
    NoServer

ASSUME ExistingAssumption ==
    ShellCall \cap (Stopping \cup {NoServer, "new", "done"}) = {}

VARIABLES
    servers,    \* servers: the registered server
    server,     \* server[a]: its state
    isActive,   \* the servers whose state has isActive
    opening,    \* opening[a]: where a call of activate is
    given,      \* given[a]: the server whose commands it has returned
    stopping,   \* stopping[d]: where a call of deactivate is, or the server it stops
    lastCall,   \* history: the call that was made last
    reported,   \* history: a shell has reported since then
    overlapped  \* history: a call was made before another one had ended

existingVars ==
    <<servers, server, isActive, opening, given, stopping, lastCall, reported, overlapped>>

ExistingInit ==
    /\ servers = NoServer
    /\ server = [a \in ShellCall |-> "none"]
    /\ isActive = {}
    /\ opening = [a \in ShellCall |-> "new"]
    /\ given = [a \in ShellCall |-> NoServer]
    /\ stopping = [d \in Stopping |-> "new"]
    /\ lastCall = NoServer
    /\ reported = FALSE
    /\ overlapped = FALSE

InFlight ==
    \/ \E a \in ShellCall : opening[a] = "starting"
    \/ \E d \in Stopping : stopping[d] \notin {"new", "done"}

Called(c) == lastCall' = c /\ reported' = FALSE /\ overlapped' = (overlapped \/ InFlight)

\* activate, up to its await. A registered server is used again, and waits for a shell.
ActivateExisting(a) ==
    /\ opening[a] = "new"
    /\ Called(a)
    /\ opening' = [opening EXCEPT ![a] = IF servers = NoServer THEN "starting" ELSE "done"]
    /\ given' = [given EXCEPT ![a] = servers]
    /\ isActive' = isActive \ {servers}
    /\ server' = IF servers = NoServer THEN [server EXCEPT ![a] = "starting"] ELSE server
    /\ UNCHANGED <<servers, stopping>>

\* The server has started and has its rules: it is registered.
ServerStarted(a) ==
    /\ opening[a] = "starting"
    /\ opening' = [opening EXCEPT ![a] = "done"]
    /\ server' = [server EXCEPT ![a] = "up"]
    /\ servers' = a
    /\ given' = [given EXCEPT ![a] = a]
    /\ UNCHANGED <<isActive, stopping, lastCall, reported, overlapped>>

\* No port is free, or the like.
ServerFails(a) ==
    /\ opening[a] = "starting"
    /\ opening' = [opening EXCEPT ![a] = "failed"]
    /\ server' = [server EXCEPT ![a] = "stopped"]
    /\ UNCHANGED <<servers, isActive, given, stopping, lastCall, reported, overlapped>>

\* A shell has run the script that it was given, and posts to /success.
ShellReports(a) ==
    /\ given[a] # NoServer /\ server[given[a]] = "up"
    /\ isActive' = isActive \cup {given[a]}
    /\ reported' = TRUE
    /\ UNCHANGED <<servers, server, opening, given, stopping, lastCall, overlapped>>

\* deactivate, up to its await.
DeactivateExisting(d) ==
    /\ stopping[d] = "new"
    /\ Called(d)
    /\ stopping' = [stopping EXCEPT ![d] = IF servers = NoServer THEN "done" ELSE servers]
    /\ UNCHANGED <<servers, server, isActive, opening, given>>

ServerStops(d) ==
    /\ stopping[d] \in ShellCall /\ server[stopping[d]] = "up"
    /\ server' = [server EXCEPT ![stopping[d]] = "stopped"]
    /\ UNCHANGED <<servers, isActive, opening, given, stopping, lastCall, reported, overlapped>>

Deactivated_Mut(d) ==
    /\ stopping[d] \in ShellCall /\ server[stopping[d]] = "stopped"
    /\ stopping' = [stopping EXCEPT ![d] = "done"]
    /\ UNCHANGED <<servers, server, isActive, opening, given, lastCall, reported, overlapped>>

\* After the await: the registration is deleted, whosever it is.
Deactivated(d) ==
    /\ stopping[d] \in ShellCall /\ server[stopping[d]] = "stopped"
    /\ stopping' = [stopping EXCEPT ![d] = "done"]
    /\ servers' = NoServer
    /\ UNCHANGED <<server, isActive, opening, given, lastCall, reported, overlapped>>

ExistingNext ==
    \/ \E a \in ShellCall :
           ActivateExisting(a) \/ ServerStarted(a) \/ ServerFails(a) \/ ShellReports(a)
    \/ \E d \in Stopping : DeactivateExisting(d) \/ ServerStops(d) \/ Deactivated(d)

-----------------------------------------------------------------------------
\* Whatever sequence of activations and deactivations, if none was made before the one
\* before it had ended: the user has the commands of a server that runs and that isActive
\* looks at, which no shell has reported to since unless isActive says so, and after a
\* deactivation nothing runs (existing-terminal-interceptor.ts:70-79, 114, 121-126).
\* Overlapping calls leak servers, or return the commands of one that stops.
CommandsReachTheServer ==
    ~overlapped /\ ~InFlight =>
        /\ lastCall \in ShellCall /\ opening[lastCall] = "done" =>
               /\ given[lastCall] = servers /\ server[servers] = "up"
               /\ servers \in isActive => reported
        /\ {a \in ShellCall : server[a] = "up"} = {servers} \ {NoServer}
=============================================================================
