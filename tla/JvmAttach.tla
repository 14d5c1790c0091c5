----------------------------- MODULE JvmAttach -----------------------------
(***************************************************************************)
(* jvm.ts: agents attached to running JVMs, the table of the processes     *)
(* that are intercepted, and the watchers that take them out again.  The   *)
(* machine may give the pid of a process that has ended to another one.    *)
(***************************************************************************)
EXTENDS Naturals, FiniteSets

CONSTANTS
    Attach,     \* calls of activate
    Listing,    \* calls of getMetadata("detailed")
    Pid,
    JvmPort,
    NoPort,
    Generations \* bound on the processes that have one pid, one after the other

ASSUME JvmAssumption == NoPort \notin JvmPort /\ Generations \in Nat

VARIABLES
    javaBin,    \* javaBinPromise
    jvm,   \* jvm[p]: whose process has the pid: ours, another user's or none
    generation, \* generation[p]: how many processes have had the pid
    agent,      \* agent[p]: the port of the agent in the process
    attach,     \* attach[c]: where a call is, its pid and port, and the process it is for
    interceptedProcesses, \* interceptedProcesses[p]
    watchers,   \* pids that a successful call waits for
    targetsPromise, \* the listing under way: what it has found
    listing,    \* listing[l]: where a call is, or its answer
    foreign     \* history: watchers that ended on another user's process

jvmVars == <<javaBin, jvm, generation, agent, attach, interceptedProcesses, watchers,
             targetsPromise, listing, foreign>>

NoLookup == [state |-> "none", found |-> {}]

JvmInit ==
    /\ javaBin = "testing"
    /\ jvm = [p \in Pid |-> "ours"]
    /\ generation = [p \in Pid |-> 1]
    /\ agent = [p \in Pid |-> NoPort]
    /\ attach = [c \in Attach |-> [at |-> "new", pid |-> CHOOSE p \in Pid : TRUE, port |-> NoPort]]
    /\ interceptedProcesses = [p \in Pid |-> NoPort]
    /\ watchers = {}
    /\ targetsPromise = NoLookup
    /\ listing = [l \in Listing |-> [at |-> "new", targets |-> {}]]
    /\ foreign = {}

KeepsMachine == UNCHANGED <<jvm, generation, agent>>

\* The candidates' self tests run in parallel for at most 30 s: the first that succeeds.
JavaTested ==
    /\ javaBin = "testing"
    /\ javaBin' \in {"java", "none"}
    /\ UNCHANGED <<attach, interceptedProcesses, watchers, targetsPromise, listing, foreign>>
    /\ KeepsMachine

-----------------------------------------------------------------------------
(* activate: the agent's process attaches to its target and exits.           *)

AttachTo(c) ==
    /\ attach[c].at = "new"
    /\ \E p \in Pid, port \in JvmPort :
           attach' = [attach EXCEPT ![c] = [at |-> "spawned", pid |-> p, port |-> port]]
    /\ UNCHANGED <<javaBin, interceptedProcesses, watchers, targetsPromise, listing, foreign>>
    /\ KeepsMachine

AgentLoaded(c) ==
    /\ attach[c].at = "spawned" /\ jvm[attach[c].pid] = "ours"
    /\ attach' = [attach EXCEPT ![c].at = "loaded"]
    /\ agent' = [agent EXCEPT ![attach[c].pid] = attach[c].port]
    /\ UNCHANGED <<javaBin, jvm, generation, interceptedProcesses, watchers, targetsPromise,
                   listing, foreign>>

AttachFails(c) ==
    /\ attach[c].at = "spawned"
    /\ attach' = [attach EXCEPT ![c].at = "failed"]
    /\ UNCHANGED <<javaBin, interceptedProcesses, watchers, targetsPromise, listing, foreign>>
    /\ KeepsMachine

\* It has exited with 0: the process is entered, and watched until it disappears.
AttachEnds(c) ==
    /\ attach[c].at = "loaded"
    /\ attach' = [attach EXCEPT ![c].at = "done"]
    /\ interceptedProcesses' = [interceptedProcesses EXCEPT ![attach[c].pid] = attach[c].port]
    /\ watchers' = watchers \cup {c}
    /\ UNCHANGED <<javaBin, targetsPromise, listing, foreign>> /\ KeepsMachine

\* waitForExit: the pid is probed every 250 ms. One that has gone is taken out; one that
\* belongs to another user now rejects, and nobody hears of that.
WatcherProbes_Mut(c) ==
    LET p == attach[c].pid
    IN  /\ c \in watchers /\ jvm[p] # "ours"
        /\ watchers' = watchers \ {c}
        /\ IF jvm[p] = "none"
           THEN UNCHANGED <<interceptedProcesses, foreign>>
           ELSE foreign' = foreign \cup {p} /\ UNCHANGED interceptedProcesses
        /\ UNCHANGED <<javaBin, attach, targetsPromise, listing>> /\ KeepsMachine

WatcherProbes(c) ==
    LET p == attach[c].pid
    IN  /\ c \in watchers /\ jvm[p] # "ours"
        /\ watchers' = watchers \ {c}
        /\ IF jvm[p] = "none"
           THEN interceptedProcesses' = [interceptedProcesses EXCEPT ![p] = NoPort] /\ UNCHANGED foreign
           ELSE foreign' = foreign \cup {p} /\ UNCHANGED interceptedProcesses
        /\ UNCHANGED <<javaBin, attach, targetsPromise, listing>> /\ KeepsMachine

-----------------------------------------------------------------------------
(* getMetadata and getTargets.                                               *)

\* A call that comes while a lookup is under way shares it.
ListTargets(l) ==
    /\ listing[l].at = "new"
    /\ listing' = [listing EXCEPT ![l].at = "waiting"]
    /\ targetsPromise' = IF targetsPromise.state = "none"
                         THEN [state |-> "java", found |-> {}] ELSE targetsPromise
    /\ UNCHANGED <<javaBin, attach, interceptedProcesses, watchers, foreign>> /\ KeepsMachine

\* The lister's process looks at the machine.
TargetsListed ==
    /\ targetsPromise.state = "java" /\ javaBin = "java"
    /\ targetsPromise' = [state |-> "listed", found |-> {p \in Pid : jvm[p] = "ours"}]
    /\ UNCHANGED <<javaBin, attach, interceptedProcesses, watchers, listing, foreign>> /\ KeepsMachine

\* It has exited: the table is read, all that share the lookup get it, and it is dropped.
TargetsEnd ==
    /\ \/ targetsPromise.state = "listed"
       \/ targetsPromise.state = "java" /\ javaBin # "testing" \* no Java, or the lister failed
    /\ LET targets == {[pid |-> p, interceptedByProxy |-> interceptedProcesses[p]] :
                           p \in targetsPromise.found}
       IN  listing' = [l \in Listing |-> IF listing[l].at = "waiting"
                                         THEN [at |-> "done", targets |-> targets] ELSE listing[l]]
    /\ targetsPromise' = NoLookup
    /\ UNCHANGED <<javaBin, attach, interceptedProcesses, watchers, foreign>> /\ KeepsMachine

-----------------------------------------------------------------------------
ProcessEnds(p) ==
    /\ jvm[p] # "none"
    /\ jvm' = [jvm EXCEPT ![p] = "none"]
    /\ agent' = [agent EXCEPT ![p] = NoPort]
    \* A call that was attaching to it fails, unless the agent was loaded before.
    /\ attach' = [c \in Attach |-> IF attach[c].at = "spawned" /\ attach[c].pid = p
                                   THEN [attach[c] EXCEPT !.at = "failed"] ELSE attach[c]]
    /\ UNCHANGED <<javaBin, generation, interceptedProcesses, watchers, targetsPromise, listing, foreign>>

ProcessStarts(p) ==
    /\ jvm[p] = "none" /\ generation[p] < Generations
    /\ generation' = [generation EXCEPT ![p] = @ + 1]
    /\ \E user \in {"ours", "other"} : jvm' = [jvm EXCEPT ![p] = user]
    /\ UNCHANGED <<javaBin, agent, attach, interceptedProcesses, watchers, targetsPromise, listing, foreign>>

JvmNext ==
    \/ JavaTested \/ TargetsListed \/ TargetsEnd
    \/ \E c \in Attach : AttachTo(c) \/ AgentLoaded(c) \/ AttachFails(c) \/ AttachEnds(c) \/ WatcherProbes(c)
    \/ \E l \in Listing : ListTargets(l)
    \/ \E p \in Pid : ProcessEnds(p) \/ ProcessStarts(p)

-----------------------------------------------------------------------------
\* Attaching is under way for the pid.
AttachingTo(p) == \E c \in Attach : attach[c].at \in {"spawned", "loaded"} /\ attach[c].pid = p

\* A pid that is used again, one process attached to twice and watchers of both: what is
\* in the table is watched, so that it is taken out, unless another user's process has
\* taken the pid over; and a JVM with an agent is in the table, so that no watcher of an
\* earlier process has taken it out (jvm.ts:250-258).
JvmTableIsWatched ==
    \A p \in Pid :
        /\ interceptedProcesses[p] # NoPort =>
               p \in foreign \/ \E c \in watchers : attach[c].pid = p
        /\ agent[p] # NoPort /\ ~AttachingTo(p) => interceptedProcesses[p] # NoPort
=============================================================================
