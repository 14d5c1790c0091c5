------------------------------ MODULE McpTools ------------------------------
(***************************************************************************)
(* The MCP server of `httptoolkit mcp` (commands/mcp.ts): how the list of  *)
(* tools an MCP client holds follows the operations the UI bridge offers.  *)
(* The bridge itself is the module UiBridge; here it is an environment     *)
(* that changes at any time.                                               *)
(***************************************************************************)
EXTENDS Naturals, FiniteSets

CONSTANTS
    Op,             \* operations, each listed as the tool of the same name
    Call,           \* calls of the tool start_httptoolkit
    Launchable,     \* the desktop app is found on the disk
    MaxTries,       \* bound on the rounds of the launch loop, 60 in 30 seconds
    MaxChanges,     \* bound on the bridge's changes that are explored
    MaxTimeouts     \* bound on the requests that time out although the bridge is up

ASSUME ConstantAssumption ==
    /\ Launchable \in BOOLEAN
    /\ MaxTries \in Nat \ {0} /\ MaxChanges \in Nat /\ MaxTimeouts \in Nat
    /\ Call \cap {"initial", "poll"} = {}

\* Who refreshes the cache: the start-up, the timer, and each launch.
Slot == {"initial", "poll"} \cup Call

\* Phases of startHttpToolkit, named for what is awaited.
Phase == {"new", "refresh", "status", "refreshAgain", "findApp", "delay",
          "loopRefresh", "loopStatus", "ready", "failed"}
Refreshing == {"refresh", "refreshAgain", "loopRefresh"}

VARIABLES
    bridge,     \* [ready, ops]: what /api/status and /api/operations say;
                \* operations are offered by a ready bridge only
    changes,    \* changes of the bridge so far
    timeouts,   \* timed out requests so far
    cache,      \* cachedOperations
    lastKey,    \* lastOpsKey: the operations at the last change a poll saw
    refresh,    \* refresh[r]: the GET /api/operations r awaits, with its answer
    launch,     \* launch[c]: where the call c of startHttpToolkit is
    tries,      \* tries[c]: rounds of its loop
    client,     \* the MCP client: its tools/list request, what it was answered
                \* last, and whether a list_changed has come since it asked
    open        \* stdin is open

vars == <<bridge, changes, timeouts, cache, lastKey, refresh, launch, tries, client, open>>

NoRefresh == [stage |-> "none", ops |-> {}]
Asked == [stage |-> "asked", ops |-> {}]

\* A tools/list result: operations, or the tool that launches the app, or none.
Tools(ops) == [ops |-> ops, start |-> ops = {} /\ Launchable]
NotListed == [ops |-> {}, start |-> FALSE]
ToolList == [ops : SUBSET Op, start : BOOLEAN]

TypeOK ==
    /\ bridge \in [ready : BOOLEAN, ops : SUBSET Op]
    /\ changes \in Nat /\ timeouts \in Nat
    /\ cache \subseteq Op
    /\ lastKey \subseteq Op
    /\ refresh \in [Slot -> [stage : {"none", "asked", "answered"}, ops : SUBSET Op]]
    /\ launch \in [Call -> Phase]
    /\ tries \in [Call -> Nat]
    /\ client \in [request : {"none", "sent", "finding"}, listed : BOOLEAN, tools : ToolList,
                   dirty : BOOLEAN, polled : BOOLEAN]
    /\ open \in BOOLEAN
    /\ \A c \in Call : refresh[c].stage # "none" <=> launch[c] \in Refreshing

\* runMcpServer starts the first refresh before it reads its input; the key is
\* that of the empty cache.
Init ==
    /\ bridge \in {b \in [ready : BOOLEAN, ops : SUBSET Op] : b.ops # {} => b.ready}
    /\ changes = 0 /\ timeouts = 0
    /\ cache = {}
    /\ lastKey = {}
    /\ refresh = [r \in Slot |-> IF r = "initial" THEN Asked ELSE NoRefresh]
    /\ launch = [c \in Call |-> "new"]
    /\ tries = [c \in Call |-> 0]
    /\ client = [request |-> "none", listed |-> FALSE, tools |-> NotListed,
                 dirty |-> FALSE, polled |-> FALSE]
    /\ open = TRUE

(***************************************************************************)
(* The environment: the bridge, and the socket to it.                      *)
(***************************************************************************)

\* The desktop app starts or stops, its UI connects, leaves, or offers others.
BridgeChanges(b) ==
    /\ b # bridge
    /\ b.ops # {} => b.ready
    /\ changes < MaxChanges
    /\ changes' = changes + 1
    /\ bridge' = b
    /\ UNCHANGED <<timeouts, cache, lastKey, refresh, launch, tries, client, open>>

\* apiRequest's request is answered by the bridge, or refused: no operations.
Answer(r) ==
    /\ refresh[r].stage = "asked"
    /\ refresh' = [refresh EXCEPT ![r] = [stage |-> "answered", ops |-> bridge.ops]]
    /\ UNCHANGED <<bridge, changes, timeouts, cache, lastKey, launch, tries, client, open>>

\* Nothing came for 2 seconds: the request is destroyed, which is an error.
TimeOut(r) ==
    /\ refresh[r].stage = "asked"
    /\ timeouts < MaxTimeouts
    /\ timeouts' = timeouts + 1
    /\ refresh' = [refresh EXCEPT ![r] = [stage |-> "answered", ops |-> {}]]
    /\ UNCHANGED <<bridge, changes, cache, lastKey, launch, tries, client, open>>

(***************************************************************************)
(* refreshOperations: its end writes the cache, whoever started it and     *)
(* whenever it was answered.                                               *)
(***************************************************************************)
Ask(r) == refresh' = [refresh EXCEPT ![r] = Asked]

Refreshed(r) ==
    /\ open
    /\ refresh[r].stage = "answered"
    /\ cache' = refresh[r].ops
    /\ refresh' = [refresh EXCEPT ![r] = NoRefresh]

InitialRefreshed_Mut ==     \* a failed first refresh rejects
    /\ Refreshed("initial")
    /\ refresh["initial"].ops # {}
    /\ UNCHANGED <<bridge, changes, timeouts, lastKey, launch, tries, client, open>>

InitialRefreshed ==
    /\ Refreshed("initial")
    /\ UNCHANGED <<bridge, changes, timeouts, lastKey, launch, tries, client, open>>

\* The 5 second timer.  A request lasts 2 seconds at most, so polls do not overlap.
Poll ==
    /\ open
    /\ refresh["poll"].stage = "none"
    /\ refresh["initial"].stage = "none"
    /\ Ask("poll")
    /\ UNCHANGED <<bridge, changes, timeouts, cache, lastKey, launch, tries, client, open>>

Polled_Mut ==               \* the key is updated without telling the client
    /\ Refreshed("poll")
    /\ lastKey' = cache'
    /\ UNCHANGED <<bridge, changes, timeouts, launch, tries, client, open>>

Polled_Empty_Mut ==          \* an empty list is taken for a failure, and ignored
    /\ open
    /\ refresh["poll"].stage = "answered"
    /\ refresh' = [refresh EXCEPT !["poll"] = NoRefresh]
    /\ cache' = IF refresh["poll"].ops = {} THEN cache ELSE refresh["poll"].ops
    /\ lastKey' = cache'
    /\ client' = [client EXCEPT !.dirty = @ \/ cache' # lastKey]
    /\ UNCHANGED <<bridge, changes, timeouts, launch, tries, open>>

Polled ==
    /\ Refreshed("poll")
    /\ lastKey' = cache'
    /\ client' = [client EXCEPT !.dirty = @ \/ cache' # lastKey]
    /\ UNCHANGED <<bridge, changes, timeouts, launch, tries, open>>

(***************************************************************************)
(* tools/list.                                                             *)
(***************************************************************************)

\* A client asks when it likes, and again after a list_changed.
ListTools ==
    /\ open
    /\ client.request = "none"
    /\ client' = [client EXCEPT !.request = "sent", !.dirty = FALSE]
    /\ UNCHANGED <<bridge, changes, timeouts, cache, lastKey, refresh, launch, tries, open>>

\* getToolsList, once initialRefresh is settled, reads the cache.  An empty cache
\* is followed by a look for the app on the disk, during which the cache changes.
ReadCache ==
    /\ open
    /\ client.request = "sent"
    /\ refresh["initial"].stage = "none"
    /\ client' = IF cache # {}
                 THEN [client EXCEPT !.request = "none", !.listed = TRUE,
                                     !.tools = Tools(cache), !.polled = (cache = lastKey)]
                 ELSE [client EXCEPT !.request = "finding", !.polled = (cache = lastKey)]
    /\ UNCHANGED <<bridge, changes, timeouts, cache, lastKey, refresh, launch, tries, open>>

ListLaunch ==
    /\ open
    /\ client.request = "finding"
    /\ client' = [client EXCEPT !.request = "none", !.listed = TRUE, !.tools = Tools({})]
    /\ UNCHANGED <<bridge, changes, timeouts, cache, lastKey, refresh, launch, tries, open>>

(***************************************************************************)
(* tools/call of start_httptoolkit.                                        *)
(***************************************************************************)
To(c, p) == launch' = [launch EXCEPT ![c] = p]

StartHttpToolkit(c) ==
    /\ open
    /\ launch[c] = "new"
    /\ To(c, "refresh")
    /\ Ask(c)
    /\ UNCHANGED <<bridge, changes, timeouts, cache, lastKey, tries, client, open>>

NextPhase(c) ==
    CASE launch[c] = "refresh" -> "status"
      [] launch[c] = "loopRefresh" -> "loopStatus"
      [] launch[c] = "refreshAgain" -> "ready"

LaunchRefreshed_Mut(c) ==   \* any refresh updates the key
    /\ Refreshed(c)
    /\ To(c, NextPhase(c))
    /\ lastKey' = cache'
    /\ UNCHANGED <<bridge, changes, timeouts, tries, client, open>>

\* A refresh of the launch has ended: after those before a status request, that
\* is sent; after the one that follows a ready status, the call is answered.
LaunchRefreshed(c) ==
    /\ Refreshed(c)
    /\ To(c, NextPhase(c))
    /\ UNCHANGED <<bridge, changes, timeouts, lastKey, tries, client, open>>

\* The first /api/status: an error counts as not ready.
FirstStatus(c, answered) ==
    /\ open
    /\ launch[c] = "status"
    /\ IF answered /\ bridge.ready
       THEN To(c, "refreshAgain") /\ Ask(c)
       ELSE To(c, "findApp") /\ UNCHANGED refresh
    /\ UNCHANGED <<bridge, changes, timeouts, cache, lastKey, tries, client, open>>

\* The app is launched, if there is one.
FindApp(c) ==
    /\ open
    /\ launch[c] = "findApp"
    /\ To(c, IF Launchable THEN "delay" ELSE "failed")
    /\ UNCHANGED <<bridge, changes, timeouts, cache, lastKey, refresh, tries, client, open>>

Delay_Mut(c) ==             \* the refresh is not awaited
    /\ open
    /\ launch[c] = "delay"
    /\ To(c, "loopStatus")
    /\ Ask(c)
    /\ tries' = [tries EXCEPT ![c] = @ + 1]
    /\ UNCHANGED <<bridge, changes, timeouts, cache, lastKey, client, open>>

\* The 500 ms before the next round.
Delay(c) ==
    /\ open
    /\ launch[c] = "delay"
    /\ To(c, "loopRefresh")
    /\ Ask(c)
    /\ tries' = [tries EXCEPT ![c] = @ + 1]
    /\ UNCHANGED <<bridge, changes, timeouts, cache, lastKey, client, open>>

LoopStatus_Mut(c, answered) ==      \* no deadline
    /\ open
    /\ launch[c] = "loopStatus"
    /\ To(c, IF answered /\ bridge.ready THEN "ready" ELSE "delay")
    /\ tries' = [tries EXCEPT ![c] = 0]
    /\ UNCHANGED <<bridge, changes, timeouts, cache, lastKey, refresh, client, open>>

\* The status in the loop, which ends when ready or at the deadline.
LoopStatus(c, answered) ==
    /\ open
    /\ launch[c] = "loopStatus"
    /\ To(c, IF answered /\ bridge.ready THEN "ready"
             ELSE IF tries[c] < MaxTries THEN "delay"
             ELSE "failed")
    /\ UNCHANGED <<bridge, changes, timeouts, cache, lastKey, refresh, tries, client, open>>

\* stdin closes: the process exits.
Close ==
    /\ open
    /\ open' = FALSE
    /\ UNCHANGED <<bridge, changes, timeouts, cache, lastKey, refresh, launch, tries, client>>

LaunchStep(c) ==
    \/ LaunchRefreshed(c) \/ FindApp(c) \/ Delay(c)
    \/ \E answered \in BOOLEAN : FirstStatus(c, answered) \/ LoopStatus(c, answered)

Next ==
    \/ \E b \in [ready : BOOLEAN, ops : SUBSET Op] : BridgeChanges(b)
    \/ \E r \in Slot : Answer(r) \/ TimeOut(r)
    \/ InitialRefreshed \/ Poll \/ Polled
    \/ ListTools \/ ReadCache \/ ListLaunch
    \/ \E c \in Call : StartHttpToolkit(c) \/ LaunchStep(c)
    \/ Close

Spec == Init /\ [][Next]_vars

\* Every request ends, by its own timeout at the latest; the event loop runs its
\* timers and continuations; a client that has been told asks again.  Nothing is
\* assumed of the bridge.
FairSpec ==
    /\ Spec
    /\ \A r \in Slot : WF_vars(Answer(r))
    /\ WF_vars(InitialRefreshed) /\ WF_vars(Poll) /\ WF_vars(Polled)
    /\ WF_vars(ReadCache) /\ WF_vars(ListLaunch)
    /\ WF_vars(client.dirty /\ ListTools)
    /\ \A c \in Call : WF_vars(LaunchStep(c))

(***************************************************************************)
(* Properties.                                                             *)
(***************************************************************************)

\* What the polls do guarantee.  A list that agreed with the last poll when it
\* was read is never silently outdated by a later one: it still agrees, or the
\* client has been told since it asked.  It holds although a list_changed can
\* overtake the answer of the list it makes stale.
PolledListIsWatched ==
    client.polled /\ client.listed /\ client.request = "none"
      => client.tools.ops = lastKey \/ client.dirty

\* The same while the app is looked for, when the list is read but not sent.
PolledReadIsWatched ==
    client.polled /\ client.request = "finding" => lastKey = {} \/ client.dirty

IInv == TypeOK /\ PolledListIsWatched /\ PolledReadIsWatched

\* Late answers of concurrent refreshes do not last: once the bridge stays as it
\* is, the cache ends up with its operations for good.
CacheConverges ==
    \A ops \in SUBSET Op :
        <>[](bridge.ops = ops /\ open) => <>[](cache = ops)

\* Every start_httptoolkit call is answered, whatever the bridge does.
StartEnds ==
    \A c \in Call : launch[c] = "refresh" ~> launch[c] \in {"ready", "failed"} \/ ~open

\* Every tools/list is answered, also when the first refresh is slow or fails.
ListEnds == client.request = "sent" ~> client.request = "none" \/ ~open

\* No call of the client is left without an answer while the bridge stalls, restarts or
\* loses its UI: mcp.ts:104-150 and 183-200.
CallsEnd == StartEnds /\ ListEnds

\* The comment on the launch tool in getToolsList: "This tool disappears once
\* HTTP Toolkit is running and real tools become available", for a client that
\* lists again whenever it is told to.  It does not hold: a launch's refresh may empty the
\* cache without touching the key that the polls compare.
LaunchToolDisappears ==
    <>[](bridge.ops # {} /\ open) => <>[](~client.tools.start)

=============================================================================
