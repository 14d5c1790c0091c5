--------------------------- MODULE DockerMonitor ---------------------------
(***************************************************************************)
(* docker-networking.ts and dns-server.ts for one proxy port: monitors     *)
(* that follow the networks of intercepted containers, the event stream    *)
(* they share, and the DNS server and the tunnel that they keep up to      *)
(* date.                                                                   *)
(*                                                                         *)
(* A monitor is named after the call that created it.  The aliases of a    *)
(* network are abstracted to the set of containers they lead to.           *)
(***************************************************************************)
EXTENDS DockerEngine

CONSTANTS
    Call,       \* calls of monitorDockerNetworkAliases
    None

ASSUME MonitorAssumption == None \notin Call /\ \A cs \in SUBSET Container : cs # None

VARIABLES
    stream,     \* dockerEventStream: number and state of the latest one
    dns,        \* DNS_SERVER_MAP: the promise of the server
    hosts,      \* the server's hosts, per network
    call,       \* call[k]: the await at which it is, or how it ended
    registered, \* dockerNetworkMonitors: the registered monitor
    monitor,    \* monitor[m]: the stream that its call was given, and its networkTargets
    query,      \* calls of getNetworkAliases that are awaited
    refresh,    \* refresh[m]: phase and answers of refreshAllNetworks
    tunnelled,  \* the networks of the last call of updateDockerTunnelledNetworks
    unsure      \* history: networks whose last event or listing came during an answer

monitorVars ==
    <<stream, dns, hosts, call, registered, monitor, query, refresh, tunnelled, unsure>>

Aliases == {None} \cup SUBSET Container
NoTargets == [n \in Network |-> None]
NoRefresh == [phase |-> "none", listed |-> {}, got |-> NoTargets]
CallPhase == {"new", "available", "dns", "done", "failed"}

MonitorTypeOK ==
    /\ stream \in [id : Nat, state : {"none", "connecting", "live", "dead"}]
    /\ dns \in {"none", "starting", "ready", "failed"}
    /\ hosts \in [Network -> Aliases]
    /\ call \in [Call -> CallPhase]
    /\ registered \in Call \cup {None}
    /\ monitor \in [Call -> [state : {"none", "on", "stopped"}, stream : Nat,
                             targets : [Network -> Aliases], early : BOOLEAN]]
    /\ query \subseteq [by : Call, serial : Nat, net : Network,
                        phase : {"network", "containers"}, seen : SUBSET Container]
    /\ refresh \in [Call -> [phase : {"none", "listing", "querying", "done", "failed"},
                             listed : SUBSET Network, got : [Network -> Aliases]]]
    /\ tunnelled \subseteq Network
    /\ unsure \subseteq Network

MonitorInit ==
    /\ stream = [id |-> 0, state |-> "none"]
    /\ dns = "none"
    /\ hosts = NoTargets
    /\ call = [k \in Call |-> "new"]
    /\ registered = None
    /\ monitor = [m \in Call |-> [state |-> "none", stream |-> 0,
                                  targets |-> NoTargets, early |-> FALSE]]
    /\ query = {}
    /\ refresh = [m \in Call |-> NoRefresh]
    /\ tunnelled = {}
    /\ unsure = {}

Intercepted(targets) == {n \in Network : targets[n] # None}

\* The monitor's data change. The autorun and the reaction of a monitor that was
\* not stopped pass the change on to the DNS server and to the tunnel.
SetTargets_Mut(m, targets) ==
    LET kept == [n \in Network |->
                    IF targets[n] = None THEN monitor[m].targets[n] ELSE targets[n]]
    IN  /\ monitor' = [monitor EXCEPT ![m].targets = kept]
        /\ IF monitor[m].state = "on"
           THEN hosts' = kept /\ tunnelled' = Intercepted(kept)
           ELSE UNCHANGED <<hosts, tunnelled>>

SetTargets(m, targets) ==
    /\ monitor' = [monitor EXCEPT ![m].targets = targets]
    /\ IF monitor[m].state = "on"
       THEN /\ hosts' = targets
            /\ tunnelled' = IF Intercepted(targets) # Intercepted(monitor[m].targets)
                            THEN Intercepted(targets) ELSE tunnelled
       ELSE UNCHANGED <<hosts, tunnelled>>

-----------------------------------------------------------------------------
(* monitorDockerNetworkAliases. *)

\* The call of k, up to its first await: without effect if a monitor is registered.
AskMonitor(k) ==
    /\ call[k] = "new"
    /\ call' = [call EXCEPT ![k] = IF registered # None THEN "done" ELSE "available"]

\* isDockerAvailable is answered with "no".
Unavailable(k) ==
    /\ call[k] = "available"
    /\ Spend("faults")
    /\ call' = [call EXCEPT ![k] = "done"]
    /\ UNCHANGED <<networks, attached, container, volume, wire, open>>
    /\ UNCHANGED <<stream, dns, hosts, registered, monitor, query, refresh, tunnelled, unsure>>

\* It is answered with "yes". The event stream is cached before Docker answers.
Available(k) ==
    /\ call[k] = "available"
    /\ IF registered # None
       THEN /\ call' = [call EXCEPT ![k] = "done"]
            /\ UNCHANGED <<stream, dns, monitor>>
       ELSE /\ stream' = IF stream.state \in {"none", "dead"}
                         THEN [id |-> stream.id + 1, state |-> "connecting"] ELSE stream
            /\ monitor' = [monitor EXCEPT ![k].stream = stream'.id]
            /\ dns' = IF dns = "none" THEN "starting" ELSE dns
            /\ call' = [call EXCEPT ![k] = "dns"]
    /\ UNCHANGED engineVars
    /\ UNCHANGED <<hosts, registered, query, refresh, tunnelled, unsure>>

\* The DNS server listens, or it cannot: the promise stays in the map either way.
DnsStarts ==
    /\ dns = "starting"
    /\ dns' = "ready"
    /\ UNCHANGED engineVars
    /\ UNCHANGED <<stream, hosts, call, registered, monitor, query, refresh, tunnelled, unsure>>

DnsFails ==
    /\ dns = "starting"
    /\ Spend("faults")
    /\ dns' = "failed"
    /\ UNCHANGED <<networks, attached, container, volume, wire, open>>
    /\ UNCHANGED <<stream, hosts, call, registered, monitor, query, refresh, tunnelled, unsure>>

\* After the await of the DNS server: the monitor starts to listen to the stream that the
\* call was given before it, and to refresh, and is registered: also if that stream is
\* dead by now, or another monitor was registered meanwhile.
Register(k) ==
    /\ call[k] = "dns" /\ dns = "ready"
    /\ call' = [call EXCEPT ![k] = "done"]
    /\ monitor' = [monitor EXCEPT ![k] = [@ EXCEPT !.state = "on", !.targets = NoTargets,
                                               !.early = ~open]]
    /\ refresh' = [refresh EXCEPT ![k].phase = "listing"]
    /\ hosts' = NoTargets
    /\ registered' = k
    /\ UNCHANGED engineVars
    /\ UNCHANGED <<stream, dns, query, tunnelled, unsure>>

CallFails(k) ==
    /\ call[k] = "dns" /\ dns = "failed"
    /\ call' = [call EXCEPT ![k] = "failed"]
    /\ UNCHANGED engineVars
    /\ UNCHANGED <<stream, dns, hosts, registered, monitor, query, refresh, tunnelled, unsure>>

\* stopMonitoringDockerNetworkAliases: the registration, the listener, the reactions.
StopMonitor ==
    /\ registered' = None
    /\ monitor' = IF registered = None THEN monitor
                  ELSE [monitor EXCEPT ![registered].state = "stopped"]

-----------------------------------------------------------------------------
(* The event stream. *)

StreamConnects ==
    /\ stream.state = "connecting"
    /\ stream' = [stream EXCEPT !.state = "live"]
    /\ open' = TRUE
    /\ UNCHANGED <<networks, attached, container, volume, wire, left>>
    /\ UNCHANGED <<dns, hosts, call, registered, monitor, query, refresh, tunnelled, unsure>>

\* getEvents is rejected: the cache is dropped, and listeners hear an error.
StreamFails ==
    /\ stream.state = "connecting"
    /\ Spend("faults")
    /\ stream' = [stream EXCEPT !.state = "dead"]
    /\ UNCHANGED <<networks, attached, container, volume, wire, open>>
    /\ UNCHANGED <<dns, hosts, call, registered, monitor, query, refresh, tunnelled, unsure>>

\* Docker closes the stream: the cache is dropped, and the monitor that is registered
\* is stopped if it listens to this stream.
StreamCloses ==
    /\ stream.state = "live"
    /\ Spend("faults")
    /\ stream' = [stream EXCEPT !.state = "dead"]
    /\ open' = FALSE
    /\ wire' = <<>>
    /\ IF registered # None /\ monitor[registered].stream = stream.id
       THEN StopMonitor
       ELSE UNCHANGED <<registered, monitor>>
    /\ UNCHANGED <<networks, attached, container, volume>>
    /\ UNCHANGED <<dns, hosts, call, query, refresh, tunnelled, unsure>>

\* onEvent of every monitor that listens, up to its await.
Listening == {m \in Call : monitor[m].state = "on" /\ monitor[m].stream = stream.id}

Without(targets, n) == [targets EXCEPT ![n] = None]

Destroyed(e) ==
    /\ monitor' = [m \in Call |-> IF m \in Listening
                                  THEN [monitor[m] EXCEPT !.targets = Without(@, e.net)]
                                  ELSE monitor[m]]
    /\ LET changed == {m \in Listening : monitor[m].targets[e.net] # None}
       IN  IF changed = {} THEN UNCHANGED <<hosts, tunnelled>>
           ELSE \E m \in changed :     \* the newest monitor is the last to publish
                    /\ registered \in changed => m = registered
                    /\ hosts' = Without(monitor[m].targets, e.net)
                    /\ tunnelled' = Intercepted(hosts')
    /\ UNCHANGED query

Serial == CHOOSE i \in 1..(Cardinality(query) + 1) : \A q \in query : q.serial # i

Attached(e) ==
    /\ query' = query \cup {[by |-> m, serial |-> Serial, net |-> e.net,
                             phase |-> "network", seen |-> {}] : m \in Listening}
    /\ UNCHANGED <<monitor, hosts, tunnelled>>

\* An answer about n is on its way, or waits for the others of its refresh.
Awaited(n) ==
    \/ \E q \in query : q.net = n
    \/ \E m \in Call : refresh[m].phase = "querying" /\ n \in refresh[m].listed

EventArrives ==
    /\ wire # <<>>
    /\ wire' = Tail(wire)
    /\ LET e == Head(wire)
       IN  /\ IF e.action = "destroy" THEN Destroyed(e) ELSE Attached(e)
           /\ unsure' = IF Awaited(e.net) THEN unsure \cup {e.net} ELSE unsure \ {e.net}
    /\ UNCHANGED <<networks, attached, container, volume, open, left>>
    /\ UNCHANGED <<stream, dns, call, registered, refresh>>

-----------------------------------------------------------------------------
(* getNetworkAliases and refreshAllNetworks.  A query with serial 0 is part *)
(* of a refresh, whose answers are used together.                           *)

NetworksListed(m) ==
    /\ refresh[m].phase = "listing"
    /\ refresh' = [refresh EXCEPT ![m].phase = IF networks = {} THEN "done" ELSE "querying",
                                  ![m].listed = networks]
    /\ query' = query \cup {[by |-> m, serial |-> 0, net |-> n, phase |-> "network",
                             seen |-> {}] : n \in networks}
    /\ unsure' = unsure \cup {n \in networks : Awaited(n)}
    /\ UNCHANGED engineVars
    /\ UNCHANGED <<stream, dns, hosts, call, registered, monitor, tunnelled>>

\* A rejected query: an event is dropped, a refresh is dropped as a whole.
QueryFails(q) ==
    /\ query' = query \ {q}
    /\ refresh' = IF q.serial = 0 THEN [refresh EXCEPT ![q.by].phase = "failed"] ELSE refresh
    /\ UNCHANGED <<monitor, hosts, tunnelled>>

\* An answer: nothing more is awaited for q.
Answered(q, aliases) ==
    LET r == [refresh[q.by] EXCEPT !.got[q.net] = aliases]
        last == r.phase = "querying" /\ ~\E p \in query \ {q} : p.by = q.by /\ p.serial = 0
        targets == monitor[q.by].targets
    IN  /\ query' = query \ {q}
        /\ CASE q.serial # 0 ->
                  SetTargets(q.by, [targets EXCEPT ![q.net] = aliases]) /\ UNCHANGED refresh
             [] q.serial = 0 /\ last ->
                  /\ SetTargets(q.by, [n \in Network |->
                                          IF n \in r.listed THEN r.got[n] ELSE targets[n]])
                  /\ refresh' = [refresh EXCEPT ![q.by] = [r EXCEPT !.phase = "done"]]
             [] OTHER ->
                  refresh' = [refresh EXCEPT ![q.by] = r] /\ UNCHANGED <<monitor, hosts, tunnelled>>

\* Docker inspects the network, for the containers on it.
NetworkInspected(q) ==
    /\ q \in query /\ q.phase = "network"
    /\ CASE q.net \notin networks -> QueryFails(q)
         [] q.net \in networks \cap HostNetwork -> Answered(q, None)
         [] OTHER ->
              /\ query' = (query \ {q}) \cup
                              {[q EXCEPT !.phase = "containers", !.seen = attached[q.net]]}
              /\ UNCHANGED <<monitor, hosts, tunnelled, refresh>>
    /\ UNCHANGED engineVars
    /\ UNCHANGED <<stream, dns, call, registered, unsure>>

\* Docker inspects those. The ones that are gone are skipped, and those that have
\* left the network have no address on it.
AliasesOf(n, seen) ==
    LET known == {c \in seen : container[c].state # "absent"}
    IN  IF known \cap Labelled = {} THEN None ELSE known \cap attached[n]

ContainersInspected(q) ==
    /\ q \in query /\ q.phase = "containers"
    /\ Answered(q, AliasesOf(q.net, q.seen))
    /\ UNCHANGED engineVars
    /\ UNCHANGED <<stream, dns, call, registered, unsure>>

StartupStep ==
    \/ \E k \in Call : Unavailable(k) \/ Available(k) \/ Register(k) \/ CallFails(k)
    \/ DnsStarts \/ DnsFails
    \/ StreamConnects \/ StreamFails

EventStep ==
    \/ StreamCloses
    \/ EventArrives
    \/ \E m \in Call : NetworksListed(m)
    \/ \E q \in query : NetworkInspected(q) \/ ContainersInspected(q)

-----------------------------------------------------------------------------
(* What a monitor is right about. *)

\* What a monitor should know of n.
Truth(n) == IF n \in networks \ HostNetwork THEN AliasesOf(n, attached[n]) ELSE None

\* Nothing that m should hear is on its way.
Quiet(m) ==
    /\ stream.state = "live" /\ monitor[m].stream = stream.id /\ wire = <<>>
    /\ refresh[m].phase = "done"
    /\ ~\E q \in query : q.by = m

\* The monitors that were made, if no two calls overlapped only one at a time.
Made == {m \in Call : monitor[m].state # "none"}

\* The DNS server and the tunnel are given what Docker has: whatever containers and
\* networks come and go while a monitor starts (docker-networking.ts:96-135, 257-313),
\* once nothing is on its way, the registered monitor is right about every network whose
\* last event or listing did not come during an earlier answer, and so are they if no
\* other monitor was ever made. That is said of a monitor that listens to the live stream,
\* and was not registered before Docker answered the request for its events.
QuietMonitorIsRight ==
    registered # None /\ Quiet(registered) /\ ~monitor[registered].early =>
        \A n \in Network \ unsure :
            /\ monitor[registered].targets[n] = Truth(n)
            /\ Made = {registered} =>
                   hosts[n] = Truth(n) /\ (Truth(n) # None => n \in tunnelled)

\* docker-networking.ts:79, of monitorDockerNetworkAliases: "This method has no effect (and
\* no downside) if the monitor is already running". Calls that overlap make one each.
OneMonitorRuns ==
    \A m, k \in Call : monitor[m].state = "on" /\ monitor[k].state = "on" => m = k

\* docker-networking.ts:121: "If the stream is dead, this network monitor is no longer
\* working - drop it." The listener is added to a stream that can have died before.
RegisteredMonitorHears ==
    registered # None => monitor[registered].stream = stream.id /\ stream.state # "dead"

\* docker-networking.ts:177-178: monitors track "which networks the intercepted containers
\* are connected to", and "the network aliases & IPs accessible on those networks". The
\* older of two answers about a network can be used last.
SettledMonitorIsRight ==
    registered # None /\ Made = {registered} /\ Quiet(registered) /\ ~monitor[registered].early =>
        \A n \in Network : monitor[registered].targets[n] = Truth(n)
=============================================================================
