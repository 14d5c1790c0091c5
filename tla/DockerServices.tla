--------------------------- MODULE DockerServices ---------------------------
(***************************************************************************)
(* Docker interception on one proxy port: the services that are started    *)
(* and stopped with each mock session (docker-interception-services.ts),   *)
(* the API proxy (docker-proxy.ts), the requests it rewrites, and the      *)
(* containers that are intercepted by 'docker-attach' (docker-             *)
(* interceptor.ts, docker-commands.ts).  It composes DockerMonitor and     *)
(* DockerVolume, whose calls it makes; the tunnel is in DockerTunnel.      *)
(*                                                                         *)
(* The sessions have the same port, one after the other.  Every session    *)
(* and every request names the calls that are made for it.                 *)
(***************************************************************************)
EXTENDS DockerMonitor, DockerVolume

CONSTANTS
    Session,    \* mock sessions
    Request,    \* requests to the API proxy, and activations of docker-attach
    Everything, \* calls of deleteAllInterceptedDockerData('all')
    Deactivation\* calls of deactivate of docker-attach, for the port

ASSUME ServicesAssumption ==
    /\ Call = Session \cup Request /\ Asker = Call
    /\ Session \cap (Request \cup Everything \cup Deactivation) = {}
    /\ Everything \cap Deactivation = {} /\ None \notin Everything \cup Deactivation

\* A session's stop, and what deletes the data of this port or of all, are deletions.
Deletion == Session \cup Everything \cup Deactivation
KeyOf(d) == IF d \in Everything THEN "all" ELSE "port"

VARIABLES
    session,    \* session[s]: "new", "running" or "stopped"
    rule,       \* ruleParameters: the session whose start set the parameter
    proxyMap,   \* DOCKER_PROXY_MAP: the session whose start created the proxy
    proxy,      \* proxy[s]: the API proxy created for s
    proxyStop,  \* proxyStop[s]: the proxy whose creation stopDockerProxy awaits
    pending,    \* pendingDeactivations: a deletion per key
    deletion,   \* deletion[d]: phase, the containers it found, the deletion it joined, and
                \* whether its promise is rejected while it goes on
    request,    \* request[r]: kind, container, phase and networks found
    overlap     \* history: a session started or stopped while calls were in flight, or a
                \* request of a deletion was refused

serviceVars ==
    <<session, rule, proxyMap, proxy, proxyStop, pending, deletion, request, overlap>>
vars == <<engineVars, monitorVars, volumeVars, serviceVars>>

Deleting == {"listing", "removing", "images"}
DeletionPhase == {"none", "joined", "available", "listing", "removing", "images",
                  "done", "failed"}
RequestPhase == {"new", "available", "image", "inspect", "stop", "remove", "volume",
                 "create", "connect", "start", "done", "failed"}

ServicesTypeOK ==
    /\ EngineTypeOK /\ MonitorTypeOK /\ VolumeTypeOK
    /\ session \in [Session -> {"new", "running", "stopped"}]
    /\ rule \in Session \cup {None}
    /\ proxyMap \in Session \cup {None}
    /\ proxy \in [Session -> {"none", "creating", "ready", "failed", "destroyed"}]
    /\ proxyStop \in [Session -> Session \cup {None}]
    /\ pending \in [{"port", "all"} -> Deletion \cup {None}]
    /\ deletion \in [Deletion -> [phase : DeletionPhase, found : SUBSET Container,
                                  on : Deletion \cup {None}, rejected : BOOLEAN]]
    /\ \A r \in Request : request[r].phase \in RequestPhase
    /\ overlap \in BOOLEAN

NoRequest == [kind |-> None, of |-> None, phase |-> "new", nets |-> {}]

Init ==
    /\ EngineInit /\ MonitorInit /\ VolumeInit
    /\ session = [s \in Session |-> "new"]
    /\ rule = None
    /\ proxyMap = None
    /\ proxy = [s \in Session |-> "none"]
    /\ proxyStop = [s \in Session |-> None]
    /\ pending = [k \in {"port", "all"} |-> None]
    /\ deletion = [d \in Deletion |-> [phase |-> "none", found |-> {}, on |-> None, rejected |-> FALSE]]
    /\ request = [r \in Request |-> NoRequest]
    /\ overlap = FALSE

-----------------------------------------------------------------------------
(* What is in flight. *)

Starting ==
    \/ \E k \in Call : call[k] \in {"available", "dns"} \/ asker[k] = "waiting"
    \/ \E s \in Session : proxy[s] = "creating"
    \/ \E r \in Request : request[r].phase \notin {"new", "done", "failed"}

Stopping ==
    \/ \E d \in Deletion : deletion[d].phase \notin {"none", "done", "failed"}
    \/ \E s \in Session : proxyStop[s] # None

Running == {s \in Session : session[s] = "running"}

-----------------------------------------------------------------------------
(* deleteAllInterceptedDockerData. *)

Phase(d, phase) == deletion' = [deletion EXCEPT ![d].phase = phase]

\* The call d, up to its first await: the deletion that is pending for its key is
\* awaited, if there is one. A pending one that failed rejects at once.
AskDeletion(d) ==
    LET p == pending[KeyOf(d)]
    IN  deletion' = [deletion EXCEPT ![d] =
            IF p = None THEN [@ EXCEPT !.phase = "available"]
            ELSE IF deletion[p].phase = "failed" \/ deletion[p].rejected THEN [@ EXCEPT !.phase = "failed"]
            ELSE [@ EXCEPT !.phase = "joined", !.on = p]]

\* A deletion ends, and with it those that joined it; the stops among these go on to
\* delete the rule parameter if it did not fail.
Ends(d, phase) ==
    LET ended == {d} \cup {j \in Deletion : deletion[j].phase = "joined" /\ deletion[j].on = d}
    IN  /\ deletion' = [j \in Deletion |->
                IF j \in ended THEN [deletion[j] EXCEPT !.phase = phase] ELSE deletion[j]]
        /\ rule' = IF phase = "done" /\ ended \cap Session # {} THEN None ELSE rule

KeepsSessions == UNCHANGED <<session, proxyMap, proxy, proxyStop, request>>
KeepsServices == KeepsSessions /\ UNCHANGED overlap
Refused == Spend("faults") /\ overlap' = TRUE /\ KeepsSessions
KeepsDocker == UNCHANGED <<engineVars, monitorVars, volumeVars>>

DeletionAvailable(d) ==
    /\ deletion[d].phase = "available"
    /\ Phase(d, "listing")
    /\ pending' = [pending EXCEPT ![KeyOf(d)] = d]
    /\ UNCHANGED rule /\ KeepsServices /\ KeepsDocker

DeletionUnavailable(d) ==
    /\ deletion[d].phase = "available"
    /\ Refused
    /\ Ends(d, "done")
    /\ UNCHANGED pending
    /\ UNCHANGED <<networks, attached, container, volume, wire, open, monitorVars, volumeVars>>

ContainersListed(d) ==
    /\ deletion[d].phase = "listing"
    /\ deletion' = [deletion EXCEPT ![d].phase = "removing", ![d].found = Labelled]
    /\ UNCHANGED <<rule, pending>> /\ KeepsServices /\ KeepsDocker

\* One container is stopped and removed, or that fails and is ignored.
ContainerDeleted(d, c) ==
    /\ deletion[d].phase = "removing" /\ c \in deletion[d].found
    /\ deletion' = [deletion EXCEPT ![d].found = @ \ {c}]
    /\ \/ /\ container' = [container EXCEPT ![c] = Absent]
          /\ Leave(c)
          /\ UNCHANGED left /\ KeepsServices
       \/ Refused /\ UNCHANGED <<container, attached, wire>>
    /\ UNCHANGED <<networks, volume, open, monitorVars, volumeVars, rule, pending>>

ImagesAsked(d) ==
    /\ deletion[d].phase = "removing" /\ deletion[d].found = {}
    /\ Phase(d, "images")
    /\ UNCHANGED <<rule, pending>> /\ KeepsServices /\ KeepsDocker

\* The images are removed. The mark is taken away, whosever it is.
DeletionEnds_Mut(d) ==
    /\ deletion[d].phase = "images"
    /\ Ends(d, IF deletion[d].rejected THEN "failed" ELSE "done")
    /\ pending' = IF pending[KeyOf(d)] = d /\ \E j \in Deletion : deletion[j].on = d
                  THEN pending ELSE [pending EXCEPT ![KeyOf(d)] = None]
    /\ KeepsServices /\ KeepsDocker

DeletionEnds(d) ==
    /\ deletion[d].phase = "images"
    /\ Ends(d, IF deletion[d].rejected THEN "failed" ELSE "done")
    /\ pending' = [pending EXCEPT ![KeyOf(d)] = None]
    /\ KeepsServices /\ KeepsDocker

\* A list is rejected: the promise stays where it is.
DeletionFails(d) ==
    /\ deletion[d].phase \in {"listing", "images"}
    /\ Refused
    /\ Ends(d, "failed")
    /\ UNCHANGED pending
    /\ UNCHANGED <<networks, attached, container, volume, wire, open, monitorVars, volumeVars>>

\* stopDockerTunnel is rejected, and with it all that wait; the rest goes on.
TunnelNotStopped(d) ==
    /\ deletion[d].phase \in Deleting /\ ~deletion[d].rejected
    /\ Refused
    /\ deletion' = [j \in Deletion |->
            IF j = d THEN [deletion[d] EXCEPT !.rejected = TRUE]
            ELSE IF deletion[j].phase = "joined" /\ deletion[j].on = d
                 THEN [deletion[j] EXCEPT !.phase = "failed"] ELSE deletion[j]]
    /\ UNCHANGED <<rule, pending>>
    /\ UNCHANGED <<networks, attached, container, volume, wire, open, monitorVars, volumeVars>>

\* The shutdown handler, deactivateAll, or deactivate.
Deactivate(e) ==
    /\ deletion[e].phase = "none" /\ session # [s \in Session |-> "new"]
    /\ Spend("all")
    /\ AskDeletion(e)
    /\ overlap' = (overlap \/ Starting)
    /\ UNCHANGED <<rule, pending, session, proxyMap, proxy, proxyStop, request>>
    /\ UNCHANGED <<networks, attached, container, volume, wire, open, monitorVars, volumeVars>>

DeletionStep ==
    \E d \in Deletion :
        \/ DeletionAvailable(d) \/ DeletionUnavailable(d) \/ ContainersListed(d)
        \/ \E c \in Container : ContainerDeleted(d, c)
        \/ ImagesAsked(d) \/ DeletionEnds(d) \/ DeletionFails(d) \/ TunnelNotStopped(d)

-----------------------------------------------------------------------------
(* startDockerInterceptionServices, stopDockerInterceptionServices.          *)

\* Everything is asked for in one turn, and then awaited.
StartSession(s) ==
    /\ session[s] = "new" /\ Running = {}
    /\ left.starts > 0 /\ left' = [left EXCEPT !.starts = @ - 1]
    /\ session' = [session EXCEPT ![s] = "running"]
    /\ rule' = s
    /\ IF proxyMap = None
       THEN proxyMap' = s /\ proxy' = [proxy EXCEPT ![s] = "creating"]
       ELSE UNCHANGED <<proxyMap, proxy>>
    /\ AskMonitor(s)
    /\ dns' = IF dns = "none" THEN "starting" ELSE dns
    /\ AskVolume(s)
    /\ overlap' = (overlap \/ Starting \/ Stopping)
    /\ UNCHANGED <<networks, attached, container, volume, wire, open>>
    /\ UNCHANGED <<stream, hosts, registered, monitor, query, refresh, tunnelled, unsure>>
    /\ UNCHANGED <<proxyStop, pending, deletion, request>>

ProxyReady(s) ==
    /\ proxy[s] = "creating"
    /\ proxy' = [proxy EXCEPT ![s] = "ready"]
    /\ UNCHANGED <<session, rule, proxyMap, proxyStop, pending, deletion, request, overlap>>
    /\ KeepsDocker

\* The address, the socket or its mode: the promise stays in the map.
ProxyFails(s) ==
    /\ proxy[s] = "creating"
    /\ Spend("faults")
    /\ proxy' = [proxy EXCEPT ![s] = "failed"]
    /\ UNCHANGED <<session, rule, proxyMap, proxyStop, pending, deletion, request, overlap>>
    /\ UNCHANGED <<networks, attached, container, volume, wire, open, monitorVars, volumeVars>>

\* stopDockerProxy after its await: the entry is deleted, whosever it is.
Destroy(p) ==
    /\ proxyMap' = None
    /\ proxy' = [proxy EXCEPT ![p] = "destroyed"]

\* In one turn: the proxy if it is ready, the monitor, and the deletion is asked for.
StopSession_Mut(s) ==
    /\ session[s] = "running"
    /\ session' = [session EXCEPT ![s] = "stopped"]
    /\ IF proxyMap # None /\ proxy[proxyMap] = "ready"
       THEN Destroy(proxyMap) /\ UNCHANGED proxyStop
       ELSE /\ UNCHANGED <<proxyMap, proxy>>
            /\ proxyStop' = [proxyStop EXCEPT ![s] =
                IF proxyMap # None /\ proxy[proxyMap] = "creating" THEN proxyMap ELSE None]
    /\ AskDeletion(s)
    /\ overlap' = (overlap \/ Starting \/ Stopping)
    /\ UNCHANGED <<engineVars, volumeVars, rule, pending, request>>
    /\ UNCHANGED <<stream, dns, hosts, call, query, refresh, tunnelled, unsure, registered, monitor>>

StopSession(s) ==
    /\ session[s] = "running"
    /\ session' = [session EXCEPT ![s] = "stopped"]
    /\ IF proxyMap # None /\ proxy[proxyMap] = "ready"
       THEN Destroy(proxyMap) /\ UNCHANGED proxyStop
       ELSE /\ UNCHANGED <<proxyMap, proxy>>
            /\ proxyStop' = [proxyStop EXCEPT ![s] =
                IF proxyMap # None /\ proxy[proxyMap] = "creating" THEN proxyMap ELSE None]
    /\ StopMonitor
    /\ AskDeletion(s)
    /\ overlap' = (overlap \/ Starting \/ Stopping)
    /\ UNCHANGED <<engineVars, volumeVars, rule, pending, request>>
    /\ UNCHANGED <<stream, dns, hosts, call, query, refresh, tunnelled, unsure>>

ProxyStopped(s) ==
    /\ proxyStop[s] # None /\ proxy[proxyStop[s]] # "creating"
    /\ IF proxy[proxyStop[s]] = "failed" THEN UNCHANGED <<proxyMap, proxy>>
                                         ELSE Destroy(proxyStop[s])
    /\ proxyStop' = [proxyStop EXCEPT ![s] = None]
    /\ UNCHANGED <<session, rule, pending, deletion, request, overlap>> /\ KeepsDocker

SessionStep ==
    \/ \E s \in Session : StartSession(s) \/ StopSession(s)
    \/ \E e \in Everything \cup Deactivation : Deactivate(e)

ProxyStep == \E s \in Session : ProxyReady(s) \/ ProxyFails(s) \/ ProxyStopped(s)

-----------------------------------------------------------------------------
(* Requests to the API proxy, and activations.                               *)

To(r, phase) == request' = [request EXCEPT ![r].phase = phase]

KeepsLifecycle == UNCHANGED <<session, rule, proxyMap, proxy, proxyStop, pending, deletion, overlap>>
KeepsMonitor == UNCHANGED <<stream, hosts, registered, monitor, query, refresh, tunnelled, unsure>>

\* ensureDockerServicesRunning, which is not awaited: the monitor and the DNS server.
EnsureServices(r) ==
    /\ AskMonitor(r)
    /\ dns' = IF dns = "none" THEN "starting" ELSE dns
    /\ KeepsMonitor

\* A client of the proxy creates a container, or starts one.
ClientAsks(r, kind, c) ==
    /\ request[r].phase = "new"
    /\ Spend("requests")
    /\ proxyMap # None /\ proxy[proxyMap] = "ready"
    /\ kind = "create" <=> container[c].state = "absent"
    /\ request' = [request EXCEPT ![r] = [@ EXCEPT !.kind = kind, !.of = c, !.phase = "available"]]
    /\ UNCHANGED <<networks, attached, container, volume, wire, open>>
    /\ UNCHANGED <<monitorVars, volumeVars>> /\ KeepsLifecycle

\* The proxy's handler, after isDockerAvailable: if that says no, the answer is a 504.
ClientRefused(r) ==
    /\ request[r].phase = "available"
    /\ Spend("faults")
    /\ To(r, "failed")
    /\ UNCHANGED <<networks, attached, container, volume, wire, open, monitorVars, volumeVars>>
    /\ KeepsLifecycle

ClientServed(r) ==
    /\ request[r].phase = "available"
    /\ EnsureServices(r)
    /\ To(r, IF request[r].kind = "create" THEN "image" ELSE "inspect")
    /\ UNCHANGED <<engineVars, volumeVars>> /\ KeepsLifecycle

\* The body was read and the image inspected: the volume's name is needed.
ImageInspected(r) ==
    /\ request[r].phase = "image"
    /\ AskVolume(r)
    /\ To(r, "volume")
    /\ UNCHANGED <<engineVars, monitorVars>> /\ KeepsLifecycle

\* The container that is to be started was inspected. If it is not intercepted the
\* client is answered with an error, and the request is passed on all the same.
StartChecked(r) ==
    /\ request[r].kind = "start" /\ request[r].phase = "inspect"
    /\ To(r, "start")
    /\ KeepsDocker /\ KeepsLifecycle

\* activate of docker-attach: the services are ensured, and the container inspected.
Activate(r, c) ==
    /\ request[r].phase = "new"
    /\ Spend("requests")
    /\ Running # {} /\ c \in Plain
    /\ EnsureServices(r)
    /\ request' = [request EXCEPT ![r] = [@ EXCEPT !.kind = "attach", !.of = c, !.phase = "inspect"]]
    /\ UNCHANGED <<networks, attached, container, volume, wire, open, volumeVars>> /\ KeepsLifecycle

AttachInspected(r) ==
    LET c == request[r].of
    IN  /\ request[r].kind = "attach" /\ request[r].phase = "inspect"
        /\ request' = [request EXCEPT
                ![r].phase = IF container[c].state = "absent" THEN "failed" ELSE "stop",
                ![r].nets = {n \in networks : c \in attached[n]}]
        /\ KeepsDocker /\ KeepsLifecycle

\* restartAndInjectContainer: stop, which is no error if it has stopped and one if it is
\* gone; remove, which is no error if it is gone, and one that runs again is waited for.
AttachStopped(r) ==
    LET c == request[r].of
    IN  /\ request[r].phase = "stop"
        /\ container' = IF container[c].state = "running"
                        THEN [container EXCEPT ![c].state = "created"] ELSE container
        /\ Leave(c)
        /\ To(r, IF container[c].state = "absent" THEN "failed" ELSE "remove")
        /\ UNCHANGED <<networks, volume, open, left, monitorVars, volumeVars>> /\ KeepsLifecycle

AttachRemoved(r) ==
    /\ request[r].phase = "remove" /\ container[request[r].of].state # "running"
    /\ container' = [container EXCEPT ![request[r].of] = Absent]
    /\ Leave(request[r].of)
    /\ AskVolume(r)
    /\ To(r, "volume")
    /\ UNCHANGED <<networks, volume, open, left, monitorVars>> /\ KeepsLifecycle

\* transformContainerCreationConfig after its await. Without a volume the request is
\* never answered, and the activation is rejected.
VolumeNamed(r) ==
    /\ request[r].phase = "volume" /\ asker[r] \notin {"new", "waiting"}
    /\ To(r, IF asker[r] \in {"rejected", "refused"} THEN "failed" ELSE "create")
    /\ KeepsDocker /\ KeepsLifecycle

\* Docker creates the container, with the proxy's label.
ContainerMade(r) ==
    LET c == request[r].of
    IN  /\ request[r].phase = "create"
        /\ container' = IF container[c].state = "absent"
                        THEN [container EXCEPT ![c] = [state |-> "created", label |-> TRUE]]
                        ELSE container
        /\ IF container[c].state = "absent" THEN Mounted ELSE UNCHANGED <<volumeVars, volume>>
        /\ To(r, IF container[c].state # "absent" THEN "failed"
                 ELSE IF request[r].kind = "create" THEN "done" ELSE "connect")
        /\ UNCHANGED <<networks, attached, wire, open, left, monitorVars>> /\ KeepsLifecycle

\* connectNetworks: a network that is gone rejects it, the others are connected. A container
\* that is gone rejects it at once.
NetworksConnected(r) ==
    LET there == container[request[r].of].state # "absent"
    IN  /\ request[r].phase = "connect"
        /\ Join(request[r].of, {n \in request[r].nets \cap networks : there})
        /\ To(r, IF there /\ request[r].nets \subseteq networks THEN "start" ELSE "failed")
        /\ UNCHANGED <<networks, container, volume, open, left, monitorVars, volumeVars>>
        /\ KeepsLifecycle

\* Docker starts the container, if it is still there. A new one joins a network.
Started(r) ==
    LET c == request[r].of
        there == container[c].state # "absent"
    IN  /\ request[r].phase = "start"
        /\ container' = IF there THEN [container EXCEPT ![c].state = "running"] ELSE container
        /\ IF there /\ request[r].kind = "start"
           THEN \E nets \in SUBSET networks : Join(c, nets)
           ELSE UNCHANGED <<attached, wire>>
        /\ To(r, IF there THEN "done" ELSE "failed")
        /\ UNCHANGED <<networks, volume, open, left, monitorVars, volumeVars>> /\ KeepsLifecycle

RequestArrives ==
    \E r \in Request, c \in Container :
        (\E kind \in {"create", "start"} : ClientAsks(r, kind, c)) \/ Activate(r, c)

RequestStep ==
    \E r \in Request :
        \/ ClientRefused(r) \/ ClientServed(r) \/ ImageInspected(r) \/ StartChecked(r)
        \/ AttachInspected(r) \/ AttachStopped(r) \/ AttachRemoved(r)
        \/ VolumeNamed(r) \/ ContainerMade(r) \/ NetworksConnected(r) \/ Started(r)

-----------------------------------------------------------------------------

\* The server dies, and another one starts: what the first had in memory is gone, and
\* what it had asked Docker for stays.
Restart ==
    /\ Spend("crashes")
    /\ VolumeCrash
    /\ session' = [s \in Session |-> IF s \in Running THEN "stopped" ELSE session[s]]
    /\ rule' = None /\ proxyMap' = None /\ registered' = None /\ dns' = "none"
    /\ proxy' = [s \in Session |-> IF proxy[s] = "none" THEN "none" ELSE "destroyed"]
    /\ proxyStop' = [s \in Session |-> None]
    /\ pending' = [k \in {"port", "all"} |-> None]
    /\ deletion' = [d \in Deletion |-> IF deletion[d].phase \in {"none", "done"} THEN deletion[d]
                                       ELSE [deletion[d] EXCEPT !.phase = "failed"]]
    /\ request' = [r \in Request |-> IF request[r].phase \in {"new", "done"} THEN request[r]
                                     ELSE [request[r] EXCEPT !.phase = "failed"]]
    /\ call' = [k \in Call |-> IF call[k] \in {"available", "dns"} THEN "failed" ELSE call[k]]
    /\ stream' = [stream EXCEPT !.state = "dead"]
    /\ open' = FALSE /\ wire' = <<>> /\ query' = {}
    /\ hosts' = NoTargets
    /\ monitor' = [m \in Call |-> IF monitor[m].state = "on"
                                  THEN [monitor[m] EXCEPT !.state = "stopped"] ELSE monitor[m]]
    /\ refresh' = [m \in Call |-> NoRefresh]
    /\ overlap' = TRUE
    /\ UNCHANGED <<networks, attached, container, tunnelled, unsure>>

\* A bound: what the parts of left.prompt await is answered before anything else
\* happens, in the order of Rank.
Rank == [volume |-> 1, startup |-> 2, events |-> 3, proxy |-> 4, deletion |-> 5, request |-> 6,
         rest |-> 7]

Busy(part) ==
    CASE part = "volume" -> setup \notin {"none", "failed"}
      [] part = "startup" -> \/ \E k \in Call : call[k] \in {"available", "dns"}
                             \/ dns = "starting" \/ stream.state = "connecting"
      [] part = "events" -> \/ \E k \in Call : refresh[k].phase = "listing"
                            \/ wire # <<>> \/ query # {}
      [] part = "proxy" -> \E s \in Session : proxy[s] = "creating" \/ proxyStop[s] # None
      [] part = "deletion" -> \E d \in Deletion :
                                  deletion[d].phase \in {"available"} \cup Deleting
      [] part = "request" -> \E r \in Request : request[r].phase \notin {"new", "volume", "remove", "done", "failed"}

Turn(part) ==
    \A p \in left.prompt : Busy(p) => part \in left.prompt /\ Rank[part] <= Rank[p]

Next ==
    \/ Turn("volume") /\ VolumeStep /\ UNCHANGED <<monitorVars, serviceVars>>
    \/ Turn("startup") /\ StartupStep /\ UNCHANGED <<volumeVars, serviceVars>>
    \/ Turn("events") /\ EventStep /\ UNCHANGED <<volumeVars, serviceVars>>
    \/ Turn("proxy") /\ ProxyStep
    \/ Turn("deletion") /\ DeletionStep
    \/ Turn("request") /\ RequestStep
    \/ /\ Turn("rest")
       /\ \/ UserStep /\ UNCHANGED <<monitorVars, volumeVars, serviceVars>>
          \/ SessionStep \/ RequestArrives \/ Restart

Spec == Init /\ [][Next]_vars

-----------------------------------------------------------------------------
(* Properties. *)

\* A mark in pendingDeactivations stands for a deletion that still runs, or that failed
\* (docker-interception-services.ts:147-158, 202-203): whatever deletions overlap, with
\* the check before and the mark after an await, nobody waits for one that has ended.
PendingIsLive ==
    \A k \in DOMAIN pending :
        pending[k] # None => /\ KeyOf(pending[k]) = k
                             /\ deletion[pending[k]].phase \in Deleting \cup {"failed"}

\* A session that is stopped leaves no monitor, no proxy but one that never started, no
\* rule parameter and no container of ours behind (docker-interception-services.ts:
\* 133-145, 157-206), unless it was stopped, or the next one started, while something
\* was in flight, or Docker refused a deletion. A monitor can be left if overlapping
\* calls have created two.
StopLeavesNothing ==
    Running = {} /\ ~Starting /\ ~Stopping /\ ~overlap =>
        /\ registered = None /\ rule = None /\ Labelled = {}
        /\ proxyMap # None => proxy[proxyMap] = "failed"
        /\ \A m \in Call : monitor[m].state # "on" \/ \E k \in Call \ {m} : monitor[k].state # "none"

\* docker-data-injection.ts:23-27, of getDockerDataVolumeName: it "checks the volume exists
\* every time, because if you don't" and the name is used for a new container, Docker will
\* "create an empty useless volume that won't work". Nothing is checked when Docker is
\* unavailable at that moment.
NamedVolumeExists == \A r \in Request : request[r].phase = "create" => volume # "absent"

ServicesInv == ServicesTypeOK /\ PendingIsLive
=============================================================================
