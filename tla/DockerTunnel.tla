---------------------------- MODULE DockerTunnel ----------------------------
(***************************************************************************)
(* The Docker tunnel of one proxy port (docker-tunnel-proxy.ts): a         *)
(* container that is created on demand, connected to networks, stopped,    *)
(* and restarted when its port mapping is lost, and a cache of the port    *)
(* Docker mapped it to.  A lock orders the changes of the container; the   *)
(* queries of the port are not under it.                                   *)
(***************************************************************************)
EXTENDS Naturals, Sequences

CONSTANTS
    Refresh,        \* runs of refreshDockerTunnelPortCache; bounds those in flight
    Update,         \* calls of updateDockerTunnelledNetworks
    Stop,           \* calls of stopDockerTunnel
    Network,        \* networks to which intercepted containers connect
    Port,           \* ports to which Docker maps the container
    MaxFaults,      \* bound on what Docker or its user do to the container
    MaxEarly,       \* bound on the inspections of a container not started yet
    None, NoPort

ASSUME ConstantAssumption ==
    /\ MaxFaults \in Nat /\ MaxEarly \in Nat
    /\ None \notin Refresh /\ NoPort \notin Port
    /\ "ensure" \notin Update \cup Stop
    /\ Update \cap Stop = {}

\* The functions that run under containerMutex.
Op == {"ensure"} \cup Update \cup Stop

VARIABLES
    tunnel,     \* the container in Docker: its state, mapped port and networks
    faults,     \* faults so far
    early,      \* inspections so far of a container that was not started yet
    lock,       \* containerMutex: its holder, then those that wait for it
    ensure,     \* ensureDockerTunnelRunning: its phase, and what it inspected
    refresh,    \* refresh[j]: phase of a refresh, and what it inspected
    cache,      \* portCache: a refresh that is awaited, or a port, or neither
    update,     \* update[u]: its phase, and the networks it was given
    wanted,     \* the networks of the last call of updateDockerTunnelledNetworks
    stopped     \* the calls of stopDockerTunnel made so far

vars == <<tunnel, faults, early, lock, ensure, refresh, cache, update, wanted, stopped>>

Absent == [state |-> "absent", port |-> NoPort, nets |-> {}]
Container == [state : {"absent", "created", "running"}, port : Port \cup {NoPort}, nets : SUBSET Network]

EmptyCache == [job |-> None, port |-> NoPort]
Awaiting(j) == [job |-> j, port |-> NoPort]
Cached_Mut(p) == [job |-> None, port |-> <<p>>]    \* the mapping, not its port
Cached(p) == [job |-> None, port |-> p]
IsPromise == cache.job # None

Waiting == {"ensure", "ensureDelay"}    \* a refresh awaits ensureDockerTunnelRunning

EnsureState == [phase : {"none", "queued", "found", "started"}, seen : Container]
RefreshPhase == {"idle", "delay", "inspect", "found", "kill"} \cup Waiting
RefreshState == [phase : RefreshPhase, seen : Container]
CacheState == [job : Refresh \cup {None}, port : Port \cup {NoPort}]
UpdatePhase == {"new", "check", "ensure", "ready", "queued", "done"}
UpdateState == [phase : UpdatePhase, nets : SUBSET Network]

TypeOK ==
    /\ tunnel \in Container
    /\ faults \in Nat /\ early \in Nat
    /\ lock \in Seq(Op)
    /\ ensure \in EnsureState
    /\ refresh \in [Refresh -> RefreshState]
    /\ cache \in CacheState
    /\ update \in [Update -> UpdateState]
    /\ wanted \subseteq Network
    /\ stopped \subseteq Stop

Init ==
    /\ tunnel = Absent
    /\ faults = 0 /\ early = 0
    /\ lock = <<>>
    /\ ensure = [phase |-> "none", seen |-> Absent]
    /\ refresh = [j \in Refresh |-> [phase |-> "idle", seen |-> Absent]]
    /\ cache = EmptyCache
    /\ update = [u \in Update |-> [phase |-> "new", nets |-> {}]]
    /\ wanted = {}
    /\ stopped = {}

Holds(op) == lock # <<>> /\ Head(lock) = op
Release == lock' = Tail(lock)
Acquire(op) == lock' = Append(lock, op)

(***************************************************************************)
(* Docker.  The container was created with AutoRemove.                     *)
(***************************************************************************)
Fault ==
    /\ faults < MaxFaults
    /\ faults' = faults + 1

\* It stops, or the user removes it.
Disappears ==
    /\ Fault
    /\ tunnel.state # "absent"
    /\ tunnel' = Absent
    /\ UNCHANGED <<early, lock, ensure, refresh, cache, update, wanted, stopped>>

\* Its networks are changed manually, which can lose the mapping.
LosesPort ==
    /\ Fault
    /\ tunnel.state = "running"
    /\ tunnel' = [tunnel EXCEPT !.port = NoPort]
    /\ UNCHANGED <<early, lock, ensure, refresh, cache, update, wanted, stopped>>

(***************************************************************************)
(* ensureDockerTunnelRunning.                                              *)
(***************************************************************************)

JoinEnsure_Mut ==               \* the check that is running is not joined
    /\ ensure' = [phase |-> "queued", seen |-> Absent]
    /\ Acquire("ensure")

\* A call joins the check that is running, or starts one.
JoinEnsure ==
    IF ensure.phase # "none" THEN UNCHANGED <<ensure, lock>>
    ELSE /\ ensure' = [phase |-> "queued", seen |-> Absent]
         /\ Acquire("ensure")

CallEnsure ==
    /\ ensure.phase = "none"
    /\ JoinEnsure
    /\ UNCHANGED <<tunnel, faults, early, refresh, cache, update, wanted, stopped>>

\* Inspected, or else created (the image pulled before) and then inspected.
EnsureInspects ==
    /\ ensure.phase = "queued"
    /\ Holds("ensure")
    /\ tunnel' = IF tunnel.state = "absent" THEN [Absent EXCEPT !.state = "created"] ELSE tunnel
    /\ ensure' = [phase |-> "found", seen |-> tunnel']
    /\ UNCHANGED <<faults, early, lock, refresh, cache, update, wanted, stopped>>

StartsContainer ==
    /\ tunnel.state = "created"
    /\ \E p \in Port : tunnel' = [tunnel EXCEPT !.state = "running", !.port = p]

\* Started, unless it was seen running.
EnsureStarts ==
    /\ ensure.phase = "found"
    /\ IF ensure.seen.state = "running" THEN UNCHANGED tunnel ELSE StartsContainer
    /\ ensure' = [ensure EXCEPT !.phase = "started"]
    /\ UNCHANGED <<faults, early, lock, refresh, cache, update, wanted, stopped>>

\* The end of the check, whose lock is released and whose callers go on.
EnsureEnds == ensure' = [phase |-> "none", seen |-> Absent] /\ Release

WakeRefresh(r) ==
    CASE r.phase = "ensure" -> [r EXCEPT !.phase = "inspect"]
      [] r.phase = "ensureDelay" -> [r EXCEPT !.phase = "delay"]
      [] OTHER -> r

WakeUpdates(p) ==
    update' = [u \in Update |-> IF update[u].phase = "ensure"
                                THEN [update[u] EXCEPT !.phase = p] ELSE update[u]]

PortMayBeOutdated_Mut ==        \* a cached port is taken to be right
    cache = EmptyCache

\* No port is cached, or not the one that was inspected, and none is awaited.
PortMayBeOutdated == ~IsPromise /\ (cache = EmptyCache \/ ensure.seen.port # cache.port)

\* A port that may be outdated is refreshed, after a delay.
EnsureSucceeds ==
    /\ ensure.phase = "started"
    /\ EnsureEnds
    /\ WakeUpdates("ready")
    /\ LET woken == [j \in Refresh |-> WakeRefresh(refresh[j])] IN
         IF PortMayBeOutdated
         THEN \E j \in Refresh :
                /\ refresh[j].phase = "idle"
                /\ refresh' = [woken EXCEPT ![j].phase = "delay"]
                /\ cache' = Awaiting(j)
         ELSE refresh' = woken /\ UNCHANGED cache
    /\ UNCHANGED <<tunnel, faults, early, wanted, stopped>>

ResetFailed_Mut == UNCHANGED cache      \* a failed refresh stays cached

\* The catch of refreshDockerTunnelPortCache.
ResetFailed == cache' = EmptyCache

\* Docker fails, or the container is not there to be started any more: those
\* that wait fail too.
EnsureFails ==
    /\ \/ ensure.phase = "queued" /\ Holds("ensure") /\ Fault
       \/ /\ ensure.phase = "found" /\ ensure.seen.state # "running"
          /\ \/ Fault
             \/ tunnel.state # "created" /\ UNCHANGED faults
    /\ EnsureEnds
    /\ WakeUpdates("done")
    /\ refresh' = [j \in Refresh |-> IF refresh[j].phase \in Waiting
                                     THEN [refresh[j] EXCEPT !.phase = "idle"] ELSE refresh[j]]
    /\ IF \E j \in Refresh : refresh[j].phase \in Waiting
       THEN ResetFailed ELSE UNCHANGED cache
    /\ UNCHANGED <<tunnel, early, wanted, stopped>>

(***************************************************************************)
(* The port.                                                               *)
(***************************************************************************)
SetRefresh(j, p) == refresh' = [refresh EXCEPT ![j].phase = p]

\* getDockerTunnelPort with nothing cached.  Otherwise it only awaits.
QueryPort(j) ==
    /\ cache = EmptyCache
    /\ refresh[j].phase = "idle"
    /\ SetRefresh(j, "inspect")
    /\ cache' = Awaiting(j)
    /\ UNCHANGED <<tunnel, faults, early, lock, ensure, update, wanted, stopped>>

\* The 10 ms the port needs to bind.
RefreshDelay(j) ==
    /\ refresh[j].phase = "delay"
    /\ SetRefresh(j, "inspect")
    /\ UNCHANGED <<tunnel, faults, early, lock, ensure, cache, update, wanted, stopped>>

RefreshInspects(j) ==
    /\ refresh[j].phase = "inspect"
    /\ refresh' = [refresh EXCEPT ![j] = [phase |-> "found", seen |-> tunnel]]
    /\ IF tunnel.state = "created" THEN early < MaxEarly /\ early' = early + 1
       ELSE UNCHANGED early
    /\ UNCHANGED <<tunnel, faults, lock, ensure, cache, update, wanted, stopped>>

\* What was inspected is acted on later: no container, no mapping, or a port.
RefreshFound(j) ==
    /\ refresh[j].phase = "found"
    /\ \/ /\ refresh[j].seen.state = "absent"
          /\ SetRefresh(j, "ensure")
          /\ JoinEnsure
          /\ UNCHANGED cache
       \/ /\ refresh[j].seen.state # "absent" /\ refresh[j].seen.port = NoPort
          /\ SetRefresh(j, "kill")
          /\ UNCHANGED <<lock, ensure, cache>>
       \/ /\ refresh[j].seen.port # NoPort
          /\ SetRefresh(j, "idle")
          /\ cache' = Cached(refresh[j].seen.port)
          /\ UNCHANGED <<lock, ensure>>
    /\ UNCHANGED <<tunnel, faults, early, update, wanted, stopped>>

RefreshKills_Mut(j) ==          \* a container without a mapping is kept running
    /\ refresh[j].phase = "kill"
    /\ SetRefresh(j, "ensureDelay")
    /\ JoinEnsure
    /\ UNCHANGED <<tunnel, faults, early, cache, update, wanted, stopped>>

\* Killed without the lock; that it is gone, or not running, is no error.
RefreshKills(j) ==
    /\ refresh[j].phase = "kill"
    /\ tunnel' = IF tunnel.state = "running" THEN Absent ELSE tunnel
    /\ SetRefresh(j, "ensureDelay")
    /\ JoinEnsure
    /\ UNCHANGED <<faults, early, cache, update, wanted, stopped>>

\* Docker refuses the kill, say.
RefreshFails(j) ==
    /\ refresh[j].phase = "kill"
    /\ Fault
    /\ SetRefresh(j, "idle")
    /\ ResetFailed
    /\ UNCHANGED <<tunnel, early, lock, ensure, update, wanted, stopped>>

(***************************************************************************)
(* Networks, and the end.                                                  *)
(***************************************************************************)
SetUpdate(u, p) == update' = [update EXCEPT ![u].phase = p]

CallUpdate(u, nets) ==
    /\ update[u].phase = "new"
    /\ update' = [update EXCEPT ![u] = [phase |-> "check", nets |-> nets]]
    /\ wanted' = nets
    /\ UNCHANGED <<tunnel, faults, early, lock, ensure, refresh, cache, stopped>>

\* The container is looked for first, and ensured if it is missing.
UpdateChecks(u) ==
    /\ update[u].phase = "check"
    /\ IF tunnel.state = "absent" THEN SetUpdate(u, "ensure") /\ JoinEnsure
       ELSE SetUpdate(u, "ready") /\ UNCHANGED <<lock, ensure>>
    /\ UNCHANGED <<tunnel, faults, early, refresh, cache, wanted, stopped>>

UpdateQueues(u) ==
    /\ update[u].phase = "ready"
    /\ SetUpdate(u, "queued")
    /\ Acquire(u)
    /\ UNCHANGED <<tunnel, faults, early, ensure, refresh, cache, wanted, stopped>>

\* Connected and disconnected, or skipped if the container is missing again.
UpdateApplies(u) ==
    /\ update[u].phase = "queued"
    /\ Holds(u)
    /\ Release
    /\ SetUpdate(u, "done")
    /\ tunnel' = IF tunnel.state = "absent" THEN tunnel
                 ELSE [tunnel EXCEPT !.nets = update[u].nets]
    /\ UNCHANGED <<faults, early, ensure, refresh, cache, wanted, stopped>>

\* Docker refuses one of the connections, after some of the others.
UpdateFails(u) ==
    /\ update[u].phase = "queued"
    /\ Holds(u)
    /\ Fault
    /\ Release
    /\ SetUpdate(u, "done")
    /\ tunnel.state # "absent"
    /\ \E nets \in SUBSET (tunnel.nets \cup update[u].nets) :
         /\ tunnel.nets \cap update[u].nets \subseteq nets
         /\ nets # update[u].nets
         /\ tunnel' = [tunnel EXCEPT !.nets = nets]
    /\ UNCHANGED <<early, ensure, refresh, cache, wanted, stopped>>

CallStop(s) ==
    /\ s \notin stopped
    /\ stopped' = stopped \cup {s}
    /\ Acquire(s)
    /\ UNCHANGED <<tunnel, faults, early, ensure, refresh, cache, update, wanted>>

StopRemoves_Mut(s) ==           \* the lock is kept when there is nothing to remove
    /\ Holds(s)
    /\ tunnel.state # "absent"
    /\ Release
    /\ tunnel' = Absent
    /\ UNCHANGED <<faults, early, ensure, refresh, cache, update, wanted, stopped>>

StopRemoves(s) ==
    /\ Holds(s)
    /\ Release
    /\ tunnel' = Absent
    /\ UNCHANGED <<faults, early, ensure, refresh, cache, update, wanted, stopped>>

RefreshStep(j) ==
    RefreshDelay(j) \/ RefreshInspects(j) \/ RefreshFound(j) \/ RefreshKills(j)

EnsureStep == EnsureInspects \/ EnsureStarts \/ EnsureSucceeds \/ EnsureFails

Next ==
    \/ Disappears \/ LosesPort
    \/ CallEnsure \/ EnsureStep
    \/ \E j \in Refresh : QueryPort(j) \/ RefreshStep(j) \/ RefreshFails(j)
    \/ \E u \in Update : UpdateChecks(u) \/ UpdateQueues(u) \/ UpdateApplies(u) \/ UpdateFails(u)
    \/ \E u \in Update, nets \in SUBSET Network : CallUpdate(u, nets)
    \/ \E s \in Stop : CallStop(s) \/ StopRemoves(s)

Spec == Init /\ [][Next]_vars

\* Docker answers, and ensureDockerTunnelRunning is called again and again: "at
\* every docker-proxy request, every network event & every container
\* interception".
FairSpec ==
    /\ Spec
    /\ WF_vars(EnsureStep) /\ WF_vars(CallEnsure)
    /\ \A j \in Refresh : WF_vars(RefreshStep(j))
    /\ \A u \in Update : WF_vars(UpdateChecks(u)) /\ WF_vars(UpdateQueues(u))
                         /\ WF_vars(UpdateApplies(u))
    /\ \A s \in Stop : WF_vars(StopRemoves(s))

(***************************************************************************)
(* Properties.                                                             *)
(***************************************************************************)

\* A promise in the cache belongs to a refresh that is still running and will
\* replace it: whoever awaits the port is not left with an old failure, whatever
\* refreshes overlap and in whichever order they end.
CachedPromiseIsLive == IsPromise => refresh[cache.job].phase # "idle"

Places(queue) == {i \in DOMAIN queue : queue[i] = "ensure"}

\* ensureDockerTunnelRunning is the only one to hold the lock over several
\* answers of Docker, and it is queued for it exactly once while it runs.
EnsureIsQueuedOnce ==
    /\ ensure.phase = "none" => Places(lock) = {}
    /\ ensure.phase # "none" => \E i \in Places(lock) : Places(lock) = {i}
    /\ ensure.phase \in {"found", "started"} => Holds("ensure")

\* Every query of the port ends: a refresh waits for a check, which waits for the
\* lock, and neither the check nor the lock's other holders wait for a refresh.
RefreshEnds == \A j \in Refresh : refresh[j].phase # "idle" ~> refresh[j].phase = "idle"

\* Everyone who waits for the lock gets it and gives it back.
LockIsPassedOn == \A op \in Op \ {"ensure"} : (\E i \in DOMAIN lock : lock[i] = op)
                                              ~> ~(\E i \in DOMAIN lock : lock[i] = op)

\* Nobody waits for ever, for the tunnel's check or for its lock: docker-tunnel-proxy.ts:43-60
\* and 200-245, whichever of them Docker fails.
WaitsEnd == RefreshEnds /\ LockIsPassedOn

\* When no update is in flight, the tunnel is on the networks of the last one:
\* "Inspect() must happen inside the lock to avoid any possible races", for the
\* monitor is to "ensure the DNS & tunnel for this proxy port are configured
\* correctly for each network".  It is about a container that stays.
NetworksUpToDate ==
    (\A u \in Update : update[u].phase \in {"new", "done"}) /\ tunnel.state = "running"
        => tunnel.nets = wanted

\* Once the container stays as it is, the cached port ends up being its port,
\* also when it was restarted behind the back of a refresh.
PortConverges ==
    \A p \in Port :
      <>[](tunnel.state = "running" /\ tunnel.port = p) => <>[](cache.port = p)

=============================================================================
