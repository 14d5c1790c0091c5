------------------------- MODULE DockerTunnelProofs -------------------------
(***************************************************************************)
(* Proofs about DockerTunnel, for any refreshes, updates, stops, networks  *)
(* and ports.                                                              *)
(***************************************************************************)
EXTENDS DockerTunnel, TLAPS

(***************************************************************************)
(* The lock's queue.                                                       *)
(***************************************************************************)

LEMMA AppendOther ==
    ASSUME NEW q \in Seq(Op), NEW op \in Op, op # "ensure"
    PROVE  Places(Append(q, op)) = Places(q)
BY DEF Places

LEMMA AppendEnsure ==
    ASSUME NEW q \in Seq(Op), Places(q) = {}
    PROVE  Places(Append(q, "ensure")) = {Len(q) + 1}
<1>1. "ensure" \in Op
  BY DEF Op
<1>2. DOMAIN Append(q, "ensure") = 1..(Len(q) + 1)
  BY <1>1
<1>3. \A i \in 1..Len(q) : Append(q, "ensure")[i] = q[i] /\ q[i] # "ensure"
  BY <1>1 DEF Places
<1>4. Append(q, "ensure")[Len(q) + 1] = "ensure"
  BY <1>1
<1> QED BY <1>2, <1>3, <1>4 DEF Places

LEMMA TailNone ==
    ASSUME NEW q \in Seq(Op), q # <<>>, Places(q) = {}
    PROVE  Places(Tail(q)) = {}
<1>1. \A i \in 1..Len(q) : q[i] # "ensure"
  BY DEF Places
<1>2. DOMAIN Tail(q) = 1..(Len(q) - 1) /\ \A i \in DOMAIN Tail(q) : Tail(q)[i] = q[i + 1]
  OBVIOUS
<1> QED BY <1>1, <1>2 DEF Places

LEMMA TailEnsure ==
    ASSUME NEW q \in Seq(Op), q # <<>>, Head(q) = "ensure",
           NEW i \in Places(q), Places(q) = {i}
    PROVE  Places(Tail(q)) = {}
<1>1. 1 \in Places(q)
  BY DEF Places
<1>2. \A k \in 2..Len(q) : q[k] # "ensure"
  BY <1>1 DEF Places
<1>3. DOMAIN Tail(q) = 1..(Len(q) - 1) /\ \A k \in DOMAIN Tail(q) : Tail(q)[k] = q[k + 1]
  OBVIOUS
<1> QED BY <1>2, <1>3 DEF Places

LEMMA TailOther ==
    ASSUME NEW q \in Seq(Op), q # <<>>, Head(q) # "ensure",
           NEW i \in Places(q), Places(q) = {i}
    PROVE  /\ i - 1 \in Places(Tail(q))
           /\ Places(Tail(q)) = {i - 1}
<1>1. i \in 2..Len(q) /\ q[i] = "ensure"
  BY DEF Places
<1>2. \A k \in 1..Len(q) : q[k] = "ensure" => k = i
  BY DEF Places
<1>3. DOMAIN Tail(q) = 1..(Len(q) - 1) /\ \A k \in DOMAIN Tail(q) : Tail(q)[k] = q[k + 1]
  OBVIOUS
<1>4. i - 1 \in Places(Tail(q))
  BY <1>1, <1>3 DEF Places
<1>5. \A k \in Places(Tail(q)) : k = i - 1
  BY <1>2, <1>3 DEF Places
<1> QED BY <1>4, <1>5

(***************************************************************************)
(* Type correctness.  What the lock's queue loses is there to be lost      *)
(* because EnsureIsQueuedOnce holds.                                       *)
(***************************************************************************)

LEMMA AbsentType == Absent \in Container
BY DEF Absent, Container

LEMMA TypeInit == Init => TypeOK
BY ConstantAssumption, AbsentType
   DEF Init, TypeOK, EmptyCache, EnsureState, RefreshState, RefreshPhase, CacheState,
       UpdateState, UpdatePhase

LEMMA AcquireType ==
    ASSUME NEW q \in Seq(Op), NEW op \in Op
    PROVE  Append(q, op) \in Seq(Op)
OBVIOUS

LEMMA ReleaseType ==
    ASSUME NEW q \in Seq(Op), q # <<>>
    PROVE  Tail(q) \in Seq(Op)
OBVIOUS

LEMMA JoinType ==
    ASSUME TypeOK, JoinEnsure
    PROVE  ensure' \in EnsureState /\ lock' \in Seq(Op)
<1>1. "ensure" \in Op
  BY DEF Op
<1> QED BY <1>1, AcquireType, AbsentType DEF TypeOK, JoinEnsure, Acquire, EnsureState

LEMMA EnsureEndsType ==
    ASSUME TypeOK, Holds("ensure"), EnsureEnds
    PROVE  ensure' \in EnsureState /\ lock' \in Seq(Op)
BY ReleaseType, AbsentType DEF TypeOK, EnsureEnds, Release, Holds, EnsureState

LEMMA SetRefreshType ==
    ASSUME TypeOK, NEW j \in Refresh, NEW p \in RefreshPhase, SetRefresh(j, p)
    PROVE  refresh' \in [Refresh -> RefreshState]
BY DEF TypeOK, SetRefresh, RefreshState

LEMMA SetUpdateType ==
    ASSUME TypeOK, NEW u \in Update, NEW p \in UpdatePhase, SetUpdate(u, p)
    PROVE  update' \in [Update -> UpdateState]
BY DEF TypeOK, SetUpdate, UpdateState

LEMMA WakeUpdatesType ==
    ASSUME TypeOK, NEW p \in UpdatePhase, WakeUpdates(p)
    PROVE  update' \in [Update -> UpdateState]
BY DEF TypeOK, WakeUpdates, UpdateState

LEMMA WakeRefreshType ==
    ASSUME NEW r \in RefreshState
    PROVE  /\ WakeRefresh(r) \in RefreshState
           /\ r.phase = "idle" <=> WakeRefresh(r).phase = "idle"
<1>1. r = [phase |-> r.phase, seen |-> r.seen] /\ r.phase \in RefreshPhase
  BY DEF RefreshState
<1>2. CASE r.phase = "ensure"
  BY <1>1, <1>2 DEF WakeRefresh, RefreshState, RefreshPhase
<1>3. CASE r.phase = "ensureDelay"
  BY <1>1, <1>3 DEF WakeRefresh, RefreshState, RefreshPhase
<1>4. CASE r.phase # "ensure" /\ r.phase # "ensureDelay"
  BY <1>4 DEF WakeRefresh
<1> QED BY <1>2, <1>3, <1>4

LEMMA CacheType ==
    /\ EmptyCache \in CacheState
    /\ \A j \in Refresh : Awaiting(j) \in CacheState
    /\ \A p \in Port : Cached(p) \in CacheState
BY DEF CacheState, EmptyCache, Awaiting, Cached

LEMMA TunnelType ==
    ASSUME NEW t \in Container
    PROVE  /\ \A nets \in SUBSET Network : [t EXCEPT !.nets = nets] \in Container
           /\ [t EXCEPT !.state = "created"] \in Container
BY DEF Container

LEMMA TypeStep == TypeOK /\ EnsureIsQueuedOnce /\ [Next]_vars => TypeOK'
<1> SUFFICES ASSUME TypeOK, EnsureIsQueuedOnce, [Next]_vars PROVE TypeOK'
    OBVIOUS
<1> USE ConstantAssumption DEF TypeOK
<1>1. CASE Disappears
  BY <1>1, AbsentType DEF Disappears, Fault
<1>2. CASE LosesPort
  BY <1>2 DEF LosesPort, Fault, Container
<1>3. CASE CallEnsure
  BY <1>3, JoinType DEF CallEnsure
<1>4. CASE EnsureInspects
  BY <1>4, AbsentType, TunnelType DEF EnsureInspects, EnsureState
<1>5. CASE EnsureStarts
  <2>1. tunnel' \in Container
    BY <1>5 DEF EnsureStarts, StartsContainer, Container
  <2>2. ensure' \in EnsureState
    BY <1>5 DEF EnsureStarts, EnsureState
  <2> QED BY <1>5, <2>1, <2>2 DEF EnsureStarts
<1>6. CASE EnsureSucceeds
  <2>1. ensure' \in EnsureState /\ lock' \in Seq(Op)
    BY <1>6, EnsureEndsType DEF EnsureSucceeds, EnsureIsQueuedOnce
  <2>2. update' \in [Update -> UpdateState]
    BY <1>6, WakeUpdatesType DEF EnsureSucceeds, UpdatePhase
  <2>3. DEFINE woken == [j \in Refresh |-> WakeRefresh(refresh[j])]
  <2>4. woken \in [Refresh -> RefreshState]
    BY WakeRefreshType
  <2>5. refresh' \in [Refresh -> RefreshState] /\ cache' \in CacheState
    <3>1. CASE refresh' = woken /\ UNCHANGED cache
      BY <2>4, <3>1
    <3>2. CASE \E j \in Refresh : refresh' = [woken EXCEPT ![j].phase = "delay"]
                                  /\ cache' = Awaiting(j)
      BY <2>4, <3>2, CacheType DEF RefreshState, RefreshPhase
    <3> QED BY <1>6, <3>1, <3>2 DEF EnsureSucceeds
  <2> QED BY <1>6, <2>1, <2>2, <2>5 DEF EnsureSucceeds
<1>7. CASE EnsureFails
  <2>1. ensure' \in EnsureState /\ lock' \in Seq(Op)
    BY <1>7, EnsureEndsType DEF EnsureFails, EnsureIsQueuedOnce
  <2>2. update' \in [Update -> UpdateState]
    BY <1>7, WakeUpdatesType DEF EnsureFails, UpdatePhase
  <2>3. refresh' \in [Refresh -> RefreshState]
    BY <1>7 DEF EnsureFails, RefreshState, RefreshPhase
  <2>4. cache' \in CacheState
    BY <1>7, CacheType DEF EnsureFails, ResetFailed
  <2>5. faults' \in Nat
    BY <1>7 DEF EnsureFails, Fault
  <2> QED BY <1>7, <2>1, <2>2, <2>3, <2>4, <2>5 DEF EnsureFails
<1>8. ASSUME NEW j \in Refresh, QueryPort(j) PROVE TypeOK'
  BY <1>8, SetRefreshType, CacheType DEF QueryPort, RefreshPhase
<1>9. ASSUME NEW j \in Refresh, RefreshDelay(j) PROVE TypeOK'
  BY <1>9, SetRefreshType DEF RefreshDelay, RefreshPhase
<1>10. ASSUME NEW j \in Refresh, RefreshInspects(j) PROVE TypeOK'
  BY <1>10 DEF RefreshInspects, RefreshState, RefreshPhase
<1>11. ASSUME NEW j \in Refresh, RefreshFound(j) PROVE TypeOK'
  <2>1. refresh' \in [Refresh -> RefreshState]
    BY <1>11, SetRefreshType DEF RefreshFound, RefreshPhase, Waiting
  <2>2. ensure' \in EnsureState /\ lock' \in Seq(Op)
    BY <1>11, JoinType DEF RefreshFound
  <2>3. refresh[j].seen.port \in Port \cup {NoPort}
    BY DEF RefreshState, Container
  <2>4. cache' \in CacheState
    BY <1>11, <2>3, CacheType DEF RefreshFound
  <2> QED BY <1>11, <2>1, <2>2, <2>4 DEF RefreshFound
<1>12. ASSUME NEW j \in Refresh, RefreshKills(j) PROVE TypeOK'
  BY <1>12, SetRefreshType, JoinType, AbsentType DEF RefreshKills, RefreshPhase, Waiting
<1>13. ASSUME NEW j \in Refresh, RefreshFails(j) PROVE TypeOK'
  BY <1>13, SetRefreshType, CacheType DEF RefreshFails, ResetFailed, Fault, RefreshPhase
<1>14. ASSUME NEW u \in Update, UpdateChecks(u) PROVE TypeOK'
  BY <1>14, SetUpdateType, JoinType DEF UpdateChecks, UpdatePhase
<1>15. ASSUME NEW u \in Update, UpdateQueues(u) PROVE TypeOK'
  BY <1>15, SetUpdateType, AcquireType DEF UpdateQueues, UpdatePhase, Acquire, Op
<1>16. ASSUME NEW u \in Update, UpdateApplies(u) PROVE TypeOK'
  <2>1. update' \in [Update -> UpdateState] /\ lock' \in Seq(Op)
    BY <1>16, SetUpdateType, ReleaseType DEF UpdateApplies, UpdatePhase, Release, Holds
  <2>2. tunnel' \in Container
    BY <1>16, TunnelType DEF UpdateApplies, UpdateState
  <2> QED BY <1>16, <2>1, <2>2 DEF UpdateApplies
<1>17. ASSUME NEW u \in Update, UpdateFails(u) PROVE TypeOK'
  <2>1. update' \in [Update -> UpdateState] /\ lock' \in Seq(Op)
    BY <1>17, SetUpdateType, ReleaseType DEF UpdateFails, UpdatePhase, Release, Holds
  <2>2. tunnel.nets \cup update[u].nets \subseteq Network
    BY DEF UpdateState, Container
  <2>3. tunnel' \in Container
    BY <1>17, <2>2 DEF UpdateFails, Container
  <2> QED BY <1>17, <2>1, <2>3 DEF UpdateFails, Fault
<1>18. ASSUME NEW u \in Update, NEW nets \in SUBSET Network, CallUpdate(u, nets) PROVE TypeOK'
  BY <1>18 DEF CallUpdate, UpdateState, UpdatePhase
<1>19. ASSUME NEW s \in Stop, CallStop(s) PROVE TypeOK'
  BY <1>19, AcquireType DEF CallStop, Acquire, Op
<1>20. ASSUME NEW s \in Stop, StopRemoves(s) PROVE TypeOK'
  BY <1>20, ReleaseType, AbsentType DEF StopRemoves, Release, Holds
<1>21. CASE UNCHANGED vars
  BY <1>21 DEF vars
<1> QED
  BY <1>1, <1>2, <1>3, <1>4, <1>5, <1>6, <1>7, <1>8, <1>9, <1>10, <1>11,
     <1>12, <1>13, <1>14, <1>15, <1>16, <1>17, <1>18, <1>19, <1>20, <1>21
     DEF Next, EnsureStep, RefreshStep

(***************************************************************************)
(* EnsureIsQueuedOnce: what each change of the queue does to it.           *)
(***************************************************************************)

LEMMA QueueKept ==
    ASSUME EnsureIsQueuedOnce, UNCHANGED <<ensure, lock>>
    PROVE  EnsureIsQueuedOnce'
BY DEF EnsureIsQueuedOnce, Holds, Places

LEMMA OtherAcquires ==
    ASSUME TypeOK, EnsureIsQueuedOnce, NEW op \in Op, op # "ensure",
           Acquire(op), UNCHANGED ensure
    PROVE  EnsureIsQueuedOnce'
<1>1. lock \in Seq(Op) /\ lock' = Append(lock, op)
  BY DEF TypeOK, Acquire
<1>2. Places(lock') = Places(lock)
  BY <1>1, AppendOther
<1>3. Holds("ensure") => Holds("ensure")'
  BY <1>1 DEF Holds
<1> QED BY <1>2, <1>3 DEF EnsureIsQueuedOnce

LEMMA EnsureJoins ==
    ASSUME TypeOK, EnsureIsQueuedOnce, JoinEnsure
    PROVE  EnsureIsQueuedOnce'
<1>1. CASE ensure.phase # "none"
  BY <1>1, QueueKept DEF JoinEnsure
<1>2. CASE ensure.phase = "none"
  <2>1. lock \in Seq(Op) /\ lock' = Append(lock, "ensure") /\ ensure'.phase = "queued"
    BY <1>2 DEF TypeOK, JoinEnsure, Acquire
  <2>2. Places(lock') = {Len(lock) + 1}
    BY <1>2, <2>1, AppendEnsure DEF EnsureIsQueuedOnce
  <2> QED BY <2>1, <2>2 DEF EnsureIsQueuedOnce
<1> QED BY <1>1, <1>2

LEMMA OtherReleases ==
    ASSUME TypeOK, EnsureIsQueuedOnce, NEW op \in Op, op # "ensure",
           Holds(op), Release, UNCHANGED ensure
    PROVE  EnsureIsQueuedOnce'
<1>1. /\ lock \in Seq(Op) /\ lock # <<>> /\ Head(lock) # "ensure"
      /\ lock' = Tail(lock)
  BY DEF TypeOK, Holds, Release
<1>2. ensure.phase \notin {"found", "started"}
  BY <1>1 DEF EnsureIsQueuedOnce, Holds
<1>3. CASE ensure.phase = "none"
  BY <1>1, <1>3, TailNone DEF EnsureIsQueuedOnce
<1>4. CASE ensure.phase # "none"
  <2>1. PICK i \in Places(lock) : Places(lock) = {i}
    BY <1>4 DEF EnsureIsQueuedOnce
  <2>2. i - 1 \in Places(lock') /\ Places(lock') = {i - 1}
    BY <1>1, <2>1, TailOther
  <2> QED BY <1>2, <1>4, <2>2 DEF EnsureIsQueuedOnce
<1> QED BY <1>3, <1>4

LEMMA EnsureLeaves ==
    ASSUME TypeOK, EnsureIsQueuedOnce, ensure.phase # "none", Holds("ensure"), EnsureEnds
    PROVE  EnsureIsQueuedOnce'
<1>1. /\ lock \in Seq(Op) /\ lock # <<>> /\ Head(lock) = "ensure"
      /\ lock' = Tail(lock) /\ ensure'.phase = "none"
  BY DEF TypeOK, Holds, EnsureEnds, Release
<1>2. PICK i \in Places(lock) : Places(lock) = {i}
  BY DEF EnsureIsQueuedOnce
<1>3. Places(lock') = {}
  BY <1>1, <1>2, TailEnsure
<1> QED BY <1>1, <1>3 DEF EnsureIsQueuedOnce

LEMMA QueueInit == Init => EnsureIsQueuedOnce
BY DEF Init, EnsureIsQueuedOnce, Places

LEMMA QueueStep == TypeOK /\ EnsureIsQueuedOnce /\ [Next]_vars => EnsureIsQueuedOnce'
<1> SUFFICES ASSUME TypeOK, EnsureIsQueuedOnce, [Next]_vars PROVE EnsureIsQueuedOnce'
    OBVIOUS
<1> USE ConstantAssumption
<1>1. CASE Disappears
  BY <1>1, QueueKept DEF Disappears
<1>2. CASE LosesPort
  BY <1>2, QueueKept DEF LosesPort
<1>3. CASE CallEnsure
  BY <1>3, EnsureJoins DEF CallEnsure
<1>4. CASE EnsureInspects
  <2>1. /\ ensure.phase = "queued" /\ ensure'.phase = "found"
        /\ lock' = lock /\ Holds("ensure")
    BY <1>4 DEF EnsureInspects
  <2> QED BY <2>1 DEF EnsureIsQueuedOnce, Holds, Places
<1>5. CASE EnsureStarts
  <2>1. ensure.phase = "found" /\ ensure'.phase = "started" /\ lock' = lock
    BY <1>5 DEF EnsureStarts, TypeOK, EnsureState
  <2> QED BY <2>1 DEF EnsureIsQueuedOnce, Holds, Places
<1>6. CASE EnsureSucceeds
  BY <1>6, EnsureLeaves DEF EnsureSucceeds, EnsureIsQueuedOnce
<1>7. CASE EnsureFails
  BY <1>7, EnsureLeaves DEF EnsureFails, EnsureIsQueuedOnce
<1>8. ASSUME NEW j \in Refresh, QueryPort(j) PROVE EnsureIsQueuedOnce'
  BY <1>8, QueueKept DEF QueryPort
<1>9. ASSUME NEW j \in Refresh, RefreshDelay(j) PROVE EnsureIsQueuedOnce'
  BY <1>9, QueueKept DEF RefreshDelay
<1>10. ASSUME NEW j \in Refresh, RefreshInspects(j) PROVE EnsureIsQueuedOnce'
  BY <1>10, QueueKept DEF RefreshInspects
<1>11. ASSUME NEW j \in Refresh, RefreshFound(j) PROVE EnsureIsQueuedOnce'
  BY <1>11, QueueKept, EnsureJoins DEF RefreshFound
<1>12. ASSUME NEW j \in Refresh, RefreshKills(j) PROVE EnsureIsQueuedOnce'
  BY <1>12, EnsureJoins DEF RefreshKills
<1>13. ASSUME NEW j \in Refresh, RefreshFails(j) PROVE EnsureIsQueuedOnce'
  BY <1>13, QueueKept DEF RefreshFails
<1>14. ASSUME NEW u \in Update, UpdateChecks(u) PROVE EnsureIsQueuedOnce'
  BY <1>14, QueueKept, EnsureJoins DEF UpdateChecks
<1>15. ASSUME NEW u \in Update, UpdateQueues(u) PROVE EnsureIsQueuedOnce'
  BY <1>15, OtherAcquires DEF UpdateQueues, Op
<1>16. ASSUME NEW u \in Update, UpdateApplies(u) PROVE EnsureIsQueuedOnce'
  BY <1>16, OtherReleases DEF UpdateApplies, Op
<1>17. ASSUME NEW u \in Update, UpdateFails(u) PROVE EnsureIsQueuedOnce'
  BY <1>17, OtherReleases DEF UpdateFails, Op
<1>18. ASSUME NEW u \in Update, NEW nets \in SUBSET Network, CallUpdate(u, nets) PROVE EnsureIsQueuedOnce'
  BY <1>18, QueueKept DEF CallUpdate
<1>19. ASSUME NEW s \in Stop, CallStop(s) PROVE EnsureIsQueuedOnce'
  BY <1>19, OtherAcquires DEF CallStop, Op
<1>20. ASSUME NEW s \in Stop, StopRemoves(s) PROVE EnsureIsQueuedOnce'
  BY <1>20, OtherReleases DEF StopRemoves, Op
<1>21. CASE UNCHANGED vars
  BY <1>21, QueueKept DEF vars
<1> QED
  BY <1>1, <1>2, <1>3, <1>4, <1>5, <1>6, <1>7, <1>8, <1>9, <1>10, <1>11,
     <1>12, <1>13, <1>14, <1>15, <1>16, <1>17, <1>18, <1>19, <1>20, <1>21
     DEF Next, EnsureStep, RefreshStep

(***************************************************************************)
(* CachedPromiseIsLive: a refresh that ends, ends with the cache rewritten.*)
(***************************************************************************)

LEMMA LiveInit == Init => CachedPromiseIsLive
BY DEF Init, CachedPromiseIsLive, IsPromise, EmptyCache

LEMMA LiveKept ==
    ASSUME CachedPromiseIsLive, UNCHANGED cache, cache \in CacheState,
           \A j \in Refresh : refresh[j].phase # "idle" => refresh'[j].phase # "idle"
    PROVE  CachedPromiseIsLive'
BY DEF CachedPromiseIsLive, IsPromise, CacheState

LEMMA LiveUncached ==
    ASSUME cache'.job = None
    PROVE  CachedPromiseIsLive'
BY DEF CachedPromiseIsLive, IsPromise

LEMMA LivePhase ==
    ASSUME TypeOK, CachedPromiseIsLive, UNCHANGED cache,
           NEW j \in Refresh, NEW p, p # "idle", SetRefresh(j, p)
    PROVE  CachedPromiseIsLive'
<1>1. \A k \in Refresh : refresh[k].phase # "idle" => refresh'[k].phase # "idle"
  BY DEF TypeOK, RefreshState, SetRefresh
<1> QED BY <1>1, LiveKept DEF TypeOK

LEMMA LiveStep == TypeOK /\ CachedPromiseIsLive /\ [Next]_vars => CachedPromiseIsLive'
<1> SUFFICES ASSUME TypeOK, CachedPromiseIsLive, [Next]_vars PROVE CachedPromiseIsLive'
    OBVIOUS
<1> USE ConstantAssumption
<1>1. CASE Disappears
  BY <1>1, LiveKept DEF Disappears, TypeOK
<1>2. CASE LosesPort
  BY <1>2, LiveKept DEF LosesPort, TypeOK
<1>3. CASE CallEnsure
  BY <1>3, LiveKept DEF CallEnsure, TypeOK
<1>4. CASE EnsureInspects
  BY <1>4, LiveKept DEF EnsureInspects, TypeOK
<1>5. CASE EnsureStarts
  BY <1>5, LiveKept DEF EnsureStarts, TypeOK
<1>6. CASE EnsureSucceeds
  <2>1. DEFINE woken == [j \in Refresh |-> WakeRefresh(refresh[j])]
  <2>2. \A j \in Refresh : woken[j].phase = "idle" <=> refresh[j].phase = "idle"
    BY WakeRefreshType DEF TypeOK
  <2>3. CASE refresh' = woken /\ UNCHANGED cache
    BY <2>2, <2>3, LiveKept DEF TypeOK
  <2>4. ASSUME NEW j \in Refresh, refresh' = [woken EXCEPT ![j].phase = "delay"],
               cache' = Awaiting(j)
        PROVE  CachedPromiseIsLive'
    <3>1. woken \in [Refresh -> RefreshState]
      BY WakeRefreshType DEF TypeOK
    <3>2. refresh'[j].phase = "delay" /\ cache'.job = j
      BY <2>4, <3>1 DEF RefreshState, Awaiting
    <3> QED BY <3>2 DEF CachedPromiseIsLive
  <2> QED BY <1>6, <2>3, <2>4 DEF EnsureSucceeds
<1>7. CASE EnsureFails
  <2>1. CASE \E j \in Refresh : refresh[j].phase \in Waiting
    BY <1>7, <2>1, LiveUncached DEF EnsureFails, ResetFailed, EmptyCache
  <2>2. CASE ~ \E j \in Refresh : refresh[j].phase \in Waiting
    BY <1>7, <2>2, LiveKept DEF EnsureFails, TypeOK
  <2> QED BY <2>1, <2>2
<1>8. ASSUME NEW j \in Refresh, QueryPort(j) PROVE CachedPromiseIsLive'
  BY <1>8 DEF QueryPort, TypeOK, RefreshState, SetRefresh, Awaiting, CachedPromiseIsLive
<1>9. ASSUME NEW j \in Refresh, RefreshDelay(j) PROVE CachedPromiseIsLive'
  BY <1>9, LivePhase DEF RefreshDelay
<1>10. ASSUME NEW j \in Refresh, RefreshInspects(j) PROVE CachedPromiseIsLive'
  <2>1. \A k \in Refresh : refresh[k].phase # "idle" => refresh'[k].phase # "idle"
    BY <1>10 DEF RefreshInspects, TypeOK
  <2> QED BY <1>10, <2>1, LiveKept DEF RefreshInspects, TypeOK
<1>11. ASSUME NEW j \in Refresh, RefreshFound(j) PROVE CachedPromiseIsLive'
  BY <1>11, LivePhase, LiveUncached DEF RefreshFound, Cached
<1>12. ASSUME NEW j \in Refresh, RefreshKills(j) PROVE CachedPromiseIsLive'
  BY <1>12, LivePhase DEF RefreshKills
<1>13. ASSUME NEW j \in Refresh, RefreshFails(j) PROVE CachedPromiseIsLive'
  BY <1>13, LiveUncached DEF RefreshFails, ResetFailed, EmptyCache
<1>14. ASSUME NEW u \in Update, UpdateChecks(u) PROVE CachedPromiseIsLive'
  BY <1>14, LiveKept DEF UpdateChecks, TypeOK
<1>15. ASSUME NEW u \in Update, UpdateQueues(u) PROVE CachedPromiseIsLive'
  BY <1>15, LiveKept DEF UpdateQueues, TypeOK
<1>16. ASSUME NEW u \in Update, UpdateApplies(u) PROVE CachedPromiseIsLive'
  BY <1>16, LiveKept DEF UpdateApplies, TypeOK
<1>17. ASSUME NEW u \in Update, UpdateFails(u) PROVE CachedPromiseIsLive'
  BY <1>17, LiveKept DEF UpdateFails, TypeOK
<1>18. ASSUME NEW u \in Update, NEW nets \in SUBSET Network, CallUpdate(u, nets) PROVE CachedPromiseIsLive'
  BY <1>18, LiveKept DEF CallUpdate, TypeOK
<1>19. ASSUME NEW s \in Stop, CallStop(s) PROVE CachedPromiseIsLive'
  BY <1>19, LiveKept DEF CallStop, TypeOK
<1>20. ASSUME NEW s \in Stop, StopRemoves(s) PROVE CachedPromiseIsLive'
  BY <1>20, LiveKept DEF StopRemoves, TypeOK
<1>21. CASE UNCHANGED vars
  BY <1>21, LiveKept DEF vars, TypeOK
<1> QED
  BY <1>1, <1>2, <1>3, <1>4, <1>5, <1>6, <1>7, <1>8, <1>9, <1>10, <1>11,
     <1>12, <1>13, <1>14, <1>15, <1>16, <1>17, <1>18, <1>19, <1>20, <1>21
     DEF Next, EnsureStep, RefreshStep

(***************************************************************************)
(* The theorems.                                                           *)
(***************************************************************************)

\* The variables keep to their types; in particular, only what is in the lock's
\* queue is taken from it.
THEOREM TypeCorrect == Spec => []TypeOK
<1>1. Init => TypeOK /\ EnsureIsQueuedOnce
  BY TypeInit, QueueInit
<1>2. TypeOK /\ EnsureIsQueuedOnce /\ [Next]_vars => (TypeOK /\ EnsureIsQueuedOnce)'
  BY TypeStep, QueueStep
<1> QED BY <1>1, <1>2, PTL DEF Spec

\* ensureDockerTunnelRunning is in the queue of containerMutex once while it runs,
\* and holds it from its first inspection on, whatever else is called.
THEOREM QueuedOnce == Spec => []EnsureIsQueuedOnce
<1>1. TypeOK /\ EnsureIsQueuedOnce /\ [Next]_vars => EnsureIsQueuedOnce'
  BY QueueStep
<1> QED BY <1>1, QueueInit, TypeCorrect, PTL DEF Spec

\* However refreshes of the port overlap, fail and are forced, the cache never
\* keeps the promise of one that has ended.
THEOREM PromiseLive == Spec => []CachedPromiseIsLive
<1>1. TypeOK /\ CachedPromiseIsLive /\ [Next]_vars => CachedPromiseIsLive'
  BY LiveStep
<1> QED BY <1>1, LiveInit, TypeCorrect, PTL DEF Spec

=============================================================================
