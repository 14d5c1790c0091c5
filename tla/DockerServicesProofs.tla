------------------------ MODULE DockerServicesProofs ------------------------
(***************************************************************************)
(* Proofs about DockerServices, for any sessions, requests, containers and *)
(* networks, and any number of failures, changes and crashes.              *)
(***************************************************************************)
EXTENDS DockerServices, FunctionTheorems, FiniteSetTheorems, SequenceTheorems, TLAPS

(***************************************************************************)
(* The volume.                                                             *)
(***************************************************************************)

\* Only its own setup, of the server that runs, has requests in flight to build it.
BuildingIsOfSetup ==
    ~halfMade /\ "volume" \in building => setup \in {"create", "failed"} \cup CleanUp

\* A volume that is found and has the label of this certificate was written with it.
FoundIsWritten ==
    /\ ~halfMade /\ volume = "other" => outdated
    /\ ~halfMade /\ volume = "empty" /\ setup \in {"none", "available", "inspect"} => outdated

\* From the creation on it is there, and at the end it is written.
StagesFollow ==
    ~halfMade =>
        /\ setup = "create" => broken \/ "volume" \in building \/ volume # "absent"
        /\ setup \in {"container", "write"} => volume # "absent"
        /\ setup \in {"tidyAgain", "old"} => volume = "written"

VolumeInv ==
    /\ volume \in {"absent", "empty", "written", "other"} /\ VolumeTypeOK
    /\ BuildingIsOfSetup /\ FoundIsWritten /\ StagesFollow

LEMMA VolumeInitially == Init => VolumeInv
<1> SUFFICES ASSUME Init PROVE VolumeInv
  OBVIOUS
<1>1. volume = "absent" /\ setup = "none" /\ building = {} /\ asker = [a \in Asker |-> "new"]
  BY DEF Init, EngineInit, VolumeInit
<1>2. broken = FALSE /\ tools = FALSE /\ outdated = FALSE /\ halfMade = FALSE
  BY DEF Init, VolumeInit
<1>3. VolumeTypeOK
  BY ONLY <1>1, <1>2 DEF VolumeTypeOK, SetupStep, AskerState
<1> QED BY ONLY <1>1, <1>3 DEF VolumeInv, BuildingIsOfSetup, FoundIsWritten, StagesFollow

\* What the services do with the volume: they ask for it, crash, or leave it alone.
VolumeMoves ==
    \/ VolumeStep
    \/ \E a \in Asker : AskVolume(a) /\ UNCHANGED volume
    \/ Mounted
    \/ VolumeCrash
    \/ UNCHANGED <<volumeVars, volume>>

LEMMA OnlyVolumeMoves == [Next]_vars => VolumeMoves
<1> SUFFICES ASSUME [Next]_vars PROVE VolumeMoves
  OBVIOUS
<1>1. CASE UNCHANGED vars
  BY <1>1 DEF vars, engineVars, VolumeMoves
<1>2. CASE VolumeStep
  BY <1>2 DEF VolumeMoves
<1>3. ASSUME NEW s \in Session, StartSession(s) PROVE VolumeMoves
  BY <1>3, ServicesAssumption DEF StartSession, VolumeMoves
<1>4. ASSUME NEW r \in Request, ImageInspected(r) PROVE VolumeMoves
  BY <1>4, ServicesAssumption DEF ImageInspected, VolumeMoves, engineVars
<1>5. ASSUME NEW r \in Request, AttachRemoved(r) PROVE VolumeMoves
  BY <1>5, ServicesAssumption DEF AttachRemoved, VolumeMoves
<1>6. CASE Restart
  BY <1>6 DEF Restart, VolumeMoves
<1>7. CASE StartupStep /\ UNCHANGED <<volumeVars, serviceVars>>
  BY <1>7 DEF VolumeMoves, StartupStep, Unavailable, Available, Register, CallFails, DnsStarts,
              DnsFails, StreamConnects, StreamFails, engineVars
<1>8. CASE EventStep /\ UNCHANGED <<volumeVars, serviceVars>>
  BY <1>8 DEF VolumeMoves, EventStep, StreamCloses, EventArrives, NetworksListed,
              NetworkInspected, ContainersInspected, engineVars
<1>9. CASE UserStep /\ UNCHANGED <<monitorVars, volumeVars, serviceVars>>
  BY <1>9 DEF VolumeMoves, UserStep, UserConnects, UserDisconnects, UserRemoves, UserDestroys
<1>10. CASE ProxyStep \/ DeletionStep \/ RequestArrives
  BY <1>10 DEF VolumeMoves, ProxyStep, DeletionStep, RequestArrives, KeepsDocker, engineVars,
               ProxyReady, ProxyFails, ProxyStopped, ClientAsks, Activate,
               DeletionAvailable, DeletionUnavailable, ContainersListed, ContainerDeleted,
               ImagesAsked, DeletionEnds, DeletionFails, TunnelNotStopped
<1>11. CASE \/ \E s \in Session : StopSession(s)
            \/ \E e \in Everything \cup Deactivation : Deactivate(e)
  BY <1>11 DEF VolumeMoves, StopSession, Deactivate, engineVars
<1>12. ASSUME NEW r \in Request,
              \/ ClientRefused(r) \/ ClientServed(r) \/ StartChecked(r) \/ AttachInspected(r)
              \/ AttachStopped(r) \/ VolumeNamed(r) \/ ContainerMade(r) \/ NetworksConnected(r)
              \/ Started(r)
       PROVE  VolumeMoves
  BY <1>12 DEF VolumeMoves, KeepsDocker, engineVars, ClientRefused, ClientServed, StartChecked, AttachInspected,
               AttachStopped, VolumeNamed, ContainerMade, NetworksConnected, Started
<1> QED BY <1>1, <1>2, <1>3, <1>4, <1>5, <1>6, <1>7, <1>8, <1>9, <1>10, <1>11, <1>12
        DEF Next, SessionStep, RequestStep

LEMMA VolumeStays == VolumeInv /\ VolumeMoves => VolumeInv'
<1> SUFFICES ASSUME VolumeInv, VolumeMoves PROVE VolumeInv'
  OBVIOUS
<1> USE DEF VolumeInv, VolumeTypeOK, BuildingIsOfSetup, FoundIsWritten, StagesFollow
<1> USE DEF SetupStep, Attempt, CleanUp, AskerState, Then, Settle
<1> DEFINE Marks == halfMade' = (halfMade /\ ~(volume # "absent" /\ volume' = "absent"))
<1>1. CASE VolumeAvailable /\ Marks
  BY <1>1 DEF VolumeAvailable
<1>2. CASE VolumeUnavailable /\ Marks
  BY <1>2 DEF VolumeUnavailable
<1>3. CASE VolumeInspected /\ Marks
  BY <1>3 DEF VolumeInspected
<1>4. CASE ToolsCleaned /\ Marks
  BY <1>4 DEF ToolsCleaned
<1>5. CASE VolumeDropped /\ Marks
  BY <1>5 DEF VolumeDropped
<1>6. ASSUME NEW part \in building, Created(part), Marks PROVE VolumeInv'
  BY <1>6 DEF Created
<1>7. CASE ContainerCreated /\ Marks
  BY <1>7 DEF ContainerCreated
<1>8. CASE VolumeWritten /\ Marks
  BY <1>8 DEF VolumeWritten
<1>9. CASE OldVolumesCleaned /\ Marks
  BY <1>9 DEF OldVolumesCleaned
<1>10. CASE AttemptFails /\ Marks
  BY <1>10 DEF AttemptFails
<1>11. CASE CleanUpFails /\ Marks
  BY <1>11 DEF CleanUpFails
<1>12. CASE VolumeUndone /\ Marks
  BY <1>12 DEF VolumeUndone
<1>13. ASSUME NEW a \in Asker, AskVolume(a), UNCHANGED volume PROVE VolumeInv'
  BY <1>13 DEF AskVolume
<1>14. CASE VolumeCrash
  <2>1. volume' \in {"absent", "empty", "written", "other"} /\ VolumeTypeOK'
    BY <1>14 DEF VolumeCrash
  <2>2. /\ setup' = "none"
        /\ ~halfMade' => "volume" \notin building' /\ (volume' \in {"empty", "other"} => outdated')
    BY <1>14 DEF VolumeCrash
  <2> QED BY <2>1, <2>2
<1>15. CASE UNCHANGED <<volumeVars, volume>>
  BY <1>15 DEF volumeVars
<1>16. CASE VolumeNotInspected /\ Marks
  BY <1>16 DEF VolumeNotInspected
<1>17. CASE VolumeIsKept /\ Marks
  BY <1>17 DEF VolumeIsKept
<1>18. CASE Mounted
  BY <1>18 DEF Mounted
<1> QED BY <1>1, <1>2, <1>3, <1>4, <1>5, <1>6, <1>7, <1>8, <1>9, <1>10, <1>11, <1>12, <1>13,
           <1>14, <1>15, <1>16, <1>17, <1>18 DEF VolumeMoves, VolumeStep

\* A volume whose name is given out was found or made by a setup that has come to its end.
LEMMA VolumeIsWritten == VolumeInv /\ VolumeMoves => [ReadyVolumeIsWritten]_<<volumeVars, volume>>
<1> SUFFICES ASSUME VolumeInv, VolumeMoves, NEW a \in Asker,
                    asker[a] # "ready", asker'[a] = "ready"
             PROVE  halfMade \/ volume' = "written"
  BY DEF ReadyVolumeIsWritten
<1> USE DEF VolumeInv, VolumeTypeOK, FoundIsWritten, StagesFollow, Then, Settle
<1>1. CASE VolumeInspected
  BY <1>1 DEF VolumeInspected
<1>2. CASE OldVolumesCleaned
  BY <1>2 DEF OldVolumesCleaned
<1>3. ASSUME NEW b \in Asker, AskVolume(b) PROVE FALSE
  BY <1>3 DEF AskVolume
<1>4. CASE VolumeCrash
  BY <1>4 DEF VolumeCrash
<1>5. ~VolumeAvailable /\ ~VolumeUnavailable /\ ~ToolsCleaned /\ ~VolumeDropped /\ ~VolumeNotInspected
  BY DEF VolumeAvailable, VolumeUnavailable, ToolsCleaned, VolumeDropped, VolumeNotInspected
<1>6. ~ContainerCreated /\ ~VolumeWritten /\ ~(\E part \in building : Created(part))
  BY DEF ContainerCreated, VolumeWritten, Created
<1>7. ~AttemptFails /\ ~CleanUpFails /\ ~VolumeUndone /\ ~VolumeIsKept /\ ~Mounted
  BY DEF AttemptFails, CleanUpFails, VolumeUndone, VolumeIsKept, Mounted
<1> QED BY <1>1, <1>2, <1>3, <1>4, <1>5, <1>6, <1>7 DEF VolumeMoves, VolumeStep, volumeVars

\* Who is told that the volume is ready has one that was written with the server's
\* certificate, unless a dead server labelled one and did not write it; nothing is said of
\* who is told that Docker is unavailable (docker-data-injection.ts:97-189).
THEOREM VolumesAlwaysWritten == Spec => VolumesAreWritten
<1>1. VolumeInv /\ [Next]_vars => VolumeInv' /\ [ReadyVolumeIsWritten]_<<volumeVars, volume>>
  BY OnlyVolumeMoves, VolumeStays, VolumeIsWritten
<1> QED BY <1>1, VolumeInitially, PTL DEF Spec, VolumesAreWritten

(***************************************************************************)
(* Types of what Docker has.                                               *)
(***************************************************************************)

\* SetToSeq lists a finite set.
LEMMA SetToSeqLists ==
    ASSUME NEW S, IsFiniteSet(S)
    PROVE  SetToSeq(S) \in Seq(S)
<1> DEFINE n == Cardinality(S)
<1>1. n \in Nat /\ ExistsBijection(1..n, S)
  BY FS_CardinalityType
<1>2. \E f \in [1..n -> S] : IsInjective(f)
  BY <1>1 DEF ExistsBijection, Bijection, Injection
<1>3. SetToSeq(S) \in [1..n -> S]
  BY <1>2 DEF SetToSeq
<1> QED BY <1>1, <1>3, SeqDef

\* The functions of a set on a finite one have a finite image.
LEMMA ImageIsFinite ==
    ASSUME NEW S, IsFiniteSet(S), NEW f, f = [x \in S |-> f[x]]
    PROVE  IsFiniteSet({f[x] : x \in S})
<1>1. f \in Surjection(S, {f[x] : x \in S})
  BY DEF Surjection
<1> QED BY <1>1, FS_Surjection

Events == Seq(Event)
Containers == [state : {"absent", "created", "running"}, label : BOOLEAN]

LEMMA EventsAreSent ==
    ASSUME wire \in Events, NEW action \in {"attach", "destroy"}, NEW nets \in SUBSET Network
    PROVE  Sent(action, nets) \in Events
<1> DEFINE event == [n \in nets |-> [action |-> action, net |-> n]]
           events == {[action |-> action, net |-> n] : n \in nets}
<1>1. IsFiniteSet(nets)
  BY EngineAssumption, FS_Subset
<1>2. {event[n] : n \in nets} = events /\ event = [n \in nets |-> event[n]]
  OBVIOUS
<1> HIDE DEF event
<1>3. IsFiniteSet(events)
  BY <1>1, <1>2, ImageIsFinite
<1>4. events \subseteq Event
  BY DEF Event
<1>5. SetToSeq(events) \in Seq(Event)
  BY <1>3, <1>4, SetToSeqLists, SeqMonotonic
<1>6. wire \o SetToSeq(events) \in Seq(Event)
  BY <1>5, ConcatProperties DEF Events
<1> QED BY <1>6 DEF Sent, Events

LEMMA EventIsRead ==
    ASSUME wire \in Events, wire # <<>>
    PROVE  /\ Tail(wire) \in Events
           /\ Head(wire).net \in Network /\ Head(wire).action \in {"attach", "destroy"}
<1>1. Head(wire) \in Event /\ Tail(wire) \in Seq(Event)
  BY HeadTailProperties, EmptySeq DEF Events
<1> QED BY <1>1 DEF Event, Events

LEMMA ContainersAre ==
    /\ Absent \in Containers
    /\ [state |-> "created", label |-> TRUE] \in Containers
    /\ [state |-> "running", label |-> FALSE] \in Containers
    /\ \A r \in Containers : /\ [r EXCEPT !.state = "created"] \in Containers
                              /\ [r EXCEPT !.state = "running"] \in Containers
                              /\ r.label \in BOOLEAN
BY DEF Containers, Absent

\* What happens to the events on their way, ...
WireMoves ==
    \/ wire' = wire
    \/ wire' = <<>>
    \/ wire # <<>> /\ wire' = Tail(wire)
    \/ \E action \in {"attach", "destroy"}, nets \in SUBSET Network : wire' = Sent(action, nets)

\* ... to the networks, ...
NetworksMove ==
    \/ networks' = networks
    \/ \E n \in Network : networks' = networks \ {n}

AttachedMoves ==
    \/ attached' = attached
    \/ \E c \in Container, nets \in SUBSET Network :
           \/ attached' = [n \in Network |-> IF n \in nets THEN attached[n] \cup {c} ELSE attached[n]]
           \/ attached' = [n \in Network |-> attached[n] \ {c}]
    \/ \E c \in Container, n \in Network : attached' = [attached EXCEPT ![n] = @ \ {c}]

\* ... and to the containers.
ContainersMove ==
    \/ container' = container
    \/ \E c \in Container :
           \/ container' = [container EXCEPT ![c] = Absent]
           \/ container' = [container EXCEPT ![c].state = "created"]
           \/ container' = [container EXCEPT ![c].state = "running"]
           \/ container' = [container EXCEPT ![c] = [state |-> "created", label |-> TRUE]]

EngineMoves ==
    /\ WireMoves /\ NetworksMove /\ AttachedMoves /\ ContainersMove
    /\ open' = open \/ open' = TRUE \/ open' = FALSE

LEMMA Leaves ==
    ASSUME networks \subseteq Network, NEW c \in Container, Leave(c)
    PROVE  WireMoves /\ AttachedMoves
<1> DEFINE nets == {n \in networks : c \in attached[n]}
<1>1. nets \in SUBSET Network
  OBVIOUS
<1>2. wire' = Sent("attach", nets) /\ attached' = [n \in Network |-> attached[n] \ {c}]
  BY DEF Leave
<1> QED BY <1>1, <1>2 DEF WireMoves, AttachedMoves

LEMMA Joins ==
    ASSUME NEW c \in Container, NEW nets \in SUBSET Network, Join(c, nets)
    PROVE  WireMoves /\ AttachedMoves
BY DEF Join, WireMoves, AttachedMoves

RequestKind == {None, "create", "start", "attach"}
Requests == [kind : RequestKind, of : Container \cup {None}, phase : RequestPhase,
             nets : SUBSET Network]
RequestTypeOK == request \in [Request -> Requests]

\* What was asked for is about a container.
RequestsAreOfContainers ==
    \A r \in Request : request[r].phase # "new" => request[r].of \in Container

LEMMA OnlyEngineMoves ==
    ASSUME networks \subseteq Network, RequestTypeOK, RequestsAreOfContainers, [Next]_vars
    PROVE  EngineMoves
<1> USE DEF EngineMoves
<1>1. CASE UNCHANGED <<networks, attached, container, wire, open>>
  BY <1>1 DEF WireMoves, NetworksMove, AttachedMoves, ContainersMove
<1>2. ASSUME NEW n \in Network, NEW c \in Container, UserConnects(n, c) PROVE EngineMoves
  BY <1>2, Joins DEF UserConnects, NetworksMove, ContainersMove
<1>3. ASSUME NEW n \in Network, NEW c \in Container, UserDisconnects(n, c) PROVE EngineMoves
  BY <1>3 DEF UserDisconnects, WireMoves, NetworksMove, AttachedMoves, ContainersMove
<1>4. ASSUME NEW c \in Container, UserRemoves(c) PROVE EngineMoves
  BY <1>4, Leaves DEF UserRemoves, NetworksMove, ContainersMove
<1>5. ASSUME NEW n \in Network, UserDestroys(n) PROVE EngineMoves
  BY <1>5 DEF UserDestroys, WireMoves, NetworksMove, AttachedMoves, ContainersMove
<1>6. ASSUME NEW d \in Deletion, NEW c \in Container, ContainerDeleted(d, c) PROVE EngineMoves
  <2>1. networks' = networks /\ open' = open
    BY <1>6 DEF ContainerDeleted
  <2>2. CASE container' = [container EXCEPT ![c] = Absent] /\ Leave(c)
    BY <2>1, <2>2, Leaves DEF NetworksMove, ContainersMove
  <2>3. CASE UNCHANGED <<container, attached, wire>>
    BY <2>1, <2>3, <1>1
  <2> QED BY <1>6, <2>2, <2>3 DEF ContainerDeleted
<1>7. ASSUME NEW r \in Request, AttachStopped(r) PROVE EngineMoves
  <2> DEFINE c == request[r].of
  <2>1. c \in Container
    BY <1>7 DEF AttachStopped, RequestsAreOfContainers
  <2>2. Leave(c) /\ networks' = networks /\ open' = open
    BY <1>7 DEF AttachStopped
  <2>3. container' = container \/ container' = [container EXCEPT ![c].state = "created"]
    BY <1>7 DEF AttachStopped
  <2> QED BY <2>1, <2>2, <2>3, Leaves DEF NetworksMove, ContainersMove
<1>8. ASSUME NEW r \in Request, AttachRemoved(r) PROVE EngineMoves
  <2>1. request[r].of \in Container
    BY <1>8 DEF AttachRemoved, RequestsAreOfContainers
  <2> QED BY <1>8, <2>1, Leaves DEF AttachRemoved, NetworksMove, ContainersMove
<1>9. ASSUME NEW r \in Request, ContainerMade(r) PROVE EngineMoves
  <2>1. request[r].of \in Container
    BY <1>9 DEF ContainerMade, RequestsAreOfContainers
  <2>2. UNCHANGED <<networks, attached, wire, open>>
    BY <1>9 DEF ContainerMade
  <2>3. \/ container' = container
        \/ container' = [container EXCEPT ![request[r].of] = [state |-> "created", label |-> TRUE]]
    BY <1>9 DEF ContainerMade
  <2> QED BY <2>1, <2>2, <2>3 DEF WireMoves, NetworksMove, AttachedMoves, ContainersMove
<1>10. ASSUME NEW r \in Request, NetworksConnected(r) PROVE EngineMoves
  <2>1. request[r].of \in Container
    BY <1>10 DEF NetworksConnected, RequestsAreOfContainers
  <2> DEFINE nets == {n \in request[r].nets \cap networks : container[request[r].of].state # "absent"}
  <2>2. nets \in SUBSET Network
    OBVIOUS
  <2>3. Join(request[r].of, nets) /\ networks' = networks /\ container' = container /\ open' = open
    BY <1>10 DEF NetworksConnected
  <2> QED BY <2>1, <2>2, <2>3, Joins DEF NetworksMove, ContainersMove
<1>11. ASSUME NEW r \in Request, Started(r) PROVE EngineMoves
  <2> DEFINE c == request[r].of
  <2>1. c \in Container
    BY <1>11 DEF Started, RequestsAreOfContainers
  <2>2. networks' = networks /\ open' = open
    BY <1>11 DEF Started
  <2>3. container' = container \/ container' = [container EXCEPT ![c].state = "running"]
    BY <1>11 DEF Started
  <2>4. UNCHANGED <<attached, wire>> \/ \E nets \in SUBSET networks : Join(c, nets)
    BY <1>11 DEF Started
  <2>5. WireMoves /\ AttachedMoves
    BY <2>1, <2>4, Joins DEF WireMoves, AttachedMoves
  <2> QED BY <2>1, <2>2, <2>3, <2>5 DEF NetworksMove, ContainersMove
<1>12. CASE StartupStep
  BY <1>12 DEF StartupStep, Unavailable, Available, Register, CallFails, DnsStarts, DnsFails,
               StreamConnects, StreamFails, engineVars, WireMoves, NetworksMove, AttachedMoves,
               ContainersMove
<1>13. CASE EventStep
  BY <1>13 DEF EventStep, StreamCloses, EventArrives, NetworksListed, NetworkInspected,
               ContainersInspected, engineVars, WireMoves, NetworksMove, AttachedMoves, ContainersMove
<1>14. CASE Restart
  BY <1>14 DEF Restart, WireMoves, NetworksMove, AttachedMoves, ContainersMove
<1>15. CASE UNCHANGED vars \/ VolumeStep \/ ProxyStep \/ RequestArrives \/ SessionStep
  BY <1>15, <1>1 DEF vars, engineVars, VolumeStep, ProxyStep, RequestArrives, SessionStep,
              KeepsDocker, ProxyReady, ProxyFails, ProxyStopped, ClientAsks, Activate,
              StartSession, StopSession, Deactivate
<1>16. ASSUME NEW d \in Deletion,
              \/ DeletionAvailable(d) \/ DeletionUnavailable(d) \/ ContainersListed(d)
              \/ ImagesAsked(d) \/ DeletionEnds(d) \/ DeletionFails(d) \/ TunnelNotStopped(d)
       PROVE  EngineMoves
  BY <1>16, <1>1 DEF KeepsDocker, engineVars, DeletionAvailable, DeletionUnavailable,
              ContainersListed, ImagesAsked, DeletionEnds, DeletionFails, TunnelNotStopped
<1>17. ASSUME NEW r \in Request,
              \/ ClientRefused(r) \/ ClientServed(r) \/ ImageInspected(r) \/ StartChecked(r) \/ AttachInspected(r)
              \/ VolumeNamed(r)
       PROVE  EngineMoves
  BY <1>17, <1>1 DEF KeepsDocker, engineVars, ClientRefused, ClientServed, ImageInspected, StartChecked,
              AttachInspected, VolumeNamed
<1> QED BY <1>2, <1>3, <1>4, <1>5, <1>6, <1>7, <1>8, <1>9, <1>10, <1>11, <1>12, <1>13, <1>14,
           <1>15, <1>16, <1>17 DEF Next, UserStep, DeletionStep, RequestStep

\* The parts of EngineTypeOK, but for the volume.
NetworksOK == networks \subseteq Network /\ attached \in [Network -> SUBSET Container]
ContainersOK == container \in [Container -> Containers]
EngineOK == NetworksOK /\ ContainersOK /\ wire \in Events /\ open \in BOOLEAN

LEMMA EngineStays == EngineOK /\ EngineMoves => EngineOK'
<1> SUFFICES ASSUME EngineOK, EngineMoves PROVE EngineOK'
  OBVIOUS
<1>1. wire' \in Events
  <2>1. <<>> \in Events
    BY EmptySeq DEF Events
  <2>2. wire # <<>> => Tail(wire) \in Events
    BY EventIsRead DEF EngineOK
  <2>3. \A action \in {"attach", "destroy"}, nets \in SUBSET Network : Sent(action, nets) \in Events
    BY EventsAreSent DEF EngineOK
  <2> QED BY <2>1, <2>2, <2>3 DEF EngineMoves, WireMoves, EngineOK
<1>2. networks' \subseteq Network
  BY DEF EngineOK, NetworksOK, EngineMoves, NetworksMove
<1>3. attached' \in [Network -> SUBSET Container]
  BY DEF EngineOK, NetworksOK, EngineMoves, AttachedMoves
<1>4. ContainersOK'
  <2>1. container \in [Container -> Containers]
    BY DEF EngineOK, ContainersOK
  <2>2. ASSUME NEW c \in Container, NEW r \in Containers, container' = [container EXCEPT ![c] = r]
        PROVE  container' \in [Container -> Containers]
    BY ONLY <2>1, <2>2
  <2>3. ASSUME NEW c \in Container
        PROVE  /\ [container EXCEPT ![c].state = "created"] = [container EXCEPT ![c] = [@ EXCEPT !.state = "created"]]
               /\ [container EXCEPT ![c].state = "running"] = [container EXCEPT ![c] = [@ EXCEPT !.state = "running"]]
    OBVIOUS
  <2>4. ASSUME NEW c \in Container PROVE container[c] \in Containers
    BY ONLY <2>1, <2>4
  <2>5. ContainersMove
    BY DEF EngineMoves
  <2> QED BY <2>1, <2>2, <2>3, <2>4, <2>5, ContainersAre DEF ContainersOK, ContainersMove
<1>5. open' \in BOOLEAN
  BY DEF EngineOK, EngineMoves
<1> QED BY <1>1, <1>2, <1>3, <1>4, <1>5 DEF EngineOK, NetworksOK

LEMMA RequestGoesOn ==
    ASSUME NEW r \in Requests, NEW phase \in RequestPhase
    PROVE  [r EXCEPT !.phase = phase] \in Requests /\ [r EXCEPT !.phase = phase].of = r.of
BY DEF Requests

\* What happens to the requests: one arrives, is about to go on, or all that are under
\* way fail.
RequestsMove ==
    \/ request' = request
    \/ \E r \in Request, phase \in RequestPhase :
           /\ request[r].phase # "new"
           /\ \/ request' = [request EXCEPT ![r].phase = phase]
              \/ \E nets \in SUBSET Network :
                    request' = [request EXCEPT ![r].phase = phase, ![r].nets = nets]
    \/ \E r \in Request, c \in Container, kind \in RequestKind, phase \in RequestPhase :
           request' = [request EXCEPT ![r] = [@ EXCEPT !.kind = kind, !.of = c, !.phase = phase]]
    \/ request' = [r \in Request |-> IF request[r].phase \in {"new", "done"} THEN request[r]
                                     ELSE [request[r] EXCEPT !.phase = "failed"]]

LEMMA OnlyRequestsMove ==
    ASSUME networks \subseteq Network, [Next]_vars
    PROVE  RequestsMove
<1> USE DEF RequestsMove
<1>1. CASE UNCHANGED request
  BY <1>1
<1>2. ASSUME NEW r \in Request, NEW c \in Container, NEW kind \in {"create", "start"},
             ClientAsks(r, kind, c)
      PROVE  RequestsMove
  BY <1>2 DEF ClientAsks, RequestKind, RequestPhase
<1>3. ASSUME NEW r \in Request, NEW c \in Container, Activate(r, c) PROVE RequestsMove
  BY <1>3 DEF Activate, RequestKind, RequestPhase
<1>4. ASSUME NEW r \in Request, AttachInspected(r) PROVE RequestsMove
  <2> DEFINE nets == {n \in networks : request[r].of \in attached[n]}
             phase == IF container[request[r].of].state = "absent" THEN "failed" ELSE "stop"
  <2>1. nets \in SUBSET Network /\ phase \in RequestPhase
    BY DEF RequestPhase
  <2>2. request[r].phase # "new" /\ request' = [request EXCEPT ![r].phase = phase, ![r].nets = nets]
    BY <1>4 DEF AttachInspected
  <2> QED BY <2>1, <2>2
<1>5. ASSUME NEW r \in Request,
             \/ ClientRefused(r) \/ ClientServed(r) \/ ImageInspected(r) \/ StartChecked(r)
             \/ AttachStopped(r) \/ AttachRemoved(r)
             \/ VolumeNamed(r) \/ ContainerMade(r) \/ NetworksConnected(r) \/ Started(r)
      PROVE  RequestsMove
  <2>1. request[r].phase # "new" /\ \E phase \in RequestPhase : To(r, phase)
    BY <1>5 DEF ClientRefused, ClientServed, ImageInspected, StartChecked, AttachStopped, AttachRemoved,
               VolumeNamed, ContainerMade, NetworksConnected, Started, RequestPhase
  <2> QED BY <2>1 DEF To
<1>6. CASE Restart
  BY <1>6 DEF Restart
<1>7. CASE UNCHANGED vars \/ UNCHANGED serviceVars \/ SessionStep \/ ProxyStep \/ DeletionStep
  BY <1>1, <1>7 DEF vars, serviceVars, SessionStep, ProxyStep, DeletionStep, KeepsServices,
               KeepsSessions, Refused, StartSession, StopSession, Deactivate, ProxyReady,
               ProxyFails, ProxyStopped, DeletionAvailable, DeletionUnavailable, ContainersListed,
               ContainerDeleted, ImagesAsked, DeletionEnds, DeletionFails, TunnelNotStopped
<1> QED BY <1>2, <1>3, <1>4, <1>5, <1>6, <1>7 DEF Next, RequestArrives, RequestStep

RequestsInv == RequestTypeOK /\ RequestsAreOfContainers

LEMMA RequestBecomes ==
    ASSUME RequestsInv, NEW r \in Request, NEW rec \in Requests, rec.of \in Container,
           request' = [request EXCEPT ![r] = rec]
    PROVE  RequestsInv'
BY DEF RequestsInv, RequestTypeOK, RequestsAreOfContainers

LEMMA RequestsStay == RequestsInv /\ RequestsMove => RequestsInv'
<1> SUFFICES ASSUME RequestsInv, RequestsMove PROVE RequestsInv'
  OBVIOUS
<1>1. \A r \in Request : request[r] \in Requests /\ (request[r].phase # "new" => request[r].of \in Container)
  BY DEF RequestsInv, RequestTypeOK, RequestsAreOfContainers
<1>2. CASE request' = request
  BY <1>2 DEF RequestsInv, RequestTypeOK, RequestsAreOfContainers
<1>3. ASSUME NEW r \in Request, NEW phase \in RequestPhase, request[r].phase # "new",
             request' = [request EXCEPT ![r].phase = phase]
      PROVE  RequestsInv'
  BY <1>1, <1>3, RequestGoesOn, RequestBecomes
<1>4. ASSUME NEW r \in Request, NEW phase \in RequestPhase, request[r].phase # "new",
             NEW nets \in SUBSET Network,
             request' = [request EXCEPT ![r].phase = phase, ![r].nets = nets]
      PROVE  RequestsInv'
  <2> DEFINE rec == [request[r] EXCEPT !.phase = phase, !.nets = nets]
  <2>1. rec \in Requests /\ rec.of \in Container
    <3>1. request[r] \in Requests /\ request[r].of \in Container
      BY <1>1, <1>4
    <3>2. rec \in Requests /\ rec.of = request[r].of
      BY ONLY <3>1, phase \in RequestPhase, nets \in SUBSET Network DEF Requests
    <3> QED BY <3>1, <3>2
  <2>2. request' = [request EXCEPT ![r] = rec]
    BY <1>1, <1>4 DEF RequestsInv, RequestTypeOK
  <2> HIDE DEF rec
  <2> QED BY <2>1, <2>2, RequestBecomes
<1>5. ASSUME NEW r \in Request, NEW c \in Container, NEW kind \in RequestKind, NEW phase \in RequestPhase,
             request' = [request EXCEPT ![r] = [@ EXCEPT !.kind = kind, !.of = c, !.phase = phase]]
      PROVE  RequestsInv'
  <2> DEFINE rec == [request[r] EXCEPT !.kind = kind, !.of = c, !.phase = phase]
  <2>1. rec \in Requests /\ rec.of \in Container
    <3>1. request[r] \in Requests
      BY <1>1
    <3>2. rec \in Requests /\ rec.of = c
      BY ONLY <3>1, phase \in RequestPhase, kind \in RequestKind, c \in Container DEF Requests
    <3> QED BY <3>2
  <2>2. request' = [request EXCEPT ![r] = rec]
    BY <1>5
  <2> HIDE DEF rec
  <2> QED BY <2>1, <2>2, RequestBecomes
<1>6. CASE request' = [r \in Request |-> IF request[r].phase \in {"new", "done"} THEN request[r]
                                        ELSE [request[r] EXCEPT !.phase = "failed"]]
  <2>1. "failed" \in RequestPhase
    BY DEF RequestPhase
  <2>2. \A r \in Request : [request[r] EXCEPT !.phase = "failed"] \in Requests
                           /\ [request[r] EXCEPT !.phase = "failed"].of = request[r].of
    BY <1>1, <2>1, RequestGoesOn
  <2>3. \A r \in Request : /\ request'[r] \in Requests
                           /\ request'[r].phase # "new" => request'[r].of \in Container
    BY <1>1, <1>6, <2>2
  <2> QED BY <1>6, <2>3 DEF RequestsInv, RequestTypeOK, RequestsAreOfContainers
<1> QED BY <1>2, <1>3, <1>4, <1>5, <1>6 DEF RequestsMove

(***************************************************************************)
(* Types of the monitors.                                                  *)
(***************************************************************************)
AliasMap == [Network -> Aliases]
Streams == [id : Nat, state : {"none", "connecting", "live", "dead"}]
Monitors == [state : {"none", "on", "stopped"}, stream : Nat, targets : AliasMap, early : BOOLEAN]
Queries == [by : Call, serial : Nat, net : Network, phase : {"network", "containers"},
            seen : SUBSET Container]
RefreshPhase == {"none", "listing", "querying", "done", "failed"}
Refreshes == [phase : RefreshPhase, listed : SUBSET Network, got : AliasMap]

\* What is known of each variable, ...
StreamOK == stream \in Streams
DnsOK == dns \in {"none", "starting", "ready", "failed"}
HostsOK == hosts \in AliasMap /\ tunnelled \subseteq Network
CallsOK == call \in [Call -> CallPhase] /\ registered \in Call \cup {None}
MonitorsOK == monitor \in [Call -> Monitors] /\ IsFiniteSet(Made)
QueriesOK == query \subseteq Queries /\ IsFiniteSet(query)
RefreshesOK == refresh \in [Call -> Refreshes]
UnsureOK == unsure \subseteq Network

\* ... and of all: only finitely many monitors and queries are there.
MonitorOK ==
    StreamOK /\ DnsOK /\ HostsOK /\ CallsOK /\ MonitorsOK /\ QueriesOK /\ RefreshesOK /\ UnsureOK

LEMMA MapsAre ==
    /\ None \in Aliases /\ NoTargets \in AliasMap
    /\ \A t \in AliasMap : Intercepted(t) \subseteq Network
    /\ \A t \in AliasMap, n \in Network, a \in Aliases : [t EXCEPT ![n] = a] \in AliasMap
    /\ \A t \in AliasMap, n \in Network : Without(t, n) \in AliasMap
BY DEF Aliases, AliasMap, NoTargets, Intercepted, Without

LEMMA MonitorsAre ==
    ASSUME NEW m \in Monitors
    PROVE  /\ m.targets \in AliasMap /\ m.stream \in Nat /\ m.state \in {"none", "on", "stopped"}
           /\ [m EXCEPT !.state = "stopped"] \in Monitors
           /\ [m EXCEPT !.state = "stopped"].state = "stopped"
           /\ \A t \in AliasMap : /\ [m EXCEPT !.targets = t] \in Monitors
                                  /\ [m EXCEPT !.targets = t].state = m.state
BY DEF Monitors

LEMMA RefreshesAre ==
    ASSUME NEW r \in Refreshes
    PROVE  /\ r.got \in AliasMap /\ r.listed \in SUBSET Network /\ r.phase \in RefreshPhase
           /\ \A phase \in RefreshPhase : [r EXCEPT !.phase = phase] \in Refreshes
           /\ \A t \in AliasMap : [r EXCEPT !.got = t] \in Refreshes
BY DEF Refreshes

LEMMA QueriesAre ==
    ASSUME NEW q \in Queries
    PROVE  /\ q.by \in Call /\ q.net \in Network /\ q.serial \in Nat /\ q.seen \in SUBSET Container
           /\ \A seen \in SUBSET Container :
                  [q EXCEPT !.phase = "containers", !.seen = seen] \in Queries
BY DEF Queries

\* A number that no query has: there are more numbers than queries.
LEMMA SerialIsNew == QueriesOK => Serial \in Nat \ {0} /\ \A q \in query : q.serial # Serial
<1> SUFFICES ASSUME QueriesOK PROVE Serial \in Nat \ {0} /\ \A q \in query : q.serial # Serial
  OBVIOUS
<1> DEFINE n == Cardinality(query)
           of == [i \in 1..(n + 1) |-> CHOOSE q \in query : q.serial = i]
<1>1. IsFiniteSet(query) /\ n \in Nat
  BY FS_CardinalityType DEF QueriesOK
<1> HIDE DEF n
<1>2. \E i \in 1..(n + 1) : \A q \in query : q.serial # i
  <2>1. SUFFICES ASSUME \A i \in 1..(n + 1) : \E q \in query : q.serial = i PROVE FALSE
    OBVIOUS
  <2>2. \A i \in 1..(n + 1) : of[i] \in query /\ of[i].serial = i
    BY <2>1
  <2>3. of \in Injection(1..(n + 1), query)
    BY <2>2 DEF Injection, IsInjective
  <2>4. Cardinality(1..(n + 1)) <= n
    BY <1>1, <2>3, FS_Injection DEF n
  <2>5. Cardinality(1..(n + 1)) = n + 1
    BY <1>1, FS_Interval
  <2> QED BY <1>1, <2>4, <2>5
<1>3. Serial \in 1..(n + 1) /\ \A q \in query : q.serial # Serial
  BY <1>2 DEF Serial, n
<1> QED BY <1>1, <1>3

\* What the services do with the monitors: they let their steps happen, ask for one, stop
\* one, lose them all, or leave them alone.
AsksMonitor ==
    /\ \E k \in Call : AskMonitor(k)
    /\ dns' \in {dns, "starting"}
    /\ KeepsMonitor

StopsMonitor == StopMonitor /\ UNCHANGED <<stream, dns, hosts, call, query, refresh, tunnelled, unsure>>

LosesMonitors ==
    /\ stream' = [stream EXCEPT !.state = "dead"]
    /\ registered' = None /\ dns' = "none" /\ query' = {} /\ hosts' = NoTargets
    /\ call' = [k \in Call |-> IF call[k] \in {"available", "dns"} THEN "failed" ELSE call[k]]
    /\ monitor' = [m \in Call |-> IF monitor[m].state = "on"
                                  THEN [monitor[m] EXCEPT !.state = "stopped"] ELSE monitor[m]]
    /\ refresh' = [m \in Call |-> NoRefresh]
    /\ UNCHANGED <<tunnelled, unsure>>

MonitorMoves ==
    \/ StartupStep \/ EventStep
    \/ AsksMonitor \/ StopsMonitor \/ LosesMonitors
    \/ UNCHANGED monitorVars

LEMMA OnlyMonitorMoves == [Next]_vars => MonitorMoves
<1> SUFFICES ASSUME [Next]_vars PROVE MonitorMoves
  OBVIOUS
<1> USE DEF MonitorMoves
<1>1. CASE StartupStep \/ EventStep
  BY <1>1
<1>2. ASSUME NEW s \in Session, StartSession(s) PROVE AsksMonitor
  <2>1. s \in Call
    BY ServicesAssumption
  <2>2. AskMonitor(s) /\ dns' \in {dns, "starting"}
    BY <1>2 DEF StartSession
  <2>3. KeepsMonitor
    BY <1>2 DEF StartSession, KeepsMonitor
  <2> QED BY <2>1, <2>2, <2>3 DEF AsksMonitor
<1>3. ASSUME NEW s \in Session, StopSession(s) PROVE StopsMonitor
  BY <1>3 DEF StopSession, StopsMonitor
<1>4. ASSUME NEW r \in Request, EnsureServices(r) PROVE AsksMonitor
  <2>1. r \in Call
    BY ServicesAssumption
  <2> QED BY <1>4, <2>1 DEF EnsureServices, AsksMonitor
<1>5. CASE Restart
  BY <1>5 DEF Restart, LosesMonitors
<1>6. ASSUME NEW r \in Request,
             ClientServed(r) \/ \E c \in Container : Activate(r, c)
      PROVE  AsksMonitor
  BY <1>4, <1>6 DEF ClientServed, Activate
<1>7. CASE UNCHANGED vars
  BY <1>7 DEF vars
<1>8. CASE ProxyStep \/ DeletionStep \/ \E e \in Everything \cup Deactivation : Deactivate(e)
  BY <1>8 DEF ProxyStep, DeletionStep, KeepsDocker, ProxyReady, ProxyFails, ProxyStopped,
              DeletionAvailable, DeletionUnavailable, ContainersListed, ContainerDeleted,
              ImagesAsked, DeletionEnds, DeletionFails, TunnelNotStopped, Deactivate
<1>9. ASSUME NEW r \in Request,
             \/ \E c \in Container, kind \in {"create", "start"} : ClientAsks(r, kind, c)
             \/ ClientRefused(r) \/ ImageInspected(r) \/ StartChecked(r) \/ AttachInspected(r) \/ AttachStopped(r)
             \/ AttachRemoved(r) \/ VolumeNamed(r) \/ ContainerMade(r) \/ NetworksConnected(r)
             \/ Started(r)
      PROVE  UNCHANGED monitorVars
  BY <1>9 DEF KeepsDocker, ClientAsks, ClientRefused, ImageInspected, StartChecked, AttachInspected, AttachStopped,
              AttachRemoved, VolumeNamed, ContainerMade, NetworksConnected, Started
<1>10. CASE VolumeStep /\ UNCHANGED <<monitorVars, serviceVars>>
  BY <1>10 DEF monitorVars
<1>12. CASE UserStep /\ UNCHANGED <<monitorVars, volumeVars, serviceVars>>
  BY <1>12 DEF monitorVars
<1>11. CASE SessionStep
  BY <1>2, <1>3, <1>8, <1>11 DEF SessionStep
<1>13. CASE RequestArrives
  BY <1>6, <1>9, <1>13 DEF RequestArrives
<1>14. CASE RequestStep
  BY <1>6, <1>9, <1>14 DEF RequestStep
<1> HIDE DEF MonitorMoves
<1> QED BY <1>1, <1>5, <1>7, <1>8, <1>10, <1>11, <1>12, <1>13, <1>14 DEF Next

LEMMA MonitorsStayOK ==
    ASSUME MonitorsOK, NEW m \in Call, NEW rec \in Monitors,
           monitor' = [monitor EXCEPT ![m] = rec]
    PROVE  MonitorsOK'
<1>1. Made' \subseteq Made \cup {m}
  BY DEF Made, MonitorsOK
<1>2. IsFiniteSet(Made \cup {m})
  BY FS_AddElement DEF MonitorsOK
<1> QED BY <1>1, <1>2, FS_Subset DEF MonitorsOK

\* Monitors that are changed and not made.
LEMMA MonitorsChange ==
    ASSUME MonitorsOK, NEW f, monitor' = [m \in Call |-> f[m]],
           \A m \in Call : f[m] \in Monitors /\ (monitor[m].state = "none" => f[m].state = "none")
    PROVE  MonitorsOK'
<1>1. Made' \subseteq Made
  BY DEF Made, MonitorsOK
<1> QED BY <1>1, FS_Subset DEF MonitorsOK

LEMMA MonitorStops ==
    ASSUME MonitorsOK, CallsOK, StopMonitor
    PROVE  MonitorsOK' /\ registered' = None
<1>1. registered' = None /\ (registered = None => monitor' = monitor)
  BY DEF StopMonitor
<1>2. CASE registered = None
  BY <1>1, <1>2 DEF MonitorsOK, Made
<1>3. CASE registered # None
  <2>1. registered \in Call /\ monitor[registered] \in Monitors
    BY <1>3 DEF CallsOK, MonitorsOK
  <2>2. monitor' = [monitor EXCEPT ![registered] = [monitor[registered] EXCEPT !.state = "stopped"]]
    BY <1>3 DEF StopMonitor
  <2>3. [monitor[registered] EXCEPT !.state = "stopped"] \in Monitors
    BY <2>1, MonitorsAre
  <2> HIDE DEF MonitorsOK
  <2> QED BY <1>1, <2>1, <2>2, <2>3, MonitorsStayOK
<1> QED BY <1>2, <1>3

LEMMA TargetsAreSet ==
    ASSUME MonitorOK, NEW m \in Call, NEW targets \in AliasMap, SetTargets(m, targets)
    PROVE  MonitorsOK' /\ HostsOK'
<1>1. MonitorsOK'
  <2> DEFINE rec == [monitor[m] EXCEPT !.targets = targets]
  <2>1. monitor[m] \in Monitors
    BY DEF MonitorOK, MonitorsOK
  <2>2. rec \in Monitors
    BY <2>1, MonitorsAre
  <2>3. monitor' = [monitor EXCEPT ![m] = rec]
    BY DEF SetTargets
  <2> HIDE DEF rec
  <2> QED BY <2>2, <2>3, MonitorsStayOK DEF MonitorOK
<1>2. HostsOK'
  BY MapsAre DEF SetTargets, HostsOK, MonitorOK
<1> QED BY <1>1, <1>2

LEMMA MonitorInitially == Init => MonitorOK
<1> SUFFICES ASSUME Init PROVE MonitorOK
  OBVIOUS
<1> USE DEF Init, MonitorInit
<1>1. StreamOK /\ DnsOK /\ UnsureOK
  BY DEF StreamOK, Streams, DnsOK, UnsureOK
<1>2. HostsOK
  BY MapsAre DEF HostsOK
<1>3. CallsOK
  BY DEF CallsOK, CallPhase
<1>4. MonitorsOK
  <2>1. [state |-> "none", stream |-> 0, targets |-> NoTargets, early |-> FALSE] \in Monitors
    BY MapsAre DEF Monitors
  <2>2. Made = {}
    BY DEF Made
  <2> QED BY <2>1, <2>2, FS_EmptySet DEF MonitorsOK
<1>5. QueriesOK
  BY FS_EmptySet DEF QueriesOK
<1>6. RefreshesOK
  <2>1. NoRefresh \in Refreshes
    BY MapsAre DEF Refreshes, NoRefresh, RefreshPhase
  <2> QED BY <2>1 DEF RefreshesOK
<1> QED BY <1>1, <1>2, <1>3, <1>4, <1>5, <1>6 DEF MonitorOK

LEMMA StartupTypes == EngineOK /\ MonitorOK /\ StartupStep => MonitorOK'
<1> SUFFICES ASSUME EngineOK, MonitorOK, StartupStep PROVE MonitorOK'
  OBVIOUS
<1>1. ASSUME UNCHANGED <<hosts, registered, monitor, query, refresh, tunnelled, unsure>>,
             StreamOK', DnsOK', call' \in [Call -> CallPhase]
      PROVE  MonitorOK'
  BY <1>1 DEF MonitorOK, HostsOK, CallsOK, MonitorsOK, Made, QueriesOK, RefreshesOK, UnsureOK
<1>2. StreamOK /\ DnsOK /\ call \in [Call -> CallPhase]
  BY DEF MonitorOK, CallsOK
<1>3. ASSUME NEW k \in Call, Unavailable(k) \/ CallFails(k) PROVE MonitorOK'
  BY <1>1, <1>2, <1>3 DEF Unavailable, CallFails, CallPhase, StreamOK, DnsOK
<1>7. ASSUME NEW k \in Call, Available(k) PROVE MonitorOK'
  <2>1. UNCHANGED <<hosts, registered, query, refresh, tunnelled, unsure>>
    BY <1>7 DEF Available
  <2>2. call' \in [Call -> CallPhase]
    BY <1>2, <1>7 DEF Available, CallPhase
  <2>3. StreamOK'
    BY <1>2, <1>7 DEF Available, StreamOK, Streams
  <2>4. DnsOK'
    BY <1>2, <1>7 DEF Available, DnsOK
  <2>5. CASE monitor' = monitor
    BY <1>1, <2>1, <2>2, <2>3, <2>4, <2>5
  <2>6. CASE monitor' # monitor
    <3> DEFINE rec == [monitor[k] EXCEPT !.stream = stream'.id]
    <3>1. monitor' = [monitor EXCEPT ![k] = rec]
      BY <1>7, <2>6 DEF Available
    <3>2. rec \in Monitors
      BY <2>3 DEF MonitorOK, MonitorsOK, Monitors, StreamOK, Streams
    <3> HIDE DEF rec
    <3>3. MonitorsOK'
      BY <3>1, <3>2, MonitorsStayOK DEF MonitorOK
    <3> QED BY <2>1, <2>2, <2>3, <2>4, <3>3 DEF MonitorOK, HostsOK, CallsOK, QueriesOK, RefreshesOK, UnsureOK
  <2> QED BY <2>5, <2>6
<1>4. CASE DnsStarts \/ DnsFails
  BY <1>1, <1>2, <1>4 DEF DnsStarts, DnsFails, StreamOK, DnsOK
<1>5. CASE StreamConnects \/ StreamFails
  BY <1>1, <1>2, <1>5 DEF StreamConnects, StreamFails, StreamOK, Streams, DnsOK
<1>6. ASSUME NEW k \in Call, Register(k) PROVE MonitorOK'
  <2>1. UNCHANGED <<stream, dns, query, tunnelled, unsure>> /\ hosts' = NoTargets /\ registered' = k
    BY <1>6 DEF Register
  <2>2. CallsOK'
    BY <1>6, <2>1 DEF MonitorOK, CallsOK, CallPhase, Register
  <2>3. MonitorsOK'
    <3> DEFINE rec == [monitor[k] EXCEPT !.state = "on", !.targets = NoTargets, !.early = ~open]
    <3>1. monitor[k] \in Monitors /\ open \in BOOLEAN
      BY DEF MonitorOK, MonitorsOK, EngineOK
    <3>2. rec \in Monitors
      BY <3>1, MapsAre DEF Monitors
    <3>3. monitor' = [monitor EXCEPT ![k] = rec]
      BY <1>6 DEF Register
    <3> HIDE DEF rec
    <3> QED BY <3>2, <3>3, MonitorsStayOK DEF MonitorOK
  <2>4. RefreshesOK'
    <3>1. refresh[k] \in Refreshes /\ "listing" \in RefreshPhase
      BY DEF MonitorOK, RefreshesOK, RefreshPhase
    <3>2. [refresh[k] EXCEPT !.phase = "listing"] \in Refreshes
      BY <3>1, RefreshesAre
    <3> QED BY <1>6, <3>2 DEF Register, MonitorOK, RefreshesOK
  <2> QED BY <2>1, <2>2, <2>3, <2>4, MapsAre DEF MonitorOK, StreamOK, DnsOK, HostsOK, QueriesOK, UnsureOK
<1> QED BY <1>3, <1>4, <1>5, <1>6, <1>7 DEF StartupStep

\* Queries that are asked for by several calls, or about several networks.
LEMMA QueriesAreAsked ==
    ASSUME QueriesOK, NEW S, IsFiniteSet(S), NEW f, f = [x \in S |-> f[x]],
           \A x \in S : f[x] \in Queries,
           query' = query \cup {f[x] : x \in S}
    PROVE  QueriesOK'
<1>1. IsFiniteSet({f[x] : x \in S})
  BY ImageIsFinite
<1>2. IsFiniteSet(query \cup {f[x] : x \in S})
  BY <1>1, FS_Union DEF QueriesOK
<1> QED BY <1>2 DEF QueriesOK

LEMMA EventTypes == EngineOK /\ MonitorOK /\ EventArrives => MonitorOK'
<1> SUFFICES ASSUME EngineOK, MonitorOK, EventArrives PROVE MonitorOK'
  OBVIOUS
<1> DEFINE e == Head(wire)
<1>1. e.net \in Network /\ e.action \in {"attach", "destroy"}
  BY EventIsRead DEF EventArrives, EngineOK
<1>2. UNCHANGED <<stream, dns, call, registered, refresh>>
  BY DEF EventArrives
<1>3. IF e.action = "destroy" THEN Destroyed(e) ELSE Attached(e)
  BY DEF EventArrives
<1>4. UnsureOK'
  BY <1>1 DEF EventArrives, MonitorOK, UnsureOK
<1> HIDE DEF e
<1>5. \A m \in Call : monitor[m] \in Monitors /\ Without(monitor[m].targets, e.net) \in AliasMap
  BY <1>1, MonitorsAre, MapsAre DEF MonitorOK, MonitorsOK
<1>6. CASE Destroyed(e)
  <2>1. MonitorsOK'
    <3> DEFINE f == [m \in Call |-> IF m \in Listening
                                    THEN [monitor[m] EXCEPT !.targets = Without(@, e.net)]
                                    ELSE monitor[m]]
    <3>1. \A m \in Call : f[m] \in Monitors /\ f[m].state = monitor[m].state
      BY <1>5, MonitorsAre
    <3>2. monitor' = f
      BY <1>6 DEF Destroyed
    <3>3. monitor' = [m \in Call |-> f[m]]
      BY <3>2
    <3> HIDE DEF f
    <3> QED BY <3>1, <3>3, MonitorsChange DEF MonitorOK
  <2>2. Listening \subseteq Call
    BY DEF Listening
  <2>3. HostsOK'
    BY <1>5, <1>6, <2>2, MapsAre DEF Destroyed, HostsOK, MonitorOK
  <2> QED BY <1>2, <1>4, <1>6, <2>1, <2>3
          DEF Destroyed, MonitorOK, StreamOK, DnsOK, CallsOK, QueriesOK, RefreshesOK
<1>7. CASE Attached(e)
  <2> DEFINE f == [m \in Listening |-> [by |-> m, serial |-> Serial, net |-> e.net,
                                        phase |-> "network", seen |-> {}]]
  <2>1. Listening \subseteq Made /\ Listening \subseteq Call
    BY DEF Listening, Made
  <2>2. IsFiniteSet(Listening)
    BY <2>1, FS_Subset DEF MonitorOK, MonitorsOK
  <2>3. \A m \in Listening : f[m] \in Queries
    BY <1>1, <2>1, SerialIsNew DEF Queries, MonitorOK
  <2>4. query' = query \cup {f[m] : m \in Listening} /\ f = [m \in Listening |-> f[m]]
    BY <1>7 DEF Attached
  <2> HIDE DEF f
  <2>5. QueriesOK'
    BY <2>2, <2>3, <2>4, QueriesAreAsked DEF MonitorOK
  <2> QED BY <1>2, <1>4, <1>7, <2>5
          DEF Attached, MonitorOK, StreamOK, DnsOK, HostsOK, CallsOK, MonitorsOK, Made, RefreshesOK
<1> QED BY <1>3, <1>6, <1>7

LEMMA AnswerTypes ==
    ASSUME MonitorOK, NEW q \in query, NEW aliases \in Aliases, Answered(q, aliases)
    PROVE  MonitorsOK' /\ HostsOK' /\ QueriesOK' /\ RefreshesOK'
<1> DEFINE r == [refresh[q.by] EXCEPT !.got[q.net] = aliases]
           last == r.phase = "querying" /\ ~\E p \in query \ {q} : p.by = q.by /\ p.serial = 0
           targets == monitor[q.by].targets
           one == [targets EXCEPT ![q.net] = aliases]
           all == [n \in Network |-> IF n \in r.listed THEN r.got[n] ELSE targets[n]]
<1>1. q.by \in Call /\ q.net \in Network /\ q \in Queries
  BY QueriesAre DEF MonitorOK, QueriesOK
<1>2. refresh[q.by] \in Refreshes /\ monitor[q.by] \in Monitors
  BY <1>1 DEF MonitorOK, RefreshesOK, MonitorsOK
<1>3. r \in Refreshes
  <2>1. refresh[q.by].got \in AliasMap
    BY <1>2, RefreshesAre
  <2>2. [refresh[q.by].got EXCEPT ![q.net] = aliases] \in AliasMap
    BY <1>1, <2>1, MapsAre
  <2>3. r = [refresh[q.by] EXCEPT !.got = [refresh[q.by].got EXCEPT ![q.net] = aliases]]
    BY <1>2 DEF Refreshes
  <2> QED BY <1>2, <2>2, <2>3, RefreshesAre
<1>4. targets \in AliasMap
  BY <1>2, MonitorsAre
<1>5. one \in AliasMap
  BY <1>1, <1>4, MapsAre
<1>6. all \in AliasMap
  <2>1. r.got \in AliasMap
    BY <1>3, RefreshesAre
  <2> HIDE DEF r, targets
  <2> QED BY <1>4, <2>1 DEF AliasMap
<1>7. [r EXCEPT !.phase = "done"] \in Refreshes
  BY <1>3, RefreshesAre DEF RefreshPhase
<1>8. query' = query \ {q}
  BY DEF Answered
<1>9. QueriesOK'
  BY <1>8, FS_RemoveElement DEF QueriesOK, MonitorOK
<1>10. \/ SetTargets(q.by, one) /\ UNCHANGED refresh
       \/ SetTargets(q.by, all) /\ refresh' = [refresh EXCEPT ![q.by] = [r EXCEPT !.phase = "done"]]
       \/ refresh' = [refresh EXCEPT ![q.by] = r] /\ UNCHANGED <<monitor, hosts, tunnelled>>
  BY DEF Answered
<1> HIDE DEF r, last, targets, one, all
<1>11. CASE SetTargets(q.by, one) /\ UNCHANGED refresh
  BY <1>1, <1>5, <1>9, <1>11, TargetsAreSet DEF MonitorOK, RefreshesOK
<1>12. CASE SetTargets(q.by, all) /\ refresh' = [refresh EXCEPT ![q.by] = [r EXCEPT !.phase = "done"]]
  <2>1. MonitorsOK' /\ HostsOK'
    BY <1>1, <1>6, <1>12, TargetsAreSet
  <2>2. RefreshesOK'
    BY <1>7, <1>12 DEF MonitorOK, RefreshesOK
  <2> QED BY <1>9, <2>1, <2>2
<1>13. CASE refresh' = [refresh EXCEPT ![q.by] = r] /\ UNCHANGED <<monitor, hosts, tunnelled>>
  BY <1>3, <1>9, <1>13 DEF MonitorOK, RefreshesOK, MonitorsOK, Made, HostsOK
<1> QED BY <1>10, <1>11, <1>12, <1>13

LEMMA QueryFailsTypes ==
    ASSUME MonitorOK, NEW q \in query, QueryFails(q)
    PROVE  MonitorsOK' /\ HostsOK' /\ QueriesOK' /\ RefreshesOK'
<1>1. QueriesOK'
  BY FS_RemoveElement DEF QueriesOK, MonitorOK, QueryFails
<1>2. RefreshesOK'
  <2>1. refresh[q.by] \in Refreshes => [refresh[q.by] EXCEPT !.phase = "failed"] \in Refreshes
    BY RefreshesAre DEF RefreshPhase
  <2>2. q.by \in Call
    BY QueriesAre DEF MonitorOK, QueriesOK
  <2> QED BY <2>1, <2>2 DEF QueryFails, MonitorOK, RefreshesOK
<1> QED BY <1>1, <1>2 DEF QueryFails, MonitorOK, MonitorsOK, Made, HostsOK

LEMMA InspectTypes ==
    ASSUME EngineOK, MonitorOK, NEW q \in query, NetworkInspected(q) \/ ContainersInspected(q)
    PROVE  MonitorOK'
<1>1. UNCHANGED <<stream, dns, call, registered, unsure>>
  BY DEF NetworkInspected, ContainersInspected
<1>2. SUFFICES MonitorsOK' /\ HostsOK' /\ QueriesOK' /\ RefreshesOK'
  BY <1>1 DEF MonitorOK, StreamOK, DnsOK, CallsOK, UnsureOK
<1>3. None \in Aliases
  BY MapsAre
<1>4. q.net \in Network /\ q \in Queries
  BY QueriesAre DEF MonitorOK, QueriesOK
<1>5. CASE NetworkInspected(q)
  <2>1. CASE QueryFails(q)
    BY <2>1, QueryFailsTypes
  <2>2. CASE Answered(q, None)
    BY <1>3, <2>2, AnswerTypes
  <2>3. CASE /\ query' = (query \ {q}) \cup {[q EXCEPT !.phase = "containers", !.seen = attached[q.net]]}
             /\ UNCHANGED <<monitor, hosts, tunnelled, refresh>>
    <3>1. attached[q.net] \in SUBSET Container
      BY <1>4 DEF EngineOK, NetworksOK
    <3>2. [q EXCEPT !.phase = "containers", !.seen = attached[q.net]] \in Queries
      BY <1>4, <3>1, QueriesAre
    <3>3. IsFiniteSet(query \ {q})
      BY FS_RemoveElement DEF MonitorOK, QueriesOK
    <3>4. QueriesOK'
      BY <2>3, <3>2, <3>3, FS_AddElement DEF MonitorOK, QueriesOK
    <3> QED BY <2>3, <3>4 DEF MonitorOK, MonitorsOK, Made, HostsOK, RefreshesOK
  <2> QED BY <1>5, <2>1, <2>2, <2>3 DEF NetworkInspected
<1>6. CASE ContainersInspected(q)
  <2>1. AliasesOf(q.net, q.seen) \in Aliases
    BY <1>4, QueriesAre DEF AliasesOf, Aliases
  <2> QED BY <1>6, <2>1, AnswerTypes DEF ContainersInspected
<1> QED BY <1>5, <1>6

LEMMA ListTypes ==
    ASSUME EngineOK, MonitorOK, NEW m \in Call, NetworksListed(m)
    PROVE  MonitorOK'
<1> DEFINE f == [n \in networks |-> [by |-> m, serial |-> 0, net |-> n, phase |-> "network", seen |-> {}]]
           phase == IF networks = {} THEN "done" ELSE "querying"
<1>1. networks \in SUBSET Network /\ IsFiniteSet(networks)
  BY EngineAssumption, FS_Subset DEF EngineOK, NetworksOK
<1>2. \A n \in networks : f[n] \in Queries
  BY <1>1 DEF Queries
<1>3. query' = query \cup {f[n] : n \in networks} /\ f = [n \in networks |-> f[n]]
  BY DEF NetworksListed
<1> HIDE DEF f
<1>4. QueriesOK'
  BY <1>1, <1>2, <1>3, QueriesAreAsked DEF MonitorOK
<1>5. RefreshesOK'
  <2> DEFINE r == [refresh[m] EXCEPT !.phase = phase, !.listed = networks]
  <2>1. refresh[m] \in Refreshes
    BY DEF MonitorOK, RefreshesOK
  <2>2. r \in Refreshes
    BY <1>1, <2>1 DEF Refreshes, RefreshPhase
  <2>3. refresh' = [refresh EXCEPT ![m] = r]
    BY <2>1 DEF NetworksListed, MonitorOK, RefreshesOK
  <2> HIDE DEF r
  <2> QED BY <2>2, <2>3 DEF MonitorOK, RefreshesOK
<1>6. UnsureOK'
  BY <1>1 DEF NetworksListed, MonitorOK, UnsureOK
<1>7. UNCHANGED <<stream, dns, hosts, call, registered, monitor, tunnelled>>
  BY DEF NetworksListed
<1> QED BY <1>4, <1>5, <1>6, <1>7 DEF MonitorOK, StreamOK, DnsOK, HostsOK, CallsOK, MonitorsOK, Made

LEMMA CloseTypes == MonitorOK /\ StreamCloses => MonitorOK'
<1> SUFFICES ASSUME MonitorOK, StreamCloses PROVE MonitorOK'
  OBVIOUS
<1>1. UNCHANGED <<dns, hosts, call, query, refresh, tunnelled, unsure>>
  BY DEF StreamCloses
<1>2. StreamOK'
  BY DEF StreamCloses, MonitorOK, StreamOK, Streams
<1>3. MonitorsOK' /\ CallsOK'
  <2>1. CASE StopMonitor
    BY <1>1, <2>1, MonitorStops DEF MonitorOK, CallsOK
  <2>2. CASE UNCHANGED <<registered, monitor>>
    BY <1>1, <2>2 DEF MonitorOK, MonitorsOK, Made, CallsOK
  <2> QED BY <2>1, <2>2 DEF StreamCloses
<1> QED BY <1>1, <1>2, <1>3 DEF MonitorOK, DnsOK, HostsOK, QueriesOK, RefreshesOK, UnsureOK

LEMMA ServiceMonitorTypes ==
    MonitorOK /\ (AsksMonitor \/ StopsMonitor \/ LosesMonitors \/ UNCHANGED monitorVars) => MonitorOK'
<1> SUFFICES ASSUME MonitorOK, AsksMonitor \/ StopsMonitor \/ LosesMonitors \/ UNCHANGED monitorVars
             PROVE  MonitorOK'
  OBVIOUS
<1>1. CASE UNCHANGED monitorVars
  BY <1>1 DEF monitorVars, MonitorOK, StreamOK, DnsOK, HostsOK, CallsOK, MonitorsOK, Made,
              QueriesOK, RefreshesOK, UnsureOK
<1>2. CASE AsksMonitor
  <2>1. UNCHANGED <<stream, hosts, registered, monitor, query, refresh, tunnelled, unsure>>
    BY <1>2 DEF AsksMonitor, KeepsMonitor
  <2>2. DnsOK'
    BY <1>2 DEF AsksMonitor, MonitorOK, DnsOK
  <2>3. call' \in [Call -> CallPhase]
    BY <1>2 DEF AsksMonitor, AskMonitor, MonitorOK, CallsOK, CallPhase
  <2> QED BY <2>1, <2>2, <2>3
          DEF MonitorOK, StreamOK, HostsOK, CallsOK, MonitorsOK, Made, QueriesOK, RefreshesOK, UnsureOK
<1>3. CASE StopsMonitor
  <2>1. MonitorsOK' /\ registered' = None
    BY <1>3, MonitorStops DEF StopsMonitor, MonitorOK
  <2> QED BY <1>3, <2>1 DEF StopsMonitor, MonitorOK, StreamOK, DnsOK, HostsOK, CallsOK, QueriesOK,
                           RefreshesOK, UnsureOK
<1>4. CASE LosesMonitors
  <2>1. StreamOK' /\ DnsOK'
    BY <1>4 DEF LosesMonitors, MonitorOK, StreamOK, Streams, DnsOK
  <2>2. HostsOK' /\ UnsureOK'
    BY <1>4, MapsAre DEF LosesMonitors, MonitorOK, HostsOK, UnsureOK
  <2>3. CallsOK'
    BY <1>4 DEF LosesMonitors, MonitorOK, CallsOK, CallPhase
  <2>4. QueriesOK'
    BY <1>4, FS_EmptySet DEF LosesMonitors, QueriesOK
  <2>5. RefreshesOK'
    <3>1. NoRefresh \in Refreshes
      BY MapsAre DEF Refreshes, NoRefresh, RefreshPhase
    <3> QED BY <1>4, <3>1 DEF LosesMonitors, RefreshesOK
  <2>6. MonitorsOK'
    <3> DEFINE f == [m \in Call |-> IF monitor[m].state = "on"
                                    THEN [monitor[m] EXCEPT !.state = "stopped"] ELSE monitor[m]]
    <3>1. \A m \in Call : f[m] \in Monitors /\ (monitor[m].state = "none" => f[m].state = "none")
      BY MonitorsAre DEF MonitorOK, MonitorsOK
    <3>2. monitor' = f
      BY <1>4 DEF LosesMonitors
    <3>3. monitor' = [m \in Call |-> f[m]]
      BY <3>2
    <3> HIDE DEF f
    <3> QED BY <3>1, <3>3, MonitorsChange DEF MonitorOK
  <2> QED BY <2>1, <2>2, <2>3, <2>4, <2>5, <2>6 DEF MonitorOK
<1> QED BY <1>1, <1>2, <1>3, <1>4

LEMMA MonitorStays == EngineOK /\ MonitorOK /\ MonitorMoves => MonitorOK'
<1> SUFFICES ASSUME EngineOK, MonitorOK, MonitorMoves PROVE MonitorOK'
  OBVIOUS
<1>1. CASE EventStep
  BY <1>1, EventTypes, InspectTypes, ListTypes, CloseTypes DEF EventStep
<1> QED BY <1>1, StartupTypes, ServiceMonitorTypes DEF MonitorMoves

(***************************************************************************)
(* Sessions and deletions.                                                 *)
(***************************************************************************)
ProxyState == {"none", "creating", "ready", "failed", "destroyed"}
SessionOK ==
    /\ session \in [Session -> {"new", "running", "stopped"}]
    /\ rule \in Session \cup {None}
    /\ proxyMap \in Session \cup {None}
    /\ proxy \in [Session -> ProxyState]
    /\ proxyStop \in [Session -> Session \cup {None}]
    /\ overlap \in BOOLEAN

Key == {"port", "all"}
Deletions == [phase : DeletionPhase, found : SUBSET Container, on : Deletion \cup {None},
              rejected : BOOLEAN]
DeletionOK ==
    /\ deletion \in [Deletion -> Deletions]
    /\ pending \in [Key -> Deletion \cup {None}]

\* A session has no deletion before it stops; deletions wait for those of their key.
DeletionsFollow ==
    /\ \A s \in Session : session[s] # "stopped" => deletion[s].phase = "none"
    /\ \A d \in Deletion : deletion[d].phase = "joined" =>
          deletion[d].on \in Deletion /\ KeyOf(deletion[d].on) = KeyOf(d)

DeletionInv == SessionOK /\ DeletionOK /\ DeletionsFollow /\ PendingIsLive

LEMMA DeletionInitially == Init => DeletionInv
<1> SUFFICES ASSUME Init PROVE DeletionInv
  OBVIOUS
<1>1. SessionOK
  BY DEF Init, SessionOK, ProxyState
<1>2. DeletionOK
  BY DEF Init, DeletionOK, Deletions, DeletionPhase, Key
<1>3. DeletionsFollow
  BY DEF Init, DeletionsFollow, Deletion
<1>4. PendingIsLive
  BY DEF Init, PendingIsLive
<1> QED BY <1>1, <1>2, <1>3, <1>4 DEF DeletionInv

LEMMA OnlyServicesMove ==
    [Next]_vars =>
        \/ UNCHANGED <<session, rule, proxyMap, proxy, proxyStop, pending, deletion, overlap>>
        \/ SessionStep \/ ProxyStep \/ DeletionStep \/ Restart
<1> SUFFICES ASSUME [Next]_vars, ~SessionStep, ~ProxyStep, ~DeletionStep, ~Restart
             PROVE  UNCHANGED <<session, rule, proxyMap, proxy, proxyStop, pending, deletion, overlap>>
  OBVIOUS
<1>1. CASE UNCHANGED serviceVars
  BY <1>1 DEF serviceVars
<1>2. CASE RequestStep
  BY <1>2 DEF RequestStep, KeepsLifecycle, ClientRefused, ClientServed, ImageInspected, StartChecked,
              AttachInspected, AttachStopped, AttachRemoved, VolumeNamed, ContainerMade,
              NetworksConnected, Started
<1>3. CASE RequestArrives
  BY <1>3 DEF RequestArrives, KeepsLifecycle, ClientAsks, Activate
<1>4. CASE UNCHANGED vars
  BY <1>1, <1>4 DEF vars
<1> QED BY <1>1, <1>2, <1>3, <1>4 DEF Next

LEMMA SessionStays == SessionOK /\ [Next]_vars => SessionOK'
<1> SUFFICES ASSUME SessionOK, [Next]_vars PROVE SessionOK'
  OBVIOUS
<1> USE DEF SessionOK, ProxyState
<1>1. CASE UNCHANGED <<session, rule, proxyMap, proxy, proxyStop, pending, deletion, overlap>>
  BY <1>1
<1>2. ASSUME NEW s \in Session, StartSession(s) PROVE SessionOK'
  <2>1. UNCHANGED proxyStop /\ rule' = s /\ session' = [session EXCEPT ![s] = "running"]
    BY <1>2 DEF StartSession
  <2>2. \/ proxyMap' = s /\ proxy' = [proxy EXCEPT ![s] = "creating"]
        \/ UNCHANGED <<proxyMap, proxy>>
    BY <1>2 DEF StartSession
  <2>3. overlap' \in BOOLEAN
    BY <1>2 DEF StartSession
  <2> QED BY <2>1, <2>2, <2>3
<1>3. ASSUME NEW s \in Session, StopSession(s) PROVE SessionOK'
  <2>1. UNCHANGED rule /\ session' = [session EXCEPT ![s] = "stopped"]
    BY <1>3 DEF StopSession
  <2>2. \/ proxyMap' = None /\ proxy' = [proxy EXCEPT ![proxyMap] = "destroyed"] /\ UNCHANGED proxyStop
        \/ UNCHANGED <<proxyMap, proxy>> /\ \E p \in {proxyMap, None} : proxyStop' = [proxyStop EXCEPT ![s] = p]
    BY <1>3 DEF StopSession, Destroy
  <2>3. overlap' \in BOOLEAN
    BY <1>3 DEF StopSession
  <2> QED BY <2>1, <2>2, <2>3
<1>4. ASSUME NEW e \in Everything \cup Deactivation, Deactivate(e) PROVE SessionOK'
  BY <1>4 DEF Deactivate
<1>5. CASE ProxyStep
  BY <1>5 DEF ProxyStep, ProxyReady, ProxyFails, ProxyStopped, Destroy
<1>6. ASSUME NEW d \in Deletion,
             \/ DeletionAvailable(d) \/ DeletionUnavailable(d) \/ ContainersListed(d)
             \/ \E c \in Container : ContainerDeleted(d, c)
             \/ ImagesAsked(d) \/ DeletionEnds(d) \/ DeletionFails(d) \/ TunnelNotStopped(d)
      PROVE  SessionOK'
  <2>1. UNCHANGED <<session, proxyMap, proxy, proxyStop>>
    BY <1>6 DEF KeepsServices, KeepsSessions, Refused, DeletionAvailable, DeletionUnavailable,
               ContainersListed, ContainerDeleted, ImagesAsked, DeletionEnds, DeletionFails, TunnelNotStopped
  <2>2. rule' \in {rule, None}
    BY <1>6 DEF Ends, DeletionAvailable, DeletionUnavailable,
               ContainersListed, ContainerDeleted, ImagesAsked, DeletionEnds, DeletionFails, TunnelNotStopped
  <2>3. overlap' = overlap \/ overlap' = TRUE
    BY <1>6 DEF KeepsServices, Refused, DeletionAvailable, DeletionUnavailable,
               ContainersListed, ContainerDeleted, ImagesAsked, DeletionEnds, DeletionFails, TunnelNotStopped
  <2> QED BY <2>1, <2>2, <2>3
<1>7. CASE Restart
  BY <1>7 DEF Restart
<1> QED BY <1>1, <1>2, <1>3, <1>4, <1>5, <1>6, <1>7, OnlyServicesMove DEF SessionStep, DeletionStep

LEMMA DeletionGoesOn ==
    ASSUME NEW r \in Deletions, NEW phase \in DeletionPhase
    PROVE  /\ [r EXCEPT !.phase = phase] \in Deletions
           /\ [r EXCEPT !.phase = phase].phase = phase
           /\ [r EXCEPT !.phase = phase].on = r.on
           /\ [r EXCEPT !.phase = phase].found = r.found
BY DEF Deletions

\* A deletion that asks becomes available, fails, or joins the one that is pending.
LEMMA AskedDeletion ==
    ASSUME DeletionOK, NEW d \in Deletion, AskDeletion(d)
    PROVE  /\ deletion' \in [Deletion -> Deletions]
           /\ \A j \in Deletion \ {d} : deletion'[j] = deletion[j]
           /\ deletion'[d].rejected = deletion[d].rejected
           /\ \/ deletion'[d].phase = "available" /\ pending[KeyOf(d)] = None
              \/ deletion'[d].phase = "failed" /\ pending[KeyOf(d)] \in Deletion
                 /\ \/ deletion[pending[KeyOf(d)]].phase = "failed"
                    \/ deletion[pending[KeyOf(d)]].rejected
              \/ deletion'[d].phase = "joined" /\ pending[KeyOf(d)] \in Deletion
                 /\ deletion'[d].on = pending[KeyOf(d)]
                 /\ deletion[pending[KeyOf(d)]].phase # "failed"
<1> DEFINE p == pending[KeyOf(d)]
           rec == IF p = None THEN [deletion[d] EXCEPT !.phase = "available"]
                  ELSE IF deletion[p].phase = "failed" \/ deletion[p].rejected THEN [deletion[d] EXCEPT !.phase = "failed"]
                  ELSE [deletion[d] EXCEPT !.phase = "joined", !.on = p]
<1>1. KeyOf(d) \in Key /\ p \in Deletion \cup {None}
  BY DEF KeyOf, Key, DeletionOK
<1>2. deletion' = [deletion EXCEPT ![d] = rec]
  BY DEF AskDeletion
<1>3. /\ deletion[d] \in Deletions
      /\ "available" \in DeletionPhase /\ "failed" \in DeletionPhase /\ "joined" \in DeletionPhase
  BY DEF DeletionOK, DeletionPhase
<1>7. deletion'[d].rejected = deletion[d].rejected
  BY <1>2, <1>3 DEF DeletionOK, Deletions
<1> HIDE DEF p
<1>4. CASE p = None
  <2>1. rec = [deletion[d] EXCEPT !.phase = "available"]
    BY <1>4
  <2> HIDE DEF rec
  <2>2. rec \in Deletions /\ rec.phase = "available"
    BY ONLY <1>3, <2>1, DeletionGoesOn
  <2> QED BY <1>2, <1>4, <1>7, <2>2 DEF DeletionOK, p
<1>5. CASE p # None /\ (deletion[p].phase = "failed" \/ deletion[p].rejected)
  <2>1. rec = [deletion[d] EXCEPT !.phase = "failed"]
    BY <1>5
  <2> HIDE DEF rec
  <2>2. rec \in Deletions /\ rec.phase = "failed"
    BY <1>3, <2>1, DeletionGoesOn
  <2> QED BY <1>1, <1>2, <1>5, <1>7, <2>2 DEF DeletionOK, p
<1>6. CASE p # None /\ deletion[p].phase # "failed" /\ ~deletion[p].rejected
  <2>1. rec = [deletion[d] EXCEPT !.phase = "joined", !.on = p]
    BY <1>6
  <2>2. rec \in Deletions /\ rec.phase = "joined" /\ rec.on = p
    BY <1>1, <1>3, <1>6, <2>1 DEF Deletions
  <2> HIDE DEF rec
  <2> QED BY <1>1, <1>2, <1>6, <1>7, <2>2 DEF DeletionOK, p
<1> QED BY <1>4, <1>5, <1>6

LEMMA SessionHasKey ==
    /\ None \notin Deletion
    /\ \A s \in Session : s \in Deletion /\ KeyOf(s) = "port"
    /\ \A e \in Everything \cup Deactivation : e \in Deletion /\ e \notin Session
    /\ \A d \in Deletion : KeyOf(d) \in Key
BY ServicesAssumption, MonitorAssumption DEF Deletion, KeyOf, Key

LEMMA AskStays ==
    ASSUME DeletionInv, NEW d \in Deletion, deletion[d].phase = "none", AskDeletion(d),
           UNCHANGED pending,
           \A s \in Session \ {d} : session'[s] = "stopped" <=> session[s] = "stopped",
           d \in Session => session'[d] = "stopped"
    PROVE  DeletionOK' /\ DeletionsFollow' /\ PendingIsLive'
<1> USE DEF DeletionInv
<1>1. DeletionOK'
  BY AskedDeletion DEF DeletionOK
<1>2. DeletionsFollow'
  <2>1. \A s \in Session : session'[s] # "stopped" => deletion'[s].phase = "none"
    BY AskedDeletion, SessionHasKey DEF DeletionsFollow
  <2>2. pending[KeyOf(d)] # None => KeyOf(pending[KeyOf(d)]) = KeyOf(d)
    BY SessionHasKey DEF PendingIsLive, DeletionOK
  <2>3. \A j \in Deletion : deletion'[j].phase = "joined" =>
          deletion'[j].on \in Deletion /\ KeyOf(deletion'[j].on) = KeyOf(j)
    BY <2>2, AskedDeletion, SessionHasKey DEF DeletionsFollow
  <2> QED BY <2>1, <2>3 DEF DeletionsFollow
<1>3. PendingIsLive'
  <2>1. \A k \in Key : pending[k] # None => pending[k] \in Deletion \ {d}
    BY DEF PendingIsLive, Deleting, DeletionOK
  <2> QED BY <2>1, AskedDeletion DEF PendingIsLive, DeletionOK
<1> QED BY <1>1, <1>2, <1>3

\* What ends: d, and what has joined it.
LEMMA EndedDeletions ==
    ASSUME DeletionOK, NEW d \in Deletion, NEW phase \in {"done", "failed"}, Ends(d, phase)
    PROVE  /\ deletion' \in [Deletion -> Deletions]
           /\ deletion'[d].phase = phase
           /\ \A j \in Deletion :
                 \/ deletion'[j] = deletion[j]
                 \/ /\ deletion'[j].phase = phase
                    /\ j = d \/ (deletion[j].phase = "joined" /\ deletion[j].on = d)
<1> DEFINE ended == {d} \cup {j \in Deletion : deletion[j].phase = "joined" /\ deletion[j].on = d}
<1>1. deletion' = [j \in Deletion |->
                     IF j \in ended THEN [deletion[j] EXCEPT !.phase = phase] ELSE deletion[j]]
  BY DEF Ends
<1>2. phase \in DeletionPhase
  BY DEF DeletionPhase
<1>3. \A j \in Deletion : [deletion[j] EXCEPT !.phase = phase] \in Deletions
                          /\ [deletion[j] EXCEPT !.phase = phase].phase = phase
  BY <1>2, DeletionGoesOn DEF DeletionOK
<1>4. \A j \in Deletion : deletion'[j] = IF j \in ended THEN [deletion[j] EXCEPT !.phase = phase]
                                         ELSE deletion[j]
  BY <1>1
<1>5. \A j \in Deletion :
          j \in ended <=> (j = d \/ (deletion[j].phase = "joined" /\ deletion[j].on = d))
  OBVIOUS
<1> HIDE DEF ended
<1>6. \A j \in Deletion : deletion'[j] \in Deletions
  BY <1>3, <1>4 DEF DeletionOK
<1>7. deletion' \in [Deletion -> Deletions]
  BY <1>1, <1>6
<1> QED BY <1>3, <1>4, <1>5, <1>7

LEMMA EndStays ==
    ASSUME DeletionInv, NEW d \in Deletion, NEW phase \in {"done", "failed"}, Ends(d, phase),
           deletion[d].phase # "none", UNCHANGED session,
           \A k \in Key : \/ pending'[k] = None
                          \/ pending'[k] = pending[k] /\ (pending[k] = d => phase = "failed"),
           pending' \in [Key -> Deletion \cup {None}]
    PROVE  DeletionOK' /\ DeletionsFollow' /\ PendingIsLive'
<1> USE DEF DeletionInv
<1>1. DeletionOK'
  BY EndedDeletions DEF DeletionOK
<1>2. DeletionsFollow'
  <2>1. \A s \in Session : session[s] # "stopped" => deletion'[s].phase = "none"
    BY EndedDeletions, SessionHasKey DEF DeletionsFollow
  <2> QED BY <2>1, EndedDeletions DEF DeletionsFollow
<1>3. PendingIsLive'
  <2>1. SUFFICES ASSUME NEW k \in Key, pending'[k] # None
                 PROVE  /\ KeyOf(pending'[k]) = k
                        /\ deletion'[pending'[k]].phase \in Deleting \cup {"failed"}
    BY DEF PendingIsLive
  <2>2. pending'[k] = pending[k] /\ pending[k] \in Deletion /\ (pending[k] = d => phase = "failed")
    BY <2>1 DEF DeletionOK
  <2>3. KeyOf(pending[k]) = k /\ deletion[pending[k]].phase \in Deleting \cup {"failed"}
    BY <2>2, SessionHasKey DEF PendingIsLive, DeletionOK
  <2> QED BY <2>2, <2>3, EndedDeletions DEF Deleting
<1> QED BY <1>1, <1>2, <1>3

\* A deletion that stays under way, or starts to list.
LEMMA UnderWayStays ==
    ASSUME DeletionInv, NEW d \in Deletion, NEW rec \in Deletions,
           deletion' = [deletion EXCEPT ![d] = rec], UNCHANGED session,
           deletion[d].phase \in {"available"} \cup Deleting, rec.phase \in Deleting,
           pending' \in {pending, [pending EXCEPT ![KeyOf(d)] = d]}
    PROVE  DeletionOK' /\ DeletionsFollow' /\ PendingIsLive'
<1> USE DEF DeletionInv
<1>1. DeletionOK'
  BY DEF DeletionOK
<1>2. DeletionsFollow'
  <2>1. \A s \in Session : session[s] # "stopped" => deletion'[s].phase = "none"
    BY SessionHasKey DEF DeletionsFollow, DeletionOK, Deleting
  <2> QED BY <2>1 DEF DeletionsFollow, DeletionOK, Deleting
<1>3. PendingIsLive'
  <2>1. SUFFICES ASSUME NEW k \in Key, pending'[k] # None
                 PROVE  /\ KeyOf(pending'[k]) = k
                        /\ deletion'[pending'[k]].phase \in Deleting \cup {"failed"}
    BY <1>1 DEF PendingIsLive, DeletionOK
  <2>2. CASE pending'[k] = d /\ k = KeyOf(d)
    BY <2>2 DEF DeletionOK
  <2>3. CASE pending'[k] = pending[k]
    <3>1. pending[k] \in Deletion /\ KeyOf(pending[k]) = k
      BY <2>1, <2>3 DEF PendingIsLive, DeletionOK
    <3>2. deletion[pending[k]].phase \in Deleting \cup {"failed"}
      BY <2>1, <2>3 DEF PendingIsLive, DeletionOK
    <3> QED BY <2>3, <3>1, <3>2 DEF DeletionOK
  <2> QED BY <2>2, <2>3 DEF DeletionOK
<1> QED BY <1>1, <1>2, <1>3

LEMMA DeletionStepStays ==
    ASSUME DeletionInv, SessionOK', NEW d \in Deletion,
           \/ DeletionAvailable(d) \/ DeletionUnavailable(d) \/ ContainersListed(d)
           \/ \E c \in Container : ContainerDeleted(d, c)
           \/ ImagesAsked(d) \/ DeletionEnds(d) \/ DeletionFails(d) \/ TunnelNotStopped(d)
    PROVE  DeletionInv'
<1> SUFFICES DeletionOK' /\ DeletionsFollow' /\ PendingIsLive'
  BY DEF DeletionInv
<1>1. UNCHANGED session
  BY DEF KeepsServices, KeepsSessions, Refused, DeletionAvailable, DeletionUnavailable,
         ContainersListed, ContainerDeleted, ImagesAsked, DeletionEnds, DeletionFails, TunnelNotStopped
<1>2. deletion[d] \in Deletions
  BY DEF DeletionInv, DeletionOK
<1>3. CASE DeletionAvailable(d)
  <2> DEFINE rec == [deletion[d] EXCEPT !.phase = "listing"]
  <2>1. rec \in Deletions /\ rec.phase \in Deleting
    BY <1>2, DeletionGoesOn DEF DeletionPhase, Deleting
  <2>2. deletion' = [deletion EXCEPT ![d] = rec] /\ pending' = [pending EXCEPT ![KeyOf(d)] = d]
    BY <1>3 DEF DeletionAvailable, Phase
  <2>3. deletion[d].phase \in {"available"} \cup Deleting
    BY <1>3 DEF DeletionAvailable
  <2> HIDE DEF rec
  <2> QED BY <1>1, <2>1, <2>2, <2>3, UnderWayStays
<1>4. CASE ContainersListed(d)
  <2> DEFINE rec == [deletion[d] EXCEPT !.phase = "removing", !.found = Labelled]
  <2>1. Labelled \in SUBSET Container
    BY DEF Labelled
  <2>2. rec \in Deletions /\ rec.phase \in Deleting
    BY <1>2, <2>1 DEF Deletions, DeletionPhase, Deleting
  <2>3. deletion' = [deletion EXCEPT ![d] = rec]
    BY <1>2, <1>4 DEF ContainersListed, DeletionInv, DeletionOK
  <2>4. deletion[d].phase \in {"available"} \cup Deleting /\ pending' = pending
    BY <1>4 DEF ContainersListed, Deleting
  <2> HIDE DEF rec
  <2> QED BY <1>1, <2>2, <2>3, <2>4, UnderWayStays
<1>5. ASSUME NEW c \in Container, ContainerDeleted(d, c)
      PROVE  DeletionOK' /\ DeletionsFollow' /\ PendingIsLive'
  <2> DEFINE rec == [deletion[d] EXCEPT !.found = deletion[d].found \ {c}]
  <2>1. deletion[d].phase = "removing" /\ pending' = pending
    BY <1>5 DEF ContainerDeleted
  <2>2. rec \in Deletions /\ rec.phase \in Deleting
    BY <1>2, <2>1 DEF Deletions, Deleting
  <2>3. deletion' = [deletion EXCEPT ![d] = rec]
    BY <1>5 DEF ContainerDeleted
  <2>4. deletion[d].phase \in {"available"} \cup Deleting
    BY <2>1 DEF Deleting
  <2> HIDE DEF rec
  <2> QED BY <1>1, <2>1, <2>2, <2>3, <2>4, UnderWayStays
<1>6. CASE ImagesAsked(d)
  <2> DEFINE rec == [deletion[d] EXCEPT !.phase = "images"]
  <2>1. rec \in Deletions /\ rec.phase \in Deleting
    BY <1>2, DeletionGoesOn DEF DeletionPhase, Deleting
  <2>2. deletion' = [deletion EXCEPT ![d] = rec] /\ pending' = pending
    BY <1>6 DEF ImagesAsked, Phase
  <2>3. deletion[d].phase \in {"available"} \cup Deleting
    BY <1>6 DEF ImagesAsked, Deleting
  <2> HIDE DEF rec
  <2> QED BY <1>1, <2>1, <2>2, <2>3, UnderWayStays
<1>7. CASE DeletionUnavailable(d)
  <2>1. deletion[d].phase = "available" /\ Ends(d, "done") /\ pending' = pending
    BY <1>7 DEF DeletionUnavailable
  <2>2. \A k \in Key : pending[k] # d
    BY <2>1, SessionHasKey DEF DeletionInv, PendingIsLive, DeletionOK, Deleting
  <2> QED BY <1>1, <2>1, <2>2, EndStays DEF DeletionInv, DeletionOK
<1>8. CASE DeletionEnds(d)
  <2> DEFINE phase == IF deletion[d].rejected THEN "failed" ELSE "done"
  <2>1. deletion[d].phase = "images" /\ Ends(d, phase) /\ pending' = [pending EXCEPT ![KeyOf(d)] = None]
    BY <1>8 DEF DeletionEnds
  <2>2. \A k \in Key : pending[k] = d => k = KeyOf(d)
    BY SessionHasKey DEF DeletionInv, PendingIsLive, DeletionOK
  <2>3. pending' \in [Key -> Deletion \cup {None}]
    BY <2>1 DEF DeletionInv, DeletionOK
  <2>4. \A k \in Key : pending'[k] = None \/ (pending'[k] = pending[k] /\ pending[k] # d)
    BY <2>1, <2>2 DEF DeletionInv, DeletionOK
  <2> QED BY <1>1, <2>1, <2>3, <2>4, EndStays
<1>9. CASE DeletionFails(d)
  <2>1. deletion[d].phase # "none" /\ Ends(d, "failed") /\ pending' = pending
    BY <1>9 DEF DeletionFails
  <2> QED BY <1>1, <2>1, EndStays DEF DeletionInv, DeletionOK
<1>10. CASE TunnelNotStopped(d)
  <2>1. UNCHANGED <<session, pending>> /\ deletion \in [Deletion -> Deletions]
    BY <1>1, <1>10 DEF TunnelNotStopped, DeletionInv, DeletionOK
  <2>2. \A j \in Deletion : deletion'[j] =
            IF j = d THEN [deletion[d] EXCEPT !.rejected = TRUE]
            ELSE IF deletion[j].phase = "joined" /\ deletion[j].on = d
                 THEN [deletion[j] EXCEPT !.phase = "failed"] ELSE deletion[j]
    BY <1>10 DEF TunnelNotStopped
  <2>3. /\ [deletion[d] EXCEPT !.rejected = TRUE] \in Deletions
        /\ [deletion[d] EXCEPT !.rejected = TRUE].phase = deletion[d].phase
        /\ [deletion[d] EXCEPT !.rejected = TRUE].on = deletion[d].on
    BY <1>2 DEF Deletions
  <2>4. \A j \in Deletion : /\ [deletion[j] EXCEPT !.phase = "failed"] \in Deletions
                            /\ [deletion[j] EXCEPT !.phase = "failed"].phase = "failed"
    BY <2>1, DeletionGoesOn DEF DeletionPhase
  <2>5. /\ \A j \in Deletion : deletion'[j] \in Deletions
        /\ deletion' = [j \in Deletion |-> deletion'[j]]
    BY <1>10, <2>1, <2>2, <2>3, <2>4 DEF TunnelNotStopped
  <2>6. DeletionOK'
    BY <2>1, <2>5 DEF DeletionInv, DeletionOK
  <2>7. \A j \in Deletion :
            \/ deletion'[j].phase = deletion[j].phase /\ deletion'[j].on = deletion[j].on
            \/ deletion[j].phase = "joined" /\ deletion'[j].phase = "failed"
    BY <2>2, <2>3, <2>4
  <2>8. DeletionsFollow'
    BY <2>1, <2>7, SessionHasKey DEF DeletionInv, DeletionsFollow
  <2>9. PendingIsLive'
    <3>1. \A k \in Key : pending[k] # None => pending[k] \in Deletion
      BY DEF DeletionInv, DeletionOK
    <3> QED BY <2>1, <2>7, <3>1 DEF DeletionInv, DeletionOK, PendingIsLive, Deleting
  <2> QED BY <2>6, <2>8, <2>9
<1> QED BY <1>3, <1>4, <1>5, <1>6, <1>7, <1>8, <1>9, <1>10

LEMMA DeletionStays == DeletionInv /\ [Next]_vars => DeletionInv'
<1> SUFFICES ASSUME DeletionInv, [Next]_vars PROVE DeletionInv'
  OBVIOUS
<1>1. SessionOK'
  BY SessionStays DEF DeletionInv
<1>2. CASE UNCHANGED <<session, rule, proxyMap, proxy, proxyStop, pending, deletion, overlap>>
  BY <1>1, <1>2 DEF DeletionInv, DeletionOK, DeletionsFollow, PendingIsLive
<1>3. ASSUME NEW s \in Session, StartSession(s) PROVE DeletionInv'
  <2>1. UNCHANGED <<pending, deletion>> /\ session[s] = "new" /\ session' = [session EXCEPT ![s] = "running"]
    BY <1>3 DEF StartSession
  <2>2. \A t \in Session : session'[t] # "stopped" => session[t] # "stopped"
    BY <2>1 DEF DeletionInv, SessionOK
  <2> QED BY <1>1, <2>1, <2>2 DEF DeletionInv, DeletionOK, DeletionsFollow, PendingIsLive
<1>4. ASSUME NEW s \in Session, StopSession(s) PROVE DeletionInv'
  <2>1. UNCHANGED pending /\ AskDeletion(s) /\ session[s] = "running"
        /\ session' = [session EXCEPT ![s] = "stopped"]
    BY <1>4 DEF StopSession
  <2>2. deletion[s].phase = "none"
    BY <2>1 DEF DeletionInv, DeletionsFollow
  <2>3. /\ \A t \in Session \ {s} : session'[t] = "stopped" <=> session[t] = "stopped"
        /\ session'[s] = "stopped"
    BY <2>1 DEF DeletionInv, SessionOK
  <2> QED BY <1>1, <2>1, <2>2, <2>3, AskStays, SessionHasKey DEF DeletionInv
<1>5. ASSUME NEW e \in Everything \cup Deactivation, Deactivate(e) PROVE DeletionInv'
  <2>1. UNCHANGED <<pending, session>> /\ AskDeletion(e) /\ deletion[e].phase = "none"
    BY <1>5 DEF Deactivate
  <2> QED BY <1>1, <2>1, AskStays, SessionHasKey DEF DeletionInv
<1>6. CASE ProxyStep
  <2>1. UNCHANGED <<session, pending, deletion>>
    BY <1>6 DEF ProxyStep, ProxyReady, ProxyFails, ProxyStopped
  <2> QED BY <1>1, <2>1 DEF DeletionInv, DeletionOK, DeletionsFollow, PendingIsLive
<1>7. CASE DeletionStep
  BY <1>1, <1>7, DeletionStepStays DEF DeletionStep
<1>8. CASE Restart
  <2>1. /\ pending' = [k \in Key |-> None]
        /\ deletion' = [d \in Deletion |-> IF deletion[d].phase \in {"none", "done"} THEN deletion[d]
                                           ELSE [deletion[d] EXCEPT !.phase = "failed"]]
    BY <1>8 DEF Restart, Key
  <2>2. \A d \in Deletion : /\ [deletion[d] EXCEPT !.phase = "failed"] \in Deletions
                            /\ [deletion[d] EXCEPT !.phase = "failed"].phase = "failed"
    BY DeletionGoesOn DEF DeletionPhase, DeletionInv, DeletionOK
  <2>3. \A d \in Deletion : /\ deletion'[d] \in Deletions /\ deletion'[d].phase # "joined"
                            /\ deletion[d].phase = "none" => deletion'[d].phase = "none"
    BY <2>1, <2>2 DEF DeletionInv, DeletionOK
  <2>4. \A s \in Session : session'[s] # "stopped" => session[s] # "stopped"
    BY <1>8 DEF Restart
  <2>5. DeletionOK'
    BY <2>1, <2>3 DEF DeletionOK
  <2>6. DeletionsFollow'
    BY <2>3, <2>4, SessionHasKey DEF DeletionInv, DeletionsFollow
  <2>7. PendingIsLive'
    BY <2>1 DEF PendingIsLive
  <2> QED BY <1>1, <2>5, <2>6, <2>7 DEF DeletionInv
<1> QED BY <1>2, <1>3, <1>4, <1>5, <1>6, <1>7, <1>8, OnlyServicesMove DEF SessionStep

(***************************************************************************)
(* All of it.                                                              *)
(***************************************************************************)
DockerInv == VolumeInv /\ EngineOK /\ RequestsInv /\ MonitorOK /\ DeletionInv

LEMMA DockerInitially == Init => DockerInv
<1> SUFFICES ASSUME Init PROVE DockerInv
  OBVIOUS
<1>1. EngineOK
  <2>1. networks = Network /\ attached = [n \in Network |-> {}] /\ wire = <<>> /\ open = FALSE
        /\ container = [c \in Container |-> IF c \in Plain THEN [state |-> "running", label |-> FALSE]
                                            ELSE Absent]
    BY DEF Init, EngineInit
  <2>2. ContainersOK
    BY <2>1, ContainersAre DEF ContainersOK
  <2>3. wire \in Events
    BY <2>1, EmptySeq DEF Events
  <2> QED BY <2>1, <2>2, <2>3 DEF EngineOK, NetworksOK
<1>2. RequestsInv
  <2>1. NoRequest \in Requests /\ NoRequest.phase = "new"
    BY DEF NoRequest, Requests, RequestKind, RequestPhase
  <2> QED BY <2>1 DEF Init, RequestsInv, RequestTypeOK, RequestsAreOfContainers
<1> QED BY <1>1, <1>2, VolumeInitially, MonitorInitially, DeletionInitially DEF DockerInv

LEMMA DockerStays == DockerInv /\ [Next]_vars => DockerInv'
<1> SUFFICES ASSUME DockerInv, [Next]_vars PROVE DockerInv'
  OBVIOUS
<1>1. VolumeInv'
  BY OnlyVolumeMoves, VolumeStays DEF DockerInv
<1>2. networks \subseteq Network
  BY DEF DockerInv, EngineOK, NetworksOK
<1>3. EngineOK'
  BY <1>2, OnlyEngineMoves, EngineStays DEF DockerInv, RequestsInv
<1>4. RequestsInv'
  BY <1>2, OnlyRequestsMove, RequestsStay DEF DockerInv
<1>5. MonitorOK'
  BY OnlyMonitorMoves, MonitorStays DEF DockerInv
<1>6. DeletionInv'
  BY DeletionStays DEF DockerInv
<1> QED BY <1>1, <1>3, <1>4, <1>5, <1>6 DEF DockerInv

LEMMA DockerTypes == DockerInv => ServicesInv
<1> SUFFICES ASSUME DockerInv PROVE ServicesInv
  OBVIOUS
<1>1. EngineTypeOK
  BY DEF DockerInv, EngineOK, NetworksOK, ContainersOK, VolumeInv, EngineTypeOK, Events, Containers
<1>2. MonitorTypeOK
  BY DEF DockerInv, MonitorOK, StreamOK, DnsOK, HostsOK, CallsOK, MonitorsOK, QueriesOK, RefreshesOK,
         UnsureOK, MonitorTypeOK, Streams, AliasMap, Monitors, Queries, Refreshes, RefreshPhase
<1>3. VolumeTypeOK /\ PendingIsLive
  BY DEF DockerInv, VolumeInv, DeletionInv
<1>4. \A r \in Request : request[r].phase \in RequestPhase
  BY DEF DockerInv, RequestsInv, RequestTypeOK, Requests
<1>5. /\ pending \in [{"port", "all"} -> Deletion \cup {None}]
      /\ deletion \in [Deletion -> [phase : DeletionPhase, found : SUBSET Container,
                                    on : Deletion \cup {None}, rejected : BOOLEAN]]
  BY DEF DockerInv, DeletionInv, DeletionOK, Deletions, Key
<1> QED BY <1>1, <1>2, <1>3, <1>4, <1>5 DEF ServicesInv, ServicesTypeOK, DockerInv, DeletionInv, SessionOK, ProxyState

\* Every variable has its type, and a mark in pendingDeactivations is of a deletion of its
\* key that still runs or was rejected, whatever deletions overlap: a later call does not
\* wait for one that has succeeded (docker-interception-services.ts:147-158, 202-203).
THEOREM ServicesAlwaysInv == Spec => []ServicesInv
BY DockerInitially, DockerStays, DockerTypes, PTL DEF Spec

(***************************************************************************)
(* What a session leaves.                                                  *)
(***************************************************************************)

\* A monitor that listens and is not registered was not the only one.
LostIsNotAlone ==
    \A m \in Call : monitor[m].state = "on" /\ m # registered =>
        \E k \in Call \ {m} : monitor[k].state # "none"

ProxyIsThere == proxyMap # None => proxy[proxyMap] \in {"creating", "ready", "failed"}

\* No deletion was refused, and a stop did not have to wait for a proxy.
NothingRefused ==
    /\ \A d \in Deletion : deletion[d].phase # "failed" /\ ~deletion[d].rejected
    /\ \A s \in Session : proxyStop[s] = None

InFlight(d) == deletion[d].phase \in {"available", "listing", "removing", "images"}
Covers(d) ==
    \/ deletion[d].phase \in {"available", "listing"}
    \/ deletion[d].phase = "removing" /\ Labelled \subseteq deletion[d].found

\* While a session runs, the parameter is its own, and no stop is under way.
RunsAlone ==
    \A s \in Session : session[s] = "running" =>
        /\ rule = s
        /\ \A t \in Session : session[t] = "running" => t = s
        /\ \A t \in Session : deletion[t].phase \in {"none", "done"}

\* Once it was stopped, what is left is what its deletion still has to remove.
StopsCleanly ==
    Running = {} =>
        /\ ~Starting
        /\ registered = None
        /\ proxyMap # None => proxy[proxyMap] = "failed"
        /\ rule # None => InFlight(rule)
        /\ Labelled = {} \/ \E s \in Session : Covers(s)

LeavesInv ==
    /\ LostIsNotAlone /\ ProxyIsThere
    /\ ~overlap => NothingRefused /\ RunsAlone /\ StopsCleanly

\* How monitors start and stop.
StatesMove ==
    \/ registered' = registered /\ \A m \in Call : monitor'[m].state = monitor[m].state
    \/ \E k \in Call : /\ call[k] = "dns" /\ registered' = k /\ monitor'[k].state = "on"
                       /\ \A m \in Call \ {k} : monitor'[m].state = monitor[m].state
    \/ /\ registered' = None
       /\ \A m \in Call : monitor'[m].state = IF m = registered THEN "stopped" ELSE monitor[m].state
    \/ registered' = None /\ \A m \in Call : monitor'[m].state # "on"

LEMMA TargetsKeepState ==
    ASSUME MonitorOK, NEW m \in Call, NEW targets, SetTargets(m, targets), NEW k \in Call
    PROVE  monitor'[k].state = monitor[k].state
<1>1. monitor' = [monitor EXCEPT ![m].targets = targets]
  BY DEF SetTargets
<1>2. monitor[m] \in Monitors
  BY DEF MonitorOK, MonitorsOK
<1>3. monitor'[m].state = monitor[m].state
  BY <1>1, <1>2 DEF MonitorOK, MonitorsOK, Monitors
<1> QED BY <1>1, <1>3 DEF MonitorOK, MonitorsOK

LEMMA StopMoves ==
    ASSUME MonitorOK, StopMonitor
    PROVE  StatesMove
<1>1. CASE registered = None
  <2>1. registered' = registered /\ monitor' = monitor
    BY <1>1 DEF StopMonitor
  <2> QED BY <2>1 DEF StatesMove
<1>2. CASE registered # None
  <2>1. registered \in Call /\ monitor[registered] \in Monitors /\ monitor \in [Call -> Monitors]
    BY <1>2 DEF MonitorOK, CallsOK, MonitorsOK
  <2>2. registered' = None
        /\ monitor' = [monitor EXCEPT ![registered] = [monitor[registered] EXCEPT !.state = "stopped"]]
    BY <1>2 DEF StopMonitor
  <2>3. [monitor[registered] EXCEPT !.state = "stopped"].state = "stopped"
    BY <2>1, MonitorsAre
  <2>4. \A m \in Call : monitor'[m].state = IF m = registered THEN "stopped" ELSE monitor[m].state
    BY <2>1, <2>2, <2>3
  <2> QED BY <2>2, <2>4 DEF StatesMove
<1> QED BY <1>1, <1>2

\* A call that Docker is available for is given a stream, and no monitor yet.
AvailableMonitor(m) ==
    /\ monitor'[m].state = monitor[m].state /\ monitor'[m].targets = monitor[m].targets
    /\ monitor'[m].early = monitor[m].early

LEMMA AvailableKeeps ==
    ASSUME MonitorOK, NEW k \in Call, Available(k)
    PROVE  /\ UNCHANGED <<engineVars, hosts, registered, query, refresh, tunnelled, unsure>>
           /\ \A m \in Call : AvailableMonitor(m)
           /\ \A m \in Call \ {k} : monitor'[m] = monitor[m]
           /\ registered # None => stream' = stream /\ monitor' = monitor
           /\ registered = None => monitor'[k].stream = stream'.id
           /\ \A m \in Call : call'[m] \in {"new", "available", "dns"} =>
                                  call[m] \in {"new", "available", "dns"}
<1>1. monitor \in [Call -> Monitors] /\ call \in [Call -> CallPhase]
  BY DEF MonitorOK, MonitorsOK, CallsOK
<1>2. /\ UNCHANGED <<engineVars, hosts, registered, query, refresh, tunnelled, unsure>>
      /\ registered # None => stream' = stream /\ monitor' = monitor
      /\ registered = None => monitor' = [monitor EXCEPT ![k].stream = stream'.id]
      /\ call[k] = "available" /\ (call' = [call EXCEPT ![k] = "done"] \/ call' = [call EXCEPT ![k] = "dns"])
  BY DEF Available
<1>3. \A m \in Call \ {k} : monitor'[m] = monitor[m]
  BY <1>1, <1>2
<1>4. AvailableMonitor(k) /\ (registered = None => monitor'[k].stream = stream'.id)
  BY <1>1, <1>2 DEF Monitors, AvailableMonitor
<1> QED BY <1>1, <1>2, <1>3, <1>4 DEF AvailableMonitor

LEMMA OnlyStatesMove == MonitorOK /\ MonitorMoves => StatesMove
<1> SUFFICES ASSUME MonitorOK, MonitorMoves PROVE StatesMove
  OBVIOUS
<1>0. ASSUME UNCHANGED <<registered, monitor>> PROVE StatesMove
  BY <1>0 DEF StatesMove
<1>1. ASSUME NEW k \in Call, Register(k) PROVE StatesMove
  <2> DEFINE rec == [monitor[k] EXCEPT !.state = "on", !.targets = NoTargets, !.early = ~open]
  <2>1. call[k] = "dns" /\ registered' = k /\ monitor' = [monitor EXCEPT ![k] = rec]
    BY <1>1 DEF Register
  <2>2. rec.state = "on"
    BY DEF MonitorOK, MonitorsOK, Monitors
  <2> HIDE DEF rec
  <2>3. monitor'[k].state = "on" /\ \A m \in Call \ {k} : monitor'[m].state = monitor[m].state
    BY <2>1, <2>2 DEF MonitorOK, MonitorsOK
  <2> QED BY <2>1, <2>3 DEF StatesMove
<1>11. ASSUME NEW k \in Call, Available(k) PROVE StatesMove
  <2>1. registered' = registered /\ \A m \in Call : AvailableMonitor(m)
    BY <1>11, AvailableKeeps
  <2> QED BY <2>1 DEF StatesMove, AvailableMonitor
<1>2. CASE StartupStep
  <2>1. UNCHANGED <<registered, monitor>> \/ \E k \in Call : Register(k) \/ Available(k)
    BY <1>2 DEF StartupStep, Unavailable, CallFails, DnsStarts, DnsFails, StreamConnects, StreamFails
  <2> QED BY <2>1, <1>0, <1>1, <1>11
<1>3. CASE StreamCloses
  BY <1>0, <1>3, StopMoves DEF StreamCloses
<1>4. CASE EventArrives
  <2>1. registered' = registered
    BY <1>4 DEF EventArrives
  <2>2. ASSUME NEW e, Destroyed(e), NEW m \in Call PROVE monitor'[m].state = monitor[m].state
    <3>1. monitor[m] \in Monitors
      BY DEF MonitorOK, MonitorsOK
    <3> DEFINE t == Without(monitor[m].targets, e.net)
    <3>2. monitor'[m] = monitor[m] \/ monitor'[m] = [monitor[m] EXCEPT !.targets = t]
      BY <2>2 DEF Destroyed
    <3> HIDE DEF t
    <3> QED BY <3>1, <3>2 DEF Monitors
  <2>3. \A m \in Call : monitor'[m].state = monitor[m].state
    BY <1>4, <2>2 DEF EventArrives, Attached
  <2> QED BY <2>1, <2>3 DEF StatesMove
<1>5. CASE \E m \in Call : NetworksListed(m)
  BY <1>0, <1>5 DEF NetworksListed
<1>6. ASSUME NEW q \in query, NetworkInspected(q) \/ ContainersInspected(q) PROVE StatesMove
  <2>1. registered' = registered
    BY <1>6 DEF NetworkInspected, ContainersInspected
  <2>2. q.by \in Call
    BY QueriesAre DEF MonitorOK, QueriesOK
  <2>3. monitor' = monitor \/ \E targets : SetTargets(q.by, targets)
    BY <1>6 DEF NetworkInspected, ContainersInspected, QueryFails, Answered
  <2> QED BY <2>1, <2>2, <2>3, TargetsKeepState DEF StatesMove
<1>7. CASE AsksMonitor
  BY <1>0, <1>7 DEF AsksMonitor, KeepsMonitor
<1>8. CASE StopsMonitor
  BY <1>8, StopMoves DEF StopsMonitor
<1>9. CASE LosesMonitors
  <2>1. \A m \in Call : monitor'[m].state # "on"
    <3> SUFFICES ASSUME NEW m \in Call PROVE monitor'[m].state # "on"
      OBVIOUS
    <3>1. [monitor[m] EXCEPT !.state = "stopped"].state = "stopped"
      BY MonitorsAre DEF MonitorOK, MonitorsOK
    <3> QED BY <1>9, <3>1 DEF LosesMonitors
  <2>2. registered' = None
    BY <1>9 DEF LosesMonitors
  <2> QED BY <2>1, <2>2 DEF StatesMove
<1>10. CASE UNCHANGED monitorVars
  BY <1>0, <1>10 DEF monitorVars
<1> QED BY <1>2, <1>3, <1>4, <1>5, <1>6, <1>7, <1>8, <1>9, <1>10 DEF MonitorMoves, EventStep

LEMMA LostStays == MonitorOK /\ LostIsNotAlone /\ StatesMove => LostIsNotAlone'
BY DEF LostIsNotAlone, StatesMove, MonitorOK, CallsOK

LEMMA ProxyStays == SessionOK /\ ProxyIsThere /\ [Next]_vars => ProxyIsThere'
<1> SUFFICES ASSUME SessionOK, ProxyIsThere, [Next]_vars PROVE ProxyIsThere'
  OBVIOUS
<1> USE DEF SessionOK, ProxyIsThere
<1>1. CASE UNCHANGED <<proxyMap, proxy>>
  BY <1>1
<1>2. ASSUME NEW s \in Session, StartSession(s) PROVE ProxyIsThere'
  BY <1>2 DEF StartSession
<1>3. ASSUME NEW s \in Session, StopSession(s) PROVE ProxyIsThere'
  BY <1>3 DEF StopSession, Destroy
<1>4. CASE ProxyStep
  BY <1>4 DEF ProxyStep, ProxyReady, ProxyFails, ProxyStopped, Destroy
<1>5. CASE DeletionStep
  BY <1>1, <1>5 DEF DeletionStep, KeepsServices, KeepsSessions, Refused, DeletionAvailable,
              DeletionUnavailable, ContainersListed, ContainerDeleted, ImagesAsked, DeletionEnds, DeletionFails, TunnelNotStopped
<1>6. CASE Restart
  BY <1>6 DEF Restart
<1>7. ASSUME NEW e \in Everything \cup Deactivation, Deactivate(e) PROVE ProxyIsThere'
  BY <1>1, <1>7 DEF Deactivate
<1> QED BY <1>1, <1>2, <1>3, <1>4, <1>5, <1>6, <1>7, OnlyServicesMove DEF SessionStep

\* The steps after which nothing has overlapped.
CleanStep ==
    \/ UNCHANGED <<session, rule, proxyMap, proxy, proxyStop, pending, deletion>>
    \/ \E s \in Session : StartSession(s) /\ ~Starting /\ ~Stopping
    \/ \E s \in Session : StopSession(s) /\ ~Starting /\ ~Stopping
    \/ \E e \in Everything \cup Deactivation : Deactivate(e) /\ ~Starting
    \/ ProxyStep
    \/ \E d \in Deletion :
          \/ DeletionAvailable(d) \/ ContainersListed(d) \/ ImagesAsked(d) \/ DeletionEnds(d)
          \/ \E c \in Container : ContainerDeleted(d, c) /\ container' = [container EXCEPT ![c] = Absent]

LEMMA OverlapsStay == [Next]_vars /\ ~overlap' => ~overlap /\ ~Restart /\ CleanStep
<1> SUFFICES ASSUME [Next]_vars, ~overlap' PROVE ~overlap /\ ~Restart /\ CleanStep
  OBVIOUS
<1>1. CASE UNCHANGED <<session, rule, proxyMap, proxy, proxyStop, pending, deletion, overlap>>
  <2>1. ~Restart
    BY DEF Restart
  <2> QED BY <1>1, <2>1 DEF CleanStep
<1>2. ~Restart
  BY DEF Restart
<1>3. ASSUME NEW s \in Session, StartSession(s) PROVE ~overlap /\ ~Starting /\ ~Stopping
  BY <1>3 DEF StartSession
<1>4. ASSUME NEW s \in Session, StopSession(s) PROVE ~overlap /\ ~Starting /\ ~Stopping
  BY <1>4 DEF StopSession
<1>5. ASSUME NEW e \in Everything \cup Deactivation, Deactivate(e) PROVE ~overlap /\ ~Starting
  BY <1>5 DEF Deactivate
<1>6. CASE ProxyStep
  <2>1. ~overlap
    BY <1>6 DEF ProxyStep, ProxyReady, ProxyFails, ProxyStopped
  <2> QED BY <1>2, <1>6, <2>1 DEF CleanStep
<1>7. ASSUME NEW d \in Deletion, DeletionUnavailable(d) \/ DeletionFails(d) \/ TunnelNotStopped(d) PROVE FALSE
  BY <1>7 DEF DeletionUnavailable, DeletionFails, TunnelNotStopped, Refused
<1>8. ASSUME NEW d \in Deletion,
             DeletionAvailable(d) \/ ContainersListed(d) \/ ImagesAsked(d) \/ DeletionEnds(d)
      PROVE  ~overlap
  BY <1>8 DEF DeletionAvailable, ContainersListed, ImagesAsked, DeletionEnds, KeepsServices
<1>9. ASSUME NEW d \in Deletion, NEW c \in Container, ContainerDeleted(d, c)
      PROVE  ~overlap /\ container' = [container EXCEPT ![c] = Absent]
  BY <1>9 DEF ContainerDeleted, Refused, KeepsServices
<1>10. CASE SessionStep
  BY <1>2, <1>3, <1>4, <1>5, <1>10 DEF SessionStep, CleanStep
<1>11. CASE DeletionStep
  BY <1>2, <1>7, <1>8, <1>9, <1>11 DEF DeletionStep, CleanStep
<1> QED BY <1>1, <1>2, <1>6, <1>10, <1>11, OnlyServicesMove

\* The deletion that d's stop asks for is its own, when no other is under way.
LEMMA AskedAlone ==
    ASSUME DeletionInv, NothingRefused, ~Stopping, NEW s \in Session, AskDeletion(s)
    PROVE  /\ deletion'[s].phase = "available"
           /\ \A d \in Deletion \ {s} : deletion'[d] = deletion[d]
<1>1. pending["port"] = None
  <2>1. SUFFICES ASSUME pending["port"] \in Deletion PROVE FALSE
    BY DEF DeletionInv, DeletionOK, Key
  <2>2. deletion[pending["port"]].phase \in Deleting \cup {"failed"}
    BY <2>1, SessionHasKey DEF DeletionInv, PendingIsLive, DeletionOK, Key
  <2> QED BY <2>1, <2>2 DEF NothingRefused, Stopping, Deleting
<1>2. s \in Deletion /\ KeyOf(s) = "port"
  BY SessionHasKey
<1> QED BY <1>1, <1>2, AskedDeletion, SessionHasKey DEF DeletionInv

\* The end of a deletion that was not refused.
LEMMA DoneDeletion ==
    ASSUME DeletionInv, NothingRefused, NEW d \in Deletion, DeletionEnds(d)
    PROVE  /\ \A j \in Deletion :
                 \/ deletion'[j] = deletion[j]
                 \/ /\ deletion'[j].phase = "done" /\ KeyOf(j) = KeyOf(d)
                    /\ (j = d /\ deletion[j].phase = "images") \/ deletion[j].phase = "joined"
           /\ d \in Session => rule' = None
           /\ rule' \in {rule, None}
           /\ d \notin Session /\ (\A s \in Session : deletion[s].phase # "joined") => rule' = rule
           /\ \A j \in Deletion : deletion'[j].rejected = deletion[j].rejected
<1>1. deletion[d].phase = "images" /\ Ends(d, "done")
  BY DEF DeletionEnds, NothingRefused
<1>2. \A j \in Deletion : deletion[j].phase = "joined" /\ deletion[j].on = d => KeyOf(j) = KeyOf(d)
  BY DEF DeletionInv, DeletionsFollow
<1>3. d \in Session => rule' = None
  BY <1>1 DEF Ends
<1>4. /\ rule' \in {rule, None}
      /\ d \notin Session /\ (\A s \in Session : deletion[s].phase # "joined") => rule' = rule
  BY <1>1 DEF Ends
<1>6. \A j \in Deletion : deletion'[j].rejected = deletion[j].rejected
  BY <1>1 DEF Ends, DeletionInv, DeletionOK, Deletions
<1>5. \A j \in Deletion :
          \/ deletion'[j] = deletion[j]
          \/ /\ deletion'[j].phase = "done"
             /\ j = d \/ (deletion[j].phase = "joined" /\ deletion[j].on = d)
  BY <1>1, EndedDeletions DEF DeletionInv
<1> QED BY <1>1, <1>2, <1>3, <1>4, <1>5, <1>6

\* A deletion that goes on, by one step of its own.
LEMMA GoingDeletion ==
    ASSUME DeletionInv, NEW d \in Deletion,
           \/ DeletionAvailable(d) \/ ContainersListed(d) \/ ImagesAsked(d)
           \/ \E c \in Container : ContainerDeleted(d, c)
    PROVE  /\ deletion[d].phase \in {"available", "listing", "removing"}
           /\ deletion'[d].phase \in Deleting
           /\ \A j \in Deletion \ {d} : deletion'[j] = deletion[j]
           /\ deletion'[d].rejected = deletion[d].rejected
           /\ UNCHANGED rule
<1>0. deletion[d] \in Deletions
  BY DEF DeletionInv, DeletionOK
<1>5. deletion'[d].rejected = deletion[d].rejected
  BY <1>0 DEF DeletionInv, DeletionOK, Deletions, DeletionAvailable, ContainersListed, ImagesAsked, ContainerDeleted, Phase
<1>1. CASE DeletionAvailable(d)
  BY <1>0, <1>1, DeletionGoesOn DEF DeletionInv, DeletionOK, DeletionAvailable, Phase, Deleting, DeletionPhase
<1>2. CASE ContainersListed(d)
  <2>1. [deletion[d] EXCEPT !.phase = "removing", !.found = Labelled].phase = "removing"
    BY <1>0 DEF Deletions
  <2>2. deletion' = [deletion EXCEPT ![d] = [deletion[d] EXCEPT !.phase = "removing", !.found = Labelled]]
    BY <1>0, <1>2 DEF ContainersListed, DeletionInv, DeletionOK
  <2> QED BY <1>2, <2>1, <2>2 DEF DeletionInv, DeletionOK, ContainersListed, Deleting
<1>3. CASE ImagesAsked(d)
  BY <1>0, <1>3, DeletionGoesOn DEF DeletionInv, DeletionOK, ImagesAsked, Phase, Deleting, DeletionPhase
<1>4. ASSUME NEW c \in Container, ContainerDeleted(d, c)
      PROVE  /\ deletion[d].phase = "removing" /\ deletion'[d].phase = "removing"
             /\ \A j \in Deletion \ {d} : deletion'[j] = deletion[j]
             /\ UNCHANGED rule
  <2>1. [deletion[d] EXCEPT !.found = @ \ {c}].phase = deletion[d].phase
    BY <1>0 DEF Deletions
  <2> QED BY <1>4, <2>1 DEF DeletionInv, DeletionOK, ContainerDeleted
<1> QED BY <1>1, <1>2, <1>3, <1>4, <1>5 DEF Deleting

LEMMA NothingIsRefused ==
    ASSUME DeletionInv, NothingRefused, CleanStep
    PROVE  NothingRefused'
<1>1. CASE UNCHANGED <<session, rule, proxyMap, proxy, proxyStop, pending, deletion>>
  BY <1>1 DEF NothingRefused
<1>2. ASSUME NEW s \in Session, StartSession(s) PROVE NothingRefused'
  BY <1>2 DEF StartSession, NothingRefused
<1>3. ASSUME NEW s \in Session, StopSession(s), ~Starting, ~Stopping PROVE NothingRefused'
  <2>1. \A d \in Deletion : deletion'[d].phase # "failed" /\ ~deletion'[d].rejected
    BY <1>3, AskedAlone, AskedDeletion, SessionHasKey DEF StopSession, NothingRefused, DeletionInv
  <2>2. ~(proxyMap # None /\ proxy[proxyMap] = "creating")
    BY <1>3 DEF Starting, DeletionInv, SessionOK
  <2>3. proxyStop' = proxyStop \/ proxyStop' = [proxyStop EXCEPT ![s] = None]
    BY <1>3, <2>2 DEF StopSession
  <2> QED BY <2>1, <2>3 DEF NothingRefused, DeletionInv, SessionOK
<1>4. ASSUME NEW e \in Everything \cup Deactivation, Deactivate(e) PROVE NothingRefused'
  <2>1. pending[KeyOf(e)] \in Deletion =>
            deletion[pending[KeyOf(e)]].phase # "failed" /\ ~deletion[pending[KeyOf(e)]].rejected
    BY DEF NothingRefused
  <2>2. \A d \in Deletion : deletion'[d].phase # "failed" /\ ~deletion'[d].rejected
    BY <1>4, <2>1, AskedDeletion, SessionHasKey DEF Deactivate, NothingRefused, DeletionInv
  <2> QED BY <1>4, <2>2 DEF NothingRefused, Deactivate
<1>5. CASE ProxyStep
  BY <1>5 DEF ProxyStep, ProxyReady, ProxyFails, ProxyStopped, NothingRefused
<1>6. ASSUME NEW d \in Deletion,
             \/ DeletionAvailable(d) \/ ContainersListed(d) \/ ImagesAsked(d)
             \/ \E c \in Container : ContainerDeleted(d, c)
      PROVE  \A j \in Deletion : deletion'[j].phase # "failed" /\ ~deletion'[j].rejected
  BY <1>6, GoingDeletion DEF NothingRefused, Deleting
<1>7. ASSUME NEW d \in Deletion, DeletionEnds(d)
      PROVE  \A j \in Deletion : deletion'[j].phase # "failed" /\ ~deletion'[j].rejected
  BY <1>7, DoneDeletion DEF NothingRefused
<1>8. ASSUME NEW d \in Deletion,
             \/ DeletionAvailable(d) \/ ContainersListed(d) \/ ImagesAsked(d) \/ DeletionEnds(d)
             \/ \E c \in Container : ContainerDeleted(d, c)
      PROVE  UNCHANGED <<session, proxyMap, proxy, proxyStop, request>>
  BY <1>8 DEF KeepsServices, KeepsSessions, Refused, DeletionAvailable, ContainersListed, ContainerDeleted,
              ImagesAsked, DeletionEnds
<1>9. ASSUME NEW d \in Deletion,
             \/ DeletionAvailable(d) \/ ContainersListed(d) \/ ImagesAsked(d) \/ DeletionEnds(d)
             \/ \E c \in Container : ContainerDeleted(d, c)
      PROVE  NothingRefused'
  BY <1>6, <1>7, <1>8, <1>9 DEF NothingRefused
<1> QED BY <1>1, <1>2, <1>3, <1>4, <1>5, <1>9 DEF CleanStep

LEMMA SessionsRunAlone ==
    ASSUME DeletionInv, NothingRefused, RunsAlone, CleanStep
    PROVE  RunsAlone'
<1>0. session \in [Session -> {"new", "running", "stopped"}]
  BY DEF DeletionInv, SessionOK
<1>1. CASE UNCHANGED <<session, rule, proxyMap, proxy, proxyStop, pending, deletion>>
  BY <1>1 DEF RunsAlone
<1>2. ASSUME NEW s \in Session, StartSession(s), ~Starting, ~Stopping PROVE RunsAlone'
  <2>1. /\ session' = [session EXCEPT ![s] = "running"] /\ rule' = s /\ UNCHANGED deletion
        /\ \A t \in Session : session[t] # "running"
    BY <1>2 DEF StartSession, Running
  <2>2. \A t \in Session : deletion[t].phase \in {"none", "done"}
    BY <1>2, SessionHasKey DEF Stopping, NothingRefused
  <2> QED BY <1>0, <2>1, <2>2 DEF RunsAlone
<1>3. ASSUME NEW s \in Session, StopSession(s) PROVE RunsAlone'
  <2>1. session[s] = "running" /\ session' = [session EXCEPT ![s] = "stopped"]
    BY <1>3 DEF StopSession
  <2>2. \A t \in Session : session'[t] # "running"
    BY <1>0, <2>1 DEF RunsAlone
  <2> QED BY <2>2 DEF RunsAlone
<1>4. ASSUME NEW e \in Everything \cup Deactivation, Deactivate(e) PROVE RunsAlone'
  <2>1. UNCHANGED <<session, rule>> /\ AskDeletion(e) /\ e \in Deletion /\ e \notin Session
    BY <1>4, SessionHasKey DEF Deactivate
  <2>2. \A s \in Session : deletion'[s] = deletion[s]
    BY <2>1, AskedDeletion, SessionHasKey DEF DeletionInv
  <2> QED BY <2>1, <2>2 DEF RunsAlone
<1>5. CASE ProxyStep
  BY <1>5 DEF ProxyStep, ProxyReady, ProxyFails, ProxyStopped, RunsAlone
<1>6. ASSUME NEW d \in Deletion,
             \/ DeletionAvailable(d) \/ ContainersListed(d) \/ ImagesAsked(d) \/ DeletionEnds(d)
             \/ \E c \in Container : ContainerDeleted(d, c)
      PROVE  RunsAlone'
  <2>1. UNCHANGED session
    BY <1>6 DEF KeepsServices, KeepsSessions, Refused, DeletionAvailable, ContainersListed, ContainerDeleted,
                ImagesAsked, DeletionEnds
  <2>2. SUFFICES ASSUME NEW s \in Session, session[s] = "running"
                 PROVE  rule' = s /\ \A t \in Session : deletion'[t].phase \in {"none", "done"}
    BY <2>1 DEF RunsAlone
  <2>3. rule = s /\ \A t \in Session : deletion[t].phase \in {"none", "done"}
    BY <2>2 DEF RunsAlone
  <2>4. CASE DeletionEnds(d)
    <3>1. d \notin Session
      BY <2>3, <2>4 DEF DeletionEnds
    <3> QED BY <2>3, <2>4, <3>1, DoneDeletion, SessionHasKey
  <2>5. CASE \/ DeletionAvailable(d) \/ ContainersListed(d) \/ ImagesAsked(d)
             \/ \E c \in Container : ContainerDeleted(d, c)
    <3>1. d \notin Session
      BY <2>3, <2>5, GoingDeletion
    <3> QED BY <2>3, <2>5, <3>1, GoingDeletion, SessionHasKey
  <2> QED BY <1>6, <2>4, <2>5
<1> QED BY <1>1, <1>2, <1>3, <1>4, <1>5, <1>6 DEF CleanStep

\* Nobody starts anything when no session runs.
NobodyStarts ==
    /\ \A k \in Call : call[k] \notin {"available", "dns"} /\ asker[k] # "waiting"
    /\ \A s \in Session : proxy[s] # "creating"
    /\ \A r \in Request : request[r].phase \in {"new", "done", "failed"}

LEMMA NothingStarting == ~Starting <=> NobodyStarts
BY DEF Starting, NobodyStarts

LEMMA NothingStarts ==
    ASSUME DockerInv, Running = {}, NobodyStarts, [Next]_vars, ~Restart,
           proxyMap # None => proxy[proxyMap] = "failed",
           \A s \in Session : ~StartSession(s)
    PROVE  /\ NobodyStarts'
           /\ UNCHANGED registered \/ registered' = None
           /\ container' = container \/ \E c \in Container : container' = [container EXCEPT ![c] = Absent]
           /\ UNCHANGED request
<1> USE DEF NobodyStarts
<1>1. ~RequestStep
  BY DEF RequestStep, ClientRefused, ClientServed, ImageInspected, StartChecked, AttachInspected, AttachStopped,
         AttachRemoved, VolumeNamed, ContainerMade, NetworksConnected, Started
<1>2. ~RequestArrives
  BY DEF RequestArrives, ClientAsks, Activate
<1>3. ASSUME UNCHANGED <<call, asker, proxy, request>> PROVE NobodyStarts'
  BY <1>3
<1>4. CASE VolumeStep /\ UNCHANGED <<monitorVars, serviceVars>>
  <2>1. UNCHANGED <<call, proxy, request, registered, container>>
    BY <1>4 DEF monitorVars, serviceVars, VolumeStep
  <2>2. \A k \in Call : asker'[k] # "waiting"
    BY <1>4, ServicesAssumption DEF VolumeStep, Then, Settle, VolumeAvailable, VolumeUnavailable, VolumeInspected,
           ToolsCleaned, VolumeDropped, Created, ContainerCreated, VolumeWritten, OldVolumesCleaned,
           AttemptFails, CleanUpFails, VolumeUndone, VolumeNotInspected, VolumeIsKept
  <2> QED BY <2>1, <2>2
<1>5. CASE StartupStep /\ UNCHANGED <<volumeVars, serviceVars>>
  <2>1. \A k \in Call : ~Unavailable(k) /\ ~Available(k) /\ ~Register(k) /\ ~CallFails(k)
    BY DEF Unavailable, Available, Register, CallFails
  <2>2. UNCHANGED <<call, registered, container>>
    BY <1>5, <2>1 DEF StartupStep, DnsStarts, DnsFails, StreamConnects, StreamFails, engineVars
  <2>3. UNCHANGED <<asker, proxy, request>>
    BY <1>5 DEF volumeVars, serviceVars
  <2> QED BY <2>2, <2>3, <1>3
<1>6. CASE EventStep /\ UNCHANGED <<volumeVars, serviceVars>>
  <2>1. UNCHANGED <<call, container>> /\ registered' \in {registered, None}
    BY <1>6 DEF EventStep, StreamCloses, StopMonitor, EventArrives, NetworksListed, NetworkInspected,
                ContainersInspected, engineVars
  <2>2. UNCHANGED <<asker, proxy, request>>
    BY <1>6 DEF volumeVars, serviceVars
  <2> QED BY <2>1, <2>2, <1>3
<1>7. CASE ProxyStep
  <2>1. UNCHANGED <<call, asker, request, registered, container>>
    BY <1>7 DEF ProxyStep, ProxyReady, ProxyFails, ProxyStopped, KeepsDocker, engineVars, monitorVars, volumeVars
  <2>2. \A s \in Session : proxy'[s] # "creating"
    BY <1>7 DEF ProxyStep, ProxyReady, ProxyFails, ProxyStopped, Destroy, DockerInv, DeletionInv, SessionOK
  <2> QED BY <2>1, <2>2
<1>8. ASSUME NEW d \in Deletion,
             \/ DeletionAvailable(d) \/ DeletionUnavailable(d) \/ ContainersListed(d)
             \/ ImagesAsked(d) \/ DeletionEnds(d) \/ DeletionFails(d) \/ TunnelNotStopped(d)
      PROVE  UNCHANGED <<call, asker, proxy, request, registered, container>>
  BY <1>8 DEF KeepsServices, KeepsSessions, Refused, KeepsDocker, engineVars, monitorVars, volumeVars,
              DeletionAvailable, DeletionUnavailable, ContainersListed, ImagesAsked, DeletionEnds, DeletionFails, TunnelNotStopped
<1>9. ASSUME NEW d \in Deletion, NEW c \in Container, ContainerDeleted(d, c)
      PROVE  /\ UNCHANGED <<call, asker, proxy, request, registered>>
             /\ container' = container \/ container' = [container EXCEPT ![c] = Absent]
  BY <1>9 DEF ContainerDeleted, KeepsServices, KeepsSessions, Refused, monitorVars, volumeVars
<1>10. CASE DeletionStep
  BY <1>3, <1>8, <1>9, <1>10 DEF DeletionStep
<1>11. CASE UserStep /\ UNCHANGED <<monitorVars, volumeVars, serviceVars>>
  <2>1. container' = container \/ \E c \in Container : container' = [container EXCEPT ![c] = Absent]
    BY <1>11 DEF UserStep, UserConnects, UserDisconnects, UserRemoves, UserDestroys
  <2>2. UNCHANGED <<call, asker, proxy, request, registered>>
    BY <1>11 DEF monitorVars, volumeVars, serviceVars
  <2> QED BY <2>1, <2>2, <1>3
<1>12. ASSUME NEW s \in Session PROVE ~StopSession(s)
  BY DEF StopSession, Running
<1>13. ASSUME NEW e \in Everything \cup Deactivation, Deactivate(e)
       PROVE  UNCHANGED <<call, asker, proxy, request, registered, container>>
  BY <1>13 DEF Deactivate, monitorVars, volumeVars
<1>14. CASE UNCHANGED vars
  BY <1>3, <1>14 DEF vars, engineVars, monitorVars, volumeVars, serviceVars
<1> HIDE DEF NobodyStarts
<1>15. CASE SessionStep
  BY <1>3, <1>12, <1>13, <1>15 DEF SessionStep
<1> QED BY <1>1, <1>2, <1>4, <1>5, <1>6, <1>7, <1>10, <1>11, <1>14, <1>15 DEF Next

\* A container that goes takes its label with it.
LEMMA LabelsGo ==
    ASSUME ContainersOK,
           container' = container \/ \E c \in Container : container' = [container EXCEPT ![c] = Absent]
    PROVE  Labelled' \subseteq Labelled
<1>1. ~Absent.label
  BY DEF Absent
<1>2. ASSUME NEW c \in Container, container' = [container EXCEPT ![c] = Absent] PROVE Labelled' \subseteq Labelled
  <2>1. \A k \in Container : container'[k] = container[k] \/ container'[k] = Absent
    BY <1>2 DEF ContainersOK
  <2> QED BY <1>1, <2>1 DEF Labelled
<1> QED BY <1>2 DEF Labelled

LEMMA ContainerIsGone ==
    ASSUME ContainersOK, NEW c \in Container, container' = [container EXCEPT ![c] = Absent]
    PROVE  c \notin Labelled'
<1>1. ~Absent.label
  BY DEF Absent
<1>2. container'[c] = Absent
  BY DEF ContainersOK
<1> QED BY <1>1, <1>2 DEF Labelled

\* What a deletion covers it goes on to cover, until nothing is left.
LEMMA CoversOn ==
    ASSUME DockerInv, NothingRefused, NEW s \in Session, Covers(s), Labelled' \subseteq Labelled, NEW d \in Deletion,
           \/ DeletionAvailable(d) \/ ContainersListed(d) \/ ImagesAsked(d) \/ DeletionEnds(d)
           \/ \E c \in Container : ContainerDeleted(d, c) /\ container' = [container EXCEPT ![c] = Absent]
    PROVE  Labelled' = {} \/ Covers(s)'
<1>0. s \in Deletion /\ deletion[s] \in Deletions
  BY SessionHasKey DEF DockerInv, DeletionInv, DeletionOK
<1>1. CASE deletion'[s] = deletion[s]
  BY <1>1 DEF Covers
<1>2. CASE DeletionAvailable(s)
  BY <1>0, <1>2, DeletionGoesOn DEF DeletionAvailable, Phase, DockerInv, DeletionInv, DeletionOK, Covers, DeletionPhase
<1>3. CASE ContainersListed(s)
  <2> DEFINE rec == [deletion[s] EXCEPT !.phase = "removing", !.found = Labelled]
  <2>1. rec.phase = "removing" /\ rec.found = Labelled
    BY <1>0 DEF Deletions
  <2>2. deletion' = [deletion EXCEPT ![s] = rec]
    BY <1>0, <1>3 DEF ContainersListed, DockerInv, DeletionInv, DeletionOK
  <2> HIDE DEF rec
  <2>3. deletion'[s].phase = "removing" /\ deletion'[s].found = Labelled
    BY <1>0, <2>1, <2>2 DEF DockerInv, DeletionInv, DeletionOK
  <2> QED BY <2>3 DEF Covers
<1>4. CASE ImagesAsked(s)
  <2>1. Labelled = {}
    BY <1>4 DEF ImagesAsked, Covers
  <2> QED BY <2>1
<1>5. ASSUME NEW c \in Container, ContainerDeleted(s, c), container' = [container EXCEPT ![c] = Absent]
      PROVE  Covers(s)'
  <2> DEFINE rec == [deletion[s] EXCEPT !.found = deletion[s].found \ {c}]
  <2>1. rec.phase = deletion[s].phase /\ rec.found = deletion[s].found \ {c}
    BY <1>0 DEF Deletions
  <2>2. deletion' = [deletion EXCEPT ![s] = rec] /\ deletion[s].phase = "removing"
    BY <1>5 DEF ContainerDeleted
  <2> HIDE DEF rec
  <2>3. deletion'[s].phase = "removing" /\ deletion'[s].found = deletion[s].found \ {c}
    BY <1>0, <2>1, <2>2 DEF DockerInv, DeletionInv, DeletionOK
  <2>4. c \notin Labelled'
    BY <1>5, ContainerIsGone DEF DockerInv, EngineOK
  <2>5. Labelled \subseteq deletion[s].found
    BY <2>2 DEF Covers
  <2> QED BY <2>3, <2>4, <2>5 DEF Covers
<1>6. CASE DeletionEnds(d)
  <2>1. \/ deletion'[s] = deletion[s]
        \/ deletion[s].phase \in {"images", "joined"}
    BY <1>0, <1>6, DoneDeletion DEF DockerInv
  <2> QED BY <1>1, <2>1 DEF Covers
<1>7. CASE s # d /\ ~DeletionEnds(d)
  <2>1. deletion'[s] = deletion[s]
    BY <1>0, <1>7, GoingDeletion DEF DockerInv
  <2> QED BY <1>1, <2>1
<1> QED BY <1>2, <1>3, <1>4, <1>5, <1>6, <1>7

\* The session that runs, and no other, stops.
LEMMA StopIsClean ==
    ASSUME DockerInv, NothingRefused, RunsAlone, ProxyIsThere, ~Starting, ~Stopping,
           NEW s \in Session, StopSession(s)
    PROVE  StopsCleanly'
<1>1. ~Starting'
  <2>1. UNCHANGED <<call, asker, request>>
    BY DEF StopSession, volumeVars
  <2>2. \A t \in Session : proxy'[t] = proxy[t] \/ proxy'[t] = "destroyed"
    BY DEF StopSession, Destroy, DockerInv, DeletionInv, SessionOK
  <2>3. NobodyStarts'
    BY <2>1, <2>2, NothingStarting DEF NobodyStarts
  <2> QED BY <2>3 DEF Starting, NobodyStarts
<1>2. registered' = None
  BY DEF StopSession, StopMonitor
<1>3. proxyMap' # None => proxy'[proxyMap'] = "failed"
  <2>1. proxyMap # None => proxyMap \in Session /\ proxy[proxyMap] # "creating"
    BY DEF Starting, DockerInv, DeletionInv, SessionOK
  <2> QED BY <2>1 DEF StopSession, Destroy, ProxyIsThere
<1>4. deletion'[s].phase = "available"
  BY AskedAlone DEF StopSession, DockerInv
<1>5. rule' = s
  BY DEF StopSession, RunsAlone
<1>6. Covers(s)'
  BY <1>4 DEF Covers
<1>7. InFlight(rule)'
  BY <1>4, <1>5 DEF InFlight
<1> QED BY <1>1, <1>2, <1>3, <1>6, <1>7 DEF StopsCleanly

LEMMA StopsStayClean ==
    ASSUME DockerInv, NothingRefused, RunsAlone, StopsCleanly, ProxyIsThere, ProxyIsThere',
           [Next]_vars, ~Restart, CleanStep
    PROVE  StopsCleanly'
<1>1. CASE \E s \in Session : StopSession(s) /\ ~Starting /\ ~Stopping
  BY <1>1, StopIsClean
<1>2. ASSUME NEW s \in Session, StartSession(s) PROVE StopsCleanly'
  <2>1. session'[s] = "running"
    BY <1>2 DEF StartSession, DockerInv, DeletionInv, SessionOK
  <2>2. Running' # {}
    BY <2>1 DEF Running
  <2> QED BY <2>2 DEF StopsCleanly
<1>3. ASSUME UNCHANGED session, \A s \in Session : ~StartSession(s), Running' = {}
      PROVE  StopsCleanly'
  <2>1. Running = {}
    BY <1>3 DEF Running
  <2>2. /\ NobodyStarts /\ registered = None /\ (proxyMap # None => proxy[proxyMap] = "failed")
        /\ rule # None => InFlight(rule)
        /\ Labelled = {} \/ \E s \in Session : Covers(s)
    BY <2>1, NothingStarting DEF StopsCleanly
  <2>3. /\ NobodyStarts' /\ registered' = None
        /\ container' = container \/ \E c \in Container : container' = [container EXCEPT ![c] = Absent]
    BY <1>3, <2>1, <2>2, NothingStarts
  <2>4. ~Starting'
    BY <2>3 DEF Starting, NobodyStarts
  <2>5. proxyMap' # None => proxy'[proxyMap'] = "failed"
    <3>1. proxyMap' # None => proxy'[proxyMap'] \in {"ready", "failed"} /\ proxyMap' \in Session
      BY <2>3, SessionStays DEF ProxyIsThere, NobodyStarts, DockerInv, DeletionInv, SessionOK
    <3>2. CASE UNCHANGED <<proxyMap, proxy>>
      BY <2>2, <3>2
    <3>3. CASE ProxyStep
      <4>1. \A s \in Session : ~ProxyReady(s) /\ ~ProxyFails(s)
        BY <2>2 DEF ProxyReady, ProxyFails, NobodyStarts
      <4>2. \A s \in Session : ~ProxyStopped(s)
        BY DEF ProxyStopped, NothingRefused
      <4> QED BY <3>3, <4>1, <4>2 DEF ProxyStep
    <3>4. CASE DeletionStep
      BY <3>2, <3>4 DEF DeletionStep, KeepsServices, KeepsSessions, Refused, DeletionAvailable,
            DeletionUnavailable, ContainersListed, ContainerDeleted, ImagesAsked, DeletionEnds, DeletionFails, TunnelNotStopped
    <3>5. ASSUME NEW e \in Everything \cup Deactivation, Deactivate(e) PROVE UNCHANGED <<proxyMap, proxy>>
      BY <3>5 DEF Deactivate
    <3>6. \A s \in Session : ~StopSession(s)
      BY <2>1 DEF StopSession, Running
    <3> QED BY <1>3, <3>2, <3>3, <3>4, <3>5, <3>6 DEF DeletionStep, CleanStep
  <2>6. Labelled' \subseteq Labelled
    BY <2>3, LabelsGo DEF DockerInv, EngineOK
  <2>7. CASE UNCHANGED <<rule, deletion>>
    <3>1. \A s \in Session : Covers(s) => Covers(s)'
      BY <2>6, <2>7 DEF Covers
    <3> QED BY <2>2, <2>3, <2>4, <2>5, <2>6, <2>7, <3>1 DEF StopsCleanly, InFlight
  <2>8. ASSUME NEW e \in Everything \cup Deactivation, Deactivate(e) PROVE StopsCleanly'
    <3>1. e \in Deletion /\ e \notin Session /\ AskDeletion(e) /\ rule' = rule
      BY <2>8, SessionHasKey DEF Deactivate
    <3>2. \A s \in Session : deletion'[s] = deletion[s]
      BY <3>1, AskedDeletion, SessionHasKey DEF DockerInv, DeletionInv
    <3>3. \A s \in Session : Covers(s) => Covers(s)'
      BY <2>6, <3>2 DEF Covers
    <3>4. rule # None => rule \in Session
      BY DEF DockerInv, DeletionInv, SessionOK
    <3>5. rule' # None => InFlight(rule)'
      BY <2>2, <3>1, <3>2, <3>4 DEF InFlight
    <3> QED BY <2>2, <2>3, <2>4, <2>5, <2>6, <3>3, <3>5 DEF StopsCleanly
  <2>9. CASE ProxyStep
    <3>1. UNCHANGED <<rule, deletion>>
      BY <2>9 DEF ProxyStep, ProxyReady, ProxyFails, ProxyStopped
    <3> QED BY <2>7, <3>1
  <2>10. ASSUME NEW d \in Deletion,
          \/ DeletionAvailable(d) \/ ContainersListed(d) \/ ImagesAsked(d) \/ DeletionEnds(d)
          \/ \E c \in Container : ContainerDeleted(d, c) /\ container' = [container EXCEPT ![c] = Absent]
        PROVE StopsCleanly'
    <3>1. Labelled' = {} \/ \E s \in Session : Covers(s)'
      BY <2>2, <2>6, <2>10, CoversOn
    <3>2. rule # None => rule \in Session /\ rule \in Deletion
      BY SessionHasKey DEF DockerInv, DeletionInv, SessionOK
    <3>3. rule' # None => InFlight(rule)'
      <4>1. CASE DeletionEnds(d)
        <5>1. rule' # None => rule' = rule /\ rule # d
          BY <3>2, <4>1, DoneDeletion DEF DockerInv
        <5>2. rule' # None => deletion'[rule] = deletion[rule]
          BY <2>2, <3>2, <4>1, <5>1, DoneDeletion DEF DockerInv, InFlight
        <5> QED BY <2>2, <5>1, <5>2 DEF InFlight
      <4>2. CASE ~DeletionEnds(d)
        <5>1. rule' = rule /\ (rule # None => deletion'[rule] = deletion[rule] \/ deletion'[rule].phase \in Deleting)
          BY <2>10, <3>2, <4>2, GoingDeletion DEF DockerInv
        <5> QED BY <2>2, <5>1 DEF InFlight, Deleting
      <4> QED BY <4>1, <4>2
    <3> QED BY <2>3, <2>4, <2>5, <3>1, <3>3 DEF StopsCleanly
  <2>11. \A s \in Session : ~StopSession(s)
    BY <2>1 DEF StopSession, Running
  <2> QED BY <1>3, <2>7, <2>8, <2>9, <2>10, <2>11 DEF CleanStep
<1>4. ASSUME \/ UNCHANGED <<session, rule, proxyMap, proxy, proxyStop, pending, deletion>>
             \/ \E e \in Everything \cup Deactivation : Deactivate(e)
             \/ ProxyStep
             \/ \E d \in Deletion :
                   \/ DeletionAvailable(d) \/ ContainersListed(d) \/ ImagesAsked(d) \/ DeletionEnds(d)
                   \/ \E c \in Container : ContainerDeleted(d, c)
      PROVE  UNCHANGED session
  BY <1>4 DEF ProxyStep, ProxyReady, ProxyFails, ProxyStopped, Deactivate, KeepsServices, KeepsSessions,
              Refused, DeletionAvailable, ContainersListed, ContainerDeleted, ImagesAsked, DeletionEnds
<1>5. Running' # {} => StopsCleanly'
  BY DEF StopsCleanly
<1> QED BY <1>1, <1>2, <1>3, <1>4, <1>5 DEF CleanStep

LEMMA LeavesInitially == Init => LeavesInv
<1> SUFFICES ASSUME Init PROVE LeavesInv
  OBVIOUS
<1>1. LostIsNotAlone /\ ProxyIsThere
  BY DEF Init, MonitorInit, LostIsNotAlone, ProxyIsThere
<1>2. NothingRefused /\ RunsAlone
  BY DEF Init, NothingRefused, RunsAlone
<1>3. ~Starting
  <2>1. \A k \in Call : call[k] = "new"
    BY DEF Init, MonitorInit
  <2>2. \A k \in Call : asker[k] = "new"
    BY ServicesAssumption DEF Init, VolumeInit
  <2>3. \A s \in Session : proxy[s] = "none"
    BY DEF Init
  <2>4. \A r \in Request : request[r].phase = "new"
    BY DEF Init, NoRequest
  <2> QED BY ONLY <2>1, <2>2, <2>3, <2>4 DEF Starting
<1>4. Labelled = {}
  <2>1. \A c \in Container : container[c] = [state |-> "running", label |-> FALSE] \/ container[c] = Absent
    BY DEF Init, EngineInit
  <2> QED BY <2>1 DEF Labelled, Absent
<1>5. StopsCleanly
  BY <1>3, <1>4 DEF Init, MonitorInit, StopsCleanly
<1> QED BY <1>1, <1>2, <1>5 DEF LeavesInv

LEMMA LeavesStays == DockerInv /\ LeavesInv /\ [Next]_vars => LeavesInv'
<1> SUFFICES ASSUME DockerInv, LeavesInv, [Next]_vars PROVE LeavesInv'
  OBVIOUS
<1>1. LostIsNotAlone'
  BY OnlyMonitorMoves, OnlyStatesMove, LostStays DEF DockerInv, LeavesInv
<1>2. ProxyIsThere'
  BY ProxyStays DEF DockerInv, DeletionInv, LeavesInv
<1>3. ASSUME ~overlap' PROVE NothingRefused' /\ RunsAlone' /\ StopsCleanly'
  <2>1. ~overlap /\ ~Restart /\ CleanStep
    BY <1>3, OverlapsStay
  <2>2. NothingRefused /\ RunsAlone /\ StopsCleanly /\ ProxyIsThere
    BY <2>1 DEF LeavesInv
  <2> QED BY <1>2, <2>1, <2>2, NothingIsRefused, SessionsRunAlone, StopsStayClean DEF DockerInv
<1> QED BY <1>1, <1>2, <1>3 DEF LeavesInv

\* Once nothing is under way, what the last deletion still had to remove is gone.
LEMMA CleanLeavesNothing == DockerInv /\ LeavesInv => StopLeavesNothing
<1> SUFFICES ASSUME DockerInv, LeavesInv, Running = {}, ~Starting, ~Stopping, ~overlap
             PROVE  /\ registered = None /\ rule = None /\ Labelled = {}
                    /\ proxyMap # None => proxy[proxyMap] = "failed"
                    /\ \A m \in Call : \/ monitor[m].state # "on"
                                      \/ \E k \in Call \ {m} : monitor[k].state # "none"
  BY DEF StopLeavesNothing
<1>1. StopsCleanly /\ LostIsNotAlone
  BY DEF LeavesInv
<1>2. registered = None /\ (proxyMap # None => proxy[proxyMap] = "failed")
  BY <1>1 DEF StopsCleanly
<1>3. \A d \in Deletion : deletion[d].phase \in {"none", "done", "failed"}
  BY DEF Stopping
<1>4. rule = None
  <2>1. rule # None => rule \in Deletion
    BY SessionHasKey DEF DockerInv, DeletionInv, SessionOK
  <2> QED BY <1>1, <1>3, <2>1 DEF StopsCleanly, InFlight
<1>5. Labelled = {}
  BY <1>1, <1>3, SessionHasKey DEF StopsCleanly, Covers
<1>6. \A m \in Call : monitor[m].state # "on" \/ \E k \in Call \ {m} : monitor[k].state # "none"
  BY <1>1, <1>2, MonitorAssumption DEF LostIsNotAlone
<1> QED BY <1>2, <1>4, <1>5, <1>6

\* Once no session runs and nothing is in flight, no monitor is registered, and no rule
\* parameter and no intercepted container is left, unless a session started or stopped, or a
\* deletion was asked for, while something was in flight, a request of a deletion was
\* rejected, or the server crashed. Left can be a proxy that could not be created, and a
\* monitor if two were made (docker-interception-services.ts:133-145, 157-206).
THEOREM StopsLeaveNothing == Spec => []StopLeavesNothing
<1>1. Init => DockerInv /\ LeavesInv
  BY DockerInitially, LeavesInitially
<1>2. DockerInv /\ LeavesInv /\ [Next]_vars => (DockerInv /\ LeavesInv)'
  BY DockerStays, LeavesStays
<1> QED BY <1>1, <1>2, CleanLeavesNothing, PTL DEF Spec

(***************************************************************************)
(* A monitor that nothing is on its way to is right.                       *)
(***************************************************************************)

\* Events.
Positions(w) == 1..Len(w)
Announced(n) == \E i \in Positions(wire) : wire[i].net = n

\* Only networks that exist have containers, and only containers that exist are on them.
AttachedInv ==
    /\ \A n \in Network \ networks : attached[n] = {}
    /\ \A n \in Network : \A c \in attached[n] : container[c].state # "absent"

\* What is announced of a network that is gone ends with its destruction.
WireInv ==
    /\ wire # <<>> => open
    /\ \A i \in Positions(wire) :
        /\ wire[i].action = "destroy" => wire[i].net \notin networks
        /\ wire[i].net \notin networks =>
               \E j \in i..Len(wire) : wire[j].net = wire[i].net /\ wire[j].action = "destroy"

\* SetToSeq lists every member.
LEMMA SetToSeqListsAll ==
    ASSUME NEW S, IsFiniteSet(S)
    PROVE  \A x \in S : \E i \in Positions(SetToSeq(S)) : SetToSeq(S)[i] = x
<1> DEFINE n == Cardinality(S)
<1>1. n \in Nat /\ ExistsBijection(1..n, S)
  BY FS_CardinalityType
<1>2. \E f \in [1..n -> S] : IsInjective(f)
  BY <1>1 DEF ExistsBijection, Bijection, Injection
<1>3. SetToSeq(S) \in [1..n -> S] /\ IsInjective(SetToSeq(S))
  BY <1>2 DEF SetToSeq
<1>4. SetToSeq(S) \in Injection(1..n, S)
  BY <1>3 DEF Injection
<1>5. IsFiniteSet(1..n) /\ Cardinality(1..n) = n
  BY <1>1, FS_Interval
<1>6. SetToSeq(S) \in Surjection(1..n, S)
  BY <1>4, <1>5, FS_Injection
<1>7. Len(SetToSeq(S)) = n
  BY <1>1, <1>3, SeqDef, LenProperties
<1> QED BY <1>6, <1>7 DEF Surjection, Positions

\* What is sent follows what was sent before.
Extends(w) ==
    /\ w \in Events /\ Len(wire) <= Len(w)
    /\ \A i \in Positions(wire) : w[i] = wire[i]
NewIn(w) == (Len(wire) + 1)..Len(w)

LEMMA SentExtends ==
    ASSUME wire \in Events, NEW action \in {"attach", "destroy"}, NEW nets \in SUBSET Network
    PROVE  /\ Extends(Sent(action, nets))
           /\ \A i \in NewIn(Sent(action, nets)) :
                  Sent(action, nets)[i].action = action /\ Sent(action, nets)[i].net \in nets
           /\ open => \A n \in nets : \E i \in NewIn(Sent(action, nets)) : Sent(action, nets)[i].net = n
           /\ ~open => Sent(action, nets) = wire
<1> DEFINE event == [n \in nets |-> [action |-> action, net |-> n]]
           events == {[action |-> action, net |-> n] : n \in nets}
           s == SetToSeq(events)
           w == Sent(action, nets)
<1>1. IsFiniteSet(nets)
  BY EngineAssumption, FS_Subset
<1>2. {event[n] : n \in nets} = events /\ event = [n \in nets |-> event[n]]
  OBVIOUS
<1> HIDE DEF event
<1>3. IsFiniteSet(events)
  BY <1>1, <1>2, ImageIsFinite
<1>4. events \subseteq Event
  BY DEF Event
<1>5. s \in Seq(events) /\ s \in Seq(Event)
  BY <1>3, <1>4, SetToSeqLists, SeqMonotonic
<1>6. \A x \in events : \E i \in Positions(s) : s[i] = x
  BY <1>3, SetToSeqListsAll
<1>7. \A i \in Positions(s) : s[i] \in events
  BY <1>5, ElementOfSeq DEF Positions
<1>8. w \in Events /\ Len(wire) \in Nat /\ Len(s) \in Nat
  BY <1>5, EventsAreSent, LenProperties DEF Events
<1>9. CASE open
  <2>1. w = wire \o s
    BY <1>9 DEF Sent
  <2>2. /\ Len(w) = Len(wire) + Len(s)
        /\ \A i \in 1..Len(wire) : w[i] = wire[i]
        /\ \A i \in (Len(wire) + 1)..(Len(wire) + Len(s)) : w[i] = s[i - Len(wire)]
    BY <1>5, <1>8, <2>1, ConcatProperties DEF Events
  <2> HIDE DEF s, w, events
  <2>3. Extends(w)
    BY <1>8, <2>2 DEF Extends, Positions
  <2>4. \A i \in NewIn(w) : w[i] \in events
    BY <1>7, <1>8, <2>2 DEF NewIn, Positions
  <2>5. \A x \in events : \E i \in NewIn(w) : w[i] = x
    <3>1. TAKE x \in events
    <3>2. PICK j \in Positions(s) : s[j] = x
      BY <1>6
    <3>3. Len(wire) + j \in NewIn(w) /\ w[Len(wire) + j] = s[j]
      BY <1>8, <2>2 DEF NewIn, Positions
    <3> QED BY <3>2, <3>3
  <2>6. \A n \in nets : \E i \in NewIn(w) : w[i].net = n
    <3>1. TAKE n \in nets
    <3>2. [action |-> action, net |-> n] \in events
      BY DEF events
    <3> QED BY <2>5, <3>2
  <2>7. \A x \in events : x.action = action /\ x.net \in nets
    BY DEF events
  <2>8. \A i \in NewIn(w) : w[i].action = action /\ w[i].net \in nets
    BY <2>4, <2>7
  <2> QED BY <1>9, <2>3, <2>6, <2>8 DEF w
<1>10. CASE ~open
  <2>1. w = wire
    BY <1>10 DEF Sent
  <2>2. NewIn(wire) = {}
    BY <1>8 DEF NewIn
  <2>3. Extends(wire)
    BY <1>8 DEF Extends
  <2> QED BY <1>10, <2>1, <2>2, <2>3
<1> QED BY <1>9, <1>10

\* Docker tells of every network whose containers have changed.
NetStays(n) ==
    attached'[n] = attached[n] /\ (n \in networks' <=> n \in networks) /\ Truth(n)' = Truth(n)

EngineTells ==
    /\ open' = open /\ AttachedInv' /\ networks' \subseteq networks
    /\ Extends(wire') /\ (~open => wire' = wire)
    /\ \A i \in NewIn(wire') :
           /\ wire'[i].action = "attach" => wire'[i].net \in networks'
           /\ wire'[i].action = "destroy" => wire'[i].net \notin networks'
    /\ open => \A n \in Network :
           NetStays(n) \/ \E i \in NewIn(wire') :
               wire'[i].net = n /\ (wire'[i].action = "destroy" <=> n \in networks \ networks')

LEMMA TruthStays ==
    ASSUME NEW n \in Network, attached'[n] = attached[n], n \in networks' <=> n \in networks,
           \A c \in attached[n] : /\ container'[c].state = "absent" <=> container[c].state = "absent"
                                  /\ container'[c].label = container[c].label
    PROVE  NetStays(n)
<1> DEFINE known == {c \in attached[n] : container[c].state # "absent"}
           later == {c \in attached'[n] : container'[c].state # "absent"}
<1>1. known = later
  OBVIOUS
<1>2. known \cap Labelled = later \cap Labelled'
  BY <1>1 DEF Labelled
<1>3. AliasesOf(n, attached[n]) = IF known \cap Labelled = {} THEN None ELSE known \cap attached[n]
  BY DEF AliasesOf
<1>4. (AliasesOf(n, attached[n]))' = IF later \cap Labelled' = {} THEN None ELSE later \cap attached'[n]
  BY ONLY attached'[n] = attached[n] DEF AliasesOf, Labelled
<1> DEFINE before == IF known \cap Labelled = {} THEN None ELSE known \cap attached[n]
           after == IF later \cap Labelled' = {} THEN None ELSE later \cap attached'[n]
<1>5. before = after
  <2> HIDE DEF known, later
  <2> QED BY <1>1, <1>2
<1>6. Truth(n) = IF n \in networks \ HostNetwork THEN before ELSE None
  BY <1>3 DEF Truth
<1>7. Truth(n)' = IF n \in networks' \ HostNetwork THEN after ELSE None
  BY <1>4 DEF Truth
<1> HIDE DEF before, after
<1> QED BY <1>5, <1>6, <1>7 DEF NetStays

LEMMA NothingTold ==
    ASSUME EngineOK, AttachedInv, UNCHANGED <<networks, attached, container, wire, open>>
    PROVE  EngineTells
<1>1. \A n \in Network : NetStays(n)
  BY TruthStays
<1>2. Len(wire) \in Nat /\ wire \in Events
  BY LenProperties DEF EngineOK, Events
<1>3. Extends(wire') /\ NewIn(wire') = {}
  BY <1>2 DEF Extends, NewIn
<1> QED BY <1>1, <1>3 DEF EngineTells, AttachedInv

\* A container leaves its networks, and may go or stop.
LEMMA LeaveTells ==
    ASSUME EngineOK, AttachedInv, NEW c \in Container, Leave(c), UNCHANGED <<networks, open>>,
           \A d \in Container \ {c} : container'[d] = container[d]
    PROVE  EngineTells
<1> DEFINE nets == {n \in networks : c \in attached[n]}
<1>1. wire' = Sent("attach", nets) /\ attached' = [n \in Network |-> attached[n] \ {c}]
  BY DEF Leave
<1>2. nets \in SUBSET Network /\ wire \in Events
  BY DEF EngineOK, NetworksOK
<1>3. /\ Extends(wire')
      /\ \A i \in NewIn(wire') : wire'[i].action = "attach" /\ wire'[i].net \in nets
      /\ open => \A n \in nets : \E i \in NewIn(wire') : wire'[i].net = n
      /\ ~open => wire' = wire
  <2> HIDE DEF nets
  <2> QED BY <1>1, <1>2, SentExtends
<1>4. ASSUME NEW n \in Network, n \notin nets PROVE NetStays(n)
  <2>1. c \notin attached[n]
    BY <1>4 DEF AttachedInv
  <2>2. attached'[n] = attached[n] /\ attached[n] \subseteq Container \ {c}
    BY <1>1, <2>1 DEF EngineOK, NetworksOK
  <2>3. \A d \in attached[n] : container'[d] = container[d]
    BY <2>2
  <2> QED BY <2>2, <2>3, TruthStays
<1>5. AttachedInv'
  BY <1>1 DEF AttachedInv, EngineOK, NetworksOK
<1> QED BY <1>3, <1>4, <1>5 DEF EngineTells

\* A container that is there joins networks, and may start.
LEMMA JoinTells ==
    ASSUME EngineOK, AttachedInv, NEW c \in Container, NEW nets \in SUBSET networks, Join(c, nets),
           UNCHANGED <<networks, open>>, nets # {} => container'[c].state # "absent",
           \A d \in Container : /\ container'[d].state = "absent" <=> container[d].state = "absent"
                                /\ container'[d].label = container[d].label
    PROVE  EngineTells
<1>1. /\ wire' = Sent("attach", nets)
      /\ attached' = [n \in Network |-> IF n \in nets THEN attached[n] \cup {c} ELSE attached[n]]
  BY DEF Join
<1>2. nets \in SUBSET Network /\ wire \in Events
  BY DEF EngineOK, NetworksOK
<1>3. /\ Extends(wire')
      /\ \A i \in NewIn(wire') : wire'[i].action = "attach" /\ wire'[i].net \in nets
      /\ open => \A n \in nets : \E i \in NewIn(wire') : wire'[i].net = n
      /\ ~open => wire' = wire
  BY <1>1, <1>2, SentExtends
<1>4. ASSUME NEW n \in Network, n \notin nets PROVE NetStays(n)
  <2>1. attached'[n] = attached[n] /\ attached[n] \subseteq Container
    BY <1>1, <1>4 DEF EngineOK, NetworksOK
  <2> QED BY <2>1, TruthStays
<1>5. AttachedInv'
  BY <1>1 DEF AttachedInv, EngineOK, NetworksOK
<1> QED BY <1>3, <1>4, <1>5 DEF EngineTells

\* A user takes a container off a network, or destroys one.
LEMMA DisconnectTells ==
    ASSUME EngineOK, AttachedInv, NEW n \in Network, NEW c \in Container, UserDisconnects(n, c)
    PROVE  EngineTells
<1>1. /\ wire' = Sent("attach", {n}) /\ c \in attached[n] /\ UNCHANGED <<networks, container, open>>
      /\ attached' = [attached EXCEPT ![n] = @ \ {c}]
  BY DEF UserDisconnects
<1>2. n \in networks /\ {n} \in SUBSET Network /\ wire \in Events
  BY <1>1 DEF AttachedInv, EngineOK
<1>3. /\ Extends(wire')
      /\ \A i \in NewIn(wire') : wire'[i].action = "attach" /\ wire'[i].net = n
      /\ open => \E i \in NewIn(wire') : wire'[i].net = n
      /\ ~open => wire' = wire
  BY <1>1, <1>2, SentExtends
<1>4. ASSUME NEW k \in Network, k # n PROVE NetStays(k)
  <2>1. attached'[k] = attached[k]
    BY <1>1, <1>4 DEF EngineOK, NetworksOK
  <2> QED BY <1>1, <2>1, TruthStays
<1>5. AttachedInv'
  BY <1>1 DEF AttachedInv, EngineOK, NetworksOK
<1> QED BY <1>1, <1>2, <1>3, <1>4, <1>5 DEF EngineTells

LEMMA DestroyTells ==
    ASSUME EngineOK, AttachedInv, NEW n \in Network, UserDestroys(n)
    PROVE  EngineTells
<1>1. /\ wire' = Sent("destroy", {n}) /\ n \in networks /\ attached[n] = {}
      /\ UNCHANGED <<attached, container, open>> /\ networks' = networks \ {n}
  BY DEF UserDestroys
<1>2. {n} \in SUBSET Network /\ wire \in Events
  BY DEF EngineOK
<1>3. /\ Extends(wire')
      /\ \A i \in NewIn(wire') : wire'[i].action = "destroy" /\ wire'[i].net = n
      /\ open => \E i \in NewIn(wire') : wire'[i].net = n
      /\ ~open => wire' = wire
  BY <1>1, <1>2, SentExtends
<1>4. ASSUME NEW k \in Network, k # n PROVE NetStays(k)
  BY <1>1, <1>4, TruthStays
<1>5. AttachedInv'
  BY <1>1 DEF AttachedInv
<1> QED BY <1>1, <1>2, <1>3, <1>4, <1>5 DEF EngineTells

\* A container is made while none is there.
LEMMA MadeTells ==
    ASSUME EngineOK, AttachedInv, NEW c \in Container, UNCHANGED <<networks, attached, wire, open>>,
           container[c].state = "absent",
           container' = [container EXCEPT ![c] = [state |-> "created", label |-> TRUE]]
    PROVE  EngineTells
<1>1. container \in [Container -> Containers]
  BY DEF EngineOK, ContainersOK
<1>2. \A n \in Network : attached[n] \subseteq Container \ {c}
  BY DEF EngineOK, NetworksOK, AttachedInv
<1>3. \A d \in Container \ {c} : container'[d] = container[d]
  BY <1>1
<1>4. \A n \in Network : NetStays(n)
  BY <1>2, <1>3, TruthStays
<1>5. AttachedInv'
  BY <1>2, <1>3 DEF AttachedInv
<1>6. Len(wire) \in Nat /\ wire \in Events
  BY LenProperties DEF EngineOK, Events
<1>7. Extends(wire') /\ NewIn(wire') = {}
  BY <1>6 DEF Extends, NewIn
<1> QED BY <1>4, <1>5, <1>7 DEF EngineTells

DockerKept == UNCHANGED <<networks, attached, container, wire, open>>

\* A step is of Docker's containers and networks, or of the monitors.
LEMMA RequestTells ==
    ASSUME EngineOK, RequestsInv, AttachedInv, NEW r \in Request,
           AttachStopped(r) \/ AttachRemoved(r) \/ ContainerMade(r) \/ NetworksConnected(r) \/ Started(r)
    PROVE  EngineTells /\ UNCHANGED monitorVars
<1> DEFINE c == request[r].of
<1>1. UNCHANGED monitorVars
  BY DEF AttachStopped, AttachRemoved, ContainerMade, NetworksConnected, Started
<1>2. c \in Container
  BY DEF RequestsInv, RequestsAreOfContainers, AttachStopped, AttachRemoved, ContainerMade,
         NetworksConnected, Started
<1>3. container \in [Container -> Containers] /\ networks \subseteq Network
  BY DEF EngineOK, ContainersOK, NetworksOK
<1>4. CASE AttachStopped(r)
  <2>1. Leave(c) /\ UNCHANGED <<networks, open>>
    BY <1>4 DEF AttachStopped
  <2>2. \A d \in Container \ {c} : container'[d] = container[d]
    BY <1>3, <1>4 DEF AttachStopped
  <2> HIDE DEF c
  <2> QED BY <1>1, <1>2, <2>1, <2>2, LeaveTells
<1>5. CASE AttachRemoved(r)
  <2>1. Leave(c) /\ UNCHANGED <<networks, open>>
    BY <1>5 DEF AttachRemoved
  <2>2. \A d \in Container \ {c} : container'[d] = container[d]
    BY <1>3, <1>5 DEF AttachRemoved
  <2> HIDE DEF c
  <2> QED BY <1>1, <1>2, <2>1, <2>2, LeaveTells
<1>6. CASE ContainerMade(r)
  <2>1. UNCHANGED <<networks, attached, wire, open>>
    BY <1>6 DEF ContainerMade
  <2>2. container' = IF container[c].state = "absent"
                     THEN [container EXCEPT ![c] = [state |-> "created", label |-> TRUE]] ELSE container
    BY <1>6 DEF ContainerMade
  <2> HIDE DEF c
  <2> QED BY <1>1, <1>2, <2>1, <2>2, MadeTells, NothingTold
<1>7. CASE NetworksConnected(r)
  <2> DEFINE nets == {n \in request[r].nets \cap networks : container[c].state # "absent"}
  <2>1. Join(c, nets) /\ UNCHANGED <<networks, open, container>>
    BY <1>7 DEF NetworksConnected
  <2>2. nets \in SUBSET networks /\ (nets # {} => container'[c].state # "absent")
    BY <2>1
  <2> HIDE DEF c, nets
  <2> QED BY <1>1, <1>2, <2>1, <2>2, JoinTells
<1>8. CASE Started(r)
  <2>1. UNCHANGED <<networks, open>>
    BY <1>8 DEF Started
  <2>2. CASE container[c].state = "absent"
    <3>1. UNCHANGED <<networks, open, container, attached, wire>>
      BY <1>8, <2>2 DEF Started
    <3> QED BY <1>1, <3>1, NothingTold
  <2>3. CASE container[c].state # "absent"
    <3>1. container' = [container EXCEPT ![c].state = "running"]
      BY <1>8, <2>3 DEF Started
    <3>2. UNCHANGED <<attached, wire>> \/ \E nets \in SUBSET networks : Join(c, nets)
      BY <1>8 DEF Started
    <3>3. \A d \in Container : /\ container'[d].state = "absent" <=> container[d].state = "absent"
                               /\ container'[d].label = container[d].label
      BY <1>2, <1>3, <2>3, <3>1 DEF Containers
    <3>4. container'[c].state # "absent"
      BY <1>2, <2>3, <3>3
    <3> HIDE DEF c
    <3>5. CASE UNCHANGED <<attached, wire>>
      <4>1. \A n \in Network : NetStays(n)
        BY <2>1, <3>3, <3>5, TruthStays DEF EngineOK, NetworksOK
      <4>2. AttachedInv'
        BY <2>1, <3>3, <3>5 DEF AttachedInv, EngineOK, NetworksOK
      <4>3. Len(wire) \in Nat /\ wire \in Events
        BY LenProperties DEF EngineOK, Events
      <4>4. Extends(wire') /\ NewIn(wire') = {}
        BY <3>5, <4>3 DEF Extends, NewIn
      <4> QED BY <1>1, <2>1, <3>5, <4>1, <4>2, <4>4 DEF EngineTells
    <3>6. ASSUME NEW nets \in SUBSET networks, Join(c, nets) PROVE EngineTells
      BY <1>2, <2>1, <3>3, <3>4, <3>6, JoinTells
    <3> QED BY <1>1, <3>2, <3>5, <3>6
  <2> QED BY <2>2, <2>3
<1> QED BY <1>4, <1>5, <1>6, <1>7, <1>8

LEMMA UserTells == EngineOK /\ AttachedInv /\ UserStep => EngineTells
<1> SUFFICES ASSUME EngineOK, AttachedInv, UserStep PROVE EngineTells
  OBVIOUS
<1>1. ASSUME NEW n \in Network, NEW c \in Container, UserConnects(n, c) PROVE EngineTells
  <2>1. Join(c, {n}) /\ {n} \in SUBSET networks /\ UNCHANGED <<networks, open, container>>
    BY <1>1 DEF UserConnects
  <2>2. container'[c].state # "absent"
    BY <1>1, <2>1 DEF UserConnects
  <2> QED BY <2>1, <2>2, JoinTells
<1>2. ASSUME NEW c \in Container, UserRemoves(c) PROVE EngineTells
  <2>1. Leave(c) /\ UNCHANGED <<networks, open>> /\ container' = [container EXCEPT ![c] = Absent]
    BY <1>2 DEF UserRemoves
  <2>2. \A d \in Container \ {c} : container'[d] = container[d]
    BY <2>1 DEF EngineOK, ContainersOK
  <2> QED BY <2>1, <2>2, LeaveTells
<1> QED BY <1>1, <1>2, DisconnectTells, DestroyTells DEF UserStep

LEMMA DeletionTells ==
    ASSUME EngineOK, AttachedInv, NEW d \in Deletion, NEW c \in Container, ContainerDeleted(d, c)
    PROVE  EngineTells /\ UNCHANGED monitorVars
<1>1. UNCHANGED <<networks, open>> /\ UNCHANGED monitorVars
  BY DEF ContainerDeleted
<1>2. CASE container' = [container EXCEPT ![c] = Absent] /\ Leave(c)
  <2>1. \A k \in Container \ {c} : container'[k] = container[k]
    BY <1>2 DEF EngineOK, ContainersOK
  <2> QED BY <1>1, <1>2, <2>1, LeaveTells
<1>3. CASE UNCHANGED <<container, attached, wire>>
  BY <1>1, <1>3, NothingTold
<1> QED BY <1>2, <1>3 DEF ContainerDeleted

LEMMA DockerOrMonitor ==
    ASSUME EngineOK, RequestsInv, AttachedInv, [Next]_vars
    PROVE  \/ EngineTells /\ UNCHANGED monitorVars
           \/ StartupStep \/ EventStep
           \/ (AsksMonitor \/ StopsMonitor) /\ DockerKept
           \/ LosesMonitors /\ wire' = <<>> /\ ~open' /\ UNCHANGED <<networks, attached, container>>
<1> USE DEF DockerKept
<1>1. CASE DockerKept /\ UNCHANGED monitorVars
  BY <1>1, NothingTold
<1>2. ASSUME NEW s \in Session, StartSession(s) PROVE AsksMonitor /\ DockerKept
  <2>1. s \in Call
    BY ServicesAssumption
  <2>2. AskMonitor(s) /\ dns' \in {dns, "starting"} /\ KeepsMonitor
    BY <1>2 DEF StartSession, KeepsMonitor
  <2> QED BY <1>2, <2>1, <2>2 DEF AsksMonitor, StartSession
<1>3. ASSUME NEW s \in Session, StopSession(s) PROVE StopsMonitor /\ DockerKept
  BY <1>3 DEF StopSession, StopsMonitor, engineVars
<1>4. ASSUME NEW r \in Request, EnsureServices(r) PROVE AsksMonitor
  <2>1. r \in Call
    BY ServicesAssumption
  <2> QED BY <1>4, <2>1 DEF EnsureServices, AsksMonitor
<1>5. CASE Restart
  BY <1>5 DEF Restart, LosesMonitors
<1>6. ASSUME NEW r \in Request,
             ClientServed(r) \/ \E c \in Container : Activate(r, c)
      PROVE  AsksMonitor /\ DockerKept
  BY <1>4, <1>6 DEF ClientServed, Activate, engineVars
<1>7. CASE UNCHANGED vars
  BY <1>1, <1>7 DEF vars, engineVars
<1>8. CASE ProxyStep \/ \E e \in Everything \cup Deactivation : Deactivate(e)
  BY <1>1, <1>8 DEF ProxyStep, KeepsDocker, ProxyReady, ProxyFails, ProxyStopped, Deactivate, engineVars
<1>9. ASSUME NEW d \in Deletion,
             \/ DeletionAvailable(d) \/ DeletionUnavailable(d) \/ ContainersListed(d)
             \/ ImagesAsked(d) \/ DeletionEnds(d) \/ DeletionFails(d) \/ TunnelNotStopped(d)
      PROVE  DockerKept /\ UNCHANGED monitorVars
  BY <1>9 DEF KeepsDocker, engineVars, DeletionAvailable, DeletionUnavailable,
              ContainersListed, ImagesAsked, DeletionEnds, DeletionFails, TunnelNotStopped
<1>10. CASE DeletionStep
  BY <1>1, <1>9, <1>10, DeletionTells DEF DeletionStep
<1>11. ASSUME NEW r \in Request,
              \/ \E c \in Container, kind \in {"create", "start"} : ClientAsks(r, kind, c)
              \/ ClientRefused(r) \/ ImageInspected(r) \/ StartChecked(r) \/ AttachInspected(r)
              \/ VolumeNamed(r)
       PROVE  DockerKept /\ UNCHANGED monitorVars
  BY <1>11 DEF KeepsDocker, engineVars, ClientAsks, ClientRefused, ImageInspected, StartChecked, AttachInspected,
               VolumeNamed
<1>12. CASE VolumeStep /\ UNCHANGED <<monitorVars, serviceVars>>
  <2>1. DockerKept
    BY <1>12 DEF VolumeStep
  <2> QED BY <1>1, <1>12, <2>1
<1>13. CASE UserStep /\ UNCHANGED <<monitorVars, volumeVars, serviceVars>>
  BY <1>13, UserTells
<1>14. CASE SessionStep
  BY <1>2, <1>3, <1>8, <1>14 DEF SessionStep
<1>15. CASE RequestArrives
  BY <1>1, <1>6, <1>11, <1>15 DEF RequestArrives
<1>16. CASE RequestStep
  BY <1>1, <1>6, <1>11, <1>16, RequestTells DEF RequestStep
<1> HIDE DEF DockerKept
<1> QED BY <1>5, <1>7, <1>8, <1>10, <1>12, <1>13, <1>14, <1>15, <1>16 DEF Next

\* The streams of events: no monitor listens to one that is still to come. The latest is
\* open as long as the registered monitor listens to it, if it was when that was made.
OnStream(m) == monitor[m].stream = stream.id

StreamInv ==
    /\ open <=> stream.state = "live"
    /\ \A m \in Call : monitor[m].stream <= stream.id
    /\ registered # None =>
           /\ monitor[registered].state = "on"
           /\ ~monitor[registered].early /\ OnStream(registered) => open

\* What is awaited is awaited for a monitor that was made, and the queries of a refresh as
\* long as it is under way.
QueriesInv ==
    /\ \A k \in Call :
           /\ call[k] \in {"new", "available", "dns"} => monitor[k].state = "none"
           /\ monitor[k].state = "none" => refresh[k].phase = "none"
    /\ \A q \in query :
           /\ monitor[q.by].state # "none"
           /\ q.serial = 0 => /\ refresh[q.by].phase \in {"querying", "failed"}
                              /\ q.net \in refresh[q.by].listed

\* The only monitor has published what it knows.
Published ==
    registered # None /\ Made = {registered} =>
        hosts = monitor[registered].targets /\ Intercepted(hosts) \subseteq tunnelled

LEMMA AttachedStays ==
    EngineOK /\ RequestsInv /\ AttachedInv /\ [Next]_vars => AttachedInv'
<1> SUFFICES ASSUME EngineOK, RequestsInv, AttachedInv, [Next]_vars PROVE AttachedInv'
  OBVIOUS
<1>1. CASE UNCHANGED <<networks, attached, container>>
  BY <1>1 DEF AttachedInv
<1>2. CASE StartupStep \/ EventStep
  BY <1>1, <1>2 DEF StartupStep, EventStep, Unavailable, Available, Register, CallFails, DnsStarts,
     DnsFails, StreamConnects, StreamFails, StreamCloses, EventArrives, NetworksListed,
     NetworkInspected, ContainersInspected, engineVars
<1> QED BY <1>1, <1>2, DockerOrMonitor DEF EngineTells, DockerKept

LEMMA WireStays ==
    EngineOK /\ RequestsInv /\ AttachedInv /\ WireInv /\ [Next]_vars => WireInv'
<1> SUFFICES ASSUME EngineOK, RequestsInv, AttachedInv, WireInv, [Next]_vars PROVE WireInv'
  OBVIOUS
<1>0. Len(wire) \in Nat /\ wire \in Events /\ wire \in Seq(Event)
  BY LenProperties DEF EngineOK, Events
<1>1. CASE UNCHANGED <<networks, wire>> /\ (open => open')
  BY <1>1 DEF WireInv, Positions
<1>2. CASE wire' = <<>>
  BY <1>2 DEF WireInv, Positions
<1>3. CASE EngineTells
  <2>1. /\ Len(wire') \in Nat /\ Len(wire) <= Len(wire')
        /\ \A i \in 1..Len(wire) : wire'[i] = wire[i]
    BY <1>3, LenProperties DEF EngineTells, Extends, Events, Positions
  <2>2. \A i \in NewIn(wire') : wire'[i].action \in {"attach", "destroy"} /\ wire'[i].net \in Network
    <3>1. wire' \in Seq(Event)
      BY <1>3 DEF EngineTells, Extends, Events
    <3>2. \A i \in 1..Len(wire') : wire'[i] \in Event
      BY <3>1, ElementOfSeq
    <3> QED BY <1>0, <2>1, <3>2 DEF NewIn, Event
  <2>3. \A i \in 1..Len(wire) : wire[i].net \in Network
    <3>1. \A i \in 1..Len(wire) : wire[i] \in Event
      BY <1>0, ElementOfSeq
    <3> QED BY <3>1 DEF Event
  <2>4. wire' # <<>> => open'
    <3>1. CASE open
      BY <1>3, <3>1 DEF EngineTells
    <3>2. CASE ~open
      BY <1>3, <3>2 DEF EngineTells, WireInv
    <3> QED BY <3>1, <3>2
  <2>5. ASSUME NEW i \in Positions(wire'), i <= Len(wire)
        PROVE  /\ wire'[i].action = "destroy" => wire'[i].net \notin networks'
               /\ wire'[i].net \notin networks' =>
                      \E j \in i..Len(wire') : wire'[j].net = wire'[i].net /\ wire'[j].action = "destroy"
    <3>1. i \in 1..Len(wire) /\ i \in Nat /\ wire'[i] = wire[i] /\ open
      BY <1>0, <2>1, <2>5 DEF Positions, WireInv
    <3>2. networks' \subseteq networks
      BY <1>3 DEF EngineTells
    <3>3. CASE wire[i].net \notin networks
      <4>1. PICK j \in i..Len(wire) : wire[j].net = wire[i].net /\ wire[j].action = "destroy"
        BY <3>1, <3>3 DEF WireInv, Positions
      <4>2. j \in 1..Len(wire) /\ j \in i..Len(wire')
        BY <1>0, <2>1, <3>1, <4>1
      <4>3. wire'[j].net = wire'[i].net /\ wire'[j].action = "destroy"
        BY <2>1, <3>1, <4>1, <4>2
      <4> QED BY <3>1, <3>2, <3>3, <4>2, <4>3
    <3>4. CASE wire[i].net \in networks
      <4>1. wire[i].action # "destroy"
        BY <3>1, <3>4 DEF WireInv, Positions
      <4>2. ASSUME wire[i].net \notin networks'
            PROVE  \E j \in i..Len(wire') : wire'[j].net = wire'[i].net /\ wire'[j].action = "destroy"
        <5> DEFINE n == wire[i].net
        <5>1. n \in Network /\ ~NetStays(n)
          BY <2>3, <3>1, <3>4, <4>2 DEF NetStays
        <5>2. PICK j \in NewIn(wire') : wire'[j].net = n /\ wire'[j].action = "destroy"
          BY <1>3, <3>1, <3>4, <4>2, <5>1 DEF EngineTells
        <5>3. j \in i..Len(wire')
          BY <1>0, <2>1, <3>1, <5>2 DEF NewIn
        <5> QED BY <3>1, <5>2, <5>3
      <4> QED BY <3>1, <4>1, <4>2
    <3> QED BY <3>3, <3>4
  <2>6. ASSUME NEW i \in Positions(wire'), ~(i <= Len(wire))
        PROVE  /\ wire'[i].action = "destroy" => wire'[i].net \notin networks'
               /\ wire'[i].net \notin networks' =>
                      \E j \in i..Len(wire') : wire'[j].net = wire'[i].net /\ wire'[j].action = "destroy"
    <3>1. i \in NewIn(wire') /\ i \in i..Len(wire')
      BY <1>0, <2>1, <2>6 DEF Positions, NewIn
    <3> QED BY <1>3, <2>2, <3>1 DEF EngineTells
  <2> QED BY <2>4, <2>5, <2>6 DEF WireInv
<1>4. CASE EventArrives
  <2>1. wire # <<>> /\ wire' = Tail(wire) /\ UNCHANGED <<networks, open>>
    BY <1>4 DEF EventArrives
  <2>2. /\ Len(wire') = Len(wire) - 1 /\ Len(wire) \in Nat \ {0}
        /\ \A i \in 1..Len(wire') : wire'[i] = wire[i + 1]
    BY <1>0, <2>1, HeadTailProperties, EmptySeq
  <2>3. ASSUME NEW i \in 1..Len(wire')
        PROVE  /\ wire'[i].action = "destroy" => wire'[i].net \notin networks'
               /\ wire'[i].net \notin networks' =>
                      \E j \in i..Len(wire') : wire'[j].net = wire'[i].net /\ wire'[j].action = "destroy"
    <3>1. i + 1 \in 1..Len(wire) /\ wire'[i] = wire[i + 1] /\ i \in Nat
      BY <2>2, <2>3
    <3>2. ASSUME wire'[i].net \notin networks'
          PROVE  \E j \in i..Len(wire') : wire'[j].net = wire'[i].net /\ wire'[j].action = "destroy"
      <4>1. PICK j \in (i + 1)..Len(wire) : wire[j].net = wire[i + 1].net /\ wire[j].action = "destroy"
        BY <2>1, <3>1, <3>2 DEF WireInv, Positions
      <4>2. j - 1 \in i..Len(wire') /\ j - 1 \in 1..Len(wire') /\ wire'[j - 1] = wire[j]
        BY <2>2, <2>3, <3>1, <4>1
      <4> QED BY <3>1, <4>1, <4>2
    <3> QED BY <2>1, <3>1, <3>2 DEF WireInv, Positions
  <2> QED BY <2>1, <2>3 DEF WireInv, Positions
<1>5. CASE StartupStep \/ EventStep
  BY <1>1, <1>2, <1>4, <1>5 DEF StartupStep, EventStep, Unavailable, Available, Register, CallFails,
     DnsStarts, DnsFails, StreamConnects, StreamFails, StreamCloses, NetworksListed,
     NetworkInspected, ContainersInspected, engineVars
<1> QED BY <1>1, <1>2, <1>3, <1>5, DockerOrMonitor DEF DockerKept

\* An event or an answer changes only what monitors know.
SameMonitor(m) ==
    /\ monitor'[m].state = monitor[m].state /\ monitor'[m].stream = monitor[m].stream
    /\ monitor'[m].early = monitor[m].early

LEMMA TargetsKeepMonitor ==
    ASSUME MonitorOK, NEW m \in Call, NEW targets, SetTargets(m, targets)
    PROVE  /\ \A k \in Call : SameMonitor(k)
           /\ \A k \in Call \ {m} : monitor'[k] = monitor[k]
           /\ monitor'[m].targets = targets
<1>1. monitor' = [monitor EXCEPT ![m].targets = targets]
  BY DEF SetTargets
<1>2. monitor \in [Call -> Monitors]
  BY DEF MonitorOK, MonitorsOK
<1>3. \A k \in Call \ {m} : monitor'[k] = monitor[k]
  BY <1>1, <1>2
<1>4. SameMonitor(m) /\ monitor'[m].targets = targets
  BY <1>1, <1>2 DEF Monitors, SameMonitor
<1> QED BY <1>3, <1>4 DEF SameMonitor

LEMMA EventKeeps ==
    ASSUME EngineOK, MonitorOK,
           \/ EventArrives
           \/ \E m \in Call : NetworksListed(m)
           \/ \E q \in query : NetworkInspected(q) \/ ContainersInspected(q)
    PROVE  /\ UNCHANGED <<stream, call, registered, networks, attached, container, open>>
           /\ \A k \in Call : SameMonitor(k)
<1>1. UNCHANGED <<stream, call, registered, networks, attached, container, open>>
  BY DEF EventArrives, NetworksListed, NetworkInspected, ContainersInspected, engineVars
<1>2. CASE monitor' = monitor
  BY <1>1, <1>2 DEF SameMonitor
<1>3. CASE EventArrives
  <2>1. CASE Destroyed(Head(wire))
    <3> DEFINE n == Head(wire).net
    <3>1. monitor' = [m \in Call |-> IF m \in Listening
                                     THEN [monitor[m] EXCEPT !.targets = Without(@, n)] ELSE monitor[m]]
      BY <2>1 DEF Destroyed
    <3>2. \A m \in Call : monitor[m] \in Monitors
      BY DEF MonitorOK, MonitorsOK
    <3> HIDE DEF n
    <3>3. \A m \in Call : SameMonitor(m)
      BY <3>1, <3>2 DEF Monitors, SameMonitor
    <3> QED BY <1>1, <3>3
  <2>2. CASE Attached(Head(wire))
    BY <1>2, <2>2 DEF Attached
  <2> QED BY <1>3, <2>1, <2>2 DEF EventArrives
<1>4. ASSUME NEW m \in Call, NetworksListed(m) PROVE monitor' = monitor
  BY <1>4 DEF NetworksListed
<1>5. ASSUME NEW q \in query, NEW aliases, Answered(q, aliases) PROVE \A k \in Call : SameMonitor(k)
  <2>1. q.by \in Call
    BY QueriesAre DEF MonitorOK, QueriesOK
  <2>2. monitor' = monitor \/ \E targets : SetTargets(q.by, targets)
    BY <1>5 DEF Answered
  <2> QED BY <1>2, <2>1, <2>2, TargetsKeepMonitor
<1>6. ASSUME NEW q \in query, NetworkInspected(q) \/ ContainersInspected(q)
      PROVE  \A k \in Call : SameMonitor(k)
  <2>1. monitor' = monitor \/ \E aliases : Answered(q, aliases)
    BY <1>6 DEF NetworkInspected, ContainersInspected, QueryFails
  <2> QED BY <1>2, <1>5, <2>1
<1> QED BY <1>1, <1>2, <1>3, <1>4, <1>6

LEMMA StreamStays ==
    EngineOK /\ RequestsInv /\ AttachedInv /\ MonitorOK /\ StreamInv /\ [Next]_vars => StreamInv'
<1> SUFFICES ASSUME EngineOK, RequestsInv, AttachedInv, MonitorOK, StreamInv, [Next]_vars
             PROVE  StreamInv'
  OBVIOUS
<1>0. /\ stream \in Streams /\ monitor \in [Call -> Monitors] /\ registered \in Call \cup {None}
      /\ \A m \in Call : monitor[m].stream \in Nat
  BY DEF MonitorOK, StreamOK, MonitorsOK, CallsOK, Monitors
<1> DEFINE Stays == \A m \in Call : monitor'[m].stream = monitor[m].stream
<1>1. CASE UNCHANGED <<open, stream, registered, monitor>>
  BY <1>1 DEF StreamInv, OnStream
<1>2. ASSUME registered' = None, (open' <=> stream'.state = "live"), stream'.id = stream.id, Stays
      PROVE  StreamInv'
  BY <1>2 DEF StreamInv
<1>3. CASE LosesMonitors /\ ~open'
  <2>1. \A m \in Call : [monitor[m] EXCEPT !.state = "stopped"].stream = monitor[m].stream
    BY <1>0 DEF Monitors
  <2>2. Stays /\ registered' = None /\ stream'.id = stream.id /\ stream'.state = "dead"
    BY <1>0, <1>3, <2>1 DEF LosesMonitors, Streams
  <2> QED BY <1>2, <1>3, <2>2
<1>4. ASSUME StopMonitor PROVE Stays /\ registered' = None
  <2>1. \A m \in Call : [monitor[m] EXCEPT !.state = "stopped"].stream = monitor[m].stream
    BY <1>0 DEF Monitors
  <2> QED BY <1>0, <1>4, <2>1 DEF StopMonitor
<1>5. CASE StopsMonitor /\ DockerKept
  BY <1>2, <1>4, <1>5 DEF StopsMonitor, DockerKept, StreamInv
<1>6. CASE (AsksMonitor /\ DockerKept) \/ (EngineTells /\ UNCHANGED monitorVars)
  BY <1>1, <1>6 DEF AsksMonitor, KeepsMonitor, DockerKept, EngineTells, monitorVars
<1>7. CASE StreamCloses
  <2>1. stream'.id = stream.id /\ stream'.state = "dead" /\ open' = FALSE
    BY <1>0, <1>7 DEF StreamCloses, Streams
  <2>2. CASE registered # None /\ OnStream(registered)
    BY <1>2, <1>4, <1>7, <2>1, <2>2 DEF StreamCloses, OnStream
  <2>3. CASE ~(registered # None /\ OnStream(registered))
    BY <1>0, <1>7, <2>1, <2>3 DEF StreamCloses, StreamInv, OnStream
  <2> QED BY <2>2, <2>3
<1>8. CASE EventStep
  <2>1. CASE \/ EventArrives
             \/ \E m \in Call : NetworksListed(m)
             \/ \E q \in query : NetworkInspected(q) \/ ContainersInspected(q)
    <3>1. /\ UNCHANGED <<stream, registered, open>>
          /\ \A k \in Call : SameMonitor(k)
      BY <2>1, EventKeeps
    <3> QED BY <1>0, <3>1 DEF StreamInv, SameMonitor, OnStream
  <2> QED BY <1>7, <1>8, <2>1 DEF EventStep
<1>9. ASSUME NEW k \in Call, Register(k) PROVE StreamInv'
  <2> DEFINE rec == [monitor[k] EXCEPT !.state = "on", !.targets = NoTargets, !.early = ~open]
  <2>1. /\ UNCHANGED <<open, stream>> /\ registered' = k /\ monitor' = [monitor EXCEPT ![k] = rec]
    BY <1>9 DEF Register, engineVars
  <2>2. rec.state = "on" /\ rec.stream = monitor[k].stream /\ rec.early = ~open
    BY <1>0 DEF Monitors
  <2> HIDE DEF rec
  <2>3. Stays /\ monitor'[k].state = "on" /\ monitor'[k].early = ~open
    BY <1>0, <2>1, <2>2
  <2> QED BY <2>1, <2>3 DEF StreamInv, OnStream
<1>10. ASSUME NEW k \in Call, Available(k) PROVE StreamInv'
  <2>1. UNCHANGED <<open, registered>>
    BY <1>10 DEF Available, engineVars
  <2>2. CASE registered # None
    BY <1>1, <1>10, <2>1, <2>2 DEF Available
  <2>3. CASE registered = None
    <3>1. /\ stream.id <= stream'.id /\ stream'.id \in Nat /\ (open' <=> stream'.state = "live")
      BY <1>0, <1>10, <2>1, <2>3 DEF Available, Streams, StreamInv
    <3>2. monitor'[k].stream = stream'.id /\ \A m \in Call \ {k} : monitor'[m] = monitor[m]
      BY <1>10, <2>3, AvailableKeeps
    <3>3. \A m \in Call : monitor'[m].stream <= stream'.id
      BY <1>0, <3>1, <3>2 DEF StreamInv, Streams
    <3> QED BY <2>1, <2>3, <3>1, <3>3 DEF StreamInv
  <2> QED BY <2>2, <2>3
<1>11. CASE StreamConnects
  BY <1>0, <1>11 DEF StreamConnects, StreamInv, OnStream, Streams
<1>13. CASE StreamFails
  BY <1>0, <1>13 DEF StreamFails, StreamInv, OnStream, Streams
<1>12. CASE StartupStep
  BY <1>1, <1>9, <1>10, <1>11, <1>12, <1>13 DEF StartupStep, Unavailable, CallFails, DnsStarts, DnsFails, engineVars
<1> QED BY <1>3, <1>5, <1>6, <1>8, <1>12, DockerOrMonitor

\* The parts of QueriesInv.
CallsMake ==
    \A k \in Call :
        /\ call[k] \in {"new", "available", "dns"} => monitor[k].state = "none"
        /\ monitor[k].state = "none" => refresh[k].phase = "none"
QueryIsOf(q) ==
    /\ monitor[q.by].state # "none"
    /\ q.serial = 0 => /\ refresh[q.by].phase \in {"querying", "failed"}
                       /\ q.net \in refresh[q.by].listed

LEMMA AnsweredOf ==
    ASSUME MonitorOK, QueriesInv, NEW q \in query, NEW aliases, Answered(q, aliases)
    PROVE  /\ query' = query \ {q}
           /\ \A k \in Call : SameMonitor(k)
           /\ \A k \in Call \ {q.by} : monitor'[k] = monitor[k] /\ refresh'[k] = refresh[k]
           /\ refresh'[q.by].listed = refresh[q.by].listed
           /\ \/ refresh'[q.by].phase = refresh[q.by].phase
              \/ /\ refresh[q.by].phase = "querying" /\ refresh'[q.by].phase = "done"
                 /\ ~\E p \in query \ {q} : p.by = q.by /\ p.serial = 0
<1> DEFINE r == [refresh[q.by] EXCEPT !.got[q.net] = aliases]
           last == r.phase = "querying" /\ ~\E p \in query \ {q} : p.by = q.by /\ p.serial = 0
           done == [r EXCEPT !.phase = "done"]
<1>1. q.by \in Call /\ refresh[q.by] \in Refreshes /\ refresh \in [Call -> Refreshes]
  BY QueriesAre DEF MonitorOK, QueriesOK, RefreshesOK
<1>2. r.phase = refresh[q.by].phase /\ r.listed = refresh[q.by].listed
  BY <1>1 DEF Refreshes
<1>3. done.phase = "done" /\ done.listed = refresh[q.by].listed
  BY <1>1 DEF Refreshes
<1>4. query' = query \ {q}
  BY DEF Answered
<1>5. \/ refresh' = refresh
      \/ refresh' = [refresh EXCEPT ![q.by] = r]
      \/ refresh' = [refresh EXCEPT ![q.by] = done] /\ last
  BY DEF Answered
<1>6. monitor' = monitor \/ \E targets : SetTargets(q.by, targets)
  BY DEF Answered
<1>7. /\ \A k \in Call : SameMonitor(k)
      /\ \A k \in Call \ {q.by} : monitor'[k] = monitor[k]
  <2>1. CASE monitor' = monitor
    BY <2>1 DEF SameMonitor
  <2>2. ASSUME NEW targets, SetTargets(q.by, targets)
        PROVE  /\ \A k \in Call : SameMonitor(k)
               /\ \A k \in Call \ {q.by} : monitor'[k] = monitor[k]
    BY <1>1, <2>2, TargetsKeepMonitor
  <2> QED BY <1>6, <2>1, <2>2
<1>8. last => refresh[q.by].phase = "querying" /\ ~\E p \in query \ {q} : p.by = q.by /\ p.serial = 0
  BY <1>2
<1> HIDE DEF r, last, done
<1>9. \A k \in Call \ {q.by} : refresh'[k] = refresh[k]
  BY <1>1, <1>5
<1>10. \/ refresh'[q.by] = refresh[q.by] \/ refresh'[q.by] = r
       \/ refresh'[q.by] = done /\ last
  BY <1>1, <1>5
<1> QED BY <1>2, <1>3, <1>4, <1>7, <1>8, <1>9, <1>10

LEMMA FailedOf ==
    ASSUME MonitorOK, NEW q \in query, QueryFails(q)
    PROVE  /\ query' = query \ {q} /\ monitor' = monitor
           /\ \A k \in Call \ {q.by} : refresh'[k] = refresh[k]
           /\ refresh'[q.by].listed = refresh[q.by].listed
           /\ q.serial # 0 => refresh'[q.by] = refresh[q.by]
           /\ q.serial = 0 => refresh'[q.by].phase = "failed"
<1>1. q.by \in Call /\ refresh \in [Call -> Refreshes]
  BY QueriesAre DEF MonitorOK, QueriesOK, RefreshesOK
<1>2. refresh' = IF q.serial = 0 THEN [refresh EXCEPT ![q.by].phase = "failed"] ELSE refresh
  BY DEF QueryFails
<1> QED BY <1>1, <1>2 DEF QueryFails, Refreshes

\* An answer ends its query, and keeps the others.
LEMMA AnswerKeepsQueries ==
    ASSUME EngineOK, MonitorOK, QueriesInv, NEW q \in query, NetworkInspected(q) \/ ContainersInspected(q)
    PROVE  QueriesInv'
<1>0. CallsMake /\ (\A p \in query : QueryIsOf(p)) /\ query \subseteq Queries
  BY DEF QueriesInv, CallsMake, QueryIsOf, MonitorOK, QueriesOK
<1>1. UNCHANGED call /\ q.by \in Call
  BY QueriesAre DEF NetworkInspected, ContainersInspected, MonitorOK, QueriesOK
<1>2. ASSUME NEW aliases, Answered(q, aliases) PROVE QueriesInv'
  <2>1. CallsMake'
    BY <1>0, <1>1, <1>2, AnsweredOf DEF CallsMake, SameMonitor, QueryIsOf
  <2>2. ASSUME NEW p \in query' PROVE QueryIsOf(p)'
    <3>1. p \in query /\ p # q /\ p.by \in Call /\ QueryIsOf(p)
      BY <1>0, <1>2, AnsweredOf, QueriesAre
    <3>2. CASE p.by # q.by
      BY <1>2, <3>1, <3>2, AnsweredOf DEF QueryIsOf
    <3>3. CASE p.by = q.by
      BY <1>2, <3>1, <3>3, AnsweredOf DEF QueryIsOf, SameMonitor
    <3> QED BY <3>2, <3>3
  <2> QED BY <2>1, <2>2 DEF QueriesInv, CallsMake, QueryIsOf
<1>3. CASE QueryFails(q)
  <2>1. CallsMake'
    BY <1>0, <1>1, <1>3, FailedOf DEF CallsMake, QueryIsOf
  <2>2. ASSUME NEW p \in query' PROVE QueryIsOf(p)'
    <3>1. p \in query /\ p.by \in Call /\ QueryIsOf(p)
      BY <1>0, <1>3, FailedOf, QueriesAre
    <3>2. CASE p.by # q.by
      BY <1>3, <3>1, <3>2, FailedOf DEF QueryIsOf
    <3>3. CASE p.by = q.by
      BY <1>3, <3>1, <3>3, FailedOf DEF QueryIsOf
    <3> QED BY <3>2, <3>3
  <2> QED BY <2>1, <2>2 DEF QueriesInv, CallsMake, QueryIsOf
<1>4. CASE /\ query' = (query \ {q}) \cup {[q EXCEPT !.phase = "containers", !.seen = attached[q.net]]}
           /\ UNCHANGED <<monitor, hosts, tunnelled, refresh>>
  <2>1. PICK later : later = [q EXCEPT !.phase = "containers", !.seen = attached[q.net]]
    OBVIOUS
  <2>2. later.by = q.by /\ later.serial = q.serial /\ later.net = q.net
    BY <1>0, <2>1 DEF Queries
  <2>3. query' = (query \ {q}) \cup {later} /\ monitor' = monitor /\ refresh' = refresh
    BY <1>4, <2>1
  <2>4. ASSUME NEW p \in query' PROVE QueryIsOf(p)'
    <3>1. PICK k \in query : p.by = k.by /\ p.serial = k.serial /\ p.net = k.net
      BY <2>2, <2>3
    <3>2. QueryIsOf(k)
      BY <1>0
    <3> QED BY <2>3, <3>1, <3>2 DEF QueryIsOf
  <2>5. CallsMake'
    BY <1>0, <1>1, <2>3 DEF CallsMake
  <2> QED BY <2>4, <2>5 DEF QueriesInv, CallsMake, QueryIsOf
<1> QED BY <1>2, <1>3, <1>4 DEF NetworkInspected, ContainersInspected

\* The networks are listed, and each is asked about.
AskedAbout(m, serial, n) == [by |-> m, serial |-> serial, net |-> n, phase |-> "network", seen |-> {}]

LEMMA ListedOf ==
    ASSUME EngineOK, MonitorOK, NEW m \in Call, NetworksListed(m)
    PROVE  /\ query' = query \cup {AskedAbout(m, 0, n) : n \in networks}
           /\ \A k \in Call \ {m} : refresh'[k] = refresh[k]
           /\ refresh[m].phase = "listing" /\ refresh'[m].listed = networks
           /\ refresh'[m].phase = IF networks = {} THEN "done" ELSE "querying"
           /\ UNCHANGED <<engineVars, stream, call, registered, monitor, hosts, tunnelled>>
           /\ unsure' = unsure \cup {n \in networks : Awaited(n)}
<1>1. refresh \in [Call -> Refreshes]
  BY DEF MonitorOK, RefreshesOK
<1>2. refresh' = [refresh EXCEPT ![m].phase = IF networks = {} THEN "done" ELSE "querying",
                                 ![m].listed = networks]
  BY DEF NetworksListed
<1>3. \A k \in Call \ {m} : refresh'[k] = refresh[k]
  BY <1>1, <1>2
<1>4. refresh'[m].listed = networks /\ refresh'[m].phase = IF networks = {} THEN "done" ELSE "querying"
  BY <1>1, <1>2 DEF Refreshes
<1> QED BY <1>3, <1>4 DEF NetworksListed, AskedAbout

LEMMA QueriesStay ==
    EngineOK /\ RequestsInv /\ AttachedInv /\ MonitorOK /\ StreamInv /\ QueriesInv /\ [Next]_vars => QueriesInv'
<1> SUFFICES ASSUME EngineOK, RequestsInv, AttachedInv, MonitorOK, StreamInv, QueriesInv, [Next]_vars
             PROVE  QueriesInv'
  OBVIOUS
<1>0. /\ CallsMake /\ (\A q \in query : QueryIsOf(q) /\ q.by \in Call)
      /\ monitor \in [Call -> Monitors] /\ refresh \in [Call -> Refreshes]
      /\ call \in [Call -> CallPhase]
  BY QueriesAre DEF QueriesInv, CallsMake, QueryIsOf, MonitorOK, QueriesOK, MonitorsOK, RefreshesOK, CallsOK
<1>1. CASE /\ query' = query /\ refresh' = refresh
           /\ \A k \in Call : /\ (monitor'[k].state = "none") <=> (monitor[k].state = "none")
                              /\ call'[k] \in {"new", "available", "dns"} =>
                                     call[k] \in {"new", "available", "dns"}
  <2>1. CallsMake'
    BY <1>0, <1>1 DEF CallsMake
  <2>2. \A q \in query' : QueryIsOf(q)'
    BY <1>0, <1>1 DEF QueryIsOf
  <2> QED BY <2>1, <2>2 DEF QueriesInv, CallsMake, QueryIsOf
<1>2. CASE UNCHANGED <<query, refresh, monitor, call>>
  BY <1>1, <1>2
<1>3. CASE LosesMonitors
  <2>1. \A k \in Call : /\ refresh'[k].phase = "none"
                        /\ monitor[k].state = "none" => monitor'[k].state = "none"
                        /\ call'[k] \in {"new", "available", "dns"} => call[k] = "new"
    BY <1>0, <1>3 DEF LosesMonitors, NoRefresh
  <2>2. query' = {}
    BY <1>3 DEF LosesMonitors
  <2> QED BY <1>0, <2>1, <2>2 DEF QueriesInv, CallsMake
<1>4. CASE StopMonitor /\ UNCHANGED <<query, refresh, call>>
  <2>1. \A k \in Call : (monitor'[k].state = "none") <=> (monitor[k].state = "none")
    <3>1. CASE registered = None
      BY <1>4, <3>1 DEF StopMonitor
    <3>2. CASE registered # None
      <4>1. monitor[registered].state # "none"
        BY <3>2 DEF StreamInv
      <4> QED BY <1>4, <3>2, <4>1 DEF StopMonitor, MonitorOK, CallsOK
    <3> QED BY <3>1, <3>2
  <2> QED BY <1>1, <1>4, <2>1
<1>5. CASE AsksMonitor
  BY <1>0, <1>1, <1>5 DEF AsksMonitor, AskMonitor, KeepsMonitor
<1>6. ASSUME NEW m \in Call, NetworksListed(m) PROVE QueriesInv'
  <2>1. CallsMake'
    BY <1>0, <1>6, ListedOf DEF CallsMake
  <2>2. ASSUME NEW q \in query' PROVE QueryIsOf(q)'
    <3>1. CASE q \in query
      <4>1. q.by \in Call /\ QueryIsOf(q) /\ monitor' = monitor
        BY <1>0, <1>6, <3>1, ListedOf
      <4>2. CASE q.by # m
        BY <1>6, <4>1, <4>2, ListedOf DEF QueryIsOf
      <4>3. CASE q.by = m
        BY <1>6, <4>1, <4>3, ListedOf DEF QueryIsOf
      <4> QED BY <4>2, <4>3
    <3>2. CASE q \notin query
      <4>1. PICK n \in networks : q = AskedAbout(m, 0, n)
        BY <1>6, <3>2, ListedOf
      <4>2. q.by = m /\ q.net \in networks
        BY <4>1 DEF AskedAbout
      <4>3. monitor[m].state # "none"
        BY <1>0, <1>6, ListedOf DEF CallsMake
      <4> QED BY <1>6, <4>2, <4>3, ListedOf DEF QueryIsOf
    <3> QED BY <3>1, <3>2
  <2> QED BY <2>1, <2>2 DEF QueriesInv, CallsMake, QueryIsOf
<1>7. CASE EventArrives
  <2>1. /\ refresh' = refresh /\ call' = call /\ \A k \in Call : SameMonitor(k)
    BY <1>7, EventKeeps DEF EventArrives
  <2>2. CASE query' = query
    BY <1>1, <2>1, <2>2 DEF SameMonitor
  <2>3. CASE Attached(Head(wire))
    <3>1. CallsMake'
      BY <1>0, <2>1 DEF CallsMake, SameMonitor
    <3>2. ASSUME NEW q \in query' PROVE QueryIsOf(q)'
      <4>1. CASE q \in query
        BY <1>0, <2>1, <4>1 DEF QueryIsOf, SameMonitor
      <4>2. CASE q \notin query
        <5>1. q.by \in Listening /\ q.serial = Serial
          BY <2>3, <4>2 DEF Attached
        <5>2. q.serial # 0
          BY <5>1, SerialIsNew DEF MonitorOK
        <5> QED BY <2>1, <5>1, <5>2 DEF QueryIsOf, SameMonitor, Listening
      <4> QED BY <4>1, <4>2
    <3> QED BY <3>1, <3>2 DEF QueriesInv, CallsMake, QueryIsOf
  <2> QED BY <1>7, <2>2, <2>3 DEF EventArrives, Destroyed
<1>8. CASE EventStep
  BY <1>2, <1>4, <1>6, <1>7, <1>8, AnswerKeepsQueries DEF EventStep, StreamCloses
<1>9. ASSUME NEW k \in Call, Register(k) PROVE QueriesInv'
  <2>1. /\ call[k] = "dns" /\ monitor[k].state = "none" /\ refresh[k].phase = "none"
        /\ query' = query
    BY <1>0, <1>9 DEF Register, CallsMake
  <2>2. /\ \A j \in Call \ {k} : monitor'[j] = monitor[j] /\ refresh'[j] = refresh[j] /\ call'[j] = call[j]
        /\ call'[k] = "done" /\ monitor'[k].state = "on"
    BY <1>0, <1>9 DEF Register
  <2>3. CallsMake'
    BY <1>0, <2>2 DEF CallsMake
  <2>4. \A q \in query' : q.by \in Call \ {k} /\ QueryIsOf(q)
    BY <1>0, <2>1 DEF QueryIsOf
  <2>5. \A q \in query' : QueryIsOf(q)'
    BY <2>2, <2>4 DEF QueryIsOf
  <2> QED BY <2>3, <2>5 DEF QueriesInv, CallsMake, QueryIsOf
<1>11. ASSUME NEW k \in Call, Available(k) PROVE QueriesInv'
  BY <1>1, <1>11, AvailableKeeps DEF AvailableMonitor
<1>10. CASE StartupStep
  BY <1>0, <1>1, <1>9, <1>10, <1>11 DEF StartupStep, Unavailable, CallFails, DnsStarts, DnsFails,
     StreamConnects, StreamFails, engineVars
<1> QED BY <1>2, <1>3, <1>4, <1>5, <1>8, <1>10, DockerOrMonitor DEF StopsMonitor, monitorVars

\* A monitor forgets a network that was destroyed.
LEMMA DestroyedOf ==
    ASSUME MonitorOK, NEW e, e.net \in Network, Destroyed(e), NEW m \in Listening
    PROVE  monitor'[m].targets = Without(monitor[m].targets, e.net)
<1>1. m \in Call /\ monitor[m] \in Monitors
  BY DEF Listening, MonitorOK, MonitorsOK
<1>2. monitor'[m] = [monitor[m] EXCEPT !.targets = Without(@, e.net)]
  BY <1>1 DEF Destroyed
<1> QED BY <1>1, <1>2 DEF Monitors

LEMMA PublishedStays ==
    EngineOK /\ RequestsInv /\ AttachedInv /\ MonitorOK /\ StreamInv /\ QueriesInv /\ Published /\ [Next]_vars
        => Published'
<1> SUFFICES ASSUME EngineOK, RequestsInv, AttachedInv, MonitorOK, StreamInv, QueriesInv, Published,
                    [Next]_vars
             PROVE  Published'
  OBVIOUS
<1>1. CASE UNCHANGED <<hosts, tunnelled, registered, monitor>>
  BY <1>1 DEF Published, Made
<1>2. CASE registered' = None
  BY <1>2 DEF Published
<1>3. ASSUME NEW k \in Call, Register(k) PROVE Published'
  <2>1. monitor'[k].targets = NoTargets /\ registered' = k /\ hosts' = NoTargets
    <3> DEFINE rec == [monitor[k] EXCEPT !.state = "on", !.targets = NoTargets, !.early = ~open]
    <3>1. monitor'[k] = rec /\ monitor[k] \in Monitors
      BY <1>3 DEF Register, MonitorOK, MonitorsOK
    <3> QED BY <1>3, <3>1 DEF Register, Monitors
  <2>2. Intercepted(hosts') = {}
    BY <2>1 DEF Intercepted, NoTargets
  <2> QED BY <2>1, <2>2 DEF Published, Intercepted
<1> DEFINE Alone == registered \in Call /\ Made = {registered}
<1>4. Alone => /\ monitor[registered].state = "on" /\ hosts = monitor[registered].targets /\ Intercepted(hosts) \subseteq tunnelled
  BY MonitorAssumption DEF Published, StreamInv
<1>5. ASSUME registered' = registered, \A k \in Call : SameMonitor(k),
             Alone => /\ hosts' = monitor'[registered].targets
                      /\ \A n \in Network : hosts'[n] # None => n \in tunnelled'
      PROVE  Published'
  <2>1. Made' = Made
    BY <1>5 DEF Made, SameMonitor
  <2>2. registered' # None /\ Made' = {registered'} => Alone
    BY <1>5, <2>1 DEF MonitorOK, CallsOK
  <2> HIDE DEF Alone
  <2> QED BY <1>5, <2>2 DEF Published, Intercepted
<1>6. ASSUME NEW q \in query, NEW targets, SetTargets(q.by, targets), registered' = registered
      PROVE  Published'
  <2>1. q.by \in Call /\ q.by \in Made
    BY QueriesAre DEF MonitorOK, QueriesOK, QueriesInv, Made
  <2>2. (\A k \in Call : SameMonitor(k)) /\ monitor'[q.by].targets = targets
    BY <1>6, <2>1, TargetsKeepMonitor
  <2>3. ASSUME Alone PROVE /\ hosts' = monitor'[registered].targets
                           /\ \A n \in Network : hosts'[n] # None => n \in tunnelled'
    <3>1. q.by = registered
      BY <2>1, <2>3
    <3>2. hosts' = targets /\ tunnelled' = IF Intercepted(targets) # Intercepted(monitor[registered].targets)
                                           THEN Intercepted(targets) ELSE tunnelled
      BY <1>4, <1>6, <2>3, <3>1 DEF SetTargets
    <3>3. Intercepted(targets) \subseteq tunnelled'
      BY <1>4, <2>3, <3>2
    <3> QED BY <2>2, <3>1, <3>2, <3>3 DEF Intercepted
  <2> QED BY <1>5, <1>6, <2>2, <2>3
<1>7. CASE EventArrives
  <2> DEFINE e == Head(wire)
  <2>1. e.net \in Network
    BY <1>7, EventIsRead DEF EventArrives, EngineOK
  <2>2. registered' = registered /\ \A k \in Call : SameMonitor(k)
    BY <1>7, EventKeeps DEF EventArrives
  <2> HIDE DEF e
  <2>3. CASE Attached(e)
    BY <1>1, <2>2, <2>3 DEF Attached
  <2>4. CASE Destroyed(e)
    <3>1. ASSUME Alone PROVE /\ hosts' = monitor'[registered].targets
                             /\ \A n \in Network : hosts'[n] # None => n \in tunnelled'
      <4> DEFINE changed == {m \in Listening : monitor[m].targets[e.net] # None}
      <4>1. CASE registered \notin Listening
        <5>1. changed = {} /\ monitor'[registered] = monitor[registered]
          BY <2>4, <3>1, <4>1 DEF Destroyed, Listening, Made
        <5>2. UNCHANGED <<hosts, tunnelled>>
          BY <2>4, <5>1 DEF Destroyed
        <5> QED BY <1>4, <3>1, <5>1, <5>2 DEF Intercepted
      <4>6. registered \in Listening => monitor'[registered].targets = Without(monitor[registered].targets, e.net)
        BY <2>1, <2>4, DestroyedOf
      <4>2. Listening \subseteq {registered}
        BY <3>1 DEF Listening, Made
      <4>3. monitor[registered].targets \in AliasMap
        BY <3>1, MonitorsAre DEF MonitorOK, MonitorsOK
      <4>4. CASE registered \in Listening /\ changed = {}
        <5>1. monitor[registered].targets[e.net] = None /\ UNCHANGED <<hosts, tunnelled>>
          BY <1>4, <2>4, <3>1, <4>4 DEF Destroyed
        <5>2. Without(monitor[registered].targets, e.net) = monitor[registered].targets
          BY <4>3, <5>1 DEF Without, AliasMap
        <5> QED BY <1>4, <3>1, <4>4, <4>6, <5>1, <5>2 DEF Intercepted
      <4>5. CASE registered \in Listening /\ changed # {}
        <5>1. hosts' = Without(monitor[registered].targets, e.net) /\ tunnelled' = Intercepted(hosts')
          BY <2>4, <4>2, <4>5 DEF Destroyed
        <5> QED BY <4>5, <4>6, <5>1 DEF Intercepted
      <4> QED BY <4>1, <4>4, <4>5
    <3> QED BY <1>5, <2>2, <3>1
  <2> QED BY <1>7, <2>3, <2>4 DEF EventArrives, e
<1>8. ASSUME NEW q \in query, NetworkInspected(q) \/ ContainersInspected(q) PROVE Published'
  <2>1. registered' = registered
    BY <1>8 DEF NetworkInspected, ContainersInspected
  <2>2. UNCHANGED <<hosts, tunnelled, monitor>> \/ \E aliases : Answered(q, aliases)
    BY <1>8 DEF NetworkInspected, ContainersInspected, QueryFails
  <2>3. UNCHANGED <<hosts, tunnelled, monitor>> \/ \E targets : SetTargets(q.by, targets)
    BY <2>2 DEF Answered
  <2> QED BY <1>1, <1>6, <2>1, <2>3
<1>9. CASE EventStep
  BY <1>1, <1>2, <1>7, <1>8, <1>9 DEF EventStep, StreamCloses, StopMonitor, NetworksListed
<1>12. ASSUME NEW k \in Call, Available(k) PROVE Published'
  BY <1>12, AvailableKeeps DEF AvailableMonitor, Published, Made, MonitorOK, CallsOK
<1>10. CASE StartupStep
  BY <1>1, <1>3, <1>10, <1>12 DEF StartupStep, Unavailable, CallFails, DnsStarts, DnsFails,
     StreamConnects, StreamFails, engineVars
<1>11. CASE AsksMonitor \/ StopsMonitor \/ LosesMonitors \/ UNCHANGED monitorVars
  BY <1>1, <1>2, <1>11 DEF AsksMonitor, KeepsMonitor, StopsMonitor, StopMonitor, LosesMonitors, monitorVars
<1> QED BY <1>9, <1>10, <1>11, DockerOrMonitor

\* What is awaited for m about n.
About(m, n) == {q \in query : q.by = m /\ q.net = n}
Listed(m, n) == refresh[m].phase = "querying" /\ n \in refresh[m].listed

\* One answer is awaited, that of the refresh if it is under way.
OneAnswer(m, n) ==
    /\ \A p, q \in About(m, n) : p = q
    /\ Listed(m, n) => \A q \in About(m, n) : q.serial = 0

\* It is asked of what Docker has, ...
AnswersRight(m, n) ==
    \A q \in About(m, n) : /\ n \in networks
                           /\ q.phase = "containers" => n \notin HostNetwork /\ q.seen = attached[n]

\* ... and what was answered is what Docker has, wherever it is kept.
TargetsRight(m, n) ==
    About(m, n) = {} =>
        /\ refresh[m].phase = "listing" => monitor[m].targets[n] \in {None, Truth(n)}
        /\ Listed(m, n) => refresh[m].got[n] = Truth(n)
        /\ refresh[m].phase # "listing" /\ ~Listed(m, n) => monitor[m].targets[n] = Truth(n)

\* A monitor follows a network if it is right or will hear of it.
Follows(m, n) ==
    \/ n \in unsure
    \/ OneAnswer(m, n) /\ (Announced(n) \/ (AnswersRight(m, n) /\ TargetsRight(m, n)))

MonitorFollows ==
    \A m \in Call : m = registered /\ ~monitor[m].early /\ OnStream(m) /\ refresh[m].phase # "failed" =>
        \A n \in Network : Follows(m, n)

\* What keeps a monitor right: Docker changes nothing, or tells.
LEMMA FollowsOn ==
    ASSUME NEW m \in Call, NEW n \in Network, Follows(m, n),
           About(m, n)' = About(m, n), n \in unsure => n \in unsure',
           refresh'[m].phase = refresh[m].phase, Listed(m, n)' <=> Listed(m, n),
           refresh'[m].got[n] = refresh[m].got[n], monitor'[m].targets[n] = monitor[m].targets[n],
           Announced(n)' \/ (NetStays(n) /\ ~Announced(n))
    PROVE  Follows(m, n)'
<1>1. CASE n \in unsure
  BY <1>1 DEF Follows
<1>2. CASE n \notin unsure
  <2>1. OneAnswer(m, n)'
    BY <1>2 DEF Follows, OneAnswer
  <2>2. CASE Announced(n)'
    BY <2>1, <2>2 DEF Follows
  <2>3. CASE NetStays(n) /\ ~Announced(n)
    <3>1. AnswersRight(m, n) /\ TargetsRight(m, n)
      BY <1>2, <2>3 DEF Follows
    <3>2. AnswersRight(m, n)'
      BY <2>3, <3>1 DEF AnswersRight, NetStays
    <3>3. TargetsRight(m, n)'
      BY <2>3, <3>1 DEF TargetsRight, NetStays
    <3> QED BY <2>1, <3>2, <3>3 DEF Follows
  <2> QED BY <2>2, <2>3
<1> QED BY <1>1, <1>2

\* A step of Docker is followed: the stream is open.
LEMMA EngineFollows ==
    ASSUME EngineOK, NEW m \in Call, NEW n \in Network, Follows(m, n), open, EngineTells,
           UNCHANGED monitorVars
    PROVE  Follows(m, n)'
<1>1. /\ About(m, n)' = About(m, n) /\ unsure' = unsure /\ Listed(m, n)' = Listed(m, n)
      /\ refresh' = refresh /\ monitor' = monitor
  BY DEF monitorVars, About, Listed
<1>2. Announced(n) => Announced(n)'
  <2>1. Len(wire) \in Nat /\ Len(wire') \in Nat
    BY LenProperties DEF EngineOK, Events, EngineTells, Extends
  <2>2. \A i \in 1..Len(wire) : i \in 1..Len(wire') /\ wire'[i] = wire[i]
    BY <2>1 DEF EngineTells, Extends, Positions
  <2> QED BY <2>2 DEF Announced, Positions
<1>3. Announced(n)' \/ NetStays(n)
  <2>1. (\E i \in NewIn(wire') : wire'[i].net = n) => Announced(n)'
    <3>1. Len(wire) \in Nat /\ Len(wire') \in Nat
      BY LenProperties DEF EngineOK, Events, EngineTells, Extends
    <3> QED BY <3>1 DEF NewIn, Announced, Positions
  <2> QED BY <2>1 DEF EngineTells
<1> QED BY <1>1, <1>2, <1>3, FollowsOn

\* A monitor that is made knows nothing yet, and nothing is asked for it.
LEMMA RegisterFollows ==
    ASSUME MonitorOK, QueriesInv, NEW m \in Call, Register(m), NEW n \in Network
    PROVE  Follows(m, n)'
<1>1. monitor[m].state = "none" /\ query' = query
  BY DEF Register, QueriesInv
<1>2. About(m, n)' = {}
  BY <1>1 DEF About, QueriesInv
<1>3. refresh'[m].phase = "listing"
  BY DEF Register, MonitorOK, RefreshesOK, Refreshes
<1>4. monitor'[m].targets = NoTargets
  <2>1. /\ monitor'[m] = [monitor[m] EXCEPT !.state = "on", !.targets = NoTargets, !.early = ~open]
        /\ monitor[m] \in Monitors
    BY DEF Register, MonitorOK, MonitorsOK
  <2> QED BY <2>1 DEF Monitors
<1>5. monitor'[m].targets[n] = None
  BY <1>4 DEF NoTargets
<1>6. OneAnswer(m, n)' /\ AnswersRight(m, n)'
  BY <1>2, <1>3 DEF OneAnswer, AnswersRight, Listed
<1>7. TargetsRight(m, n)'
  BY <1>3, <1>5 DEF TargetsRight, Listed
<1> QED BY <1>6, <1>7 DEF Follows

\* The networks that are there are asked about; the others are gone.
LEMMA ListFollows ==
    ASSUME EngineOK, MonitorOK, NEW k \in Call, NetworksListed(k), NEW m \in Call, NEW n \in Network,
           Follows(m, n)
    PROVE  Follows(m, n)'
<1>1. /\ UNCHANGED <<networks, attached, container, wire, monitor>>
      /\ unsure' = unsure \cup {i \in networks : Awaited(i)}
      /\ query' = query \cup {AskedAbout(k, 0, i) : i \in networks}
  BY ListedOf DEF engineVars
<1>2. Truth(n)' = Truth(n) /\ NetStays(n) /\ (Announced(n)' <=> Announced(n))
  BY <1>1, TruthStays DEF Announced, Positions, NetStays
<1>3. CASE k # m
  <2>1. refresh'[m] = refresh[m]
    BY <1>3, ListedOf
  <2>2. About(m, n)' = About(m, n)
    BY <1>1, <1>3 DEF About, AskedAbout
  <2> QED BY <1>1, <1>2, <2>1, <2>2, FollowsOn DEF Listed
<1>4. CASE k = m /\ n \in networks
  <2>1. SUFFICES ASSUME n \notin unsure' PROVE Follows(m, n)'
    BY DEF Follows
  <2>2. About(m, n) = {}
    BY <1>1, <1>4, <2>1 DEF Awaited, About
  <2>3. About(m, n)' = {AskedAbout(m, 0, n)}
    BY <1>1, <1>4, <2>2 DEF About, AskedAbout
  <2>4. OneAnswer(m, n)'
    BY <2>3 DEF OneAnswer, AskedAbout
  <2>5. AskedAbout(m, 0, n).phase = "network"
    BY DEF AskedAbout
  <2>6. AnswersRight(m, n)'
    BY <1>1, <1>4, <2>3, <2>5 DEF AnswersRight
  <2>7. TargetsRight(m, n)'
    BY <2>3 DEF TargetsRight
  <2> QED BY <2>4, <2>6, <2>7 DEF Follows
<1>5. CASE k = m /\ n \notin networks
  <2>1. SUFFICES ASSUME n \notin unsure' PROVE Follows(m, n)'
    BY DEF Follows
  <2>2. OneAnswer(m, n) /\ (Announced(n) \/ (AnswersRight(m, n) /\ TargetsRight(m, n)))
    BY <1>1, <2>1 DEF Follows
  <2>3. About(m, n)' = About(m, n)
    BY <1>1, <1>5 DEF About, AskedAbout
  <2>4. refresh[m].phase = "listing" /\ refresh'[m].phase # "listing" /\ ~Listed(m, n)'
    BY <1>5, ListedOf DEF Listed
  <2>5. OneAnswer(m, n)'
    BY <2>2, <2>3, <2>4 DEF OneAnswer
  <2>6. Truth(n)' = None
    BY <1>1, <1>5 DEF Truth
  <2>7. ASSUME AnswersRight(m, n), TargetsRight(m, n) PROVE AnswersRight(m, n)' /\ TargetsRight(m, n)'
    <3>1. About(m, n) = {}
      BY <1>5, <2>7 DEF AnswersRight
    <3>2. monitor'[m].targets[n] = None
      BY <1>1, <1>2, <2>4, <2>6, <2>7, <3>1 DEF TargetsRight
    <3>3. AnswersRight(m, n)'
      BY <2>3, <3>1 DEF AnswersRight
    <3>4. TargetsRight(m, n)'
      BY <2>4, <2>6, <3>2 DEF TargetsRight
    <3> QED BY <3>3, <3>4
  <2> QED BY <1>2, <2>2, <2>5, <2>7 DEF Follows
<1> QED BY <1>3, <1>4, <1>5

\* An event that a listening monitor hears is followed: it forgets the network, or asks.
LEMMA EventFollows ==
    ASSUME EngineOK, WireInv, MonitorOK, EventArrives, NEW m \in Listening, NEW n \in Network,
           Follows(m, n)
    PROVE  Follows(m, n)'
<1> DEFINE e == Head(wire)
<1>1. /\ UNCHANGED <<networks, attached, container, refresh>> /\ wire' = Tail(wire) /\ wire # <<>>
      /\ unsure' = IF Awaited(e.net) THEN unsure \cup {e.net} ELSE unsure \ {e.net}
      /\ IF e.action = "destroy" THEN Destroyed(e) ELSE Attached(e)
  BY DEF EventArrives
<1>2. /\ Len(wire) \in Nat \ {0} /\ Len(wire') = Len(wire) - 1 /\ e = wire[1]
      /\ \A i \in 1..Len(wire') : wire'[i] = wire[i + 1]
  <2>1. wire \in Seq(Event)
    BY DEF EngineOK, Events
  <2> QED BY <1>1, <2>1, HeadTailProperties, EmptySeq, LenProperties
<1>3. e.net \in Network /\ e.action \in {"attach", "destroy"}
  BY <1>1, EventIsRead DEF EngineOK
<1>4. m \in Call /\ monitor[m] \in Monitors /\ monitor[m].targets \in AliasMap
  BY MonitorsAre DEF Listening, MonitorOK, MonitorsOK
<1>5. NetStays(n) /\ Truth(n)' = Truth(n)
  BY <1>1, TruthStays DEF NetStays
<1>6. /\ e.action = "destroy" => e.net \notin networks
      /\ e.net \notin networks =>
             \E j \in 1..Len(wire) : wire[j].net = e.net /\ wire[j].action = "destroy"
  BY <1>2 DEF WireInv, Positions
<1>7. \A j \in 2..Len(wire) : j - 1 \in 1..Len(wire') /\ wire'[j - 1] = wire[j]
  BY <1>2
<1> HIDE DEF e
<1>8. CASE n # e.net
  <2>1. About(m, n)' = About(m, n)
    <3>1. CASE Destroyed(e)
      BY <3>1 DEF Destroyed, About
    <3>2. CASE Attached(e)
      BY <1>8, <3>2 DEF Attached, About
    <3> QED BY <1>1, <3>1, <3>2
  <2>2. monitor'[m].targets[n] = monitor[m].targets[n]
    <3>1. CASE Destroyed(e)
      <4>1. monitor'[m].targets = Without(monitor[m].targets, e.net)
        BY <1>3, <3>1, DestroyedOf
      <4> QED BY <1>4, <1>8, <4>1 DEF Without, AliasMap
    <3>2. CASE Attached(e)
      BY <3>2 DEF Attached
    <3> QED BY <1>1, <3>1, <3>2
  <2>3. Announced(n) => Announced(n)'
    <3>1. SUFFICES ASSUME NEW j \in 1..Len(wire), wire[j].net = n PROVE Announced(n)'
      BY DEF Announced, Positions
    <3>2. j \in 2..Len(wire)
      BY <1>2, <1>8, <3>1
    <3> QED BY <1>7, <3>1, <3>2 DEF Announced, Positions
  <2>4. n \in unsure => n \in unsure'
    BY <1>1, <1>8
  <2>5. (Listed(m, n)' <=> Listed(m, n)) /\ refresh' = refresh
    BY <1>1 DEF Listed
  <2> QED BY <1>4, <1>5, <2>1, <2>2, <2>3, <2>4, <2>5, FollowsOn
<1>9. CASE n = e.net
  <2>1. SUFFICES ASSUME n \notin unsure' PROVE Follows(m, n)'
    BY DEF Follows
  <2>2. ~Awaited(n) /\ About(m, n) = {} /\ ~Listed(m, n)
    BY <1>1, <1>4, <1>9, <2>1 DEF Awaited, About, Listed
  <2>3. ~Listed(m, n)' /\ refresh'[m].phase = refresh[m].phase
    BY <1>1, <2>2 DEF Listed
  <2>4. CASE Destroyed(e) /\ e.action = "destroy"
    <3>1. About(m, n)' = {}
      BY <2>2, <2>4 DEF Destroyed, About
    <3>2. monitor'[m].targets[n] = None
      <4>1. monitor'[m].targets = Without(monitor[m].targets, e.net)
        BY <1>3, <2>4, DestroyedOf
      <4> QED BY <1>4, <1>9, <4>1 DEF Without, AliasMap
    <3>3. OneAnswer(m, n)' /\ AnswersRight(m, n)'
      BY <3>1 DEF OneAnswer, AnswersRight
    <3>4. Truth(n)' = None
      BY <1>1, <1>6, <1>9, <2>4 DEF Truth
    <3>5. TargetsRight(m, n)'
      BY <2>3, <3>2, <3>4 DEF TargetsRight
    <3> QED BY <3>3, <3>5 DEF Follows
  <2>5. CASE Attached(e) /\ e.action # "destroy"
    <3>1. About(m, n)' = {AskedAbout(m, Serial, n)}
      BY <1>9, <2>2, <2>5 DEF Attached, About, AskedAbout
    <3>2. AskedAbout(m, Serial, n).phase = "network"
      BY DEF AskedAbout
    <3>3. OneAnswer(m, n)' /\ TargetsRight(m, n)'
      BY <2>3, <3>1 DEF OneAnswer, TargetsRight
    <3>4. CASE n \in networks
      <4>1. AnswersRight(m, n)'
        BY <1>1, <3>1, <3>2, <3>4 DEF AnswersRight
      <4> QED BY <3>3, <4>1 DEF Follows
    <3>5. CASE n \notin networks
      <4>1. PICK j \in 1..Len(wire) : wire[j].net = e.net /\ wire[j].action = "destroy"
        BY <1>6, <1>9, <3>5
      <4>2. j \in 2..Len(wire)
        BY <1>2, <2>5, <4>1
      <4>3. Announced(n)'
        BY <1>7, <1>9, <4>1, <4>2 DEF Announced, Positions
      <4> QED BY <3>3, <4>3 DEF Follows
    <3> QED BY <3>4, <3>5
  <2> QED BY <1>1, <2>4, <2>5
<1> QED BY <1>8, <1>9

\* What an answer about q.net does to what q.by knows of any network.
LEMMA AnsweredNets ==
    ASSUME MonitorOK, NEW q \in query, NEW aliases, Answered(q, aliases), NEW n \in Network
    PROVE  LET m == q.by
               rest == \E p \in query \ {q} : p.by = m /\ p.serial = 0
               got == IF n = q.net THEN aliases ELSE refresh[m].got[n]
           IN  /\ q.serial # 0 =>
                     /\ refresh' = refresh
                     /\ monitor'[m].targets[n] = IF n = q.net THEN aliases ELSE monitor[m].targets[n]
               /\ q.serial = 0 /\ (refresh[m].phase # "querying" \/ rest) =>
                     /\ monitor' = monitor /\ refresh'[m].got[n] = got
                     /\ refresh'[m].phase = refresh[m].phase /\ refresh'[m].listed = refresh[m].listed
               /\ q.serial = 0 /\ refresh[m].phase = "querying" /\ ~rest =>
                     /\ refresh'[m].phase = "done"
                     /\ monitor'[m].targets[n] = IF n \in refresh[m].listed THEN got
                                                 ELSE monitor[m].targets[n]
<1> DEFINE m == q.by
           r == [refresh[q.by] EXCEPT !.got[q.net] = aliases]
           rest == \E p \in query \ {q} : p.by = m /\ p.serial = 0
           last == r.phase = "querying" /\ ~rest
           targets == monitor[q.by].targets
           one == [targets EXCEPT ![q.net] = aliases]
           all == [i \in Network |-> IF i \in r.listed THEN r.got[i] ELSE targets[i]]
           done == [r EXCEPT !.phase = "done"]
<1>1. m \in Call /\ q.net \in Network /\ refresh[m] \in Refreshes /\ refresh[m].got \in AliasMap
      /\ targets \in AliasMap /\ refresh \in [Call -> Refreshes]
  BY QueriesAre, RefreshesAre, MonitorsAre DEF MonitorOK, QueriesOK, RefreshesOK, MonitorsOK
<1>2. r.phase = refresh[m].phase /\ r.listed = refresh[m].listed
  BY <1>1 DEF Refreshes
<1>3. r.got = [refresh[m].got EXCEPT ![q.net] = aliases]
  BY <1>1 DEF Refreshes
<1>4. r.got[n] = IF n = q.net THEN aliases ELSE refresh[m].got[n]
  BY <1>1, <1>3 DEF AliasMap
<1>5. one[n] = IF n = q.net THEN aliases ELSE targets[n]
  BY <1>1 DEF AliasMap
<1>6. all[n] = IF n \in r.listed THEN r.got[n] ELSE targets[n]
  OBVIOUS
<1>7. done.phase = "done"
  BY <1>1 DEF Refreshes
<1>8. /\ q.serial # 0 => SetTargets(m, one) /\ refresh' = refresh
      /\ q.serial = 0 /\ last => SetTargets(m, all) /\ refresh' = [refresh EXCEPT ![m] = done]
      /\ q.serial = 0 /\ ~last => refresh' = [refresh EXCEPT ![m] = r] /\ monitor' = monitor
  BY DEF Answered
<1> HIDE DEF m, r, last, one, all, done, targets, rest
<1>9. CASE q.serial # 0
  <2>1. monitor'[m].targets = one /\ refresh' = refresh
    BY <1>1, <1>8, <1>9, TargetsKeepMonitor
  <2> QED BY <1>5, <1>9, <2>1 DEF m, targets
<1>10. CASE q.serial = 0 /\ last
  <2>1. monitor'[m].targets = all
    BY <1>1, <1>8, <1>10, TargetsKeepMonitor
  <2>2. refresh'[m].phase = "done"
    BY <1>1, <1>7, <1>8, <1>10
  <2>3. refresh[m].phase = "querying" /\ ~rest
    BY <1>2, <1>10 DEF last
  <2> QED BY <1>2, <1>4, <1>6, <1>10, <2>1, <2>2, <2>3 DEF m, rest, targets
<1>11. CASE q.serial = 0 /\ ~last
  <2>1. refresh'[m] = r /\ monitor' = monitor
    BY <1>1, <1>8, <1>11
  <2>2. refresh[m].phase # "querying" \/ rest
    BY <1>2, <1>11 DEF last
  <2> QED BY <1>2, <1>4, <1>11, <2>1, <2>2 DEF m, rest
<1> QED BY <1>9, <1>10, <1>11

\* An answer is what Docker has, if it was asked of that.
LEMMA AnswerFollows ==
    ASSUME EngineOK, MonitorOK, QueriesInv, NEW q \in query, NEW aliases, Answered(q, aliases),
           UNCHANGED <<engineVars, unsure>>, NEW n \in Network, Follows(q.by, n),
           refresh[q.by].phase # "failed", refresh'[q.by].phase # "failed",
           q.net = n /\ ~Announced(n) /\ AnswersRight(q.by, n) => aliases = Truth(n)
    PROVE  \A m \in Call : m = q.by => Follows(m, n)'
<1> SUFFICES ASSUME NEW m \in Call, m = q.by, n \notin unsure PROVE Follows(m, n)'
  BY DEF Follows
<1>1. /\ OneAnswer(m, n) /\ (Announced(n) \/ (AnswersRight(m, n) /\ TargetsRight(m, n)))
  BY DEF Follows
<1>2. NetStays(n) /\ Truth(n)' = Truth(n) /\ (Announced(n)' <=> Announced(n)) /\ unsure' = unsure
      /\ attached' = attached /\ networks' = networks
  BY TruthStays DEF Announced, Positions, NetStays, engineVars
<1>3. query' = query \ {q} /\ refresh'[m].listed = refresh[m].listed
  BY AnsweredOf
<1>4. About(m, n)' \subseteq About(m, n) /\ (About(m, n) \ {q} \subseteq About(m, n)')
      /\ (q.net = n => About(m, n)' = {})
  <2>1. About(m, n)' = About(m, n) \ {q}
    BY <1>3 DEF About
  <2>2. q.net = n => q \in About(m, n)
    BY DEF About
  <2> QED BY <1>1, <2>1, <2>2 DEF OneAnswer
<1>5. Listed(m, n)' => Listed(m, n)
  BY <1>3, AnsweredOf DEF Listed
<1>6. OneAnswer(m, n)'
  BY <1>1, <1>4, <1>5 DEF OneAnswer
<1>7. SUFFICES ASSUME ~Announced(n), AnswersRight(m, n), TargetsRight(m, n)
               PROVE  TargetsRight(m, n)' /\ AnswersRight(m, n)'
  BY <1>1, <1>2, <1>6 DEF Follows
<1>8. AnswersRight(m, n)'
  BY <1>2, <1>4, <1>7 DEF AnswersRight
<1>9. TargetsRight(m, n)'
  <2> DEFINE rest == \E p \in query \ {q} : p.by = m /\ p.serial = 0
             got == IF n = q.net THEN aliases ELSE refresh[m].got[n]
  <2>1. q.net = n => aliases = Truth(n) /\ q \in About(m, n)
    BY <1>7 DEF About
  <2>2. q.net # n => About(m, n)' = About(m, n)
    BY <1>4 DEF About
  <2>3. q.serial = 0 => refresh[m].phase = "querying" /\ q.net \in refresh[m].listed
    BY DEF QueriesInv
  <2>4. /\ q.serial # 0 =>
              /\ refresh' = refresh
              /\ monitor'[m].targets[n] = IF n = q.net THEN aliases ELSE monitor[m].targets[n]
        /\ q.serial = 0 /\ rest =>
              /\ monitor' = monitor /\ refresh'[m].got[n] = got
              /\ refresh'[m].phase = refresh[m].phase /\ refresh'[m].listed = refresh[m].listed
        /\ q.serial = 0 /\ refresh[m].phase = "querying" /\ ~rest =>
              /\ refresh'[m].phase = "done"
              /\ monitor'[m].targets[n] = IF n \in refresh[m].listed THEN got
                                          ELSE monitor[m].targets[n]
    BY AnsweredNets
  <2>5. ~rest /\ q.net # n /\ Listed(m, n) => About(m, n) = {}
    BY <1>1 DEF OneAnswer, About
  <2> HIDE DEF rest
  <2>6. CASE q.serial # 0
    <3>1. q.net = n => ~Listed(m, n)
      BY <1>1, <2>1, <2>6 DEF OneAnswer
    <3>2. Listed(m, n)' = Listed(m, n)
      BY <2>4, <2>6 DEF Listed
    <3> QED BY <1>2, <1>7, <2>1, <2>2, <2>4, <2>6, <3>1, <3>2 DEF TargetsRight
  <2>7. CASE q.serial = 0 /\ rest
    <3>1. Listed(m, n)' = Listed(m, n) /\ (q.net = n => Listed(m, n))
      BY <2>3, <2>4, <2>7 DEF Listed
    <3>2. refresh'[m].phase = "querying" /\ refresh[m].phase = "querying"
      BY <2>3, <2>4, <2>7
    <3> QED BY <1>2, <1>7, <2>1, <2>2, <2>4, <2>7, <3>1, <3>2 DEF TargetsRight
  <2>8. CASE q.serial = 0 /\ ~rest
    <3>1. refresh'[m].phase = "done" /\ ~Listed(m, n)' /\ refresh[m].phase = "querying"
      BY <2>3, <2>4, <2>8 DEF Listed
    <3>2. Listed(m, n) <=> n \in refresh[m].listed
      BY <3>1 DEF Listed
    <3> QED BY <1>2, <1>7, <2>1, <2>2, <2>3, <2>4, <2>5, <2>8, <3>1, <3>2 DEF TargetsRight
  <2> QED BY <2>6, <2>7, <2>8
<1> QED BY <1>8, <1>9

\* An inspection is followed, of whatever Docker has by then.
LEMMA InspectionFollows ==
    ASSUME EngineOK, MonitorOK, QueriesInv, NEW q \in query, NetworkInspected(q) \/ ContainersInspected(q),
           NEW m \in Call, NEW n \in Network, Follows(m, n),
           refresh[m].phase # "failed", refresh'[m].phase # "failed"
    PROVE  Follows(m, n)'
<1>1. UNCHANGED engineVars /\ unsure' = unsure
  BY DEF NetworkInspected, ContainersInspected
<1>2. NetStays(n) /\ (Announced(n)' <=> Announced(n))
  BY <1>1, TruthStays DEF Announced, Positions, engineVars
<1>3. ASSUME About(m, n)' = About(m, n), monitor'[m] = monitor[m], refresh'[m] = refresh[m]
      PROVE  Follows(m, n)'
  BY <1>1, <1>2, <1>3, FollowsOn DEF Listed
<1>4. ASSUME NEW aliases, Answered(q, aliases),
             q.net = n /\ ~Announced(n) /\ AnswersRight(q.by, n) => aliases = Truth(n)
      PROVE  Follows(m, n)'
  <2>1. CASE q.by = m
    BY <1>1, <1>4, <2>1, AnswerFollows
  <2>2. CASE q.by # m
    <3>1. query' = query \ {q} /\ monitor'[m] = monitor[m] /\ refresh'[m] = refresh[m]
      BY <1>4, <2>2, AnsweredOf
    <3>2. About(m, n)' = About(m, n)
      BY <2>2, <3>1 DEF About
    <3> QED BY <1>3, <3>1, <3>2
  <2> QED BY <2>1, <2>2
<1>5. CASE ContainersInspected(q)
  <2>1. Answered(q, AliasesOf(q.net, q.seen)) /\ q.phase = "containers"
    BY <1>5 DEF ContainersInspected
  <2>2. ASSUME q.net = n, AnswersRight(q.by, n) PROVE AliasesOf(q.net, q.seen) = Truth(n)
    BY <2>1, <2>2 DEF AnswersRight, About, Truth
  <2> QED BY <1>4, <2>1, <2>2
<1>6. CASE Answered(q, None) /\ q.net \in networks \cap HostNetwork
  <2>1. q.net = n => None = Truth(n)
    BY <1>6 DEF Truth
  <2> QED BY <1>4, <1>6, <2>1
<1>7. CASE QueryFails(q) /\ q.net \notin networks
  <2>1. query' = query \ {q} /\ monitor' = monitor
    BY <1>7, FailedOf
  <2>2. CASE q.by # m \/ q.net # n
    <3>1. About(m, n)' = About(m, n)
      BY <2>1, <2>2 DEF About
    <3>2. refresh'[m] = refresh[m]
      BY <1>7, FailedOf
    <3> QED BY <1>3, <2>1, <3>1, <3>2
  <2>3. CASE q.by = m /\ q.net = n
    <3>1. SUFFICES ASSUME n \notin unsure PROVE Follows(m, n)'
      BY <1>1 DEF Follows
    <3>2. OneAnswer(m, n) /\ (Announced(n) \/ (AnswersRight(m, n) /\ TargetsRight(m, n)))
      BY <3>1 DEF Follows
    <3>3. ~AnswersRight(m, n)
      BY <1>7, <2>3 DEF AnswersRight, About
    <3>4. q.serial # 0 /\ refresh'[m] = refresh[m]
      BY <1>7, <2>3, FailedOf
    <3>5. OneAnswer(m, n)'
      BY <2>1, <3>2, <3>4 DEF OneAnswer, About, Listed
    <3> QED BY <1>2, <3>2, <3>3, <3>5 DEF Follows
  <2> QED BY <2>2, <2>3
<1>8. CASE /\ q.phase = "network" /\ q.net \in networks \ HostNetwork
           /\ query' = (query \ {q}) \cup {[q EXCEPT !.phase = "containers", !.seen = attached[q.net]]}
           /\ UNCHANGED <<monitor, hosts, tunnelled, refresh>>
  <2>1. PICK later : later = [q EXCEPT !.phase = "containers", !.seen = attached[q.net]]
    OBVIOUS
  <2>2. /\ later.by = q.by /\ later.serial = q.serial /\ later.net = q.net
        /\ later.phase = "containers" /\ later.seen = attached[q.net]
    BY <2>1 DEF MonitorOK, QueriesOK, Queries
  <2>3. query' = (query \ {q}) \cup {later} /\ monitor' = monitor /\ refresh' = refresh
    BY <1>8, <2>1
  <2>4. CASE q.by # m \/ q.net # n
    <3>1. About(m, n)' = About(m, n)
      BY <2>2, <2>3, <2>4 DEF About
    <3> QED BY <1>3, <2>3, <3>1
  <2>5. CASE q.by = m /\ q.net = n
    <3>1. SUFFICES ASSUME n \notin unsure PROVE Follows(m, n)'
      BY <1>1 DEF Follows
    <3>2. OneAnswer(m, n) /\ q \in About(m, n)
      BY <2>5, <3>1 DEF Follows, About
    <3>3. About(m, n)' = {later}
      BY <2>2, <2>3, <2>5, <3>2 DEF OneAnswer, About
    <3>4. OneAnswer(m, n)'
      BY <2>2, <2>3, <3>2, <3>3 DEF OneAnswer, Listed
    <3>5. AnswersRight(m, n)'
      BY <1>1, <1>8, <2>2, <2>5, <3>3 DEF AnswersRight, engineVars
    <3>6. TargetsRight(m, n)'
      BY <3>3 DEF TargetsRight
    <3> QED BY <3>4, <3>5, <3>6 DEF Follows
  <2> QED BY <2>4, <2>5
<1> QED BY <1>5, <1>6, <1>7, <1>8 DEF NetworkInspected

\* The inductive invariant.
QuietInv ==
    /\ AttachedInv /\ WireInv
    /\ StreamInv /\ QueriesInv
    /\ Published /\ MonitorFollows

LEMMA QuietInitially == Init => QuietInv
<1> SUFFICES ASSUME Init PROVE QuietInv
  OBVIOUS
<1>1. AttachedInv /\ WireInv
  BY DEF Init, EngineInit, AttachedInv, WireInv, Positions
<1>2. StreamInv /\ Published /\ MonitorFollows
  BY MonitorAssumption DEF Init, EngineInit, MonitorInit, StreamInv, Published, MonitorFollows
<1>3. QueriesInv
  BY DEF Init, MonitorInit, NoRefresh, QueriesInv
<1> QED BY <1>1, <1>2, <1>3 DEF QuietInv

LEMMA FollowingStays ==
    EngineOK /\ RequestsInv /\ MonitorOK /\ QuietInv /\ [Next]_vars => MonitorFollows'
<1> SUFFICES ASSUME EngineOK, RequestsInv, MonitorOK, QuietInv, [Next]_vars,
                    NEW m \in Call, m = registered', ~monitor'[m].early, OnStream(m)',
                    refresh'[m].phase # "failed", NEW n \in Network
             PROVE  Follows(m, n)'
  BY DEF MonitorFollows
<1> USE DEF QuietInv
<1> DEFINE Followed == Follows(m, n) /\ open /\ m \in Listening /\ refresh[m].phase # "failed"
<1>1. ASSUME registered' = registered, SameMonitor(m), stream'.id = stream.id,
             refresh[m].phase = "failed" => refresh'[m].phase = "failed"
      PROVE  Followed
  <2>1. m = registered /\ m # None /\ ~monitor[m].early /\ OnStream(m)
    BY <1>1, MonitorAssumption DEF SameMonitor, OnStream
  <2>2. open /\ m \in Listening
    BY <2>1 DEF StreamInv, Listening, OnStream
  <2> QED BY <1>1, <2>1, <2>2 DEF MonitorFollows
<1> HIDE DEF Followed
<1>2. CASE EngineTells /\ UNCHANGED monitorVars
  BY <1>1, <1>2, EngineFollows DEF Followed, SameMonitor, monitorVars
<1>3. CASE /\ UNCHANGED <<networks, attached, container, wire>>
           /\ UNCHANGED <<registered, monitor, query, refresh, unsure>> /\ stream'.id = stream.id
  <2>1. Follows(m, n)
    BY <1>1, <1>3 DEF Followed, SameMonitor
  <2>2. NetStays(n) /\ (Announced(n)' <=> Announced(n))
    BY <1>3, TruthStays DEF Announced, Positions
  <2>3. About(m, n)' = About(m, n) /\ (Listed(m, n)' <=> Listed(m, n))
    BY <1>3 DEF About, Listed
  <2> QED BY <1>3, <2>1, <2>2, <2>3, FollowsOn
<1>4. CASE registered' = None
  BY <1>4, MonitorAssumption
<1>5. ASSUME NEW k \in Call, Register(k) PROVE Follows(m, n)'
  BY <1>5, RegisterFollows DEF Register
<1>6. ASSUME NEW k \in Call, NetworksListed(k) PROVE Follows(m, n)'
  <2>1. registered' = registered /\ SameMonitor(m) /\ stream' = stream
    BY <1>6, EventKeeps
  <2>2. refresh[m].phase = "failed" => refresh'[m] = refresh[m]
    BY <1>6, ListedOf
  <2> QED BY <1>1, <1>6, <2>1, <2>2, ListFollows DEF Followed
<1>7. CASE EventArrives
  <2>1. registered' = registered /\ SameMonitor(m) /\ refresh' = refresh /\ stream' = stream
    BY <1>7, EventKeeps DEF EventArrives
  <2> QED BY <1>1, <1>7, <2>1, EventFollows DEF Followed
<1>8. ASSUME NEW q \in query, NetworkInspected(q) \/ ContainersInspected(q) PROVE Follows(m, n)'
  <2>1. registered' = registered /\ SameMonitor(m) /\ stream' = stream
    BY <1>8, EventKeeps
  <2>2. refresh[m].phase = "failed" => refresh'[m].phase = "failed"
    <3>1. ASSUME NEW aliases, Answered(q, aliases), refresh[m].phase = "failed"
          PROVE  refresh'[m].phase = "failed"
      BY <3>1, AnsweredOf
    <3>2. ASSUME QueryFails(q), refresh[m].phase = "failed" PROVE refresh'[m].phase = "failed"
      BY <3>2, FailedOf
    <3> QED BY <1>8, <3>1, <3>2 DEF NetworkInspected, ContainersInspected
  <2> QED BY <1>1, <1>8, <2>1, <2>2, InspectionFollows DEF Followed
<1>9. CASE StreamCloses
  <2>1. registered' = registered /\ registered = m /\ m # None
    BY <1>4, <1>9, MonitorAssumption DEF StreamCloses, StopMonitor
  <2>2. ~OnStream(m) /\ monitor' = monitor
    BY <1>4, <1>9, <2>1 DEF StreamCloses, StopMonitor, OnStream
  <2>3. stream'.id = stream.id
    BY <1>9 DEF StreamCloses, MonitorOK, StreamOK, Streams
  <2> QED BY <2>2, <2>3 DEF OnStream
<1>10. CASE EventStep
  BY <1>6, <1>7, <1>8, <1>9, <1>10 DEF EventStep
<1>14. ASSUME NEW k \in Call, Available(k) PROVE Follows(m, n)'
  <2>1. registered # None
    BY <1>14, AvailableKeeps, MonitorAssumption
  <2> QED BY <1>3, <1>14, <2>1, AvailableKeeps DEF engineVars
<1>15. StreamConnects \/ StreamFails => stream'.id = stream.id
  BY DEF StreamConnects, StreamFails, MonitorOK, StreamOK, Streams
<1>11. CASE StartupStep
  BY <1>3, <1>5, <1>11, <1>14, <1>15 DEF StartupStep, Unavailable, CallFails, DnsStarts, DnsFails,
     StreamConnects, StreamFails, engineVars
<1>12. CASE AsksMonitor /\ DockerKept
  BY <1>3, <1>12 DEF AsksMonitor, KeepsMonitor, DockerKept
<1>13. CASE StopsMonitor \/ LosesMonitors
  BY <1>4, <1>13 DEF StopsMonitor, StopMonitor, LosesMonitors
<1> QED BY <1>2, <1>10, <1>11, <1>12, <1>13, DockerOrMonitor

LEMMA QuietStays ==
    EngineOK /\ RequestsInv /\ MonitorOK /\ QuietInv /\ [Next]_vars => QuietInv'
BY AttachedStays, WireStays, StreamStays, QueriesStay, PublishedStays, FollowingStays DEF QuietInv

LEMMA QuietMeansRight == MonitorOK /\ QuietInv => QuietMonitorIsRight
<1> SUFFICES ASSUME MonitorOK, QuietInv, registered # None, Quiet(registered),
                    ~monitor[registered].early, NEW n \in Network \ unsure
             PROVE  /\ monitor[registered].targets[n] = Truth(n)
                    /\ Made = {registered} =>
                           hosts[n] = Truth(n) /\ (Truth(n) # None => n \in tunnelled)
  BY DEF QuietMonitorIsRight
<1>1. registered \in Call /\ refresh[registered].phase = "done" /\ OnStream(registered)
  BY DEF MonitorOK, CallsOK, Quiet, OnStream
<1>2. Follows(registered, n) /\ ~Announced(n)
  BY <1>1 DEF QuietInv, MonitorFollows, Quiet, Announced, Positions
<1>3. About(registered, n) = {} /\ ~Listed(registered, n)
  BY <1>1 DEF Quiet, About, Listed
<1>4. monitor[registered].targets[n] = Truth(n)
  BY <1>1, <1>2, <1>3 DEF Follows, TargetsRight
<1>5. Made = {registered} =>
          hosts[n] = Truth(n) /\ (Truth(n) # None => n \in tunnelled)
  BY <1>4 DEF QuietInv, Published, Intercepted
<1> QED BY <1>4, <1>5

\* Once nothing is on its way, a registered monitor is right about a network whose last event
\* or listing came when no other answer about it was awaited, and so are the DNS server and
\* the tunnel if no other monitor was ever made. That is said only of a monitor that listens to
\* the live stream and was registered when Docker had answered the request for its events
\* (docker-networking.ts:96-135, 257-313).
THEOREM QuietIsRight == Spec => []QuietMonitorIsRight
<1>1. Init => DockerInv /\ QuietInv
  BY DockerInitially, QuietInitially
<1>2. DockerInv /\ QuietInv /\ [Next]_vars => (DockerInv /\ QuietInv)'
  BY DockerStays, QuietStays DEF DockerInv
<1>3. DockerInv /\ QuietInv => QuietMonitorIsRight
  BY QuietMeansRight DEF DockerInv
<1> QED BY <1>1, <1>2, <1>3, PTL DEF Spec
=============================================================================
