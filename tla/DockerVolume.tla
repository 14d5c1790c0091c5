---------------------------- MODULE DockerVolume ----------------------------
(***************************************************************************)
(* docker-data-injection.ts: the volume with the certificate and the       *)
(* override files, which is built through a blank container and image, and *)
(* the promise that collapses the calls that ask for it.  The volume is    *)
(* labelled with the certificate when it is created, before anything is    *)
(* written to it; the label is all that is looked at later.                *)
(***************************************************************************)
EXTENDS DockerEngine

CONSTANTS
    Asker       \* calls of ensureDockerInjectionVolumeExists

VARIABLES
    setup,      \* volumeSetupPromise: the request that is awaited, or how it ended
    building,   \* of the setup's two concurrent requests, those Docker has not done
    broken,     \* one of the two was rejected
    tools,      \* blank images and containers are in Docker
    outdated,   \* the volume in Docker is not labelled with the server's certificate
    asker,      \* asker[a]: a call, until its promise is settled
    halfMade    \* history: a server died and left a volume in Docker, or on its way
                \* there, that has the label of one that is written and is not

volumeVars == <<setup, building, broken, tools, outdated, asker, halfMade>>

\* What an attempt to build the volume awaits, in this order, and what it awaits to
\* clean up when one of these was rejected.
Attempt == {"tidy", "tidyOld", "drop", "create", "container", "write", "tidyAgain"}
CleanUp == {"undoTools", "undoVolume"}
SetupStep == {"none", "available", "inspect", "old", "failed"} \cup Attempt \cup CleanUp
AskerState == {"new", "waiting", "ready", "unavailable", "rejected", "refused"}

VolumeTypeOK ==
    /\ setup \in SetupStep
    /\ building \subseteq {"volume", "image"}
    /\ broken \in BOOLEAN /\ tools \in BOOLEAN /\ outdated \in BOOLEAN
    /\ asker \in [Asker -> AskerState]
    /\ halfMade \in BOOLEAN

VolumeInit ==
    /\ setup = "none"
    /\ building = {}
    /\ broken = FALSE /\ tools = FALSE /\ outdated = FALSE
    /\ asker = [a \in Asker |-> "new"]
    /\ halfMade = FALSE

\* The call of a: it starts a setup, or waits for the one that was started. A setup
\* that has failed stays the one that was started.
AskVolume(a) ==
    /\ asker[a] = "new"
    /\ asker' = [asker EXCEPT ![a] = IF setup = "failed" THEN "refused" ELSE "waiting"]
    /\ setup' = IF setup = "none" THEN "available" ELSE setup
    /\ UNCHANGED <<building, broken, tools, outdated, halfMade>>

\* The promise is settled: all that wait for it go on. It is reset if it resolves.
Settle(as) ==
    /\ setup' = IF as = "rejected" THEN "failed" ELSE "none"
    /\ asker' = [a \in Asker |-> IF asker[a] = "waiting" THEN as ELSE asker[a]]

\* An answer to the request that is awaited, and the next request.
Then(step) == setup' = step /\ UNCHANGED asker

VolumeAvailable ==
    /\ setup = "available"
    /\ Then("inspect")
    /\ UNCHANGED <<volume, building, broken, tools, outdated, left>>

VolumeUnavailable ==
    /\ setup = "available"
    /\ Spend("faults")
    /\ Settle("unavailable")
    /\ UNCHANGED <<volume, building, broken, tools, outdated>>

VolumeInspected_Mut ==
    /\ setup = "inspect"
    /\ IF volume # "absent" THEN Settle("ready") ELSE Then("tidy")
    /\ UNCHANGED <<volume, building, broken, tools, outdated, left>>

VolumeInspected ==
    /\ setup = "inspect"
    /\ IF volume = "absent" THEN Then("tidy")
       ELSE IF outdated THEN Then("tidyOld") ELSE Settle("ready")
    /\ UNCHANGED <<volume, building, broken, tools, outdated, left>>

\* An inspection that fails for whatever reason stands for a volume that is not there.
VolumeNotInspected ==
    /\ setup = "inspect"
    /\ Spend("faults")
    /\ Then("tidy")
    /\ UNCHANGED <<volume, building, broken, tools, outdated>>

ToolsCleaned ==
    /\ setup \in {"tidy", "tidyOld", "tidyAgain", "undoTools"}
    /\ Then(CASE setup = "tidy" -> "create"
              [] setup = "tidyOld" -> "drop"
              [] setup = "tidyAgain" -> "old"
              [] setup = "undoTools" -> "undoVolume")
    /\ building' = IF setup' = "create" THEN {"volume", "image"} ELSE building
    /\ tools' = FALSE
    /\ UNCHANGED <<volume, broken, outdated, left>>

\* Docker removes no volume that a container has.
InUse == Labelled # {}

VolumeDropped ==
    /\ setup = "drop" /\ ~InUse
    /\ Then("create")
    /\ volume' = "absent" /\ outdated' = FALSE
    /\ building' = {"volume", "image"}
    /\ UNCHANGED <<broken, tools, left>>

\* createVolume and createBlankImage, in any order. Docker keeps a volume that exists.
\* The second may come when the first was rejected and the clean up is on its way.
Created(part) ==
    /\ part \in building
    /\ building' = building \ {part}
    /\ volume' = IF part = "volume" /\ volume = "absent" THEN "empty" ELSE volume
    /\ tools' = (tools \/ part = "image")
    /\ IF setup = "create" /\ building' = {} /\ ~broken THEN Then("container")
                                                        ELSE UNCHANGED <<setup, asker>>
    /\ UNCHANGED <<broken, outdated, left>>

ContainerCreated ==
    /\ setup = "container"
    /\ Then("write")
    /\ tools' = TRUE
    /\ UNCHANGED <<volume, building, broken, outdated, left>>

\* putArchive: the certificate and the override files.
VolumeWritten ==
    /\ setup = "write"
    /\ Then("tidyAgain")
    /\ volume' = "written"
    /\ UNCHANGED <<building, broken, tools, outdated, left>>

\* The volumes of older versions are removed, or they are not.
OldVolumesCleaned ==
    /\ setup = "old"
    /\ Settle("ready")
    /\ UNCHANGED <<volume, building, broken, tools, outdated, left>>

\* Docker rejects a request of the attempt: the clean up starts.
AttemptFails ==
    /\ setup \in Attempt
    /\ Spend("faults")
    /\ Then("undoTools")
    /\ IF setup = "create"
       THEN \E part \in building : building' = building \ {part} /\ broken' = TRUE
       ELSE UNCHANGED <<building, broken>>
    /\ UNCHANGED <<volume, tools, outdated>>

\* A rejected clean up is only logged.
CleanUpFails ==
    /\ setup \in CleanUp
    /\ Spend("faults")
    /\ IF setup = "undoTools" THEN Then("undoVolume") ELSE Settle("rejected")
    /\ UNCHANGED <<volume, building, broken, tools, outdated>>

VolumeIsKept ==
    /\ InUse
    /\ \/ setup = "drop" /\ Then("undoTools")
       \/ setup = "undoVolume" /\ Settle("rejected")
    /\ UNCHANGED <<volume, building, broken, tools, outdated, left>>

VolumeUndone ==
    /\ setup = "undoVolume" /\ ~InUse
    /\ volume' = "absent" /\ outdated' = FALSE
    /\ Settle("rejected")
    /\ UNCHANGED <<building, broken, tools, left>>

VolumeStep ==
    /\ \/ VolumeAvailable \/ VolumeUnavailable \/ VolumeInspected \/ VolumeNotInspected
       \/ ToolsCleaned \/ VolumeDropped \/ (\E part \in building : Created(part))
       \/ ContainerCreated \/ VolumeWritten \/ OldVolumesCleaned
       \/ AttemptFails \/ CleanUpFails \/ VolumeUndone \/ VolumeIsKept
    /\ halfMade' = (halfMade /\ ~(volume # "absent" /\ volume' = "absent"))
    /\ UNCHANGED <<networks, attached, container, wire, open>>

\* Docker creates a container that mounts the volume. It makes one that is not there,
\* empty and without a label (docker-data-injection.ts:23-27).
Mounted ==
    /\ volume' = IF volume = "absent" THEN "empty" ELSE volume
    /\ outdated' = (outdated \/ volume = "absent")
    /\ UNCHANGED <<setup, building, broken, tools, asker, halfMade>>

\* The server dies, and starts again with the same or with a new certificate. What it had
\* asked Docker for is still done.
VolumeCrash ==
    /\ setup' = "none"
    /\ broken' = FALSE
    /\ asker' = [a \in Asker |-> IF asker[a] = "waiting" THEN "rejected" ELSE asker[a]]
    /\ \/ UNCHANGED <<volume, outdated>>
       \/ /\ volume' = IF volume = "written" THEN "other" ELSE volume
          /\ outdated' = (volume # "absent")
    /\ halfMade' = \/ halfMade \/ "volume" \in building
                   \/ volume' \in {"empty", "other"} /\ ~outdated'
    /\ UNCHANGED <<building, tools>>

-----------------------------------------------------------------------------
\* A setup tells those who wait for it that the volume is ready only when it holds the
\* server's certificate and the overrides (docker-data-injection.ts:97-189): also when
\* several calls share it, its requests fail, an inspection is in vain, a volume with
\* another certificate is found or cannot be removed, or Docker made one itself. The one
\* exception is a volume that a dead server labelled and did not write. It is about
\* "ready" alone: who is told that Docker is unavailable has the volume's name as well.
ReadyVolumeIsWritten ==
    \A a \in Asker : asker[a] # "ready" /\ asker'[a] = "ready" => halfMade \/ volume' = "written"

VolumesAreWritten == [][ReadyVolumeIsWritten]_<<volumeVars, volume>>

\* docker-data-injection.ts:109, of a volume that exists and has the label of the
\* certificate: "We're all good!". A server that died between the creation of the volume
\* and the end of the write leaves one that is not.
FoundVolumeIsWritten == [][\A a \in Asker :
    asker[a] # "ready" /\ asker'[a] = "ready" => volume' = "written"]_<<volumeVars, volume>>

\* docker-data-injection.ts:180-181 and 188: after a failure, "at least we have a
\* clean slate next time", "so we can try again".
NextTimeIsTried == \A a \in Asker : asker[a] # "refused"
=============================================================================
