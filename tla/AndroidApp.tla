----------------------------- MODULE AndroidApp -----------------------------
(***************************************************************************)
(* The Android app of one device (android-adb-interceptor.ts), and the     *)
(* folder of its APKs (fetch-apk.ts): an activation installs the app if it *)
(* is not there and starts its VPN for a port by an intent; downloads go   *)
(* on behind the activations that have started them.                       *)
(***************************************************************************)
EXTENDS Naturals, FiniteSets, FiniteSetsExt

CONSTANTS
    Proxying,   \* calls of activate
    Unproxying, \* calls of deactivate, or of deactivateAll for one port
    AppPort,
    PortOfProxying,
    PortOfUnproxying,
    NoVpn,
    Release     \* versions of the app, numbers

ASSUME AppAssumption ==
    /\ NoVpn \notin AppPort /\ Release \subseteq Nat \ {0}
    /\ \E newest \in Release : \A r \in Release : newest >= r
    /\ PortOfProxying \in [Proxying -> AppPort] /\ PortOfUnproxying \in [Unproxying -> AppPort]

VARIABLES
    latest,     \* the latest release, Unknown, or None if it cannot be had
    apks,       \* the APKs in the folder: their version, and whether they can be installed
    download,   \* download[c]: the release that the call's update loads, or none
    isInstalled, \* the app is on the device
    vpn,        \* the port that its VPN uses
    proxying,   \* proxying[c]: where a call is, the APK that it streams, and whether from the folder
    unproxying, \* unproxying[d]: where a call is
    deviceProxyMapping, \* the ports that have the device
    crossed     \* history: a clean up of the folder came between another one's steps

appVars == <<latest, apks, download, isInstalled, vpn, proxying, unproxying, deviceProxyMapping,
             crossed>>

\* There is no release, or nothing of it is known but that it is there.
None == 0
Unknown == Max(Release) + 1
Stream == {"good", "bad"}

AppInit ==
    /\ latest \in {None, Unknown, Max(Release)}
    /\ apks \in {{}} \cup {{[version |-> Min(Release), good |-> g]} : g \in BOOLEAN}
    /\ download = [c \in Proxying |-> None]
    /\ isInstalled \in BOOLEAN
    /\ vpn = NoVpn
    /\ proxying = [c \in Proxying |-> [at |-> "new", apk |-> "good", local |-> FALSE]]
    /\ unproxying = [d \in Unproxying |-> "new"]
    /\ deviceProxyMapping = {}
    /\ crossed = FALSE

ProxyingGoesTo(c, at) == proxying' = [proxying EXCEPT ![c].at = at]
KeepsStore == UNCHANGED <<latest, apks, download, crossed>>
KeepsDevice == UNCHANGED <<isInstalled, vpn, deviceProxyMapping>>
Streaming == {c \in Proxying : proxying[c].at \in {"install", "clear", "again"}}
Downloading == {c \in Proxying : download[c] # None}

-----------------------------------------------------------------------------
(* fetch-apk.ts.                                                             *)

NewestOf(files) == {a \in files : \A b \in files : b.version <= a.version}
LocalApk == CHOOSE a \in NewestOf(apks) : TRUE

\* updateLocalApk of the call, unless it has one under way: then this is left out.
Update(c) == download' = [download EXCEPT ![c] = IF @ = None THEN latest ELSE @]

\* What streamLatestApk gives: the release itself, or what is in the folder; a newer
\* release is loaded for the next time.
StreamLatestApk(c, next) ==
    LET local == LocalApk
    IN  CASE apks = {} /\ latest = None ->
               ProxyingGoesTo(c, "failed") /\ UNCHANGED download
          [] apks = {} /\ latest = Unknown ->
               /\ \/ ProxyingGoesTo(c, "failed")
                  \/ proxying' = [proxying EXCEPT ![c] = [at |-> next, apk |-> "good", local |-> FALSE]]
               /\ UNCHANGED download
          [] apks = {} /\ latest \in Release ->
               \/ ProxyingGoesTo(c, "failed") /\ UNCHANGED download
               \/ \E s \in Stream : /\ proxying' = [proxying EXCEPT ![c] = [at |-> next, apk |-> s, local |-> FALSE]]
                                  /\ Update(c)
          [] OTHER ->
               /\ proxying' = [proxying EXCEPT ![c] = [at |-> next, apk |-> IF local.good THEN "good" ELSE "bad",
                                                       local |-> TRUE]]
               /\ IF latest \in Release /\ latest > local.version THEN Update(c) ELSE UNCHANGED download

\* The download ends: it is moved into the folder, whatever the answer was, and the older
\* files are deleted; or it fails.
DownloadEnds(c) ==
    /\ download[c] # None
    /\ download' = [download EXCEPT ![c] = None]
    /\ \/ \E good \in BOOLEAN :
              apks' = NewestOf({[version |-> download[c], good |-> good]} \cup
                               {a \in apks : a.version # download[c]})
       \/ UNCHANGED apks
    /\ crossed' = (crossed \/ \E d \in Proxying : proxying[d].at \in {"clear", "stream"})
    /\ UNCHANGED <<latest, proxying, unproxying>> /\ KeepsDevice

-----------------------------------------------------------------------------
(* activate.                                                                 *)

StartProxying(c) ==
    /\ proxying[c].at = "new"
    /\ IF isInstalled THEN ProxyingGoesTo(c, "tunnel") /\ UNCHANGED download
                      ELSE StreamLatestApk(c, "install")
    /\ UNCHANGED <<latest, apks, unproxying, crossed>> /\ KeepsDevice

\* An APK that is corrupted, or a connection that breaks, fails.
InstallApk(c) ==
    /\ proxying[c].at \in {"install", "again"}
    /\ \/ /\ proxying[c].apk = "good"
          /\ isInstalled' = TRUE
          /\ ProxyingGoesTo(c, "tunnel")
       \/ /\ ProxyingGoesTo(c, IF proxying[c].at = "install" THEN "clear" ELSE "failed")
          /\ UNCHANGED isInstalled
    /\ UNCHANGED <<vpn, deviceProxyMapping, unproxying>> /\ KeepsStore

\* After the first failure the folder is cleared. A file that another call has deleted
\* meanwhile is an error.
ClearAllApks_Mut(c) ==
    /\ proxying[c].at = "clear"
    /\ ProxyingGoesTo(c, "stream")
    /\ crossed' = (crossed \/ Streaming # {c} \/ Downloading # {})
    /\ UNCHANGED <<latest, apks, download, unproxying>> /\ KeepsDevice

ClearAllApks(c) ==
    /\ proxying[c].at = "clear"
    /\ ProxyingGoesTo(c, "stream")
    /\ apks' = {}
    /\ crossed' = (crossed \/ Streaming # {c} \/ Downloading # {})
    /\ UNCHANGED <<latest, download, unproxying>> /\ KeepsDevice

ClearFails(c) ==
    /\ proxying[c].at = "clear" /\ (Streaming # {c} \/ Downloading # {})
    /\ ProxyingGoesTo(c, "failed")
    /\ apks' \in SUBSET apks
    /\ UNCHANGED <<latest, download, unproxying, crossed>> /\ KeepsDevice

StreamAgain(c) ==
    /\ proxying[c].at = "stream"
    /\ StreamLatestApk(c, "again")
    /\ UNCHANGED <<latest, apks, unproxying, crossed>> /\ KeepsDevice

\* The app is brought to the front and the tunnel made, as well as that goes; then the
\* intent is sent, up to eleven times. It takes effect on the device before it is answered.
StartVpn(c) ==
    /\ proxying[c].at \in {"tunnel", "retry"}
    /\ isInstalled /\ vpn' = PortOfProxying[c]
    /\ ProxyingGoesTo(c, "started")
    /\ UNCHANGED <<isInstalled, deviceProxyMapping, unproxying>> /\ KeepsStore

\* An attempt that took effect fails nevertheless: the next one follows in a second.
IntentFails(c) ==
    /\ proxying[c].at = "started"
    /\ ProxyingGoesTo(c, "retry")
    /\ UNCHANGED unproxying /\ KeepsStore /\ KeepsDevice

\* The last attempt fails: the call does, and the VPN of an earlier one runs on.
StartVpnFails(c) ==
    /\ proxying[c].at \in {"tunnel", "started", "retry"}
    /\ ProxyingGoesTo(c, IF proxying[c].at = "tunnel" THEN "failed" ELSE "lost")
    /\ UNCHANGED unproxying /\ KeepsStore /\ KeepsDevice

\* An attempt succeeds.
MapDevice_Mut(c) ==
    /\ proxying[c].at = "started"
    /\ ProxyingGoesTo(c, "done")
    /\ deviceProxyMapping' = IF deviceProxyMapping = {} THEN {PortOfProxying[c]} ELSE deviceProxyMapping
    /\ UNCHANGED <<isInstalled, vpn, unproxying>> /\ KeepsStore

MapDevice(c) ==
    /\ proxying[c].at = "started"
    /\ ProxyingGoesTo(c, "done")
    /\ deviceProxyMapping' = deviceProxyMapping \cup {PortOfProxying[c]}
    /\ UNCHANGED <<isInstalled, vpn, unproxying>> /\ KeepsStore

-----------------------------------------------------------------------------
(* deactivate: the port's devices get the intent that stops their VPN.       *)

StopProxying(d) ==
    /\ unproxying[d] = "new"
    /\ unproxying' = [unproxying EXCEPT ![d] =
            IF PortOfUnproxying[d] \in deviceProxyMapping THEN "intent" ELSE "done"]
    /\ UNCHANGED proxying /\ KeepsStore /\ KeepsDevice

\* The intent has no port, and its failure is only logged.
StopVpn(d) ==
    /\ unproxying[d] = "intent"
    /\ unproxying' = [unproxying EXCEPT ![d] = "done"]
    /\ vpn' \in {vpn, NoVpn}
    /\ UNCHANGED <<isInstalled, deviceProxyMapping, proxying>> /\ KeepsStore

AppNext ==
    \/ \E c \in Proxying :
           \/ DownloadEnds(c) \/ StartProxying(c) \/ InstallApk(c) \/ ClearAllApks(c) \/ ClearFails(c)
           \/ StreamAgain(c) \/ StartVpn(c) \/ IntentFails(c) \/ StartVpnFails(c) \/ MapDevice(c)
    \/ \E d \in Unproxying : StopProxying(d) \/ StopVpn(d)

-----------------------------------------------------------------------------
\* The ports for which a call has started the VPN but has not, or never will have, told so.
Unmapped == {p \in AppPort : \E c \in Proxying :
                PortOfProxying[c] = p /\ proxying[c].at \in {"started", "retry", "lost"}}

\* A VPN that runs is reached by deactivateAll: its port has the device, however activations
\* and deactivations overlap, but for the time between the intent's effect and the end of
\* its attempts, which a deactivateAll does not wait for, and after an activation whose
\* attempts all failed although one took effect (android-adb-interceptor.ts:119-128,
\* adb-commands.ts:602-629). A corrupted APK of the folder is not installed twice: the second
\* attempt of a call streams the release itself, unless another call or a download came
\* between its clean up and that (android-adb-interceptor.ts:79-86).
DevicesAreReached ==
    /\ vpn # NoVpn => vpn \in deviceProxyMapping \cup Unmapped
    /\ \A c \in Proxying : proxying[c].at = "again" /\ ~crossed => ~proxying[c].local
=============================================================================
