--------------------------- MODULE NetworkSafety ----------------------------
(***************************************************************************)
(* Inspection and rescue of the network settings of an Android device      *)
(* (lab-addon/src/android/android-network-safety.ts over adb-executor.ts). *)
(* A command that fails answers like a setting that is not set, an         *)
(* inspection reads while others write, and a rescue clears one setting    *)
(* after the other.                                                        *)
(***************************************************************************)
EXTENDS FiniteSets, Naturals, Sequences, SequencesExt

CONSTANTS
    Rescue,         \* calls of rescueNetwork
    RescueOptions,  \* the options that calls have
    ProxyKey,       \* the settings of the global proxy
    DeviceWrites    \* bound: settings that others write

\* "dryRun" and "after" stand for dryRun and includeAfterInspection.
RescueOption == {"proxy", "dns", "vpn", "dryRun", "after"}

ASSUME NetworkAssumption ==
    /\ IsFiniteSet(ProxyKey) /\ DeviceWrites \in Nat
    /\ ProxyKey \cap {"dnsMode", "dnsSpecifier", "vpn"} = {}
    /\ RescueOptions \subseteq SUBSET RescueOption

VARIABLES
    deviceSettings, \* the settings that are set: of the proxy, private DNS and the VPN
    deviceWrites,
    rescue,         \* rescue[r]: where a call is, its options, the commands that are left, its last report
    everSet,        \* everSet[r]: what was set at some time of the inspection under way
    alwaysSet,      \* alwaysSet[r]: what was set all the time of it
    cleared,        \* history: what the commands of a rescue have cleared
    missed          \* history: a read or a command failed, or another wrote during the rescue

networkVars == <<deviceSettings, deviceWrites, rescue, everSet, alwaysSet, cleared, missed>>

\* The mode is set if it is "hostname"; "vpn" stands for the always-on app and the lock down.
DnsKey == {"dnsMode", "dnsSpecifier"}
NetworkSetting == ProxyKey \cup DnsKey \cup {"vpn"}
NoRescue == [at |-> "new", options |-> {}, plan |-> <<>>, after |-> {}]

NetworkInit ==
    /\ deviceSettings \in SUBSET NetworkSetting /\ deviceWrites = 0
    /\ rescue = [r \in Rescue |-> NoRescue]
    /\ everSet = [r \in Rescue |-> {}] /\ alwaysSet = [r \in Rescue |-> {}]
    /\ cleared = [r \in Rescue |-> {}] /\ missed = [r \in Rescue |-> FALSE]

Inspecting(r) == rescue[r].at \in {"before", "after"}

\* What an inspection warns of.
NetworkWarnings(report) ==
    (IF report \cap ProxyKey # {} THEN {"proxy"} ELSE {})
      \cup (IF DnsKey \subseteq report THEN {"dns"} ELSE {})
      \cup (IF "vpn" \in report THEN {"vpn"} ELSE {})

\* planActions: the commands of the options in their order, of which those of the VPN are of
\* high risk.
Planned(options) ==
    (IF "proxy" \in options THEN SetToSeq(ProxyKey) ELSE <<>>)
      \o (IF "dns" \in options THEN <<"dnsMode", "dnsSpecifier">> ELSE <<>>)
      \o (IF "vpn" \in options THEN <<"vpn">> ELSE <<>>)

\* The settings become these; every inspection that is under way sees some of the change.
DeviceChanges(settings) ==
    /\ deviceSettings' = settings
    /\ everSet' = [r \in Rescue |-> IF Inspecting(r) THEN everSet[r] \cup settings ELSE everSet[r]]
    /\ alwaysSet' = [r \in Rescue |-> IF Inspecting(r) THEN alwaysSet[r] \cap settings ELSE alwaysSet[r]]

InspectionStarts(r) ==
    /\ everSet' = [everSet EXCEPT ![r] = deviceSettings]
    /\ alwaysSet' = [alwaysSet EXCEPT ![r] = deviceSettings]

\* A report may have what was set at some time. It lacks what was always set if a read failed.
InspectionEnds(r, report) ==
    /\ missed' = [missed EXCEPT ![r] = @ \/ ~(alwaysSet[r] \subseteq report)]
    /\ everSet' = [everSet EXCEPT ![r] = {}] /\ alwaysSet' = [alwaysSet EXCEPT ![r] = {}]

-----------------------------------------------------------------------------
\* rescueNetwork: the options, and the inspection before. It throws if no device is online.
RescueStarts(r) ==
    /\ rescue[r].at = "new"
    /\ \/ /\ \E options \in RescueOptions :
                 rescue' = [rescue EXCEPT ![r].at = "before", ![r].options = options]
          /\ InspectionStarts(r)
       \/ rescue' = [rescue EXCEPT ![r].at = "error"] /\ UNCHANGED <<everSet, alwaysSet>>
    /\ UNCHANGED <<deviceSettings, deviceWrites, cleared, missed>>

\* The inspection has ended; its report decides only how skipped actions are described.
\* A dry run, and what is of high risk, is skipped.
RescuePlans_Mut(r, options) == Planned(options)
RescuePlans(r, options) ==
    IF "dryRun" \in options THEN <<>> ELSE Planned(options \ {"vpn"})

BeforeEnds(r) ==
    /\ rescue[r].at = "before"
    /\ \E report \in SUBSET everSet[r] :
           /\ InspectionEnds(r, report)
           /\ rescue' = [rescue EXCEPT ![r].at = "acting", ![r].plan = RescuePlans(r, rescue[r].options)]
    /\ UNCHANGED <<deviceSettings, deviceWrites, cleared>>

\* One command, through safeShell: one that fails is listed as executed all the same, and may
\* have had its effect before its time out.
RescueCommand(r) ==
    /\ rescue[r].at = "acting" /\ rescue[r].plan # <<>>
    /\ rescue' = [rescue EXCEPT ![r].plan = Tail(@)]
    /\ \/ /\ DeviceChanges(deviceSettings \ {Head(rescue[r].plan)})
          /\ cleared' = [cleared EXCEPT ![r] = @ \cup {Head(rescue[r].plan)}]
          /\ UNCHANGED missed
       \/ /\ missed' = [missed EXCEPT ![r] = TRUE]
          /\ UNCHANGED <<deviceSettings, everSet, alwaysSet, cleared>>
    /\ UNCHANGED deviceWrites

\* After the commands the device is inspected again, if that was asked for.
RescueActed(r) ==
    /\ rescue[r].at = "acting" /\ rescue[r].plan = <<>>
    /\ IF "after" \in rescue[r].options
       THEN rescue' = [rescue EXCEPT ![r].at = "after"] /\ InspectionStarts(r)
       ELSE rescue' = [rescue EXCEPT ![r].at = "ended"] /\ UNCHANGED <<everSet, alwaysSet>>
    /\ UNCHANGED <<deviceSettings, deviceWrites, cleared, missed>>

AfterEnds(r) ==
    /\ rescue[r].at = "after"
    /\ \E report \in SUBSET everSet[r] :
           /\ InspectionEnds(r, report)
           /\ rescue' = [rescue EXCEPT ![r].at = "ended", ![r].after = report]
    /\ UNCHANGED <<deviceSettings, deviceWrites, cleared>>

\* The user, or another tool, sets or clears a setting.
OthersWrite ==
    /\ deviceWrites < DeviceWrites /\ deviceWrites' = deviceWrites + 1
    /\ \E key \in NetworkSetting :
           \/ DeviceChanges(deviceSettings \cup {key})
           \/ DeviceChanges(deviceSettings \ {key})
    /\ missed' = [r \in Rescue |-> missed[r] \/ rescue[r].at \notin {"new", "ended", "error"}]
    /\ UNCHANGED <<rescue, cleared>>

NetworkNext ==
    \/ \E r \in Rescue :
           \/ RescueStarts(r) \/ BeforeEnds(r) \/ RescueCommand(r) \/ RescueActed(r) \/ AfterEnds(r)
    \/ OthersWrite

-----------------------------------------------------------------------------
\* A rescue is as conservative as it says: a dry run clears nothing, the VPN is never touched,
\* nothing is cleared that was not asked for, however rescues overlap. And if every read and
\* command succeeded and nobody else wrote, what the rescue asked to clear is not in its last
\* report (android-network-safety.ts:89-183, :205-283).
RescueIsConservative ==
    \A r \in Rescue :
        LET options == rescue[r].options
        IN  /\ "dryRun" \in options => cleared[r] = {}
            /\ "vpn" \notin cleared[r]
            /\ cleared[r] \cap ProxyKey # {} => "proxy" \in options
            /\ cleared[r] \cap DnsKey # {} => "dns" \in options
            /\ rescue[r].at = "ended" /\ ~missed[r] /\ "dryRun" \notin options /\ "after" \in options
                 => NetworkWarnings(rescue[r].after) \cap options \subseteq {"vpn"}

\* What a reader might expect, and does not hold: a report without a warning is of a device
\* whose proxy and private DNS are not set.
QuietReportIsClean ==
    \A r \in Rescue :
        rescue[r].at = "ended" /\ "after" \in rescue[r].options /\ NetworkWarnings(rescue[r].after) = {}
          => deviceSettings \cap (ProxyKey \cup {"dnsMode"}) = {} \/ deviceWrites > 0
=============================================================================
