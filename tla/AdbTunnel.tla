----------------------------- MODULE AdbTunnel -----------------------------
(***************************************************************************)
(* The reverse tunnel from one device to one port (adb-commands.ts): an    *)
(* interval makes it again every two seconds, until it is closed or has    *)
(* failed too often. Each attempt is awaited inside of a timer's callback, *)
(* so that it can end after its interval was cleared.                      *)
(***************************************************************************)
EXTENDS Naturals

CONSTANTS
    Tunnelling,     \* calls of createPersistentReverseTunnel
    Untunnelling,   \* calls of closeReverseTunnel
    NoTunnel,
    MaxFailures,    \* maxFailures: 5
    MaxAttempts     \* bound on the attempts of one interval in flight

ASSUME TunnelAssumption ==
    NoTunnel \notin Tunnelling /\ MaxFailures \in Nat \ {0} /\ MaxAttempts \in Nat \ {0}

VARIABLES
    adbTunnelIds,   \* the interval of the tunnel, named after the call that has made it
    tunnelling,     \* tunnelling[c]: where a call is
    untunnelling,   \* calls of closeReverseTunnel that were made
    tunnelCheckInterval, \* tunnelCheckInterval[c]: none, running or cleared
    attempts,       \* attempts[c]: attempts in flight
    tunnelConnectFailures, \* tunnelConnectFailures[c]
    wanted,         \* history: the tunnel was made, and neither closed nor given up since
    outlived        \* history: an interval was registered during attempts of an earlier one

tunnelVars == <<adbTunnelIds, tunnelling, untunnelling, tunnelCheckInterval, attempts,
                tunnelConnectFailures, wanted, outlived>>

TunnelInit ==
    /\ adbTunnelIds = NoTunnel
    /\ tunnelling = [c \in Tunnelling |-> "new"]
    /\ untunnelling = {}
    /\ tunnelCheckInterval = [c \in Tunnelling |-> "none"]
    /\ attempts = [c \in Tunnelling |-> 0]
    /\ tunnelConnectFailures = [c \in Tunnelling |-> 0]
    /\ wanted = FALSE /\ outlived = FALSE

\* Up to the await of adbClient.reverse, which can fail.
CreateTunnel(c) ==
    /\ tunnelling[c] = "new"
    /\ tunnelling' \in {[tunnelling EXCEPT ![c] = at] : at \in {"reversing", "failed"}}
    /\ UNCHANGED <<adbTunnelIds, untunnelling, tunnelCheckInterval, attempts, tunnelConnectFailures,
                   wanted, outlived>>

\* There is a tunnel. If an interval maintains it already, no other one is started.
TunnelCreated(c) ==
    /\ tunnelling[c] = "reversing"
    /\ tunnelling' = [tunnelling EXCEPT ![c] = "done"]
    /\ wanted' = TRUE
    /\ IF adbTunnelIds # NoTunnel
       THEN UNCHANGED <<adbTunnelIds, tunnelCheckInterval, outlived>>
       ELSE /\ adbTunnelIds' = c
            /\ tunnelCheckInterval' = [tunnelCheckInterval EXCEPT ![c] = "running"]
            /\ outlived' = (outlived \/ \E d \in Tunnelling : attempts[d] > 0)
    /\ UNCHANGED <<untunnelling, attempts, tunnelConnectFailures>>

\* An interval that is not registered any more clears itself.
IntervalTicks(c) ==
    /\ tunnelCheckInterval[c] = "running" /\ attempts[c] < MaxAttempts
    /\ IF adbTunnelIds = c
       THEN attempts' = [attempts EXCEPT ![c] = @ + 1] /\ UNCHANGED tunnelCheckInterval
       ELSE tunnelCheckInterval' = [tunnelCheckInterval EXCEPT ![c] = "cleared"] /\ UNCHANGED attempts
    /\ UNCHANGED <<adbTunnelIds, tunnelling, untunnelling, tunnelConnectFailures, wanted, outlived>>

AttemptSucceeds(c) ==
    /\ attempts[c] > 0
    /\ attempts' = [attempts EXCEPT ![c] = @ - 1]
    /\ tunnelConnectFailures' = [tunnelConnectFailures EXCEPT ![c] = 0]
    /\ UNCHANGED <<adbTunnelIds, tunnelling, untunnelling, tunnelCheckInterval, wanted, outlived>>

\* The last failure gives the tunnel up: whichever interval is registered by now.
AttemptFails_Mut(c) ==
    /\ attempts[c] > 0
    /\ attempts' = [attempts EXCEPT ![c] = @ - 1]
    /\ tunnelConnectFailures' = [tunnelConnectFailures EXCEPT ![c] = @ + 1]
    /\ IF tunnelConnectFailures'[c] >= MaxFailures
       THEN /\ tunnelCheckInterval' = [tunnelCheckInterval EXCEPT ![c] = "cleared"]
            /\ wanted' = (wanted /\ adbTunnelIds # c)
            /\ UNCHANGED adbTunnelIds
       ELSE UNCHANGED <<adbTunnelIds, tunnelCheckInterval, wanted>>
    /\ UNCHANGED <<tunnelling, untunnelling, outlived>>

AttemptFails(c) ==
    /\ attempts[c] > 0
    /\ attempts' = [attempts EXCEPT ![c] = @ - 1]
    /\ tunnelConnectFailures' = [tunnelConnectFailures EXCEPT ![c] = @ + 1]
    /\ IF tunnelConnectFailures'[c] >= MaxFailures
       THEN /\ adbTunnelIds' = NoTunnel
            /\ tunnelCheckInterval' = [tunnelCheckInterval EXCEPT ![c] = "cleared"]
            /\ wanted' = (wanted /\ adbTunnelIds # c)
       ELSE UNCHANGED <<adbTunnelIds, tunnelCheckInterval, wanted>>
    /\ UNCHANGED <<tunnelling, untunnelling, outlived>>

CloseReverseTunnel(u) ==
    /\ u \notin untunnelling
    /\ untunnelling' = untunnelling \cup {u}
    /\ adbTunnelIds' = NoTunnel
    /\ tunnelCheckInterval' = IF adbTunnelIds = NoTunnel THEN tunnelCheckInterval
                              ELSE [tunnelCheckInterval EXCEPT ![adbTunnelIds] = "cleared"]
    /\ wanted' = FALSE
    /\ UNCHANGED <<tunnelling, attempts, tunnelConnectFailures, outlived>>

TunnelNext ==
    \/ \E c \in Tunnelling :
           \/ CreateTunnel(c) \/ TunnelCreated(c) \/ IntervalTicks(c)
           \/ AttemptSucceeds(c) \/ AttemptFails(c)
    \/ \E u \in Untunnelling : CloseReverseTunnel(u)

-----------------------------------------------------------------------------
\* A tunnel that was made, and neither closed nor given up by the interval that maintains it, has
\* such an interval. The comment is adb-commands.ts:664-665: "we constantly reinforce the tunnel
\* while HTTP Toolkit is running & the device is connected, until it actually persistently fails."
WantedTunnelIsMaintained == wanted => adbTunnelIds # NoTunnel

\* What holds of that, however calls, closes and attempts overlap: a registered interval runs, so
\* that no later call trusts one that does not, and a tunnel that is wanted has one, unless it was
\* registered during attempts of an earlier one, which can fail and take it with them (:685-693).
TunnelIsMaintained ==
    /\ adbTunnelIds # NoTunnel => tunnelCheckInterval[adbTunnelIds] = "running"
    /\ ~outlived => WantedTunnelIsMaintained
=============================================================================
