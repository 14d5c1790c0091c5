---------------------------- MODULE DockerEngine ----------------------------
(***************************************************************************)
(* The Docker engine as the server sees it, and its user: containers, the  *)
(* networks they are attached to, the volume of injected data, and the     *)
(* stream of network events.  None of it is code of the server, which only *)
(* makes requests; each operator below is what one request does.           *)
(***************************************************************************)
EXTENDS Naturals, Sequences, SequencesExt, FiniteSets

CONSTANTS
    Network,    \* networks that exist at first
    HostNetwork,\* those with the driver 'null' or 'host'
    Container,  \* containers that exist or that somebody may create
    Plain,      \* the containers that exist and run at first, not intercepted
    Scenario    \* records that bound what is explored, see left

ASSUME EngineAssumption ==
    IsFiniteSet(Network) /\ HostNetwork \subseteq Network /\ Plain \subseteq Container

VARIABLES
    networks,   \* the networks that exist
    attached,   \* attached[n]: containers on network n
    container,  \* container[c]: its state, and whether it has the proxy's label
    volume,     \* the volume of injected data: absent, empty, written with the server's
                \* certificate or with that of an other
    wire,       \* events sent and not received yet, oldest first
    open,       \* Docker has answered a request for its events
    left        \* how often each thing may still happen: one of Scenario at first

engineVars == <<networks, attached, container, volume, wire, open, left>>

Event == [action : {"attach", "destroy"}, net : Network]
Absent == [state |-> "absent", label |-> FALSE]

EngineTypeOK ==
    /\ networks \subseteq Network
    /\ attached \in [Network -> SUBSET Container]
    /\ container \in [Container -> [state : {"absent", "created", "running"}, label : BOOLEAN]]
    /\ volume \in {"absent", "empty", "written", "other"}
    /\ wire \in Seq(Event)
    /\ open \in BOOLEAN

EngineInit ==
    /\ networks = Network
    /\ attached = [n \in Network |-> {}]
    /\ container = [c \in Container |->
            IF c \in Plain THEN [state |-> "running", label |-> FALSE] ELSE Absent]
    /\ volume = "absent"
    /\ wire = <<>>
    /\ open = FALSE
    /\ left \in Scenario

Labelled == {c \in Container : container[c].label}

\* A bound: the thing that is counted by left[f] happens once more.
Spend(f) == left[f] > 0 /\ left' = [left EXCEPT ![f] = @ - 1]

\* Events reach the server in the order in which Docker sends them.
Sent(action, nets) ==
    IF open THEN wire \o SetToSeq({[action |-> action, net |-> n] : n \in nets}) ELSE wire

\* A container stops or is removed: it leaves its networks.
Leave(c) ==
    LET nets == {n \in networks : c \in attached[n]}
    IN  /\ attached' = [n \in Network |-> attached[n] \ {c}]
        /\ wire' = Sent("attach", nets)

\* A container is attached to networks.
Join(c, nets) ==
    /\ attached' = [n \in Network |-> IF n \in nets THEN attached[n] \cup {c} ELSE attached[n]]
    /\ wire' = Sent("attach", nets)

-----------------------------------------------------------------------------
(* The user of Docker. *)

UserConnects(n, c) ==
    /\ Spend("changes")
    /\ n \in networks /\ c \notin attached[n] /\ container[c].state = "running"
    /\ Join(c, {n})
    /\ UNCHANGED <<networks, container, volume, open>>

UserDisconnects(n, c) ==
    /\ Spend("changes")
    /\ c \in attached[n]
    /\ attached' = [attached EXCEPT ![n] = @ \ {c}]
    /\ wire' = Sent("attach", {n})
    /\ UNCHANGED <<networks, container, volume, open>>

UserRemoves(c) ==
    /\ Spend("changes")
    /\ container[c].state # "absent"
    /\ container' = [container EXCEPT ![c] = Absent]
    /\ Leave(c)
    /\ UNCHANGED <<networks, volume, open>>

\* Docker refuses to remove a network that is in use.
UserDestroys(n) ==
    /\ Spend("changes")
    /\ n \in networks /\ attached[n] = {}
    /\ networks' = networks \ {n}
    /\ wire' = Sent("destroy", {n})
    /\ UNCHANGED <<attached, container, volume, open>>

UserStep ==
    \/ \E n \in Network, c \in Container : UserConnects(n, c) \/ UserDisconnects(n, c)
    \/ \E c \in Container : UserRemoves(c)
    \/ \E n \in Network : UserDestroys(n)
=============================================================================
