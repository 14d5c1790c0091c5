---------------------------- MODULE AndroidStart ----------------------------
(***************************************************************************)
(* Starting an Android capture, from the lab add-on through the activation *)
(* bridge of the server to the sessions of the admin server:               *)
(*   - the add-on's startHeadless, its activation client, its session      *)
(*     manager, and its record of failures (lab-addon/src);                     *)
(*   - the bridge's start-headless route, prepareAndroidProxySession with  *)
(*     its registry of sessions, and the bootstrap rules (src/automation); *)
(*   - the admin server, which both ask for sessions, and other clients of *)
(*     it (external).                                                      *)
(* The add-on and the server are two processes, so every answer travels:   *)
(* what the admin server does and what its caller does next are two steps. *)
(***************************************************************************)
EXTENDS Naturals, FiniteSets

CONSTANTS
    Attempt,        \* calls of POST /automation/android-adb/start-headless
    Start,          \* calls of POST /session/start
    Stop,           \* calls of POST /session/stop
    Port,           \* proxy ports
    None,           \* no attempt
    MaxSessions,    \* bound on the sessions that are ever started
    MaxOthers,      \* bound on the sessions that other clients start
    MaxEnds         \* bound on the sessions that end from outside

ASSUME ConstantAssumption ==
    /\ Attempt \cap Start = {} /\ Attempt \cap Stop = {} /\ Start \cap Stop = {}
    /\ None \notin Attempt
    /\ Port # {}
    /\ MaxSessions \in Nat /\ MaxOthers \in Nat /\ MaxEnds \in Nat

Caller == Attempt \cup Start \cup Stop

\* Sessions are numbered as they start; 0 is no session.
NoSession == 0
Session == 1..MaxSessions

\* prepareAndroidBootstrapRules adds three rules, one after the other.
Rules == 3

VARIABLES
    server,     \* server[p]: the session that listens on p
    created,    \* sessions started so far
    portOf,     \* portOf[s], owner[s]: where and for whom s was started
    owner,
    ended,      \* history: sessions that were ended from outside
    rules,      \* rules[s]: how many of the bootstrap rules s has
    registry,   \* activeSessionRegistry: registry[p] is a session handle
    bridge,     \* bridge[a]: where the bridge's handler of a's request is
    lab,        \* lab[c]: where the add-on's handler of the call c is
    latest,     \* the add-on's latestSession, with its state
    lastFailure,    \* the attempt that is lastFailure in the add-on's health store
    lastFailed, \* history: the last attempt that ended without success
    overlap     \* history: two calls were at the add-on's session at once

adminVars == <<server, created, portOf, owner, ended, rules>>
vars == <<server, created, portOf, owner, ended, rules,
          registry, bridge, lab, latest, lastFailure, lastFailed, overlap>>

Runs(s) == s # NoSession /\ server[portOf[s]] = s

BridgePhase == {"off", "metadata", "config", "starting", "started", "reread",
                "rules", "activating", "refused", "error", "ok"}
LabPhase == {"new", "inspecting", "activating", "adb", "starting", "started",
             "polling", "stopping", "stopped", "done"}

BridgeRecord == [at : BridgePhase, session : Session \cup {NoSession}, added : 0..Rules]
LabRecord == [at : LabPhase, port : Port, session : Session \cup {NoSession},
              control : BOOLEAN, stopOk : BOOLEAN]

AdminTypeOK ==
    /\ server \in [Port -> Session \cup {NoSession}]
    /\ created \in 0..MaxSessions
    /\ portOf \in [Session -> Port]
    /\ owner \in [Session -> {"nobody", "bridge", "lab", "other"}]
    /\ ended \subseteq Session
    /\ rules \in [Session -> 0..Rules]

BridgeTypeOK ==
    /\ registry \in [Port -> Session \cup {NoSession}]
    /\ bridge \in [Attempt -> BridgeRecord]

LabTypeOK ==
    /\ lab \in [Caller -> LabRecord]
    /\ latest \in Session \cup {NoSession}
    /\ lastFailure \in Attempt \cup {None} /\ lastFailed \in Attempt \cup {None}
    /\ overlap \in BOOLEAN

TypeOK == AdminTypeOK /\ BridgeTypeOK /\ LabTypeOK

AnyPort == CHOOSE p \in Port : TRUE

Init ==
    /\ server = [p \in Port |-> NoSession]
    /\ created = 0
    /\ portOf = [s \in Session |-> AnyPort]
    /\ owner = [s \in Session |-> "nobody"]
    /\ ended = {}
    /\ rules = [s \in Session |-> 0]
    /\ registry = [p \in Port |-> NoSession]
    /\ bridge = [a \in Attempt |-> [at |-> "off", session |-> NoSession, added |-> 0]]
    /\ lab = [c \in Caller |-> [at |-> "new", port |-> AnyPort, session |-> NoSession,
                                control |-> FALSE, stopOk |-> FALSE]]
    /\ latest = NoSession
    /\ lastFailure = None /\ lastFailed = None
    /\ overlap = FALSE

(***************************************************************************)
(* The admin server and its other clients.                                 *)
(***************************************************************************)

\* The client who starts a session on p.
Launch(p, who) ==
    /\ server[p] = NoSession
    /\ created < MaxSessions
    /\ created' = created + 1
    /\ server' = [server EXCEPT ![p] = created + 1]
    /\ portOf' = [portOf EXCEPT ![created + 1] = p]
    /\ owner' = [owner EXCEPT ![created + 1] = who]
    /\ UNCHANGED <<ended, rules>>

\* The UI, or any other client, starts a session of its own.
OtherStarts(p) ==
    /\ Cardinality({s \in Session : owner[s] = "other"}) < MaxOthers
    /\ Launch(p, "other")
    /\ UNCHANGED <<registry, bridge, lab, latest, lastFailure, lastFailed, overlap>>

\* A session is ended by neither of its handles here, such as by a reset.
SessionEnds(p) ==
    /\ server[p] # NoSession
    /\ Cardinality(ended) < MaxEnds
    /\ server' = [server EXCEPT ![p] = NoSession]
    /\ ended' = ended \cup {server[p]}
    /\ UNCHANGED <<created, portOf, owner, rules, registry, bridge, lab, latest,
                   lastFailure, lastFailed, overlap>>

(***************************************************************************)
(* The bridge.  bridge[a] is the handler of the request that attempt a     *)
(* sent, which goes on when a no longer waits for it.                      *)
(***************************************************************************)
BridgeTo(a, phase) == bridge' = [bridge EXCEPT ![a].at = phase]

\* The request is answered; its handler's variables are gone.
BridgeEnd(a, phase) ==
    bridge' = [bridge EXCEPT ![a] = [at |-> phase, session |-> NoSession, added |-> 0]]

\* prepareAndroidBootstrapRules begins, with the handle s.
ApplyRules(a, s) ==
    bridge' = [bridge EXCEPT ![a] = [at |-> "rules", session |-> s, added |-> 0]]

\* getInterceptorMetadata: the device is among those it lists, or it is not (or
\* they were not listed in time), which is refused.
BridgeMetadata(a, listed) ==
    /\ bridge[a].at = "metadata"
    /\ IF listed THEN BridgeTo(a, "config") ELSE BridgeEnd(a, "refused")
    /\ UNCHANGED <<adminVars, registry, lab, latest, lastFailure, lastFailed, overlap>>

\* prepareAndroidProxySession has the configuration, which always comes with the
\* certificate of the server.  A registered session is reused, otherwise one is
\* started: the default createRemoteSession finds no existing one.
ConfigRead(a) ==
    /\ bridge[a].at = "config"
    /\ IF registry[lab[a].port] # NoSession
       THEN ApplyRules(a, registry[lab[a].port])
       ELSE BridgeTo(a, "starting")
    /\ UNCHANGED <<adminVars, registry, lab, latest, lastFailure, lastFailed, overlap>>

\* The admin server starts a session for the bridge, or answers EADDRINUSE.
AdminStartsForBridge(a) ==
    /\ bridge[a].at = "starting"
    /\ \/ /\ Launch(lab[a].port, "bridge")
          /\ bridge' = [bridge EXCEPT ![a].at = "started", ![a].session = created + 1]
       \/ /\ server[lab[a].port] # NoSession
          /\ BridgeTo(a, "started")
          /\ UNCHANGED adminVars
    /\ UNCHANGED <<registry, lab, latest, lastFailure, lastFailed, overlap>>

\* After EADDRINUSE the registry is asked once more.
BridgeStarted(a) ==
    /\ bridge[a].at = "started"
    /\ IF bridge[a].session # NoSession
       THEN BridgeTo(a, "reread")
       ELSE IF registry[lab[a].port] # NoSession
       THEN ApplyRules(a, registry[lab[a].port])
       ELSE BridgeEnd(a, "error")
    /\ UNCHANGED <<adminVars, registry, lab, latest, lastFailure, lastFailed, overlap>>

ConfigReread_Mut(a) ==          \* the session is used but not registered
    /\ bridge[a].at = "reread"
    /\ ApplyRules(a, bridge[a].session)
    /\ UNCHANGED <<adminVars, registry, lab, latest, lastFailure, lastFailed, overlap>>

\* The configuration is read again, and the session registered.
ConfigReread(a) ==
    /\ bridge[a].at = "reread"
    /\ registry' = [registry EXCEPT ![lab[a].port] = bridge[a].session]
    /\ ApplyRules(a, bridge[a].session)
    /\ UNCHANGED <<adminVars, lab, latest, lastFailure, lastFailed, overlap>>

AddRule_Mut(a) ==               \* a rule that fails is skipped
    /\ bridge[a].at = "rules"
    /\ rules' = IF Runs(bridge[a].session) /\ rules[bridge[a].session] < bridge[a].added + 1
                THEN [rules EXCEPT ![bridge[a].session] = bridge[a].added + 1]
                ELSE rules
    /\ bridge' = [bridge EXCEPT ![a].added = @ + 1,
                                ![a].at = IF bridge[a].added + 1 = Rules THEN "activating" ELSE @]
    /\ UNCHANGED <<server, created, portOf, owner, ended, registry, lab, latest,
                   lastFailure, lastFailed, overlap>>

\* The next rule is added to the session, if that still runs; otherwise the
\* handle rejects, and the request ends as an internal error.
AddRule(a) ==
    /\ bridge[a].at = "rules"
    /\ LET s == bridge[a].session
           n == bridge[a].added + 1
       IN  IF Runs(s)
           THEN /\ rules' = [rules EXCEPT ![s] = IF @ < n THEN n ELSE @]
                /\ bridge' = [bridge EXCEPT ![a].added = n,
                                 ![a].at = IF n = Rules THEN "activating" ELSE "rules"]
           ELSE /\ BridgeEnd(a, "error")
                /\ UNCHANGED rules
    /\ UNCHANGED <<server, created, portOf, owner, ended, registry, lab, latest,
                   lastFailure, lastFailed, overlap>>

\* activateInterceptor of android-adb succeeds, or rejects.
BridgeActivated(a, success) ==
    /\ bridge[a].at = "activating"
    /\ BridgeEnd(a, IF success THEN "ok" ELSE "error")
    /\ UNCHANGED <<adminVars, registry, lab, latest, lastFailure, lastFailed, overlap>>

(***************************************************************************)
(* The add-on's SessionManager, for any caller.                            *)
(***************************************************************************)
AtSession == {"starting", "started", "stopping", "stopped"}

NoteOverlap(c) ==
    overlap' = (overlap \/ \E d \in Caller \ {c} : lab[d].at \in AtSession)

\* The call c is answered; its handler's variables are gone.
Finish(c) ==
    lab' = [lab EXCEPT ![c] = [at |-> "done", port |-> @.port, session |-> NoSession,
                               control |-> FALSE, stopOk |-> FALSE]]

\* An attempt ends, and healthStore.patch records it.
Record(a, success) ==
    /\ Finish(a)
    /\ lastFailure' = IF success THEN lastFailure ELSE a
    /\ lastFailed' = IF success THEN lastFailed ELSE a

\* The call c is rejected.  An attempt fails by that, and it is not recorded.
Reject(c) ==
    /\ Finish(c)
    /\ lastFailed' = IF c \in Attempt THEN c ELSE lastFailed
    /\ UNCHANGED lastFailure

\* startSessionIfNeeded: the latest session is returned, or one is asked for.
StartSessionIfNeeded(c, control) ==
    IF latest # NoSession
    THEN /\ IF c \in Attempt
            THEN lab' = [lab EXCEPT ![c].at = "polling", ![c].session = latest,
                                    ![c].control = control]
            ELSE Finish(c)
         /\ UNCHANGED overlap
    ELSE /\ lab' = [lab EXCEPT ![c].at = "starting", ![c].control = control]
         /\ NoteOverlap(c)

\* The admin server starts a session on the port of an attempt, or on any that
\* is free; or it cannot.
AdminStarts(c) ==
    /\ lab[c].at = "starting"
    /\ \E p \in IF c \in Attempt THEN {lab[c].port} ELSE Port :
          \/ /\ Launch(p, "lab")
             /\ lab' = [lab EXCEPT ![c].at = "started", ![c].session = created + 1]
          \/ /\ server[p] # NoSession
             /\ c \in Start => \A q \in Port : server[q] # NoSession
             /\ lab' = [lab EXCEPT ![c].at = "started"]
             /\ UNCHANGED adminVars
    /\ UNCHANGED <<registry, bridge, latest, lastFailure, lastFailed, overlap>>

\* startSessionIfNeeded goes on: the session becomes the latest.  If it could
\* not be started the call is rejected, which is nowhere recorded.
SessionStarted(c) ==
    /\ lab[c].at = "started"
    /\ IF lab[c].session # NoSession
       THEN /\ latest' = lab[c].session
            /\ IF c \in Attempt THEN lab' = [lab EXCEPT ![c].at = "polling"] ELSE Finish(c)
            /\ UNCHANGED <<lastFailure, lastFailed>>
       ELSE /\ Reject(c)
            /\ UNCHANGED latest
    /\ UNCHANGED <<adminVars, registry, bridge, overlap>>

\* The admin server stops the session.  One that has gone may be stopped again,
\* or that is an error.
AdminStops(c, ok) ==
    /\ lab[c].at = "stopping"
    /\ IF Runs(lab[c].session)
       THEN /\ ok
            /\ server' = [server EXCEPT ![portOf[lab[c].session]] = NoSession]
       ELSE UNCHANGED server
    /\ lab' = [lab EXCEPT ![c].at = "stopped", ![c].stopOk = ok]
    /\ UNCHANGED <<created, portOf, owner, ended, rules, registry, bridge, latest,
                   lastFailure, lastFailed, overlap>>

(***************************************************************************)
(* POST /session/start and /session/stop.                                  *)
(***************************************************************************)
CallStart(c) ==
    /\ lab[c].at = "new"
    /\ StartSessionIfNeeded(c, FALSE)
    /\ UNCHANGED <<adminVars, registry, bridge, latest, lastFailure, lastFailed>>

\* stopLatestSession without a session is answered at once.
CallStop(c) ==
    /\ lab[c].at = "new"
    /\ IF latest = NoSession
       THEN /\ Finish(c)
            /\ UNCHANGED overlap
       ELSE /\ lab' = [lab EXCEPT ![c].at = "stopping", ![c].session = latest]
            /\ NoteOverlap(c)
    /\ UNCHANGED <<adminVars, registry, bridge, latest, lastFailure, lastFailed>>

(***************************************************************************)
(* POST /automation/android-adb/start-headless.                            *)
(***************************************************************************)

\* startHeadless: a request without deviceId fails, another inspects the device.
StartHeadless(a, p, device) ==
    /\ lab[a].at = "new"
    /\ IF device
       THEN /\ lab' = [lab EXCEPT ![a].at = "inspecting", ![a].port = p]
            /\ UNCHANGED <<lastFailure, lastFailed>>
       ELSE Record(a, FALSE)
    /\ UNCHANGED <<adminVars, registry, bridge, latest, overlap>>

\* inspectNetwork warns, and allowUnsafeStart is not set.
Polluted(a) ==
    /\ lab[a].at = "inspecting"
    /\ Record(a, FALSE)
    /\ UNCHANGED <<adminVars, registry, bridge, latest, overlap>>

\* activateDeviceCapture: the bridge is asked, or cannot be reached.
AskBridge(a, reachable) ==
    /\ lab[a].at = "inspecting"
    /\ lab' = [lab EXCEPT ![a].at = IF reachable THEN "activating" ELSE "adb"]
    /\ IF reachable THEN BridgeTo(a, "metadata") ELSE UNCHANGED bridge
    /\ UNCHANGED <<adminVars, registry, latest, lastFailure, lastFailed, overlap>>

AbortBridge_Mut(a) ==           \* no signal: the answer is awaited
    /\ lab[a].at = "activating"
    /\ bridge[a].at = "error"
    /\ lab' = [lab EXCEPT ![a].at = "adb"]
    /\ UNCHANGED <<adminVars, registry, bridge, latest, lastFailure, lastFailed, overlap>>

\* tryOfficialBridge has waited for 5 seconds: adb is used instead.
AbortBridge(a) ==
    /\ lab[a].at = "activating"
    /\ lab' = [lab EXCEPT ![a].at = "adb"]
    /\ UNCHANGED <<adminVars, registry, bridge, latest, lastFailure, lastFailed, overlap>>

\* The bridge's answer.  Success means no session of the add-on; a refusal is a
\* failed activation, which still starts one; an error means adb.
BridgeAnswers(a) ==
    /\ lab[a].at = "activating"
    /\ \/ /\ bridge[a].at = "ok"
          /\ lab' = [lab EXCEPT ![a].at = "polling", ![a].control = TRUE]
          /\ UNCHANGED overlap
       \/ /\ bridge[a].at = "refused"
          /\ StartSessionIfNeeded(a, FALSE)
       \/ /\ bridge[a].at = "error"
          /\ lab' = [lab EXCEPT ![a].at = "adb"]
          /\ UNCHANGED overlap
    /\ UNCHANGED <<adminVars, registry, bridge, latest, lastFailure, lastFailed>>

\* The intent was sent by adb, and the app reports a connection or does not.
AdbActivated(a, connected) ==
    /\ lab[a].at = "adb"
    /\ StartSessionIfNeeded(a, connected)
    /\ UNCHANGED <<adminVars, registry, bridge, latest, lastFailure, lastFailed>>

PollEnds_Mut(a, validated) ==   \* clearLatestSession instead of stopLatestSession
    /\ lab[a].at = "polling"
    /\ LET success == lab[a].control /\ validated
       IN  /\ latest' = IF ~success /\ lab[a].session # NoSession THEN NoSession ELSE latest
           /\ Record(a, success)
    /\ UNCHANGED <<adminVars, registry, bridge, overlap>>

\* pollOutputWindow ends: what had to be observed was, or the time is over.  A
\* failed attempt stops the latest session, if it was given one.
PollEnds(a, validated) ==
    /\ lab[a].at = "polling"
    /\ LET success == lab[a].control /\ validated
       IN  IF ~success /\ lab[a].session # NoSession /\ latest # NoSession
           THEN /\ lab' = [lab EXCEPT ![a].at = "stopping", ![a].session = latest]
                /\ NoteOverlap(a)
                /\ UNCHANGED <<lastFailure, lastFailed>>
           ELSE /\ Record(a, success)
                /\ UNCHANGED overlap
    /\ UNCHANGED <<adminVars, registry, bridge, latest>>

(***************************************************************************)
(* The end of stopLatestSession, for any caller: whatever is the latest    *)
(* session by now is forgotten.  An error rejects the call.                *)
(***************************************************************************)

\* What the caller does then: a stop or a failed attempt is answered.
EndStop(c) ==
    IF ~lab[c].stopOk
    THEN Reject(c)
    ELSE IF c \in Attempt
    THEN Record(c, FALSE)
    ELSE Finish(c) /\ UNCHANGED <<lastFailure, lastFailed>>

SessionStopped_Mut(c) ==        \* the latest session stays
    /\ lab[c].at = "stopped"
    /\ EndStop(c)
    /\ UNCHANGED <<adminVars, registry, bridge, latest, overlap>>

SessionStopped(c) ==
    /\ lab[c].at = "stopped"
    /\ latest' = IF lab[c].stopOk THEN NoSession ELSE latest
    /\ EndStop(c)
    /\ UNCHANGED <<adminVars, registry, bridge, overlap>>

-----------------------------------------------------------------------------
BridgeStep(a) ==
    \/ \E listed \in BOOLEAN : BridgeMetadata(a, listed)
    \/ ConfigRead(a) \/ AdminStartsForBridge(a) \/ BridgeStarted(a) \/ ConfigReread(a)
    \/ AddRule(a)
    \/ \E success \in BOOLEAN : BridgeActivated(a, success)

SessionStep(c) ==
    \/ AdminStarts(c) \/ SessionStarted(c) \/ SessionStopped(c)
    \/ \E ok \in BOOLEAN : AdminStops(c, ok)

AttemptStep(a) ==
    \/ Polluted(a) \/ AbortBridge(a) \/ BridgeAnswers(a)
    \/ \E b \in BOOLEAN : AskBridge(a, b) \/ AdbActivated(a, b) \/ PollEnds(a, b)

Next ==
    \/ \E p \in Port : OtherStarts(p) \/ SessionEnds(p)
    \/ \E a \in Attempt : BridgeStep(a) \/ AttemptStep(a)
    \/ \E a \in Attempt, p \in Port, device \in BOOLEAN : StartHeadless(a, p, device)
    \/ \E c \in Caller : SessionStep(c)
    \/ \E c \in Start : CallStart(c)
    \/ \E c \in Stop : CallStop(c)

Spec == Init /\ [][Next]_vars

\* The admin server answers, timers fire, and adb commands have their timeouts.
\* Nothing is assumed of the bridge's handler, whose activation has none.
FairSpec ==
    /\ Spec
    /\ \A a \in Attempt : WF_vars(AttemptStep(a))
    /\ \A c \in Caller : WF_vars(SessionStep(c))

(***************************************************************************)
(* Properties.                                                             *)
(***************************************************************************)

\* The interceptor is activated for a port only with a session that the bridge
\* started there and that has all bootstrap rules, and that runs unless it was
\* ended from outside: neither a reused handle, nor another attempt, nor the
\* add-on's own starts and stops can take it away.
ActivatedIsPrepared ==
    \A a \in Attempt : bridge[a].at = "activating" =>
        LET s == bridge[a].session
        IN  /\ s # NoSession
            /\ owner[s] = "bridge" /\ portOf[s] = lab[a].port
            /\ rules[s] = Rules
            /\ Runs(s) \/ s \in ended

\* No session of the bridge is lost: while one runs, its handle is registered, or
\* its handler is about to register it, unless one that was ended meanwhile has
\* taken its place.
StartedIsRegistered ==
    \A s \in Session : owner[s] = "bridge" /\ Runs(s) =>
        \/ registry[portOf[s]] = s
        \/ registry[portOf[s]] \in ended
        \/ \E a \in Attempt : bridge[a].at \in {"started", "reread"} /\ bridge[a].session = s

\* The add-on's latest session runs, unless its stop is about to be noted, or it
\* was ended from outside.
LatestRuns ==
    latest # NoSession =>
        \/ Runs(latest) \/ latest \in ended
        \/ \E c \in Caller : lab[c].at = "stopped" /\ lab[c].stopOk /\ lab[c].session = latest

\* As long as its calls do not overlap, the add-on loses no session that it
\* started, also when attempts fail, are rejected, or cannot stop it.
SessionIsKept ==
    ~overlap => \A s \in Session : owner[s] = "lab" /\ Runs(s) =>
        \/ latest = s
        \/ \E c \in Caller : lab[c].at = "started" /\ lab[c].session = s

\* Every attempt is answered, whatever becomes of the bridge's handler.
AttemptEnds ==
    \A a \in Attempt : lab[a].at = "inspecting" ~> lab[a].at = "done"

\* The health contract in MINIMAL_CORE_HOOK_ANDROID_ACTIVATION.md: "`lastFailure`:
\* latest failed attempt".  It does not hold: an attempt whose port is in use is rejected
\* without a record.
FailureRecorded == lastFailure = lastFailed

(***************************************************************************)
(* The inductive invariant.                                                *)
(***************************************************************************)

\* Sessions have one port, and those of the bridge end only from outside.
SessionInv ==
    /\ \A p \in Port : server[p] # NoSession =>
          server[p] <= created /\ portOf[server[p]] = p
    /\ \A s \in Session : owner[s] = "nobody" <=> s > created
    /\ \A s \in Session : owner[s] = "bridge" => Runs(s) \/ s \in ended

\* Handles of the bridge, registered or in use, are sessions of their port.
HandleInv ==
    /\ \A p \in Port : registry[p] # NoSession =>
          owner[registry[p]] = "bridge" /\ portOf[registry[p]] = p
    /\ \A a \in Attempt : bridge[a].session # NoSession =>
          owner[bridge[a].session] = "bridge" /\ portOf[bridge[a].session] = lab[a].port
    /\ \A a \in Attempt : lab[a].at \in {"new", "inspecting"} => bridge[a].at = "off"
    /\ \A a \in Attempt : bridge[a].at \in {"off", "metadata", "config", "starting"} =>
          bridge[a].session = NoSession

\* What a handler has added, its session has.
RulesInv ==
    \A a \in Attempt :
        /\ bridge[a].at \in {"reread", "rules", "activating"} => bridge[a].session # NoSession
        /\ bridge[a].at = "rules" =>
              bridge[a].added < Rules /\ rules[bridge[a].session] >= bridge[a].added
        /\ bridge[a].at = "activating" => rules[bridge[a].session] = Rules

\* A session that was started and is on its way to the add-on is in no other's
\* hands, so that nobody stops it.
LabInv ==
    /\ latest # NoSession => owner[latest] = "lab"
    /\ \A c \in Caller : lab[c].at = "stopping" =>
          lab[c].session # NoSession /\ owner[lab[c].session] = "lab"
    /\ \A c \in Caller :
          lab[c].at \in {"new", "inspecting", "activating", "adb", "starting"} =>
             lab[c].session = NoSession
    /\ \A c \in Caller : lab[c].at = "started" /\ lab[c].session # NoSession =>
          LET s == lab[c].session
          IN  /\ owner[s] = "lab" /\ s # latest
              /\ Runs(s) \/ s \in ended
              /\ \A d \in Caller \ {c} :
                    lab[d].at \in {"started", "stopping"} => lab[d].session # s

IInv ==
    /\ TypeOK /\ SessionInv /\ HandleInv /\ RulesInv /\ LabInv
    /\ StartedIsRegistered /\ LatestRuns

=============================================================================
