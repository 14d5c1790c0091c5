----------------------------- MODULE ClientSend -----------------------------
(***************************************************************************)
(* POST /client/send (rest-api.ts) and HttpClient.sendRequest: a request   *)
(* is sent upstream for a client, which reads a stream of events: the      *)
(* start, the head, parts of the body, and either the end or an error. The *)
(* client may close its connection at any time.                            *)
(***************************************************************************)
EXTENDS Naturals, Sequences, SequencesExt

CONSTANTS
    Send,       \* requests of clients
    MaxStreamed \* bound of the events of a response that go to a client before its end

ASSUME SendAssumption == MaxStreamed \in Nat

VARIABLES
    send,       \* send[r]: how far the route is
    upstream,   \* upstream[r]: the outgoing request
    written,    \* written[r]: the events in the response to the client
    closed,     \* the clients that have closed their connections
    aborting    \* those whose close aborts the outgoing request: the route listens

sendVars == <<send, upstream, written, closed, aborting>>

Terminal == {"response-end", "error"}
IsInFlight(r) == upstream[r] \in {"sent", "responding"}

SendInit ==
    /\ send = [r \in Send |-> "none"]
    /\ upstream = [r \in Send |-> "none"]
    /\ written = [r \in Send |-> <<>>]
    /\ closed = {} /\ aborting = {}

\* handleErrors: a status, and no stream.
Refuse(r) == send' = [send EXCEPT ![r] = "refused"]

\* Without a definition or options, 400. Otherwise getAgent, which may await the proxy settings.
Post(r) ==
    /\ send[r] = "none"
    /\ \/ Refuse(r)
       \/ send' = [send EXCEPT ![r] = "agent"]
    /\ UNCHANGED <<upstream, written, closed, aborting>>

\* The URL, the proxy or a rule parameter that it refers to is not known: 500.
AgentFails(r) ==
    /\ send[r] = "agent"
    /\ Refuse(r)
    /\ UNCHANGED <<upstream, written, closed, aborting>>

\* Only then does the route listen for the close of the client.
RequestStarts(r) ==
    /\ send[r] = "agent"
    /\ send' = [send EXCEPT ![r] = "streaming"]
    /\ upstream' = [upstream EXCEPT ![r] = "sent"]
    /\ written' = IF r \in closed THEN written ELSE [written EXCEPT ![r] = <<"request-start">>]
    /\ aborting' = IF r \in closed THEN aborting ELSE aborting \union {r}
    /\ UNCHANGED closed

\* An event of the results, which is lost if the client is gone.
Write(r, event) ==
    /\ written' = IF r \in closed THEN written ELSE [written EXCEPT ![r] = Append(@, event)]
    /\ send' = IF event \in Terminal THEN [send EXCEPT ![r] = "ended"] ELSE send

ResponseHead(r) ==
    /\ upstream[r] = "sent"
    /\ upstream' = [upstream EXCEPT ![r] = "responding"]
    /\ Write(r, "response-head")
    /\ UNCHANGED <<closed, aborting>>

ResponsePart(r) ==
    /\ upstream[r] = "responding" /\ Len(written[r]) < MaxStreamed
    /\ Write(r, "response-body-part")
    /\ UNCHANGED <<upstream, closed, aborting>>

ResponseEnds(r) ==
    /\ upstream[r] = "responding"
    /\ upstream' = [upstream EXCEPT ![r] = "done"]
    /\ Write(r, "response-end")
    /\ UNCHANGED <<closed, aborting>>

UpstreamFails_Mut(r) ==
    /\ IsInFlight(r)
    /\ upstream' = [upstream EXCEPT ![r] = "destroyed"]
    /\ UNCHANGED <<send, written, closed, aborting>>

\* An error of the request before its response, or of the response: the results are destroyed.
UpstreamFails(r) ==
    /\ IsInFlight(r)
    /\ upstream' = [upstream EXCEPT ![r] = "destroyed"]
    /\ Write(r, "error")
    /\ UNCHANGED <<closed, aborting>>

\* A response to CONNECT, or one that switches protocols, for which nothing listens: the HTTP
\* library closes the connection, and the results may never hear of it.
UpstreamSwitches(r) ==
    /\ upstream[r] = "sent"
    /\ upstream' = [upstream EXCEPT ![r] = "switched"]
    /\ send' = [send EXCEPT ![r] = "stalled"]
    /\ UNCHANGED <<written, closed, aborting>>

\* The abort destroys the request, and with an error its results.
ClientCloses(r) ==
    /\ r \notin closed /\ send[r] # "none"
    /\ closed' = closed \union {r}
    /\ IF r \in aborting /\ IsInFlight(r)
       THEN /\ upstream' = [upstream EXCEPT ![r] = "destroyed"]
            /\ send' = [send EXCEPT ![r] = "ended"]
       ELSE UNCHANGED <<upstream, send>>
    /\ UNCHANGED <<written, aborting>>

SendNext == \E r \in Send :
    \/ Post(r) \/ AgentFails(r) \/ RequestStarts(r) \/ ResponseHead(r) \/ ResponsePart(r)
    \/ ResponseEnds(r) \/ UpstreamFails(r) \/ UpstreamSwitches(r) \/ ClientCloses(r)

-----------------------------------------------------------------------------
\* A client that stays gets a stream that ends once, with the end or an error, exactly when
\* nothing more can come from upstream, except that a response that switches protocols may leave
\* it open (http-client.ts:137-139); for one that closes, nothing is still being fetched, unless
\* it closed before the route had begun to listen (rest-api.ts:116-156, http-client.ts:115-170).
StreamsAreClosed ==
    \A r \in Send :
        /\ \A n \in 1..Len(written[r]) : written[r][n] \in Terminal => n = Len(written[r])
        /\ r \notin closed /\ send[r] \notin {"none", "agent", "refused", "stalled"} =>
               (IsInFlight(r) <=> Last(written[r]) \notin Terminal)
        /\ r \in closed \intersect aborting => ~IsInFlight(r)
=============================================================================
