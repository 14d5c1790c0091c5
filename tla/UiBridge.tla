------------------------------ MODULE UiBridge ------------------------------
(***************************************************************************)
(* UiOperationBridge (api/ui-operation-bridge.ts): UI sessions connect     *)
(* over WebSockets and become channels, in connection order.  The first    *)
(* channel is the primary.  Local clients (ctl, mcp) send operation        *)
(* requests over a socket API; each request is forwarded to the primary    *)
(* and settled by its response, a timeout, or the end of the session.      *)
(*                                                                         *)
(* One action is one callback run by the event loop: everything up to the  *)
(* next await.  A definition whose name ends in _Mut is not part of the    *)
(* model: it is the following definition with a bug in it, and PROJECT.json *)
(* names the property that catches the bug.                                *)
(***************************************************************************)
EXTENDS Naturals, Sequences

CONSTANTS
    Channel,        \* WebSocket connections from a UI
    Request,        \* POST /api/execute requests from local clients
    SourceOf,       \* SourceOf[r]: the "source" field of the request's body
    NameOf,         \* NameOf[r]: the operation the request names
    Name,           \* operation names
    OpList,         \* operation lists a UI may announce: name -> has free tier
    TokenRequired,  \* the server was started with an auth token
    MaxAuth,        \* bound on the auth messages of one channel
    None            \* undefined

NoOps == [n \in {} |-> FALSE]

ASSUME OpListAssumption ==
    /\ NoOps \in OpList
    /\ \A l \in OpList : l = [n \in DOMAIN l |-> l[n]]

ASSUME ConstantAssumption ==
    /\ SourceOf \in [Request -> {"ctl", "mcp", "other"}]
    /\ NameOf \in [Request -> Name]
    /\ TokenRequired \in BOOLEAN
    /\ MaxAuth \in Nat
    /\ None \notin Channel
    /\ None \notin OpList

VARIABLES
    channels,       \* connected channels, in connection order
    ws,             \* ws[c]: state of the channel's socket
    operations,     \* operations[c]: the operations the channel has applied
    pendingOps,     \* pendingOps[c]: list buffered until the channel is authenticated
    user,           \* user[c]: the account validated on the channel
    authenticated,  \* authenticated[c]
    authSeq,        \* authSeq[c]: number of the channel's latest auth message
    validating,     \* JWT validations in flight
    phase,          \* phase[r]: "new", "reading" its body, "sent", "done"
    sentTo,         \* sentTo[r]: channel the request was sent to
    code,           \* code[r]: status of the HTTP response, 0 before it is written
    destroyed,      \* destroy() has run
    heard,          \* history: isReady as read by a listener at the last event
    tokenShown,     \* history: channels that presented the auth token
    exposed,        \* history: channels whose operations a local client has seen or run
    intent          \* history: intent[c], what the channel's latest auth message asked

chanVars == <<channels, ws, operations, pendingOps, user, authenticated, authSeq,
              validating>>
reqVars == <<phase, sentTo, code>>
histVars == <<heard, tokenShown, exposed, intent>>
vars == <<chanVars, reqVars, destroyed, histVars>>

(***************************************************************************)
(* Reading the bridge's state.                                             *)
(***************************************************************************)
HasPrimary == channels # <<>>
Primary == channels[1]
IsPrimary(c) == HasPrimary /\ c = Primary

IsReady == HasPrimary /\ authenticated[Primary] /\ DOMAIN operations[Primary] # {}

IsPaidUser == HasPrimary /\ user[Primary] = "paid"

\* The socket still delivers messages to the bridge.  A socket the bridge has
\* closed keeps delivering until the peer's close frame.
Receiving(c) == ws[c] \in {"open", "closing"}

Validation == [ch : Channel, seq : Nat, first : BOOLEAN]

ChannelTypeOK ==
    /\ channels \in Seq(Channel)
    /\ ws \in [Channel -> {"none", "open", "closing", "peerClosing", "closed"}]
    /\ operations \in [Channel -> OpList]
    /\ pendingOps \in [Channel -> OpList \cup {None}]
    /\ user \in [Channel -> {"none", "free", "paid"}]
    /\ authenticated \in [Channel -> BOOLEAN]
    /\ authSeq \in [Channel -> Nat]
    /\ validating \subseteq Validation

RequestTypeOK ==
    /\ phase \in [Request -> {"new", "reading", "sent", "done"}]
    /\ sentTo \in [Request -> Channel \cup {None}]
    /\ code \in [Request -> {0, 200, 400, 403, 500, 502, 503}]

HistoryTypeOK ==
    /\ heard \in BOOLEAN
    /\ tokenShown \subseteq Channel
    /\ exposed \subseteq Channel
    /\ intent \in [Channel -> {"none", "rejected", "loggedOut", "malformed", "token"}]

TypeOK ==
    /\ ChannelTypeOK
    /\ RequestTypeOK
    /\ HistoryTypeOK
    /\ destroyed \in BOOLEAN

Init ==
    /\ channels = <<>>
    /\ ws = [c \in Channel |-> "none"]
    /\ operations = [c \in Channel |-> NoOps]
    /\ pendingOps = [c \in Channel |-> None]
    /\ user = [c \in Channel |-> "none"]
    /\ authenticated = [c \in Channel |-> FALSE]
    /\ authSeq = [c \in Channel |-> 0]
    /\ validating = {}
    /\ phase = [r \in Request |-> "new"]
    /\ sentTo = [r \in Request |-> None]
    /\ code = [r \in Request |-> 0]
    /\ destroyed = FALSE
    /\ heard = FALSE
    /\ tokenShown = {}
    /\ exposed = {}
    /\ intent = [c \in Channel |-> "none"]

(***************************************************************************)
(* Channels.                                                               *)
(***************************************************************************)

\* setWebSocket: a UI connects and joins the end of the list.
Connect(c) ==
    /\ ws[c] = "none"
    /\ ws' = [ws EXCEPT ![c] = "open"]
    /\ channels' = Append(channels, c)
    /\ UNCHANGED <<operations, pendingOps, user, authenticated, authSeq, validating,
                   reqVars, destroyed, histVars>>

\* Every event is emitted after the change it announces; a listener that reads
\* isReady then is up to date.
Emit == heard' = IsReady'

ApplyOperations_Mut(c, l) ==    \* announced only when the bridge becomes ready
    /\ operations' = [operations EXCEPT ![c] = l]
    /\ IF IsPrimary(c) /\ IsReady' THEN Emit ELSE UNCHANGED heard

\* applyOperations: only a change of the primary's operations is announced.
ApplyOperations(c, l) ==
    /\ operations' = [operations EXCEPT ![c] = l]
    /\ IF IsPrimary(c) THEN Emit ELSE UNCHANGED heard

\* handleMessage, "operations": applied at once on an authenticated channel,
\* buffered (latest wins) on another.
OperationsMessage(c, l) ==
    /\ Receiving(c)
    /\ UNCHANGED <<channels, ws, user, authenticated, authSeq, validating, reqVars,
                   destroyed, tokenShown, exposed, intent>>
    /\ \/ /\ authenticated[c]
          /\ ApplyOperations(c, l)
          /\ UNCHANGED pendingOps
       \/ /\ ~authenticated[c]
          /\ pendingOps' = [pendingOps EXCEPT ![c] = l]
          /\ UNCHANGED <<operations, heard>>

CompleteInitialAuth_Mut(c) ==   \* whether there are any is not checked
    /\ authenticated' = [authenticated EXCEPT ![c] = TRUE]
    /\ pendingOps' = [pendingOps EXCEPT ![c] = None]
    /\ operations' = [operations EXCEPT ![c] = pendingOps[c]]
    /\ UNCHANGED heard

\* completeInitialAuth: the buffered operations are applied with the success.
CompleteInitialAuth(c) ==
    /\ authenticated' = [authenticated EXCEPT ![c] = TRUE]
    /\ IF pendingOps[c] = None
       THEN UNCHANGED <<operations, pendingOps, heard>>
       ELSE /\ pendingOps' = [pendingOps EXCEPT ![c] = None]
            /\ ApplyOperations(c, pendingOps[c])

NoInitialAuth == UNCHANGED <<authenticated, operations, pendingOps, heard>>

\* ws.close() called by the bridge: the peer may go on sending for a while.
CloseSocket(c) == ws' = [ws EXCEPT ![c] = IF @ = "open" THEN "closing" ELSE @]

RejectToken(c) ==
    /\ CloseSocket(c)
    /\ intent' = [intent EXCEPT ![c] = "rejected"]
    /\ NoInitialAuth
    /\ UNCHANGED <<user, validating, tokenShown>>

\* jwt: false, an explicit log out.
LogOut(c) ==
    /\ user' = [user EXCEPT ![c] = "none"]
    /\ intent' = [intent EXCEPT ![c] = "loggedOut"]
    /\ IF authenticated[c] THEN NoInitialAuth ELSE CompleteInitialAuth(c)
    /\ UNCHANGED <<ws, validating>>

RejectMalformedJwt(c) ==
    /\ user' = [user EXCEPT ![c] = "none"]
    /\ CloseSocket(c)
    /\ intent' = [intent EXCEPT ![c] = "malformed"]
    /\ NoInitialAuth
    /\ UNCHANGED validating

StartValidation(c) ==
    /\ validating' = validating \cup
                       {[ch |-> c, seq |-> authSeq[c] + 1, first |-> ~authenticated[c]]}
    /\ intent' = [intent EXCEPT ![c] = "token"]
    /\ NoInitialAuth
    /\ UNCHANGED <<ws, user>>

AuthMessage_Mut(c, tokenMatches, jwt) ==  \* the token is only checked the first time
    /\ Receiving(c)
    /\ authSeq[c] < MaxAuth
    /\ authSeq' = [authSeq EXCEPT ![c] = @ + 1]
    /\ UNCHANGED <<channels, reqVars, destroyed, exposed>>
    /\ \/ /\ authSeq[c] = 0 /\ TokenRequired /\ ~tokenMatches
          /\ RejectToken(c)
       \/ /\ authSeq[c] > 0 \/ ~TokenRequired \/ tokenMatches
          /\ tokenShown' = IF tokenMatches \/ ~TokenRequired
                           THEN tokenShown \cup {c} ELSE tokenShown
          /\ \/ jwt = "loggedOut" /\ LogOut(c)
             \/ jwt = "malformed" /\ RejectMalformedJwt(c)
             \/ jwt = "token" /\ StartValidation(c)

\* handleAuth up to its first await.  The token is only checked while the
\* channel is not authenticated.
AuthMessage(c, tokenMatches, jwt) ==
    /\ Receiving(c)
    /\ authSeq[c] < MaxAuth
    /\ authSeq' = [authSeq EXCEPT ![c] = @ + 1]
    /\ UNCHANGED <<channels, reqVars, destroyed, exposed>>
    /\ \/ /\ ~authenticated[c] /\ TokenRequired /\ ~tokenMatches
          /\ RejectToken(c)
       \/ /\ authenticated[c] \/ ~TokenRequired \/ tokenMatches
          /\ tokenShown' = IF tokenMatches \/ ~TokenRequired
                           THEN tokenShown \cup {c} ELSE tokenShown
          /\ \/ jwt = "loggedOut" /\ LogOut(c)
             \/ jwt = "malformed" /\ RejectMalformedJwt(c)
             \/ jwt = "token" /\ StartValidation(c)

Current_Mut(v) == ws[v.ch] = "open"    \* superseded validations are applied too

\* A validation superseded by a later auth message, or whose socket is no
\* longer open, is dropped.
Current(v) == v.seq = authSeq[v.ch] /\ ws[v.ch] = "open"

\* getUserFromAppJwt resolves with a user.
ValidationSucceeds(v, u) ==
    /\ v \in validating
    /\ validating' = validating \ {v}
    /\ UNCHANGED <<channels, ws, authSeq, reqVars, destroyed, tokenShown, exposed, intent>>
    /\ IF Current(v)
       THEN /\ user' = [user EXCEPT ![v.ch] = u]
            /\ IF v.first THEN CompleteInitialAuth(v.ch) ELSE NoInitialAuth
       ELSE NoInitialAuth /\ UNCHANGED user

\* getUserFromAppJwt rejects.
ValidationFails(v) ==
    /\ v \in validating
    /\ validating' = validating \ {v}
    /\ IF Current(v)
       THEN user' = [user EXCEPT ![v.ch] = "none"] /\ CloseSocket(v.ch)
       ELSE UNCHANGED <<user, ws>>
    /\ UNCHANGED <<channels, operations, pendingOps, authenticated, authSeq, reqVars,
                   destroyed, histVars>>

\* The peer starts the closing handshake: readyState leaves OPEN, nothing more
\* arrives, the 'close' event is still to come.
PeerCloses(c) ==
    /\ Receiving(c)
    /\ ws' = [ws EXCEPT ![c] = "peerClosing"]
    /\ UNCHANGED <<channels, operations, pendingOps, user, authenticated, authSeq,
                   validating, reqVars, destroyed, histVars>>

\* splice(i, 1)
Without(s, i) == [j \in 1 .. Len(s) - 1 |-> IF j < i THEN s[j] ELSE s[j + 1]]

RejectAllPending_Mut == UNCHANGED reqVars    \* left to their timers

\* rejectAllPending: every request in flight is answered with an error.
RejectAllPending ==
    /\ phase' = [r \in Request |-> IF phase[r] = "sent" THEN "done" ELSE phase[r]]
    /\ code' = [r \in Request |-> IF phase[r] = "sent" THEN 502 ELSE code[r]]
    /\ UNCHANGED sentTo

ChannelClose_Mut(c) ==          \* whether the channel was the primary is not checked
    /\ \E i \in DOMAIN channels :
         /\ channels[i] = c
         /\ channels' = Without(channels, i)
    /\ ws' = [ws EXCEPT ![c] = "closed"]
    /\ UNCHANGED <<operations, pendingOps, user, authenticated, authSeq, validating,
                   destroyed, tokenShown, exposed, intent>>
    /\ RejectAllPending
    /\ Emit

\* handleChannelClose, on the socket's 'close' event (orderly or not).
ChannelClose(c) ==
    /\ \E i \in DOMAIN channels :
         /\ channels[i] = c
         /\ channels' = Without(channels, i)
    /\ ws' = [ws EXCEPT ![c] = "closed"]
    /\ UNCHANGED <<operations, pendingOps, user, authenticated, authSeq, validating,
                   destroyed, tokenShown, exposed, intent>>
    /\ IF IsPrimary(c)
       THEN /\ RejectAllPending
            /\ IF IsReady' \/ IsReady THEN Emit ELSE UNCHANGED heard
       ELSE UNCHANGED <<reqVars, heard>>

(***************************************************************************)
(* The local API.                                                          *)
(***************************************************************************)

Answer(r, status) ==
    /\ phase' = [phase EXCEPT ![r] = "done"]
    /\ code' = [code EXCEPT ![r] = status]
    /\ UNCHANGED <<sentTo, exposed>>

\* GET /api/operations: the primary's operations are shown to a local client.
ListOperations ==
    /\ ~destroyed
    /\ IsReady
    /\ exposed' = exposed \cup {Primary}
    /\ UNCHANGED <<chanVars, reqVars, destroyed, heard, tokenShown, intent>>

\* handleApiExecute up to its await of the body.
ApiExecute(r) ==
    /\ ~destroyed
    /\ phase[r] = "new"
    /\ \/ /\ ~IsReady
          /\ Answer(r, 503)
       \/ /\ IsReady
          /\ phase' = [phase EXCEPT ![r] = "reading"]
          /\ UNCHANGED <<sentTo, code, exposed>>
    /\ UNCHANGED <<chanVars, destroyed, heard, tokenShown, intent>>

\* executeOperation: the primary of this moment, if it is ready and its socket
\* is open.  ws.send throws if the message cannot be serialised.
ExecuteOperation(r) ==
    \/ /\ ~IsReady \/ ws[Primary] # "open"
       /\ Answer(r, 502)
    \/ /\ IsReady /\ ws[Primary] = "open"
       /\ phase' = [phase EXCEPT ![r] = "sent"]
       /\ sentTo' = [sentTo EXCEPT ![r] = Primary]
       /\ exposed' = exposed \cup {Primary}
       /\ UNCHANGED code
    \/ /\ IsReady /\ ws[Primary] = "open"
       /\ Answer(r, 502)

Unlisted(r) == ~HasPrimary \/ NameOf[r] \notin DOMAIN operations[Primary]
FreeTier(r) == ~Unlisted(r) /\ operations[Primary][NameOf[r]]

TierOutcome_Mut(r) ==           \* an mcp request for a pro operation passes
    CASE SourceOf[r] = "ctl" /\ ~IsPaidUser -> "forbidden"
      [] SourceOf[r] = "mcp" /\ ~IsPaidUser /\ Unlisted(r) -> "unknown"
      [] OTHER -> "allowed"

CtlTierOutcome_Mut(r) ==        \* a ctl request is treated as an mcp one
    CASE ~IsPaidUser /\ Unlisted(r) -> "unknown"
      [] ~IsPaidUser /\ ~Unlisted(r) /\ ~FreeTier(r) -> "forbidden"
      [] OTHER -> "allowed"

\* The tier check: which of its outcomes a request gets.
TierOutcome(r) ==
    CASE SourceOf[r] = "ctl" /\ ~IsPaidUser -> "forbidden"
      [] SourceOf[r] = "mcp" /\ ~IsPaidUser /\ Unlisted(r) -> "unknown"
      [] SourceOf[r] = "mcp" /\ ~IsPaidUser /\ ~Unlisted(r) /\ ~FreeTier(r) -> "forbidden"
      [] OTHER -> "allowed"

\* handleApiExecute once the body is read.
BodyRead(r) ==
    /\ phase[r] = "reading"
    /\ \/ Answer(r, 400)     \* not JSON, or no operation name
       \/ TierOutcome(r) = "forbidden" /\ Answer(r, 403)
       \/ TierOutcome(r) = "unknown" /\ Answer(r, 500)
       \/ TierOutcome(r) = "allowed" /\ ExecuteOperation(r)
    /\ UNCHANGED <<chanVars, destroyed, heard, tokenShown, intent>>

\* readBody rejects: the client went away.
BodyFails(r) ==
    /\ phase[r] = "reading"
    /\ Answer(r, 500)
    /\ UNCHANGED <<chanVars, destroyed, heard, tokenShown, intent>>

\* handleResponse: any authenticated channel that knows the request's id; only
\* the channel it was sent to does.
Response(r, ok) ==
    /\ phase[r] = "sent"
    /\ Receiving(sentTo[r])
    /\ authenticated[sentTo[r]]
    /\ Answer(r, IF ok THEN 200 ELSE 502)
    /\ UNCHANGED <<chanVars, destroyed, heard, tokenShown, intent>>

RequestTimeout_Mut(r) == phase[r] = "sent" /\ FALSE    \* the timer is not armed

\* The request's 30 second timer.
RequestTimeout(r) ==
    /\ phase[r] = "sent"
    /\ Answer(r, 502)
    /\ UNCHANGED <<chanVars, destroyed, heard, tokenShown, intent>>

\* destroy: the sockets lose their listeners, and the events theirs.
Destroy ==
    /\ ~destroyed
    /\ destroyed' = TRUE
    /\ ws' = [c \in Channel |-> IF \E i \in DOMAIN channels : channels[i] = c
                                THEN "closed" ELSE ws[c]]
    /\ channels' = <<>>
    /\ RejectAllPending
    /\ UNCHANGED <<operations, pendingOps, user, authenticated, authSeq, validating,
                   histVars>>

Next ==
    \/ \E c \in Channel :
         \/ Connect(c) \/ PeerCloses(c) \/ ChannelClose(c)
         \/ \E l \in OpList : OperationsMessage(c, l)
         \/ \E t \in BOOLEAN, jwt \in {"loggedOut", "malformed", "token"} :
              AuthMessage(c, t, jwt)
    \/ \E v \in validating : ValidationFails(v)
    \/ \E v \in validating, u \in {"free", "paid"} : ValidationSucceeds(v, u)
    \/ ListOperations
    \/ \E r \in Request : ApiExecute(r) \/ BodyRead(r) \/ BodyFails(r) \/ RequestTimeout(r)
    \/ \E r \in Request, ok \in BOOLEAN : Response(r, ok)
    \/ Destroy

Spec == Init /\ [][Next]_vars

\* Timers fire.  Nothing is assumed of UIs, sockets or clients.
Fairness == \A r \in Request : WF_vars(RequestTimeout(r))

FairSpec == Spec /\ Fairness

(***************************************************************************)
(* Properties.                                                             *)
(***************************************************************************)

\* Every request in flight was sent to the channel that is primary now: when
\* the primary goes, rejecting all pending requests rejects exactly its own,
\* and none can be left to a session that is gone.
PendingOnPrimary ==
    \A r \in Request : phase[r] = "sent" => IsPrimary(sentTo[r])

\* No operation is listed to a local client or run on a channel that has not
\* presented the auth token, however auth and operations messages interleave.
ExposedAfterToken == exposed \subseteq tokenShown

\* The events are enough to follow readiness: a listener that rereads isReady
\* at every event is never out of date, across buffering, re-authentication,
\* fail over and disconnection.
ListenerUpToDate == ~destroyed => heard = IsReady

\* The latest auth message decides: once a channel has asked to log out, or has
\* been refused, no validation still in flight gives it a user back.
LatestAuthWins ==
    \A c \in Channel :
      intent[c] \in {"rejected", "loggedOut", "malformed"} => user[c] = "none"

\* A request is forwarded only if the account of the primary at that moment
\* allows it, whatever was true when the request arrived.
SentWithinTier ==
    [][\A r \in Request :
         phase[r] # "sent" /\ phase'[r] = "sent" =>
           \/ IsPaidUser
           \/ SourceOf[r] = "other"
           \/ SourceOf[r] = "mcp" /\ FreeTier(r)]_vars

\* Every request sent to a UI is eventually answered, even if the UI never is
\* heard of again.
SentIsAnswered ==
    \A r \in Request : phase[r] = "sent" ~> phase[r] = "done"

\* What the safety properties rest on.  A channel that is not authenticated has
\* nothing to show; one that is has presented the token; a validation in flight
\* is current only if nothing was asked since, and it can only authenticate a
\* channel whose token was checked.
ChannelAuthInv(c) ==
    /\ ~authenticated[c] => operations[c] = NoOps /\ user[c] = "none"
    /\ authenticated[c] => c \in tokenShown /\ ws[c] # "none"

ValidationInv(v) ==
    /\ v.seq <= authSeq[v.ch]
    /\ v.seq = authSeq[v.ch] => intent[v.ch] = "token"
    /\ IF v.first THEN v.ch \in tokenShown ELSE authenticated[v.ch]

\* A connection is listed once, and only after it connected.
ChannelsListedOnce ==
    /\ \A i \in DOMAIN channels : ws[channels[i]] # "none"
    /\ \A i, j \in DOMAIN channels : channels[i] = channels[j] => i = j

\* The inductive invariant: together with the type invariant, each of the safety
\* properties below and the facts above is preserved by every action.
IInv ==
    /\ TypeOK
    /\ \A c \in Channel : ChannelAuthInv(c)
    /\ \A v \in validating : ValidationInv(v)
    /\ ChannelsListedOnce
    /\ PendingOnPrimary
    /\ ExposedAfterToken
    /\ LatestAuthWins
    /\ ListenerUpToDate

\* What a client sees of the bridge: the session it talks to, and its requests.
CurrentSession == IF HasPrimary THEN Primary ELSE None

JobOf(r) ==
    IF phase[r] = "sent" THEN "with session"
    ELSE IF phase[r] # "done" THEN "new"
    ELSE IF code[r] = 200 THEN "ok" ELSE "failed"

\* The session broker this module implements.
Broker ==
    INSTANCE SessionBroker WITH
      current <- CurrentSession,
      job <- [r \in Request |-> JobOf(r)]

\* The bridge implements the broker: whatever happens to channels, a request is
\* handed over once, settled once, and fails when its session stops being the
\* current one.
ImplementsBroker == Broker!Spec

=============================================================================
