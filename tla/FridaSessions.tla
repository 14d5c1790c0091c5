--------------------------- MODULE FridaSessions ---------------------------
(***************************************************************************)
(* The cache of Frida sessions of one host (frida-integration.ts:207-257), *)
(* as the listing of its targets uses it (frida-android-integration.ts,    *)
(* frida-ios-integration.ts): a session is shared and is closed when it    *)
(* was idle for 30 s. A call opens at most one session, which is named     *)
(* after it.                                                               *)
(***************************************************************************)
EXTENDS FiniteSets

CONSTANTS
    Query,      \* calls of getSubMetadata, for the host
    NoSession

ASSUME SessionAssumption == NoSession \notin Query

VARIABLES
    fridaSessionCache, \* the session of the host's entry
    connected,  \* the sessions that are open
    timers,     \* the sessions whose idle time out is set
    query,      \* query[q]: where a call is, its session, and whether that was cached
    racedCache       \* history: a session replaced one that had come while it was opened

sessionVars == <<fridaSessionCache, connected, timers, query, racedCache>>

SessionInit ==
    /\ fridaSessionCache = NoSession
    /\ connected = {}
    /\ timers = {}
    /\ query = [q \in Query |-> [at |-> "new", session |-> NoSession, wasCached |-> FALSE]]
    /\ racedCache = FALSE

QueryGoesTo(q, at) == query' = [query EXCEPT ![q].at = at]

\* clearFridaSessionCache: whatever session the entry holds now is closed.
ClearFridaSessionCache_Mut(host) ==
    /\ timers' = timers \ {host}
    /\ fridaSessionCache' = NoSession
    /\ UNCHANGED connected

ClearFridaSessionCache(host) ==
    /\ connected' = connected \ {host}
    /\ timers' = timers \ {host}
    /\ fridaSessionCache' = NoSession

\* getOrCreateFridaSession: a cached session is used as it is, and its time out starts anew.
GetFridaTargets(q) ==
    /\ query[q].at = "new"
    /\ IF fridaSessionCache = NoSession
       THEN QueryGoesTo(q, "connecting")
       ELSE query' = [query EXCEPT ![q] = [at |-> "asking", session |-> fridaSessionCache, wasCached |-> TRUE]]
    /\ UNCHANGED <<fridaSessionCache, connected, timers, racedCache>>

\* The entry is overwritten without a look at it; the old session keeps its time out.
Connects(q) ==
    /\ query[q].at = "connecting"
    /\ fridaSessionCache' = q
    /\ connected' = connected \cup {q}
    /\ timers' = timers \cup {q}
    /\ query' = [query EXCEPT ![q] = [at |-> "asking", session |-> q, wasCached |-> FALSE]]
    /\ racedCache' = (racedCache \/ fridaSessionCache # NoSession)

\* The failure of a call closes the session that others have cached meanwhile.
ConnectingFails(q) ==
    /\ query[q].at = "connecting"
    /\ QueryGoesTo(q, "failed")
    /\ ClearFridaSessionCache(fridaSessionCache)
    /\ UNCHANGED racedCache

ApplicationsListed(q) ==
    /\ query[q].at = "asking" /\ query[q].session \in connected
    /\ QueryGoesTo(q, "answered")
    /\ UNCHANGED <<fridaSessionCache, connected, timers, racedCache>>

\* A call with a cached session tries again, at once: the entry has just been deleted.
ListingFails(q) ==
    /\ query[q].at = "asking"
    /\ QueryGoesTo(q, IF query[q].wasCached THEN "connecting" ELSE "failed")
    /\ ClearFridaSessionCache(fridaSessionCache)
    /\ UNCHANGED racedCache

\* An error of the stream: the session is closed, and stays in the cache.
StreamFails(s) ==
    /\ s \in connected
    /\ connected' = connected \ {s}
    /\ UNCHANGED <<fridaSessionCache, timers, query, racedCache>>

\* The time out of a session clears the host's entry, which may hold another one.
SessionIsIdle(s) ==
    /\ s \in timers
    /\ IF fridaSessionCache = NoSession
       THEN timers' = timers \ {s} /\ UNCHANGED <<fridaSessionCache, connected>>
       ELSE /\ connected' = connected \ {fridaSessionCache}
            /\ timers' = timers \ {s, fridaSessionCache}
            /\ fridaSessionCache' = NoSession
    /\ UNCHANGED <<query, racedCache>>

SessionNext ==
    \E q \in Query :
        \/ GetFridaTargets(q) \/ Connects(q) \/ ConnectingFails(q) \/ ApplicationsListed(q) \/ ListingFails(q)
        \/ StreamFails(q) \/ SessionIsIdle(q)

-----------------------------------------------------------------------------
\* No session is open that nothing closes: unless two calls have opened one each at the
\* same time, the only open session is the cached one, whose time out is set, however
\* failures, errors of the stream and time outs interleave (frida-integration.ts:220-257).
SessionsAreClosed ==
    /\ ~racedCache => connected \subseteq {fridaSessionCache}
    /\ fridaSessionCache # NoSession => fridaSessionCache \in timers
=============================================================================
