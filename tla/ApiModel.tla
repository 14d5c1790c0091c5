------------------------------ MODULE ApiModel ------------------------------
(***************************************************************************)
(* The API of the server: api-model.ts behind the routes of rest-api.ts    *)
(* and the resolvers of graphql-api.ts. A query asks interceptors that may *)
(* fail or never answer; every part of it has a timer and a fallback. An   *)
(* activation has none: it is waited for, and reported once if it is slow. *)
(* Timers are timely: the clock does not pass one that is due.             *)
(***************************************************************************)
EXTENDS Naturals

CONSTANTS
    ApiCall,        \* requests that may be under way at the same time
    Served,         \* the interceptors of buildInterceptors
    NoInterceptor,  \* the id of none of them
    InterceptorTimeout, DetailedTimeout, ConfigTimeout, ReportAfter,
    ActivableTimeout,  \* ActivableTimeout[i]: that of i, or InterceptorTimeout
    MaxApiTime      \* bound of the clock

ASSUME ApiAssumption ==
    /\ NoInterceptor \notin Served
    /\ {InterceptorTimeout, DetailedTimeout, ConfigTimeout, ReportAfter, MaxApiTime} \subseteq Nat
    /\ ActivableTimeout \in [Served -> Nat]
    /\ \E longest \in {InterceptorTimeout} \union {ActivableTimeout[i] : i \in Served} :
           \A i \in Served : longest >= InterceptorTimeout /\ longest >= ActivableTimeout[i]

VARIABLES
    now,        \* the time
    apiCall     \* apiCall[c]: what it asks for, when it came, and what it awaits

apiVars == <<now, apiCall>>

NoCall == [kind |-> "none", started |-> 0, nested |-> FALSE, awaited |-> {}, reported |-> FALSE]

ApiInit == now = 0 /\ apiCall = [c \in ApiCall |-> NoCall]

\* withFallback: a part of a query that is given up when it is due.
Part(i, what, within) == [of |-> i, what |-> what, due |-> now + within]

Summary_Mut(i) == {Part(i, "metadata", DetailedTimeout), Part(i, "activable", ActivableTimeout[i])}

Summary(i) == {Part(i, "metadata", InterceptorTimeout), Part(i, "activable", ActivableTimeout[i])}
Activity(i) == Part(i, "active", InterceptorTimeout)

\* The parts that a query awaits together, of a proxy port or of none.
Parts(kind, i, ofPort) ==
    CASE kind = "interceptors" -> (UNION {Summary(j) : j \in Served})
                                    \union (IF ofPort THEN {Activity(j) : j \in Served} ELSE {})
      [] kind = "graphql" -> UNION {Summary(j) : j \in Served}
      [] kind = "metadata" -> {Part(i, "metadata", DetailedTimeout)}
      [] kind = "config" -> {Part(NoInterceptor, "systemProxy", ConfigTimeout)}
                              \union IF ofPort THEN {Part(NoInterceptor, "dns", ConfigTimeout)} ELSE {}

\* What a query awaits after that: the resolvers of the interceptors run once there is the list
\* of them, and getConfig goes on with the fingerprint and the tools, which have no timer.
Nested(kind) ==
    CASE kind = "graphql" -> UNION {{Activity(i), Part(i, "metadata", DetailedTimeout)} : i \in Served}
      [] kind = "config" -> {Part(NoInterceptor, "untimed", MaxApiTime + 1)}

Queries == {"interceptors", "graphql", "metadata", "config"}

ApiQuery(c, kind, i, ofPort) ==
    /\ apiCall[c].kind = "none"
    /\ apiCall' = [apiCall EXCEPT ![c] = [NoCall EXCEPT !.kind = kind, !.started = now,
                                                        !.awaited = Parts(kind, i, ofPort)]]
    /\ UNCHANGED now

\* The interceptor answers, fails, or is given up.
PartSettles(c, part) ==
    /\ part \in apiCall[c].awaited
    /\ apiCall' = [apiCall EXCEPT ![c].awaited = @ \ {part}]
    /\ UNCHANGED now

Settled(c) == apiCall[c].kind \in Queries /\ apiCall[c].awaited = {}

RespondToQuery(c) ==
    /\ Settled(c)
    /\ apiCall' = IF apiCall[c].kind \in {"graphql", "config"} /\ ~apiCall[c].nested
                  THEN [apiCall EXCEPT ![c].nested = TRUE, ![c].awaited = Nested(apiCall[c].kind)]
                  ELSE [apiCall EXCEPT ![c] = NoCall]
    /\ UNCHANGED now

-----------------------------------------------------------------------------
(* activateInterceptor and deactivateInterceptor, of an interceptor that     *)
(* there is. They wait for it, and end with what it returns or throws.       *)

Command(c, kind) ==
    /\ apiCall[c].kind = "none"
    /\ apiCall' = [apiCall EXCEPT ![c] = [NoCall EXCEPT !.kind = kind, !.started = now]]
    /\ UNCHANGED now

CommandEnds(c) ==
    /\ apiCall[c].kind \in {"activate", "deactivate"}
    /\ apiCall' = [apiCall EXCEPT ![c] = NoCall]
    /\ UNCHANGED now

IsSlow(c) == apiCall[c].kind = "activate" /\ now >= apiCall[c].started + ReportAfter

\* The activation goes on.
ReportSlow(c) ==
    /\ IsSlow(c) /\ ~apiCall[c].reported
    /\ apiCall' = [apiCall EXCEPT ![c].reported = TRUE]
    /\ UNCHANGED now

TimePasses ==
    /\ now < MaxApiTime
    /\ \A c \in ApiCall :
           /\ ~Settled(c)
           /\ \A part \in apiCall[c].awaited : now < part.due
           /\ IsSlow(c) => apiCall[c].reported
    /\ now' = now + 1
    /\ UNCHANGED apiCall

ApiNext ==
    \/ \E c \in ApiCall, kind \in Queries, i \in Served, ofPort \in BOOLEAN : ApiQuery(c, kind, i, ofPort)
    \/ \E c \in ApiCall : \E part \in apiCall[c].awaited : PartSettles(c, part)
    \/ \E c \in ApiCall, kind \in {"activate", "deactivate"} : Command(c, kind)
    \/ \E c \in ApiCall : CommandEnds(c) \/ RespondToQuery(c) \/ ReportSlow(c)
    \/ TimePasses

-----------------------------------------------------------------------------
Longest(times) == CHOOSE t \in times : \A u \in times : u <= t

AnswerWithin(kind) ==
    LET list == Longest({InterceptorTimeout} \union {ActivableTimeout[i] : i \in Served})
    IN  CASE kind = "interceptors" -> list
          [] kind = "graphql" -> list + Longest({InterceptorTimeout, DetailedTimeout})
          [] kind = "metadata" -> DetailedTimeout
          [] kind = "config" -> ConfigTimeout

HasNoTimer(call) == call.kind = "config" /\ call.nested

\* Whatever the interceptors do, a query is answered within the longest of the time outs of its
\* parts: they are awaited together, and for GraphQL in two rounds (api-model.ts:98-223,
\* :284-291). Only the fingerprint and the tools of a configuration have none (:115, :136). An
\* activation that is slow is still awaited, and it has been reported or is about to be (:231-235).
QueriesAreTimely ==
    \A c \in ApiCall :
        /\ apiCall[c].kind \in Queries /\ ~HasNoTimer(apiCall[c]) =>
               now <= apiCall[c].started + AnswerWithin(apiCall[c].kind)
        /\ apiCall[c].kind = "activate" /\ now > apiCall[c].started + ReportAfter => apiCall[c].reported
=============================================================================
