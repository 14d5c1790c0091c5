----------------------------- MODULE LiveExport -----------------------------
(***************************************************************************)
(* The export of intercepted exchanges: the bridge of the server, which    *)
(* pairs requests with responses and posts them (export/live-export-       *)
(* addon-bridge.ts), and the route of the lab add-on that matches them     *)
(* with its targets and appends them to a file (server.ts,                 *)
(* export-ingest-service.ts, export-file-sink.ts). Between the two, posts  *)
(* fail, time out while the add-on still works, and the add-on restarts.   *)
(***************************************************************************)
EXTENDS FiniteSets, Naturals, Sequences

CONSTANTS
    Exchange,       \* exchanges that the mock server intercepts
    Ingest,         \* requests to ingest that other clients make
    NoService,
    AddonRestarts   \* bound: restarts of the add-on

ASSUME ExportAssumption == Exchange \cap Ingest = {} /\ AddonRestarts \in Nat

VARIABLES
    bridgeConfig,   \* of the environment: whether the bridge is enabled, and persists
    tracked,        \* the keys of requestsById
    exchange,       \* exchange[e]: how far the bridge is with an exchange
    targetsFile,    \* what the targets of the file match; none if they are disabled
    sinkExists,     \* exportFileSink is set
    ingestService,  \* exportIngestService: what its targets match, and whether it has a sink
    ingest,         \* ingest[c]: where a request to ingest is, and the targets it has read
    outcome,        \* outcome[c]: what the add-on did with the event
    jsonl,          \* the records of the file
    addonRestarts,
    everTargets     \* history: all that the targets of the file matched

exportVars == <<bridgeConfig, tracked, exchange, targetsFile, sinkExists, ingestService, ingest, outcome, jsonl,
                addonRestarts, everTargets>>

Ingestion == Exchange \cup Ingest
NotIngesting == [at |-> "none", persist |-> FALSE, targets |-> {}]
Recorded == {jsonl[i] : i \in DOMAIN jsonl}

ExportInit ==
    /\ bridgeConfig \in [enabled : BOOLEAN, persist : BOOLEAN]
    /\ tracked = {}
    /\ exchange = [e \in Exchange |-> "new"]
    /\ targetsFile \in SUBSET Ingestion
    /\ sinkExists = FALSE /\ ingestService = NoService
    /\ ingest = [c \in Ingestion |-> NotIngesting]
    /\ outcome = [c \in Ingestion |-> "none"]
    /\ jsonl = <<>> /\ addonRestarts = 0
    /\ everTargets = targetsFile

ExchangeGoesTo(e, at) == exchange' = [exchange EXCEPT ![e] = at]
AddonRests == UNCHANGED <<targetsFile, sinkExists, ingestService, jsonl, addonRestarts, everTargets>>

-----------------------------------------------------------------------------
\* setupLiveExportHook and trackRequest: without the hook, nothing is tracked.
TrackRequest(e) ==
    /\ exchange[e] = "new"
    /\ ExchangeGoesTo(e, "requested")
    /\ tracked' = IF bridgeConfig.enabled THEN tracked \cup {e} ELSE tracked
    /\ UNCHANGED <<bridgeConfig, ingest, outcome>> /\ AddonRests

\* The client leaves before there is a response: the hook has no event for it.
ExchangeAborts(e) ==
    /\ exchange[e] = "requested"
    /\ ExchangeGoesTo(e, "aborted")
    /\ UNCHANGED <<bridgeConfig, tracked, ingest, outcome>> /\ AddonRests

\* trackResponse: the request is taken, and forwardExchange reads the body, for as long as
\* that takes.
TrackResponse(e) ==
    /\ exchange[e] = "requested"
    /\ ExchangeGoesTo(e, IF e \in tracked THEN "reading" ELSE "ended")
    /\ tracked' = tracked \ {e}
    /\ UNCHANGED <<bridgeConfig, ingest, outcome>> /\ AddonRests

\* The event is posted, with a time out. The add-on may be away.
PostEvent(e) ==
    /\ exchange[e] = "reading"
    /\ \/ /\ ExchangeGoesTo(e, "posted")
          /\ ingest' = [ingest EXCEPT ![e] = [NotIngesting EXCEPT !.at = "received", !.persist = bridgeConfig.persist]]
       \/ ExchangeGoesTo(e, "failed") /\ UNCHANGED ingest
    /\ UNCHANGED <<bridgeConfig, tracked, outcome>> /\ AddonRests

\* The answer of the add-on, or the time out, whichever comes first. There is no retry.
PostEnds(e) ==
    /\ exchange[e] = "posted"
    /\ \/ ingest[e].at = "ended" /\ ExchangeGoesTo(e, IF outcome[e] = "error" THEN "failed" ELSE "ended")
       \/ ExchangeGoesTo(e, "timedOut")
    /\ UNCHANGED <<bridgeConfig, tracked, ingest, outcome>> /\ AddonRests

\* Another client posts an event.
OtherPosts(c) ==
    /\ c \in Ingest /\ ingest[c].at = "none"
    /\ \E persist \in BOOLEAN :
           ingest' = [ingest EXCEPT ![c] = [NotIngesting EXCEPT !.at = "received", !.persist = persist]]
    /\ UNCHANGED <<bridgeConfig, tracked, exchange, outcome>> /\ AddonRests

-----------------------------------------------------------------------------
\* Whether a service will do for a request that is about to use it.
Suffices_Mut(found, persist) == found # NoService
Suffices(found, persist) == found # NoService /\ (persist => found.sink)

\* ingest: a record of what matches goes into the file, if there is a sink and it is asked for.
\* The append may throw, and the route answers with an error.
Ingests(c, using) ==
    /\ ingest' = [ingest EXCEPT ![c].at = "ended"]
    /\ LET appends == ingest[c].persist /\ using.sink /\ c \in using.matches
       IN  \/ /\ jsonl' = IF appends THEN Append(jsonl, c) ELSE jsonl
              /\ outcome' = [outcome EXCEPT ![c] = IF appends THEN "persisted"
                                                   ELSE IF ingest[c].persist /\ ~using.sink THEN "noSink"
                                                   ELSE IF ingest[c].persist THEN "noTarget" ELSE "notAsked"]
           \/ appends /\ UNCHANGED jsonl /\ outcome' = [outcome EXCEPT ![c] = "error"]

\* The route of ingest, up to its await: a sink is made for a request that persists, and a
\* service that will do is used at once.
IngestStarts(c) ==
    /\ ingest[c].at = "received"
    /\ sinkExists' = (sinkExists \/ ingest[c].persist)
    /\ IF Suffices(ingestService, ingest[c].persist)
       THEN Ingests(c, ingestService)
       ELSE ingest' = [ingest EXCEPT ![c].at = "loading"] /\ UNCHANGED <<jsonl, outcome>>
    /\ UNCHANGED <<bridgeConfig, tracked, exchange, targetsFile, ingestService, addonRestarts, everTargets>>

\* loadExportTargetsConfig reads the file, which a moment later may say something else; the
\* file may be unreadable while it is written, and the request fails.
TargetsAreRead(c) ==
    /\ ingest[c].at = "loading"
    /\ \/ /\ ingest' = [ingest EXCEPT ![c].at = "loaded", ![c].targets = targetsFile]
          /\ UNCHANGED outcome
       \/ /\ ingest' = [ingest EXCEPT ![c].at = "ended"]
          /\ outcome' = [outcome EXCEPT ![c] = "error"]
    /\ UNCHANGED <<bridgeConfig, tracked, exchange>> /\ AddonRests

\* The rest of the route, without an await: a new service takes the place of any other, with
\* the sink that there is by now.
IngestResumes(c) ==
    /\ ingest[c].at = "loaded"
    /\ ingestService' = [matches |-> ingest[c].targets, sink |-> sinkExists]
    /\ Ingests(c, ingestService')
    /\ UNCHANGED <<bridgeConfig, tracked, exchange, targetsFile, sinkExists, addonRestarts, everTargets>>

\* The routes of the status and of connection health make a sink too, and no service.
OutputStatus ==
    /\ ~sinkExists /\ sinkExists' = TRUE
    /\ UNCHANGED <<bridgeConfig, tracked, exchange, targetsFile, ingestService, ingest, outcome, jsonl, addonRestarts,
                   everTargets>>

\* Somebody edits the targets.
TargetsAreEdited ==
    /\ \E matches \in {{}, Ingestion} : targetsFile' = matches /\ everTargets' = everTargets \cup matches
    /\ UNCHANGED <<bridgeConfig, tracked, exchange, sinkExists, ingestService, ingest, outcome, jsonl, addonRestarts>>

\* The add-on restarts: what it was doing is lost, and its file stays.
AddonStartsAgain ==
    /\ addonRestarts < AddonRestarts /\ addonRestarts' = addonRestarts + 1
    /\ sinkExists' = FALSE /\ ingestService' = NoService
    /\ LET lost == {c \in Ingestion : ingest[c].at \in {"received", "loading", "loaded"}}
       IN  /\ ingest' = [c \in Ingestion |-> IF c \in lost THEN [ingest[c] EXCEPT !.at = "ended"] ELSE ingest[c]]
           /\ outcome' = [c \in Ingestion |-> IF c \in lost THEN "error" ELSE outcome[c]]
    /\ UNCHANGED <<bridgeConfig, tracked, exchange, targetsFile, jsonl, everTargets>>

ExportNext ==
    \/ \E e \in Exchange :
           \/ TrackRequest(e) \/ ExchangeAborts(e) \/ TrackResponse(e) \/ PostEvent(e) \/ PostEnds(e)
    \/ \E c \in Ingestion : OtherPosts(c) \/ IngestStarts(c) \/ TargetsAreRead(c) \/ IngestResumes(c)
    \/ OutputStatus \/ TargetsAreEdited \/ AddonStartsAgain

-----------------------------------------------------------------------------
\* What is exported is what was asked for, once: the file has one record of an event that was
\* to be persisted, and only if targets that the file once had match it; what the add-on has
\* said it persisted is there, also after a restart; and no request that persists ends without
\* a sink because another one, which does not, made the service (server.ts:404-413,
\* export-ingest-service.ts:95-123, live-export-addon-bridge.ts:137-190).
ExportIsExact ==
    /\ Len(jsonl) = Cardinality(Recorded)
    /\ \A c \in Ingestion :
        /\ c \in Recorded <=> outcome[c] = "persisted"
        /\ c \in Recorded => ingest[c].persist /\ c \in everTargets
        /\ outcome[c] # "noSink"

\* What a reader might expect, and does not hold: the bridge keeps only requests that can
\* still get a response.
TrackedCanBeAnswered == \A e \in tracked : exchange[e] = "requested"
=============================================================================
