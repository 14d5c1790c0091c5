------------------------- MODULE AndroidStartProofs -------------------------
(***************************************************************************)
(* Theorems about AndroidStart, for every set of attempts, calls and ports *)
(* and every number of sessions.                                           *)
(***************************************************************************)
EXTENDS AndroidStart, TLAPS

LEMMA AnyPortType == AnyPort \in Port
  BY ConstantAssumption DEF AnyPort

LEMMA TypeInit == Init => TypeOK
<1> SUFFICES ASSUME Init PROVE TypeOK
  OBVIOUS
<1>1. AnyPort \in Port /\ MaxSessions \in Nat
  BY AnyPortType, ConstantAssumption
<1>2. /\ server \in [Port -> Session \cup {NoSession}]
      /\ registry \in [Port -> Session \cup {NoSession}]
      /\ created \in 0..MaxSessions
      /\ latest \in Session \cup {NoSession}
  BY <1>1 DEF Init, Session
<1>3. /\ portOf \in [Session -> Port]
      /\ owner \in [Session -> {"nobody", "bridge", "lab", "other"}]
      /\ rules \in [Session -> 0..Rules]
  BY <1>1 DEF Init, Rules
<1>4. bridge \in [Attempt -> BridgeRecord]
  BY DEF Init, BridgeRecord, BridgePhase, Rules
<1>5. lab \in [Caller -> LabRecord]
  BY <1>1 DEF Init, LabRecord, LabPhase
<1> QED
  BY <1>2, <1>3, <1>4, <1>5 DEF Init, TypeOK, AdminTypeOK, BridgeTypeOK, LabTypeOK, LabRecord, BridgeRecord

\* A start gives the port to a new session.
LEMMA LaunchType ==
    ASSUME TypeOK, NEW p \in Port, NEW who \in {"bridge", "lab", "other"}, Launch(p, who)
    PROVE  /\ created + 1 \in Session
           /\ server' \in [Port -> Session \cup {NoSession}]
           /\ created' \in 0..MaxSessions
           /\ portOf' \in [Session -> Port]
           /\ owner' \in [Session -> {"nobody", "bridge", "lab", "other"}]
           /\ UNCHANGED <<ended, rules>>
<1>1. created + 1 \in Session /\ created + 1 \in 0..MaxSessions
  BY ConstantAssumption DEF TypeOK, AdminTypeOK, BridgeTypeOK, LabTypeOK, Launch, Session
<1> QED
  BY <1>1 DEF TypeOK, AdminTypeOK, BridgeTypeOK, LabTypeOK, Launch

\* What the ends of a call do to its record.
LEMMA EndType ==
    ASSUME TypeOK, NEW c \in Caller
    PROVE  /\ Finish(c) => lab' \in [Caller -> LabRecord]
           /\ \A success \in BOOLEAN : c \in Attempt /\ Record(c, success) =>
                 /\ lab' \in [Caller -> LabRecord]
                 /\ lastFailure' \in Attempt \cup {None}
                 /\ lastFailed' \in Attempt \cup {None}
           /\ Reject(c) =>
                 /\ lab' \in [Caller -> LabRecord]
                 /\ lastFailure' \in Attempt \cup {None}
                 /\ lastFailed' \in Attempt \cup {None}
<1>1. Finish(c) => lab' \in [Caller -> LabRecord]
  BY DEF Finish, TypeOK, AdminTypeOK, BridgeTypeOK, LabTypeOK, LabRecord, LabPhase
<1> QED
  BY <1>1 DEF Record, Reject, TypeOK, AdminTypeOK, BridgeTypeOK, LabTypeOK

LEMMA OverlapType ==
    ASSUME TypeOK, NEW c \in Caller, NoteOverlap(c)
    PROVE  overlap' \in BOOLEAN
<1> DEFINE another == \E d \in Caller \ {c} : lab[d].at \in AtSession
<1>1. overlap' = (overlap \/ another)
  BY DEF NoteOverlap
<1> HIDE DEF another
<1> QED
  BY <1>1

LEMMA StartType ==
    ASSUME TypeOK, NEW c \in Caller, NEW control \in BOOLEAN, StartSessionIfNeeded(c, control)
    PROVE  lab' \in [Caller -> LabRecord] /\ overlap' \in BOOLEAN
<1>1. CASE latest # NoSession
  BY <1>1, EndType DEF StartSessionIfNeeded, TypeOK, AdminTypeOK, BridgeTypeOK, LabTypeOK, LabRecord, LabPhase
<1>2. CASE latest = NoSession
  <2>1. lab' = [lab EXCEPT ![c].at = "starting", ![c].control = control] /\ NoteOverlap(c)
    BY <1>2 DEF StartSessionIfNeeded
  <2>2. lab' \in [Caller -> LabRecord]
    BY <2>1 DEF TypeOK, LabTypeOK, LabRecord, LabPhase
  <2> QED
    BY <2>1, <2>2, OverlapType
<1> QED
  BY <1>1, <1>2

LEMMA SessionUpdateType ==
    ASSUME LabTypeOK, NEW c \in Caller, NEW phase \in LabPhase, NEW s \in Session
    PROVE  [lab EXCEPT ![c].at = phase, ![c].session = s] \in [Caller -> LabRecord]
  BY DEF LabTypeOK, LabRecord

LEMMA RuleUpdateType ==
    ASSUME BridgeTypeOK, NEW a \in Attempt, NEW phase \in BridgePhase, NEW n \in 0..Rules
    PROVE  [bridge EXCEPT ![a].added = n, ![a].at = phase] \in [Attempt -> BridgeRecord]
<1> DEFINE Count == 0..Rules
<1> HIDE DEF Count
<1>1. n \in Count /\ bridge \in [Attempt -> [at : BridgePhase, added : Count,
                                     session : Session \cup {NoSession}]]
  BY DEF Count, BridgeTypeOK, BridgeRecord
<1>2. [bridge EXCEPT ![a].added = n, ![a].at = phase]
        \in [Attempt -> [at : BridgePhase, added : Count, session : Session \cup {NoSession}]]
  BY <1>1
<1> QED
  BY <1>2 DEF Count, BridgeRecord

LEMMA TypeStep == TypeOK /\ RulesInv /\ [Next]_vars => TypeOK'
<1> SUFFICES ASSUME TypeOK, RulesInv, [Next]_vars PROVE TypeOK'
  OBVIOUS
<1> USE DEF TypeOK
<1>a. UNCHANGED adminVars => AdminTypeOK'
  BY DEF adminVars, AdminTypeOK
<1>b. UNCHANGED <<registry, bridge>> => BridgeTypeOK'
  BY DEF BridgeTypeOK
<1>c. UNCHANGED <<lab, latest, lastFailure, lastFailed, overlap>> => LabTypeOK'
  BY DEF LabTypeOK
<1>d. \A a \in Attempt : \A p \in BridgePhase : BridgeTo(a, p) => bridge' \in [Attempt -> BridgeRecord]
  BY DEF BridgeTypeOK, BridgeTo, BridgeRecord
<1>e. \A a \in Attempt : \A p \in BridgePhase : BridgeEnd(a, p) => bridge' \in [Attempt -> BridgeRecord]
  BY DEF BridgeTypeOK, BridgeEnd, BridgeRecord, Rules
<1>f. \A a \in Attempt : \A s \in Session \cup {NoSession} :
        ApplyRules(a, s) => bridge' \in [Attempt -> BridgeRecord]
  BY DEF BridgeTypeOK, ApplyRules, BridgeRecord, BridgePhase, Rules
<1>g. \A a \in Attempt : a \in Caller /\ lab[a].port \in Port
  BY DEF LabTypeOK, Caller, LabRecord
<1>p. BridgePhase = {"off", "metadata", "config", "starting", "started", "reread",
                     "rules", "activating", "refused", "error", "ok"}
  BY DEF BridgePhase
<1>1. ASSUME NEW p \in Port, OtherStarts(p) PROVE TypeOK'
  <2>1. AdminTypeOK'
    BY <1>1, LaunchType DEF OtherStarts, AdminTypeOK
  <2> QED
    BY <1>1, <2>1, <1>b, <1>c DEF OtherStarts
<1>2. ASSUME NEW p \in Port, SessionEnds(p) PROVE TypeOK'
  <2>1. AdminTypeOK'
    BY <1>2 DEF SessionEnds, AdminTypeOK
  <2> QED
    BY <1>2, <2>1, <1>b, <1>c DEF SessionEnds
<1>3. ASSUME NEW a \in Attempt, BridgeStep(a) PROVE TypeOK'
  <2>1. ASSUME NEW l \in BOOLEAN, BridgeMetadata(a, l) PROVE TypeOK'
    BY <2>1, <1>a, <1>c, <1>d, <1>e, <1>p DEF BridgeMetadata, BridgeTypeOK
  <2>2. ASSUME ConfigRead(a) PROVE TypeOK'
    <3>1. registry[lab[a].port] \in Session \cup {NoSession}
      BY <1>g DEF BridgeTypeOK
    <3> QED
      BY <2>2, <3>1, <1>a, <1>c, <1>d, <1>f, <1>p DEF ConfigRead, BridgeTypeOK
  <2>3. ASSUME AdminStartsForBridge(a) PROVE TypeOK'
    <3>1. CASE Launch(lab[a].port, "bridge")
               /\ bridge' = [bridge EXCEPT ![a].at = "started", ![a].session = created + 1]
      <4>1. AdminTypeOK' /\ created + 1 \in Session
        BY <3>1, <1>g, LaunchType DEF AdminTypeOK
      <4>2. bridge' \in [Attempt -> BridgeRecord]
        BY <3>1, <4>1, <1>p, ZenonT(40) DEF BridgeTypeOK, BridgeRecord
      <4> QED
        BY <2>3, <4>1, <4>2, <1>c DEF AdminStartsForBridge, BridgeTypeOK
    <3>2. CASE BridgeTo(a, "started") /\ UNCHANGED adminVars
      BY <2>3, <3>2, <1>a, <1>c, <1>d, <1>p DEF AdminStartsForBridge, BridgeTypeOK
    <3> QED
      BY <2>3, <3>1, <3>2 DEF AdminStartsForBridge
  <2>4. ASSUME BridgeStarted(a) PROVE TypeOK'
    <3>1. registry[lab[a].port] \in Session \cup {NoSession}
      BY <1>g DEF BridgeTypeOK
    <3> QED
      BY <2>4, <3>1, <1>a, <1>c, <1>d, <1>e, <1>f, <1>p DEF BridgeStarted, BridgeTypeOK
  <2>5. ASSUME ConfigReread(a) PROVE TypeOK'
    <3>1. bridge[a].session \in Session \cup {NoSession}
      BY DEF BridgeTypeOK, BridgeRecord
    <3>2. BridgeTypeOK'
      BY <2>5, <3>1, <1>f, <1>g DEF ConfigReread, BridgeTypeOK
    <3> QED
      BY <2>5, <3>2, <1>a, <1>c DEF ConfigReread
  <2>6. ASSUME AddRule(a) PROVE TypeOK'
    <3> DEFINE s == bridge[a].session
    <3> DEFINE n == bridge[a].added + 1
    <3>1. s \in Session \cup {NoSession} /\ bridge[a].added \in 0..Rules
      BY DEF BridgeTypeOK, BridgeRecord
    <3>2. CASE Runs(s)
      <4>1. /\ s \in Session
            /\ n \in 0..Rules
        BY <2>6, <3>1, <3>2 DEF AddRule, RulesInv, Runs, Rules
      <4>2. /\ rules' = [rules EXCEPT ![s] = IF @ < n THEN n ELSE @]
            /\ bridge' = [bridge EXCEPT ![a].added = n,
                                 ![a].at = IF n = Rules THEN "activating" ELSE "rules"]
            /\ UNCHANGED <<server, created, portOf, owner, ended, registry>>
            /\ UNCHANGED <<lab, latest, lastFailure, lastFailed, overlap>>
        BY <2>6, <3>2 DEF AddRule
      <4> HIDE DEF s, n
      <4>3. AdminTypeOK'
        BY <4>1, <4>2 DEF AdminTypeOK
      <4>4. BridgeTypeOK'
        <5> DEFINE phase == IF n = Rules THEN "activating" ELSE "rules"
        <5>1. phase \in BridgePhase
          BY <1>p
        <5>2. bridge' = [bridge EXCEPT ![a].added = n, ![a].at = phase]
          BY <4>2
        <5> HIDE DEF phase
        <5>3. bridge' \in [Attempt -> BridgeRecord]
          BY <4>1, <5>1, <5>2, RuleUpdateType, Zenon
        <5> QED
          BY <4>2, <5>3 DEF BridgeTypeOK
      <4> QED
        BY <4>2, <4>3, <4>4, <1>c
    <3>3. CASE ~Runs(s)
      <4>1. rules' = rules /\ BridgeEnd(a, "error")
        BY <2>6, <3>3 DEF AddRule
      <4>2. AdminTypeOK'
        BY <2>6, <4>1 DEF AddRule, AdminTypeOK
      <4> QED
        BY <2>6, <4>1, <4>2, <1>c, <1>e, <1>p DEF AddRule, BridgeTypeOK
    <3> QED
      BY <3>2, <3>3
  <2>7. ASSUME NEW b \in BOOLEAN, BridgeActivated(a, b) PROVE TypeOK'
    BY <2>7, <1>a, <1>c, <1>e, <1>p DEF BridgeActivated, BridgeTypeOK
  <2> QED
    BY <1>3, <2>1, <2>2, <2>3, <2>4, <2>5, <2>6, <2>7 DEF BridgeStep
<1>4. ASSUME NEW a \in Attempt, NEW p \in Port, NEW device \in BOOLEAN,
             StartHeadless(a, p, device)
      PROVE  TypeOK'
  <2>1. LabTypeOK'
    <3>1. CASE device
      BY <1>4, <3>1 DEF StartHeadless, LabTypeOK, LabRecord, LabPhase
    <3>2. CASE ~device
      BY <1>4, <3>2, <1>g, EndType DEF StartHeadless, LabTypeOK
    <3> QED
      BY <3>1, <3>2
  <2> QED
    BY <1>4, <2>1, <1>a, <1>b DEF StartHeadless
<1>5. ASSUME NEW a \in Attempt, AttemptStep(a) PROVE TypeOK'
  <2>1. ASSUME Polluted(a) PROVE TypeOK'
    <3>1. LabTypeOK'
      BY <2>1, <1>g, EndType DEF Polluted, LabTypeOK
    <3> QED
      BY <2>1, <3>1, <1>a, <1>b DEF Polluted
  <2>2. ASSUME AbortBridge(a) PROVE TypeOK'
    <3>1. LabTypeOK'
      BY <2>2, <1>g DEF AbortBridge, LabTypeOK, LabRecord, LabPhase
    <3> QED
      BY <2>2, <3>1, <1>a, <1>b DEF AbortBridge
  <2>3. ASSUME BridgeAnswers(a) PROVE TypeOK'
    <3>1. CASE StartSessionIfNeeded(a, FALSE)
      BY <2>3, <3>1, <1>a, <1>b, <1>g, StartType DEF BridgeAnswers, LabTypeOK
    <3>2. CASE lab' = [lab EXCEPT ![a].at = "polling", ![a].control = TRUE] /\ UNCHANGED overlap
      <4>1. lab' \in [Caller -> LabRecord]
        BY <3>2 DEF LabTypeOK, LabRecord, LabPhase
      <4> QED
        BY <2>3, <3>2, <4>1, <1>a, <1>b DEF BridgeAnswers, LabTypeOK
    <3>3. CASE lab' = [lab EXCEPT ![a].at = "adb"] /\ UNCHANGED overlap
      <4>1. lab' \in [Caller -> LabRecord]
        BY <3>3 DEF LabTypeOK, LabRecord, LabPhase
      <4> QED
        BY <2>3, <3>3, <4>1, <1>a, <1>b DEF BridgeAnswers, LabTypeOK
    <3> QED
      BY <2>3, <3>1, <3>2, <3>3 DEF BridgeAnswers
  <2>4. ASSUME NEW b \in BOOLEAN, AskBridge(a, b) PROVE TypeOK'
    <3>1. LabTypeOK'
      BY <2>4, <1>g DEF AskBridge, LabTypeOK, LabRecord, LabPhase
    <3>2. BridgeTypeOK'
      BY <2>4, <1>d, <1>p DEF AskBridge, BridgeTypeOK
    <3> QED
      BY <2>4, <3>1, <3>2, <1>a DEF AskBridge
  <2>5. ASSUME NEW b \in BOOLEAN, AdbActivated(a, b) PROVE TypeOK'
    BY <2>5, <1>a, <1>b, <1>g, StartType DEF AdbActivated, LabTypeOK
  <2>6. ASSUME NEW b \in BOOLEAN, PollEnds(a, b) PROVE TypeOK'
    <3>1. CASE Record(a, lab[a].control /\ b) /\ UNCHANGED overlap
      <4>1. (lab[a].control /\ b) \in BOOLEAN
        OBVIOUS
      <4>2. LabTypeOK'
        BY <2>6, <3>1, <4>1, <1>g, EndType DEF PollEnds, LabTypeOK
      <4> QED
        BY <2>6, <4>2, <1>a, <1>b DEF PollEnds
    <3>2. CASE /\ lab' = [lab EXCEPT ![a].at = "stopping", ![a].session = latest]
               /\ NoteOverlap(a)
               /\ UNCHANGED <<lastFailure, lastFailed>>
      <4>1. lab' \in [Caller -> LabRecord]
        BY <3>2 DEF LabTypeOK, LabRecord, LabPhase
      <4>2. LabTypeOK'
        BY <2>6, <3>2, <4>1, <1>g, OverlapType DEF PollEnds, LabTypeOK
      <4> QED
        BY <2>6, <4>2, <1>a, <1>b DEF PollEnds
    <3> QED
      BY <2>6, <3>1, <3>2 DEF PollEnds
  <2> QED
    BY <1>5, <2>1, <2>2, <2>3, <2>4, <2>5, <2>6 DEF AttemptStep
<1>6. ASSUME NEW c \in Caller, SessionStep(c) PROVE TypeOK'
  <2>1. ASSUME AdminStarts(c) PROVE TypeOK'
    <3>1. PICK p \in Port :
            \/ /\ Launch(p, "lab")
               /\ lab' = [lab EXCEPT ![c].at = "started", ![c].session = created + 1]
            \/ /\ lab' = [lab EXCEPT ![c].at = "started"]
               /\ UNCHANGED adminVars
      BY <2>1 DEF AdminStarts, LabTypeOK, LabRecord
    <3>2. AdminTypeOK' /\ lab' \in [Caller -> LabRecord]
      <4>1. CASE /\ Launch(p, "lab")
                 /\ lab' = [lab EXCEPT ![c].at = "started", ![c].session = created + 1]
        <5>1. AdminTypeOK' /\ created + 1 \in Session
          BY <4>1, LaunchType DEF AdminTypeOK
        <5> QED
          BY <4>1, <5>1, SessionUpdateType DEF LabPhase
      <4>2. CASE lab' = [lab EXCEPT ![c].at = "started"] /\ UNCHANGED adminVars
        BY <4>2, <1>a DEF LabTypeOK, LabRecord, LabPhase
      <4> QED
        BY <3>1, <4>1, <4>2
    <3> QED
      BY <2>1, <3>2, <1>b DEF AdminStarts, LabTypeOK
  <2>2. ASSUME SessionStarted(c) PROVE TypeOK'
    <3>1. LabTypeOK'
      BY <2>2, EndType DEF SessionStarted, LabTypeOK, LabRecord, LabPhase
    <3> QED
      BY <2>2, <3>1, <1>a, <1>b DEF SessionStarted
  <2>3. ASSUME SessionStopped(c) PROVE TypeOK'
    <3>1. EndStop(c) => /\ lab' \in [Caller -> LabRecord]
                        /\ lastFailure' \in Attempt \cup {None}
                        /\ lastFailed' \in Attempt \cup {None}
      BY EndType DEF EndStop, LabTypeOK
    <3>2. latest' \in Session \cup {NoSession}
      BY <2>3 DEF SessionStopped, LabTypeOK
    <3> QED
      BY <2>3, <3>1, <3>2, <1>a, <1>b DEF SessionStopped, LabTypeOK
  <2>4. ASSUME NEW ok \in BOOLEAN, AdminStops(c, ok) PROVE TypeOK'
    <3>1. AdminTypeOK'
      BY <2>4 DEF AdminStops, AdminTypeOK
    <3>2. LabTypeOK'
      BY <2>4, ZenonT(40) DEF AdminStops, LabTypeOK, LabRecord, LabPhase
    <3> QED
      BY <2>4, <3>1, <3>2, <1>b DEF AdminStops
  <2> QED
    BY <1>6, <2>1, <2>2, <2>3, <2>4 DEF SessionStep
<1>7. ASSUME NEW c \in Start, CallStart(c) PROVE TypeOK'
  <2>1. c \in Caller
    BY DEF Caller
  <2> QED
    BY <1>7, <2>1, <1>a, <1>b, StartType DEF CallStart, LabTypeOK
<1>8. ASSUME NEW c \in Stop, CallStop(c) PROVE TypeOK'
  <2>1. c \in Caller
    BY DEF Caller
  <2>2. \/ Finish(c) /\ UNCHANGED overlap
        \/ lab' = [lab EXCEPT ![c].at = "stopping", ![c].session = latest] /\ NoteOverlap(c)
    BY <1>8 DEF CallStop
  <2>3. lab' \in [Caller -> LabRecord] /\ overlap' \in BOOLEAN
    <3>1. CASE Finish(c) /\ UNCHANGED overlap
      BY <2>1, <3>1, EndType DEF LabTypeOK
    <3>2. CASE lab' = [lab EXCEPT ![c].at = "stopping", ![c].session = latest] /\ NoteOverlap(c)
      BY <2>1, <3>2, OverlapType, ZenonT(40) DEF LabTypeOK, LabRecord, LabPhase
    <3> QED
      BY <2>2, <3>1, <3>2
  <2> QED
    BY <1>8, <2>3, <1>a, <1>b DEF CallStop, LabTypeOK
<1>9. UNCHANGED vars => TypeOK'
  BY <1>a, <1>b, <1>c DEF vars, adminVars
<1> QED
  BY <1>1, <1>2, <1>3, <1>4, <1>5, <1>6, <1>7, <1>8, <1>9 DEF Next

-----------------------------------------------------------------------------
(* The sessions of the admin server. *)

AdminChange ==
    \/ UNCHANGED adminVars
    \/ \E p \in Port, who \in {"lab", "other"} : Launch(p, who)
    \/ \E a \in Attempt : AdminStartsForBridge(a)
    \/ \E p \in Port : SessionEnds(p)
    \/ \E c \in Caller, ok \in BOOLEAN : AdminStops(c, ok)
    \/ \E a \in Attempt : AddRule(a)

LEMMA AdminCases == TypeOK /\ [Next]_vars => AdminChange
<1> SUFFICES ASSUME TypeOK, [Next]_vars PROVE AdminChange
  OBVIOUS
<1>0. \A a \in Attempt : a \in Caller /\ lab[a].port \in Port
  BY DEF Caller, TypeOK, LabTypeOK, LabRecord
<1>1. ASSUME NEW p \in Port, OtherStarts(p) PROVE AdminChange
  BY <1>1 DEF OtherStarts, AdminChange
<1>2. ASSUME NEW p \in Port, SessionEnds(p) PROVE AdminChange
  BY <1>2 DEF AdminChange
<1>3. ASSUME NEW a \in Attempt, BridgeStep(a) PROVE AdminChange
  <2>1. AdminStartsForBridge(a) => AdminChange
    BY DEF AdminChange
  <2>2. AddRule(a) => AdminChange
    BY DEF AdminChange
  <2>3. (\E l \in BOOLEAN : BridgeMetadata(a, l)) \/ ConfigRead(a) \/ BridgeStarted(a)
          \/ ConfigReread(a) \/ (\E b \in BOOLEAN : BridgeActivated(a, b))
        => UNCHANGED adminVars
    BY DEF BridgeMetadata, ConfigRead, BridgeStarted, ConfigReread, BridgeActivated, adminVars
  <2> QED
    BY <1>3, <2>1, <2>2, <2>3 DEF BridgeStep, AdminChange
<1>4. ASSUME NEW a \in Attempt, AttemptStep(a) PROVE AdminChange
  <2>1. UNCHANGED adminVars
    BY <1>4 DEF AttemptStep, Polluted, AbortBridge, BridgeAnswers, AskBridge, AdbActivated,
                PollEnds, adminVars
  <2> QED
    BY <2>1 DEF AdminChange
<1>5. ASSUME NEW a \in Attempt, NEW p \in Port, NEW device \in BOOLEAN,
             StartHeadless(a, p, device)
      PROVE  AdminChange
  BY <1>5 DEF StartHeadless, AdminChange
<1>6. ASSUME NEW c \in Caller, SessionStep(c) PROVE AdminChange
  <2>1. AdminStarts(c) => AdminChange
    <3>1. \A p \in IF c \in Attempt THEN {lab[c].port} ELSE Port : p \in Port
      BY <1>0
    <3> QED
      BY <3>1 DEF AdminStarts, AdminChange
  <2>2. SessionStarted(c) \/ SessionStopped(c) => UNCHANGED adminVars
    BY DEF SessionStarted, SessionStopped, adminVars
  <2> QED
    BY <1>6, <2>1, <2>2 DEF SessionStep, AdminChange
<1>7. ASSUME NEW c \in Start, CallStart(c) PROVE AdminChange
  BY <1>7 DEF CallStart, AdminChange
<1>8. ASSUME NEW c \in Stop, CallStop(c) PROVE AdminChange
  BY <1>8 DEF CallStop, AdminChange
<1>9. UNCHANGED vars => AdminChange
  BY DEF AdminChange, vars, adminVars
<1> QED
  BY <1>1, <1>2, <1>3, <1>4, <1>5, <1>6, <1>7, <1>8, <1>9 DEF Next

\* A start changes nothing of the sessions there are.
LEMMA LaunchKeeps ==
    ASSUME TypeOK, SessionInv,
           NEW p \in Port, NEW who \in {"bridge", "lab", "other"}, Launch(p, who)
    PROVE  \E n \in Session :
              /\ n = created + 1
              /\ owner[n] = "nobody" /\ owner'[n] = who
              /\ portOf'[n] = p /\ Runs(n)'
              /\ \A s \in Session : s # n =>
                    /\ owner'[s] = owner[s] /\ portOf'[s] = portOf[s]
                    /\ Runs(s)' <=> Runs(s)
<1>0. PICK n \in Session : n = created + 1
  BY LaunchType
<1>1. /\ n \in Nat /\ n # NoSession /\ n > created /\ created \in Nat
      /\ \A s \in Session : s \in Nat
      /\ \A q \in Port : server[q] # n
  BY <1>0, ConstantAssumption DEF SessionInv, TypeOK, AdminTypeOK, Session, NoSession
<1>2. /\ server[p] = NoSession
      /\ server' = [server EXCEPT ![p] = n]
      /\ portOf' = [portOf EXCEPT ![n] = p]
      /\ owner' = [owner EXCEPT ![n] = who]
  BY <1>0 DEF Launch
<1>3. owner[n] = "nobody"
  BY <1>1 DEF SessionInv
<1>4. Runs(n)' /\ owner'[n] = who /\ portOf'[n] = p
  <2>1. server'[p] = n /\ owner'[n] = who /\ portOf'[n] = p
    BY <1>2 DEF TypeOK, AdminTypeOK
  <2> QED
    BY <1>1, <2>1 DEF Runs
<1>5. ASSUME NEW s \in Session, s # n
      PROVE  /\ owner'[s] = owner[s] /\ portOf'[s] = portOf[s]
             /\ Runs(s)' <=> Runs(s)
  BY <1>1, <1>2, <1>5 DEF Runs, TypeOK, AdminTypeOK
<1> QED
  BY <1>0, <1>3, <1>4, <1>5

\* Only the port of the session that is stopped is freed.
LEMMA StopKeeps ==
    ASSUME TypeOK, SessionInv, LabInv, NEW c \in Caller, NEW ok \in BOOLEAN, AdminStops(c, ok)
    PROVE  /\ owner[lab[c].session] = "lab"
           /\ \A s \in Session : s # lab[c].session => (Runs(s)' <=> Runs(s))
           /\ ~Runs(lab[c].session) => \A s \in Session : Runs(s)' <=> Runs(s)
           /\ Runs(lab[c].session) => ok
<1> DEFINE x == lab[c].session
<1>1. /\ x \in Session /\ owner[x] = "lab" /\ portOf' = portOf
      /\ IF Runs(x) THEN ok /\ server' = [server EXCEPT ![portOf[x]] = NoSession]
         ELSE UNCHANGED server
  BY DEF AdminStops, LabInv, TypeOK, LabTypeOK, LabRecord
<1> HIDE DEF x
<1>2. ASSUME NEW s \in Session, s # x, Runs(x) PROVE Runs(s)' <=> Runs(s)
  BY <1>1, <1>2 DEF Runs, SessionInv, TypeOK, AdminTypeOK
<1>3. ASSUME NEW s \in Session, ~Runs(x) PROVE Runs(s)' <=> Runs(s)
  BY <1>1, <1>3 DEF Runs
<1> QED
  BY <1>1, <1>2, <1>3 DEF x

\* What no step takes from a session.
Keeps ==
    /\ \A s \in Session : owner[s] # "nobody" =>
          owner'[s] = owner[s] /\ portOf'[s] = portOf[s]
    /\ ended \subseteq ended'
    /\ \A s \in Session : rules[s] <= rules'[s]

LEMMA SessionStepInv ==
    ASSUME TypeOK, SessionInv, LabInv, [Next]_vars
    PROVE  SessionInv' /\ Keeps
<1>0. AdminChange
  BY AdminCases
<1>r. \A s \in Session : rules[s] \in Nat
  BY DEF TypeOK, AdminTypeOK, Rules
<1>1. CASE UNCHANGED adminVars
  BY <1>1, <1>r DEF adminVars, SessionInv, Keeps, Runs
<1>2. ASSUME NEW p \in Port, NEW who \in {"bridge", "lab", "other"}, Launch(p, who)
      PROVE  SessionInv' /\ Keeps
  <2>1. PICK n \in Session :
          /\ n = created + 1
          /\ owner[n] = "nobody" /\ owner'[n] = who
          /\ portOf'[n] = p /\ Runs(n)'
          /\ \A s \in Session : s # n =>
                /\ owner'[s] = owner[s] /\ portOf'[s] = portOf[s]
                /\ Runs(s)' <=> Runs(s)
    BY <1>2, LaunchKeeps
  <2>2. /\ created' = n /\ n = created + 1
        /\ created \in Nat /\ \A s \in Session : s \in Nat
        /\ server' = [server EXCEPT ![p] = n]
        /\ UNCHANGED <<ended, rules>>
    BY <1>2, <2>1, ConstantAssumption DEF Launch, TypeOK, AdminTypeOK, Session
  <2>3. Keeps
    <3>1. \A s \in Session : owner[s] # "nobody" => s # n
      BY <2>1
    <3>2. \A s \in Session : s # n => owner'[s] = owner[s] /\ portOf'[s] = portOf[s]
      BY <2>1
    <3>3. \A s \in Session : owner[s] # "nobody" =>
            owner'[s] = owner[s] /\ portOf'[s] = portOf[s]
      BY <3>1, <3>2
    <3>4. UNCHANGED <<ended, rules>>
      BY <2>2
    <3>5. \A s \in Session : rules[s] <= rules'[s]
      BY <3>4, <1>r
    <3> QED
      BY <3>3, <3>4, <3>5 DEF Keeps
  <2>4. ASSUME NEW q \in Port, server'[q] # NoSession
        PROVE  server'[q] <= created' /\ portOf'[server'[q]] = q
    <3>1. CASE q = p
      BY <2>2, <2>1, <3>1 DEF TypeOK, AdminTypeOK
    <3>2. CASE q # p
      <4>1. server'[q] = server[q] /\ server[q] \in Session /\ server[q] <= created
        BY <2>2, <2>4, <3>2 DEF SessionInv, TypeOK, AdminTypeOK
      <4>2. server[q] # NoSession /\ portOf[server[q]] = q
        BY <2>4, <4>1 DEF SessionInv
      <4>3. server[q] \in Nat /\ server[q] # n /\ server[q] <= n
        <5>1. server[q] \in Nat
          BY <2>2, <4>1
        <5>2. n = created + 1 /\ created \in Nat /\ server[q] <= created
          BY <2>2, <4>1
        <5> QED
          BY <5>1, <5>2
      <4>4. portOf'[server[q]] = portOf[server[q]]
        BY <2>1, <4>1, <4>3
      <4> QED
        BY <2>2, <4>1, <4>2, <4>3, <4>4
    <3> QED
      BY <3>1, <3>2
  <2>5. \A s \in Session : owner'[s] = "nobody" <=> s > created'
    <3> SUFFICES ASSUME NEW s \in Session PROVE owner'[s] = "nobody" <=> s > created'
      OBVIOUS
    <3>1. CASE s = n
      BY <2>2, <2>1, <3>1
    <3>2. CASE s # n
      BY <2>2, <2>1, <3>2 DEF SessionInv
    <3> QED
      BY <3>1, <3>2
  <2>6. \A s \in Session : owner'[s] = "bridge" => Runs(s)' \/ s \in ended'
    BY <2>2, <2>1 DEF SessionInv
  <2> QED
    BY <2>3, <2>4, <2>5, <2>6 DEF SessionInv
<1>3. ASSUME NEW p \in Port, SessionEnds(p) PROVE SessionInv' /\ Keeps
  BY <1>3, <1>r DEF SessionEnds, SessionInv, Keeps, Runs, TypeOK, AdminTypeOK
<1>4. ASSUME NEW c \in Caller, NEW ok \in BOOLEAN, AdminStops(c, ok)
      PROVE  SessionInv' /\ Keeps
  <2>1. UNCHANGED <<created, portOf, owner, ended, rules>>
    BY <1>4 DEF AdminStops
  <2>2. Keeps
    BY <2>1, <1>r DEF Keeps
  <2>3. \A q \in Port : server'[q] \in {server[q], NoSession}
    BY <1>4 DEF AdminStops, TypeOK, AdminTypeOK
  <2>4. \A s \in Session : owner[s] = "bridge" => (Runs(s)' <=> Runs(s))
    BY <1>4, StopKeeps
  <2> QED
    BY <2>1, <2>2, <2>3, <2>4 DEF SessionInv
<1>5. ASSUME NEW a \in Attempt, AddRule(a) PROVE SessionInv' /\ Keeps
  <2>1. UNCHANGED <<server, created, portOf, owner, ended>>
    BY <1>5 DEF AddRule
  <2>2. \A s \in Session : rules[s] <= rules'[s]
    <3>1. CASE Runs(bridge[a].session)
      <4> DEFINE n == bridge[a].added + 1
      <4>1. rules' = [rules EXCEPT ![bridge[a].session] = IF @ < n THEN n ELSE @]
        BY <1>5, <3>1 DEF AddRule
      <4>2. n \in Nat
        BY DEF TypeOK, BridgeTypeOK, BridgeRecord, Rules
      <4> HIDE DEF n
      <4> QED
        BY <4>1, <4>2, <1>r DEF TypeOK, AdminTypeOK
    <3>2. CASE ~Runs(bridge[a].session)
      BY <1>5, <3>2, <1>r DEF AddRule
    <3> QED
      BY <3>1, <3>2
  <2> QED
    BY <2>1, <2>2 DEF SessionInv, Keeps, Runs
<1>6. ASSUME NEW a \in Attempt, AdminStartsForBridge(a) PROVE SessionInv' /\ Keeps
  <2>1. lab[a].port \in Port
    BY DEF Caller, TypeOK, LabTypeOK, LabRecord
  <2> QED
    BY <1>6, <2>1, <1>1, <1>2 DEF AdminStartsForBridge
<1> QED
  BY <1>0, <1>1, <1>2, <1>3, <1>4, <1>5, <1>6 DEF AdminChange

-----------------------------------------------------------------------------
(* The bridge. *)

\* What the operators that write a handler's record do to it.
LEMMA BridgeMoves ==
    ASSUME BridgeTypeOK, NEW a \in Attempt
    PROVE  /\ \A phase : BridgeTo(a, phase) =>
                 /\ bridge'[a].at = phase
                 /\ bridge'[a].session = bridge[a].session
                 /\ bridge'[a].added = bridge[a].added
                 /\ \A b \in Attempt : b # a => bridge'[b] = bridge[b]
           /\ \A phase : BridgeEnd(a, phase) =>
                 /\ bridge'[a].at = phase /\ bridge'[a].session = NoSession
                 /\ \A b \in Attempt : b # a => bridge'[b] = bridge[b]
           /\ \A s : ApplyRules(a, s) =>
                 /\ bridge'[a].at = "rules" /\ bridge'[a].session = s /\ bridge'[a].added = 0
                 /\ \A b \in Attempt : b # a => bridge'[b] = bridge[b]
<1>1. ASSUME NEW phase, BridgeTo(a, phase)
      PROVE  /\ bridge'[a].at = phase
             /\ bridge'[a].session = bridge[a].session
             /\ bridge'[a].added = bridge[a].added
             /\ \A b \in Attempt : b # a => bridge'[b] = bridge[b]
  BY <1>1 DEF BridgeTo, BridgeTypeOK, BridgeRecord
<1>2. ASSUME NEW phase, BridgeEnd(a, phase)
      PROVE  /\ bridge'[a].at = phase /\ bridge'[a].session = NoSession
             /\ \A b \in Attempt : b # a => bridge'[b] = bridge[b]
  BY <1>2 DEF BridgeEnd, BridgeTypeOK
<1>3. ASSUME NEW s, ApplyRules(a, s)
      PROVE  /\ bridge'[a].at = "rules" /\ bridge'[a].session = s /\ bridge'[a].added = 0
             /\ \A b \in Attempt : b # a => bridge'[b] = bridge[b]
  BY <1>3 DEF ApplyRules, BridgeTypeOK
<1> QED
  BY <1>1, <1>2, <1>3

\* What the bridge's handler knows of its attempt does not change.
LabKeeps ==
    \A b \in Attempt :
        /\ lab'[b].at \in {"new", "inspecting"} => lab[b].at \in {"new", "inspecting"}
        /\ lab'[b].port = lab[b].port \/ lab[b].at = "new"

LEMMA EndKeeps ==
    ASSUME LabTypeOK, NEW c \in Caller, Finish(c)
    PROVE  LabKeeps
  BY DEF Finish, LabTypeOK, LabRecord, LabKeeps, Caller

LEMMA StartKeeps ==
    ASSUME LabTypeOK, NEW c \in Caller, NEW control \in BOOLEAN, StartSessionIfNeeded(c, control)
    PROVE  LabKeeps
<1>1. CASE Finish(c)
  BY <1>1, EndKeeps
<1>2. CASE lab' = [lab EXCEPT ![c].at = "polling", ![c].session = latest, ![c].control = control]
  BY <1>2 DEF LabTypeOK, LabRecord, LabKeeps, Caller
<1>3. CASE lab' = [lab EXCEPT ![c].at = "starting", ![c].control = control]
  BY <1>3 DEF LabTypeOK, LabRecord, LabKeeps, Caller
<1> QED
  BY <1>1, <1>2, <1>3 DEF StartSessionIfNeeded

BridgeChange ==
    \/ UNCHANGED <<bridge, registry>> /\ LabKeeps
    \/ \E a \in Attempt : BridgeStep(a)
    \/ \E a \in Attempt, b \in BOOLEAN : AskBridge(a, b)

LEMMA BridgeCases == TypeOK /\ [Next]_vars => BridgeChange
<1> SUFFICES ASSUME TypeOK, [Next]_vars PROVE BridgeChange
  OBVIOUS
<1> USE DEF TypeOK
<1>0. Attempt \subseteq Caller /\ Start \subseteq Caller /\ Stop \subseteq Caller
  BY DEF Caller
<1>u. UNCHANGED lab => LabKeeps
  BY DEF LabKeeps
<1>1. ASSUME NEW p \in Port, OtherStarts(p) \/ SessionEnds(p) PROVE BridgeChange
  BY <1>1, <1>u DEF OtherStarts, SessionEnds, BridgeChange
<1>2. ASSUME NEW a \in Attempt, BridgeStep(a) PROVE BridgeChange
  BY <1>2 DEF BridgeChange
<1>3. ASSUME NEW a \in Attempt, NEW p \in Port, NEW device \in BOOLEAN,
             StartHeadless(a, p, device)
      PROVE  BridgeChange
  <2>1. CASE device
    <3>1. LabKeeps
      BY <1>3, <2>1, <1>0 DEF StartHeadless, LabTypeOK, LabRecord, LabKeeps
    <3> QED
      BY <1>3, <3>1 DEF StartHeadless, BridgeChange
  <2>2. CASE ~device
    BY <1>3, <2>2, <1>0, EndKeeps DEF StartHeadless, Record, BridgeChange
  <2> QED
    BY <2>1, <2>2
<1>4. ASSUME NEW a \in Attempt, AttemptStep(a) PROVE BridgeChange
  <2>0. a \in Caller
    BY <1>0
  <2>1. Polluted(a) => BridgeChange
    BY <2>0, EndKeeps DEF Polluted, Record, BridgeChange
  <2>2. ASSUME AbortBridge(a) PROVE BridgeChange
    <3>1. LabKeeps
      BY <2>2, <2>0 DEF AbortBridge, LabTypeOK, LabRecord, LabKeeps, Caller
    <3> QED
      BY <2>2, <3>1 DEF AbortBridge, BridgeChange
  <2>3. ASSUME BridgeAnswers(a) PROVE BridgeChange
    <3>1. CASE StartSessionIfNeeded(a, FALSE)
      BY <2>3, <3>1, <2>0, StartKeeps DEF BridgeAnswers, BridgeChange
    <3>2. CASE lab' = [lab EXCEPT ![a].at = "polling", ![a].control = TRUE]
      <4>1. LabKeeps
        BY <3>2, <2>0 DEF LabTypeOK, LabRecord, LabKeeps, Caller
      <4> QED
        BY <2>3, <4>1 DEF BridgeAnswers, BridgeChange
    <3>3. CASE lab' = [lab EXCEPT ![a].at = "adb"]
      <4>1. LabKeeps
        BY <3>3, <2>0 DEF LabTypeOK, LabRecord, LabKeeps, Caller
      <4> QED
        BY <2>3, <4>1 DEF BridgeAnswers, BridgeChange
    <3> QED
      BY <2>3, <3>1, <3>2, <3>3 DEF BridgeAnswers
  <2>4. ASSUME NEW b \in BOOLEAN, AskBridge(a, b) PROVE BridgeChange
    BY <2>4 DEF BridgeChange
  <2>5. ASSUME NEW b \in BOOLEAN, AdbActivated(a, b) PROVE BridgeChange
    BY <2>5, <2>0, StartKeeps DEF AdbActivated, BridgeChange
  <2>6. ASSUME NEW b \in BOOLEAN, PollEnds(a, b) PROVE BridgeChange
    <3>1. CASE Finish(a)
      BY <2>6, <3>1, <2>0, EndKeeps DEF PollEnds, BridgeChange
    <3>2. CASE lab' = [lab EXCEPT ![a].at = "stopping", ![a].session = latest]
      <4>1. LabKeeps
        BY <3>2, <2>0 DEF LabTypeOK, LabRecord, LabKeeps, Caller
      <4> QED
        BY <2>6, <4>1 DEF PollEnds, BridgeChange
    <3> QED
      BY <2>6, <3>1, <3>2 DEF PollEnds, Record
  <2> QED
    BY <1>4, <2>1, <2>2, <2>3, <2>4, <2>5, <2>6 DEF AttemptStep
<1>5. ASSUME NEW c \in Caller, SessionStep(c) PROVE BridgeChange
  <2>1. ASSUME AdminStarts(c) PROVE BridgeChange
    <3>1. \/ lab' = [lab EXCEPT ![c].at = "started", ![c].session = created + 1]
          \/ lab' = [lab EXCEPT ![c].at = "started"]
      BY <2>1 DEF AdminStarts
    <3>2. LabKeeps
      BY <3>1 DEF LabTypeOK, LabRecord, LabKeeps, Caller
    <3> QED
      BY <2>1, <3>2 DEF AdminStarts, BridgeChange
  <2>2. ASSUME SessionStarted(c) PROVE BridgeChange
    <3>1. CASE Finish(c)
      BY <2>2, <3>1, EndKeeps DEF SessionStarted, BridgeChange
    <3>2. CASE lab' = [lab EXCEPT ![c].at = "polling"]
      <4>1. LabKeeps
        BY <3>2 DEF LabTypeOK, LabRecord, LabKeeps, Caller
      <4> QED
        BY <2>2, <4>1 DEF SessionStarted, BridgeChange
    <3> QED
      BY <2>2, <3>1, <3>2 DEF SessionStarted, Reject
  <2>3. ASSUME SessionStopped(c) PROVE BridgeChange
    <3>1. Finish(c)
      BY <2>3 DEF SessionStopped, EndStop, Record, Reject
    <3> QED
      BY <2>3, <3>1, EndKeeps DEF SessionStopped, BridgeChange
  <2>4. ASSUME NEW ok \in BOOLEAN, AdminStops(c, ok) PROVE BridgeChange
    <3>1. LabKeeps
      BY <2>4 DEF AdminStops, LabTypeOK, LabRecord, LabKeeps, Caller
    <3> QED
      BY <2>4, <3>1 DEF AdminStops, BridgeChange
  <2> QED
    BY <1>5, <2>1, <2>2, <2>3, <2>4 DEF SessionStep
<1>6. ASSUME NEW c \in Start, CallStart(c) PROVE BridgeChange
  BY <1>6, <1>0, StartKeeps DEF CallStart, BridgeChange
<1>7. ASSUME NEW c \in Stop, CallStop(c) PROVE BridgeChange
  <2>1. CASE Finish(c)
    BY <1>7, <2>1, <1>0, EndKeeps DEF CallStop, BridgeChange
  <2>2. CASE lab' = [lab EXCEPT ![c].at = "stopping", ![c].session = latest]
    <3>1. LabKeeps
      BY <2>2, <1>0 DEF LabTypeOK, LabRecord, LabKeeps, Caller
    <3> QED
      BY <1>7, <3>1 DEF CallStop, BridgeChange
  <2> QED
    BY <1>7, <2>1, <2>2 DEF CallStop
<1>8. UNCHANGED vars => BridgeChange
  BY <1>u DEF BridgeChange, vars
<1> QED
  BY <1>1, <1>2, <1>3, <1>4, <1>5, <1>6, <1>7, <1>8 DEF Next

\* A session that the bridge has keeps its owner and its port.
LEMMA HandleKeeps ==
    ASSUME AdminTypeOK, Keeps, NEW s \in Session, NEW p, owner[s] = "bridge", portOf[s] = p
    PROVE  owner'[s] = "bridge" /\ portOf'[s] = p
  BY DEF Keeps

LEMMA HandleStepInv ==
    ASSUME TypeOK, SessionInv, LabInv, HandleInv, RulesInv, [Next]_vars
    PROVE  HandleInv'
<1> USE DEF TypeOK
<1>k. Keeps
  BY SessionStepInv
<1>t. /\ \A b \in Attempt : bridge[b].session \in Session \cup {NoSession}
      /\ \A p \in Port : registry[p] \in Session \cup {NoSession}
      /\ \A b \in Attempt : b \in Caller /\ lab[b].port \in Port
  BY DEF BridgeTypeOK, BridgeRecord, LabTypeOK, LabRecord, Caller
\* Every registered handle, and every session in a handler's hands, is kept.
<1>r. \A p \in Port : registry[p] # NoSession =>
        owner'[registry[p]] = "bridge" /\ portOf'[registry[p]] = p
  BY <1>k, <1>t, HandleKeeps DEF HandleInv
<1>h. \A b \in Attempt : bridge[b].session # NoSession =>
        owner'[bridge[b].session] = "bridge" /\ portOf'[bridge[b].session] = lab[b].port
  BY <1>k, <1>t, HandleKeeps DEF HandleInv
<1>1. CASE UNCHANGED <<bridge, registry>> /\ LabKeeps
  <2>1. ASSUME NEW b \in Attempt, bridge[b].session # NoSession
        PROVE  lab'[b].port = lab[b].port
    BY <1>1, <2>1 DEF LabKeeps, HandleInv
  <2> QED
    BY <1>1, <1>r, <1>h, <2>1 DEF HandleInv, LabKeeps
<1>2. ASSUME NEW a \in Attempt, NEW ok \in BOOLEAN, AskBridge(a, ok) PROVE HandleInv'
  <2>1. /\ UNCHANGED registry
        /\ lab[a].at = "inspecting" /\ lab'[a].at \in {"activating", "adb"}
        /\ lab'[a].port = lab[a].port
        /\ \A b \in Attempt : b # a => lab'[b] = lab[b]
    BY <1>2, <1>t DEF AskBridge, LabTypeOK, LabRecord
  <2>2. /\ bridge'[a].session = NoSession
        /\ \A b \in Attempt : b # a => bridge'[b] = bridge[b]
    BY <1>2, <2>1, BridgeMoves DEF AskBridge, HandleInv
  <2> QED
    BY <2>1, <2>2, <1>r, <1>h DEF HandleInv
<1>3. ASSUME NEW a \in Attempt, BridgeStep(a) PROVE HandleInv'
  <2>1. UNCHANGED lab /\ bridge[a].at # "off"
    BY <1>3 DEF BridgeStep, BridgeMetadata, ConfigRead, AdminStartsForBridge, BridgeStarted,
                ConfigReread, AddRule, BridgeActivated
  <2>2. lab[a].at \notin {"new", "inspecting"}
    BY <2>1 DEF HandleInv
  \* It is enough that the new handle of a, and of its port, is right.
  <2>3. ASSUME \A b \in Attempt : b # a => bridge'[b] = bridge[b],
               bridge'[a].session # NoSession =>
                  /\ owner'[bridge'[a].session] = "bridge"
                  /\ portOf'[bridge'[a].session] = lab[a].port
                  /\ bridge'[a].at \notin {"off", "metadata", "config", "starting"},
               UNCHANGED registry
        PROVE  HandleInv'
    BY <2>1, <2>2, <2>3, <1>r, <1>h DEF HandleInv
  <2>4. ASSUME NEW l \in BOOLEAN, BridgeMetadata(a, l) PROVE HandleInv'
    <3>1. bridge'[a].session = NoSession /\ \A b \in Attempt : b # a => bridge'[b] = bridge[b]
      BY <2>4, BridgeMoves DEF BridgeMetadata, HandleInv
    <3> QED
      BY <2>3, <2>4, <3>1 DEF BridgeMetadata
  <2>5. ASSUME ConfigRead(a) PROVE HandleInv'
    <3>1. CASE registry[lab[a].port] # NoSession
      BY <2>3, <2>5, <3>1, <1>r, <1>t, BridgeMoves DEF ConfigRead
    <3>2. CASE registry[lab[a].port] = NoSession
      BY <2>3, <2>5, <3>2, BridgeMoves DEF ConfigRead, HandleInv
    <3> QED
      BY <3>1, <3>2
  <2>6. ASSUME AdminStartsForBridge(a) PROVE HandleInv'
    <3>1. CASE /\ Launch(lab[a].port, "bridge")
               /\ bridge' = [bridge EXCEPT ![a].at = "started", ![a].session = created + 1]
      <4>1. PICK n \in Session : n = created + 1 /\ owner'[n] = "bridge" /\ portOf'[n] = lab[a].port
        BY <3>1, <1>t, LaunchKeeps
      <4>2. /\ bridge'[a].session = n /\ bridge'[a].at = "started"
            /\ \A b \in Attempt : b # a => bridge'[b] = bridge[b]
        BY <3>1, <4>1 DEF BridgeTypeOK, BridgeRecord
      <4> QED
        BY <2>3, <2>6, <4>1, <4>2 DEF AdminStartsForBridge
    <3>2. CASE BridgeTo(a, "started")
      BY <2>3, <2>6, <3>2, <1>h, BridgeMoves DEF AdminStartsForBridge
    <3> QED
      BY <2>6, <3>1, <3>2 DEF AdminStartsForBridge
  <2>7. ASSUME BridgeStarted(a) PROVE HandleInv'
    <3>1. CASE bridge[a].session # NoSession
      BY <2>3, <2>7, <3>1, <1>h, BridgeMoves DEF BridgeStarted
    <3>2. CASE bridge[a].session = NoSession /\ registry[lab[a].port] # NoSession
      BY <2>3, <2>7, <3>2, <1>r, <1>t, BridgeMoves DEF BridgeStarted
    <3>3. CASE bridge[a].session = NoSession /\ registry[lab[a].port] = NoSession
      BY <2>3, <2>7, <3>3, BridgeMoves DEF BridgeStarted
    <3> QED
      BY <3>1, <3>2, <3>3
  <2>8. ASSUME ConfigReread(a) PROVE HandleInv'
    <3> DEFINE s == bridge[a].session
    <3>1. /\ s # NoSession
          /\ registry' = [registry EXCEPT ![lab[a].port] = s]
          /\ bridge'[a].session = s /\ bridge'[a].at = "rules"
          /\ \A b \in Attempt : b # a => bridge'[b] = bridge[b]
      BY <2>8, BridgeMoves DEF ConfigReread, RulesInv
    <3>2. \A p \in Port : registry'[p] # NoSession =>
            owner'[registry'[p]] = "bridge" /\ portOf'[registry'[p]] = p
      BY <3>1, <1>r, <1>h, <1>t DEF BridgeTypeOK
    <3>3. \A b \in Attempt : bridge'[b].session # NoSession =>
            owner'[bridge'[b].session] = "bridge" /\ portOf'[bridge'[b].session] = lab[b].port
      BY <3>1, <1>h
    <3> QED
      BY <2>1, <2>2, <3>1, <3>2, <3>3 DEF HandleInv
  <2>9. ASSUME AddRule(a) PROVE HandleInv'
    <3>1. CASE Runs(bridge[a].session)
      <4>1. /\ bridge'[a].session = bridge[a].session
            /\ bridge'[a].at \in {"activating", "rules"}
            /\ \A b \in Attempt : b # a => bridge'[b] = bridge[b]
        BY <2>9, <3>1 DEF AddRule, BridgeTypeOK, BridgeRecord
      <4> QED
        BY <2>3, <2>9, <4>1, <1>h DEF AddRule
    <3>2. CASE ~Runs(bridge[a].session)
      BY <2>3, <2>9, <3>2, BridgeMoves DEF AddRule
    <3> QED
      BY <3>1, <3>2
  <2>10. ASSUME NEW b \in BOOLEAN, BridgeActivated(a, b) PROVE HandleInv'
    BY <2>3, <2>10, BridgeMoves DEF BridgeActivated
  <2> QED
    BY <1>3, <2>4, <2>5, <2>6, <2>7, <2>8, <2>9, <2>10 DEF BridgeStep
<1> QED
  BY <1>1, <1>2, <1>3, BridgeCases DEF BridgeChange

LEMMA RulesStepInv ==
    ASSUME TypeOK, SessionInv, LabInv, HandleInv, RulesInv, [Next]_vars
    PROVE  RulesInv'
<1> USE DEF TypeOK
<1>k. \A s \in Session : rules[s] <= rules'[s]
  BY SessionStepInv DEF Keeps
<1>n. /\ \A s \in Session : rules[s] \in 0..Rules /\ rules'[s] \in 0..Rules
      /\ \A b \in Attempt : /\ bridge[b].added \in 0..Rules
                            /\ bridge[b].session \in Session \cup {NoSession}
  BY TypeStep DEF AdminTypeOK, BridgeTypeOK, BridgeRecord
<1> DEFINE Right(b, r) ==
      /\ bridge[b].at \in {"reread", "rules", "activating"} => bridge[b].session # NoSession
      /\ bridge[b].at = "rules" =>
            bridge[b].added < Rules /\ r[bridge[b].session] >= bridge[b].added
      /\ bridge[b].at = "activating" => r[bridge[b].session] = Rules
<1>0. \A b \in Attempt : Right(b, rules')
  <2> SUFFICES ASSUME NEW b \in Attempt PROVE Right(b, rules')
    OBVIOUS
  <2>1. Right(b, rules)
    BY DEF RulesInv
  <2>2. bridge[b].session # NoSession =>
          /\ rules[bridge[b].session] \in 0..Rules /\ rules'[bridge[b].session] \in 0..Rules
          /\ rules[bridge[b].session] <= rules'[bridge[b].session]
    BY <1>k, <1>n
  <2> QED
    BY <2>1, <2>2, <1>n DEF Rules
\* It is enough that what a handler's step makes of its record is right.
<1>s. ASSUME NEW a \in Attempt, \A b \in Attempt : b # a => bridge'[b] = bridge[b],
             /\ bridge'[a].at \in {"reread", "rules", "activating"} =>
                   bridge'[a].session # NoSession
             /\ bridge'[a].at = "rules" =>
                   bridge'[a].added < Rules /\ rules'[bridge'[a].session] >= bridge'[a].added
             /\ bridge'[a].at = "activating" => rules'[bridge'[a].session] = Rules
      PROVE  RulesInv'
  BY <1>s, <1>0 DEF RulesInv
<1>1. CASE UNCHANGED bridge
  BY <1>1, <1>0 DEF RulesInv
<1>2. ASSUME NEW a \in Attempt, NEW ok \in BOOLEAN, AskBridge(a, ok) PROVE RulesInv'
  BY <1>2, <1>1, <1>s, BridgeMoves DEF AskBridge
<1>3. ASSUME NEW a \in Attempt, BridgeStep(a) PROVE RulesInv'
  \* A handler that begins to add rules has added none.
  <2>0. ASSUME NEW s \in Session, ApplyRules(a, s) PROVE RulesInv'
    <3>1. s # NoSession /\ rules'[s] >= 0
      BY <1>n, ConstantAssumption DEF Session, NoSession, Rules
    <3>2. /\ bridge'[a].at = "rules" /\ bridge'[a].session = s /\ bridge'[a].added = 0
          /\ \A b \in Attempt : b # a => bridge'[b] = bridge[b]
      BY <2>0, BridgeMoves
    <3> QED
      BY <1>s, <3>1, <3>2 DEF Rules
  <2>r. registry[lab[a].port] \in Session \cup {NoSession}
    BY DEF BridgeTypeOK, LabTypeOK, LabRecord, Caller
  <2>1. ASSUME NEW l \in BOOLEAN, BridgeMetadata(a, l) PROVE RulesInv'
    BY <2>1, <1>s, BridgeMoves DEF BridgeMetadata
  <2>2. ASSUME ConfigRead(a) PROVE RulesInv'
    BY <2>0, <2>2, <2>r, <1>s, BridgeMoves DEF ConfigRead
  <2>3. ASSUME AdminStartsForBridge(a) PROVE RulesInv'
    <3>1. bridge'[a].at = "started" /\ \A b \in Attempt : b # a => bridge'[b] = bridge[b]
      BY <2>3, BridgeMoves DEF AdminStartsForBridge, BridgeTypeOK, BridgeRecord
    <3> QED
      BY <3>1, <1>s
  <2>4. ASSUME BridgeStarted(a) PROVE RulesInv'
    <3>1. CASE bridge[a].session # NoSession
      BY <2>4, <3>1, <1>s, BridgeMoves DEF BridgeStarted
    <3>2. CASE bridge[a].session = NoSession
      BY <2>0, <2>4, <2>r, <3>2, <1>s, BridgeMoves DEF BridgeStarted
    <3> QED
      BY <3>1, <3>2
  <2>5. ASSUME ConfigReread(a) PROVE RulesInv'
    BY <2>0, <2>5, <1>n DEF ConfigReread, RulesInv
  <2>6. ASSUME AddRule(a) PROVE RulesInv'
    <3>1. CASE Runs(bridge[a].session)
      <4> DEFINE s == bridge[a].session
      <4> DEFINE n == bridge[a].added + 1
      <4>1. /\ s \in Session /\ s # NoSession /\ n \in Nat /\ n <= Rules
            /\ bridge[a].at = "rules"
        BY <2>6, <3>1, <1>n DEF AddRule, Runs, RulesInv, Rules
      <4>2. /\ rules' = [rules EXCEPT ![s] = IF @ < n THEN n ELSE @]
            /\ bridge' = [bridge EXCEPT ![a].added = n,
                                 ![a].at = IF n = Rules THEN "activating" ELSE "rules"]
        BY <2>6, <3>1 DEF AddRule
      <4>3. /\ bridge'[a].session = s /\ bridge'[a].added = n
            /\ bridge'[a].at = IF n = Rules THEN "activating" ELSE "rules"
            /\ \A b \in Attempt : b # a => bridge'[b] = bridge[b]
        BY <4>2 DEF BridgeTypeOK, BridgeRecord
      <4> HIDE DEF s, n
      <4>4. rules'[s] >= n /\ rules'[s] <= Rules
        BY <4>1, <4>2, <1>n DEF AdminTypeOK, Rules
      <4>5. n = Rules => rules'[s] = Rules
        BY <4>1, <4>4, <1>n DEF Rules
      <4>6. n # Rules => n < Rules
        BY <4>1 DEF Rules
      <4> QED
        BY <1>s, <4>1, <4>3, <4>4, <4>5, <4>6
    <3>2. CASE ~Runs(bridge[a].session)
      BY <2>6, <3>2, <1>s, BridgeMoves DEF AddRule
    <3> QED
      BY <3>1, <3>2
  <2>7. ASSUME NEW b \in BOOLEAN, BridgeActivated(a, b) PROVE RulesInv'
    BY <2>7, <1>s, BridgeMoves DEF BridgeActivated
  <2> QED
    BY <1>3, <2>1, <2>2, <2>3, <2>4, <2>5, <2>6, <2>7 DEF BridgeStep
<1> QED
  BY <1>1, <1>2, <1>3, BridgeCases DEF BridgeChange

LEMMA StartedStepInv ==
    ASSUME TypeOK, SessionInv, LabInv, HandleInv, RulesInv, StartedIsRegistered, [Next]_vars
    PROVE  StartedIsRegistered'
<1> USE DEF TypeOK
<1>k. Keeps
  BY SessionStepInv
<1>t. /\ \A b \in Attempt : bridge[b].session \in Session \cup {NoSession}
      /\ \A b \in Attempt : b \in Caller /\ lab[b].port \in Port
      /\ \A s \in Session : portOf[s] \in Port
  BY DEF AdminTypeOK, BridgeTypeOK, BridgeRecord, LabTypeOK, LabRecord, Caller
<1> SUFFICES ASSUME NEW s \in Session, owner'[s] = "bridge", Runs(s)'
             PROVE  \/ registry'[portOf'[s]] = s
                    \/ registry'[portOf'[s]] \in ended'
                    \/ \E a \in Attempt : /\ bridge'[a].at \in {"started", "reread"}
                                          /\ bridge'[a].session = s
  BY DEF StartedIsRegistered
<1> DEFINE New == \E a \in Attempt : bridge'[a].at = "started" /\ bridge'[a].session = s
<1> DEFINE Old == owner[s] = "bridge" /\ Runs(s)
\* The session that runs did so before, or was started for the bridge.
<1>1. Old \/ New
  <2>1. CASE UNCHANGED adminVars
    BY <2>1 DEF adminVars, Runs
  <2>2. ASSUME NEW p \in Port, NEW who \in {"bridge", "lab", "other"}, Launch(p, who)
        PROVE  Old \/ (s = created + 1 /\ who = "bridge")
    BY <2>2, LaunchKeeps
  <2>3. ASSUME NEW a \in Attempt, AdminStartsForBridge(a) PROVE Old \/ New
    <3>1. CASE /\ Launch(lab[a].port, "bridge")
               /\ bridge' = [bridge EXCEPT ![a].at = "started", ![a].session = created + 1]
      <4>1. bridge'[a].session = created + 1 /\ bridge'[a].at = "started"
        BY <3>1 DEF BridgeTypeOK, BridgeRecord
      <4> QED
        BY <2>2, <3>1, <4>1, <1>t
    <3> QED
      BY <2>1, <2>3, <3>1 DEF AdminStartsForBridge
  <2>4. ASSUME NEW p \in Port, SessionEnds(p) PROVE Old
    BY <2>4 DEF SessionEnds, Runs, AdminTypeOK
  <2>5. ASSUME NEW c \in Caller, NEW ok \in BOOLEAN, AdminStops(c, ok) PROVE Old
    <3>1. UNCHANGED <<owner, portOf>> /\ owner[s] = "bridge"
      BY <2>5 DEF AdminStops
    <3> QED
      BY <2>5, <3>1, StopKeeps
  <2>6. ASSUME NEW a \in Attempt, AddRule(a) PROVE Old
    BY <2>6 DEF AddRule, Runs
  <2> QED
    BY <2>1, <2>2, <2>3, <2>4, <2>5, <2>6, AdminCases DEF AdminChange
<1>2. CASE New
  BY <1>2
<1>3. CASE Old
  <2>1. portOf'[s] = portOf[s] /\ ended \subseteq ended'
    BY <1>3, <1>k DEF Keeps
  <2>2. \/ registry[portOf[s]] = s \/ registry[portOf[s]] \in ended
        \/ \E b \in Attempt : bridge[b].at \in {"started", "reread"} /\ bridge[b].session = s
    BY <1>3 DEF StartedIsRegistered
  \* It is enough that a handler that is about to register the session goes on.
  <2>3. ASSUME UNCHANGED registry,
               \A b \in Attempt : bridge[b].at \in {"started", "reread"} /\ bridge[b].session = s =>
                  bridge'[b].at \in {"started", "reread"} /\ bridge'[b].session = s
        PROVE  \/ registry'[portOf'[s]] = s
               \/ registry'[portOf'[s]] \in ended'
               \/ \E a \in Attempt : /\ bridge'[a].at \in {"started", "reread"}
                                     /\ bridge'[a].session = s
    BY <2>1, <2>2, <2>3
  <2>4. CASE UNCHANGED <<bridge, registry>>
    BY <2>3, <2>4
  <2>5. ASSUME NEW a \in Attempt, NEW ok \in BOOLEAN, AskBridge(a, ok)
        PROVE  UNCHANGED registry /\ \A b \in Attempt :
                  bridge[b].at \in {"started", "reread"} => bridge'[b] = bridge[b]
    BY <2>5, BridgeMoves DEF AskBridge, HandleInv
  <2>6. ASSUME NEW a \in Attempt, ConfigReread(a)
        PROVE  \/ registry'[portOf'[s]] = s
               \/ registry'[portOf'[s]] \in ended'
               \/ \E b \in Attempt : /\ bridge'[b].at \in {"started", "reread"}
                                     /\ bridge'[b].session = s
    <3> DEFINE x == bridge[a].session
    <3>1. /\ x \in Session /\ x # NoSession
          /\ owner[x] = "bridge" /\ portOf[x] = lab[a].port
          /\ registry' = [registry EXCEPT ![lab[a].port] = x]
          /\ UNCHANGED adminVars
          /\ \A b \in Attempt : b # a => bridge'[b] = bridge[b]
      BY <2>6, <1>t, BridgeMoves DEF ConfigReread, RulesInv, HandleInv
    <3>2. \A p \in Port : registry'[p] = IF p = lab[a].port THEN x ELSE registry[p]
      BY <3>1, <1>t DEF BridgeTypeOK
    <3>3. CASE portOf[s] = lab[a].port /\ s # x
      <4>1. ~Runs(x)
        BY <1>3, <3>1, <3>3 DEF Runs
      <4> QED
        BY <2>1, <3>1, <3>2, <3>3, <4>1, <1>t DEF SessionInv
    <3>4. CASE s = x
      BY <2>1, <3>1, <3>2, <3>4, <1>t
    <3>5. CASE portOf[s] # lab[a].port
      <4>1. s # x
        BY <3>1, <3>5
      <4> QED
        BY <2>1, <2>2, <3>1, <3>2, <3>5, <4>1, <1>t
    <3> QED
      BY <3>3, <3>4, <3>5
  <2>7. ASSUME NEW a \in Attempt, BridgeStep(a), ~ConfigReread(a)
        PROVE  UNCHANGED registry /\ \A b \in Attempt :
                  bridge[b].at \in {"started", "reread"} /\ bridge[b].session = s =>
                    bridge'[b].at \in {"started", "reread"} /\ bridge'[b].session = s
    <3>0. s # NoSession
      BY <1>3 DEF Runs
    <3>1. ASSUME NEW l \in BOOLEAN, BridgeMetadata(a, l)
          PROVE  /\ UNCHANGED registry
                 /\ bridge[a].at \notin {"started", "reread"}
                 /\ \A b \in Attempt : b # a => bridge'[b] = bridge[b]
      BY <3>1, BridgeMoves DEF BridgeMetadata
    <3>2. ASSUME ConfigRead(a)
          PROVE  /\ UNCHANGED registry
                 /\ bridge[a].at \notin {"started", "reread"}
                 /\ \A b \in Attempt : b # a => bridge'[b] = bridge[b]
      BY <3>2, BridgeMoves DEF ConfigRead
    <3>3. ASSUME AdminStartsForBridge(a)
          PROVE  /\ UNCHANGED registry
                 /\ bridge[a].at \notin {"started", "reread"}
                 /\ \A b \in Attempt : b # a => bridge'[b] = bridge[b]
      BY <3>3, BridgeMoves DEF AdminStartsForBridge, BridgeTypeOK
    <3>4. ASSUME BridgeStarted(a)
          PROVE  /\ UNCHANGED registry
                 /\ bridge[a].session = s =>
                       bridge'[a].at = "reread" /\ bridge'[a].session = s
                 /\ \A b \in Attempt : b # a => bridge'[b] = bridge[b]
      BY <3>0, <3>4, BridgeMoves DEF BridgeStarted
    <3>5. ASSUME AddRule(a)
          PROVE  /\ UNCHANGED registry
                 /\ bridge[a].at \notin {"started", "reread"}
                 /\ \A b \in Attempt : b # a => bridge'[b] = bridge[b]
      BY <3>5, BridgeMoves DEF AddRule, BridgeTypeOK
    <3>6. ASSUME NEW ok \in BOOLEAN, BridgeActivated(a, ok)
          PROVE  /\ UNCHANGED registry
                 /\ bridge[a].at \notin {"started", "reread"}
                 /\ \A b \in Attempt : b # a => bridge'[b] = bridge[b]
      BY <3>6, BridgeMoves DEF BridgeActivated
    <3> QED
      BY <2>7, <3>1, <3>2, <3>3, <3>4, <3>5, <3>6 DEF BridgeStep
  <2> QED
    BY <2>3, <2>4, <2>5, <2>6, <2>7, BridgeCases DEF BridgeChange
<1> QED
  BY <1>1, <1>2, <1>3

-----------------------------------------------------------------------------
(* The add-on's session. *)

Early == {"new", "inspecting", "activating", "adb", "starting"}

\* A step of the call c, neither at the admin server nor just after.
Quiet(c) ==
    /\ UNCHANGED <<adminVars, latest>>
    /\ \A d \in Caller : d # c => lab'[d] = lab[d]
    /\ lab[c].at # "stopped"
    /\ \/ /\ lab'[c].at \notin {"started", "stopping"}
          /\ lab'[c].at \in Early => lab'[c].session = NoSession
       \/ /\ lab'[c].at = "stopping"
          /\ latest # NoSession /\ lab'[c].session = latest

LabChange ==
    \/ UNCHANGED <<lab, latest>>
    \/ \E c \in Caller : Quiet(c)
    \/ \E c \in Caller : AdminStarts(c) \/ SessionStarted(c) \/ SessionStopped(c)
    \/ \E c \in Caller, ok \in BOOLEAN : AdminStops(c, ok)

LEMMA FinishMoves ==
    ASSUME LabTypeOK, NEW c \in Caller, Finish(c)
    PROVE  lab'[c].at = "done" /\ \A d \in Caller : d # c => lab'[d] = lab[d]
  BY DEF Finish, LabTypeOK

LEMMA StartQuiet ==
    ASSUME LabTypeOK, LabInv, NEW c \in Caller, NEW control \in BOOLEAN,
           StartSessionIfNeeded(c, control), UNCHANGED <<adminVars, latest>>,
           lab[c].at \in {"new", "activating", "adb"}
    PROVE  Quiet(c)
<1>1. CASE Finish(c)
  BY <1>1, FinishMoves DEF Quiet, Early
<1>2. CASE lab' = [lab EXCEPT ![c].at = "polling", ![c].session = latest, ![c].control = control]
  <2>1. lab'[c].at = "polling" /\ \A d \in Caller : d # c => lab'[d] = lab[d]
    BY <1>2 DEF LabTypeOK, LabRecord
  <2> QED
    BY <2>1 DEF Quiet, Early
<1>3. CASE lab' = [lab EXCEPT ![c].at = "starting", ![c].control = control]
  <2>1. /\ lab'[c].at = "starting" /\ lab'[c].session = lab[c].session
        /\ \A d \in Caller : d # c => lab'[d] = lab[d]
    BY <1>3 DEF LabTypeOK, LabRecord
  <2>2. lab[c].session = NoSession
    BY DEF LabInv
  <2> QED
    BY <2>1, <2>2 DEF Quiet, Early
<1> QED
  BY <1>1, <1>2, <1>3 DEF StartSessionIfNeeded

LEMMA LabCases == TypeOK /\ LabInv /\ [Next]_vars => LabChange
<1> SUFFICES ASSUME TypeOK, LabInv, [Next]_vars PROVE LabChange
  OBVIOUS
<1> USE DEF TypeOK
<1>0. Attempt \subseteq Caller /\ Start \subseteq Caller /\ Stop \subseteq Caller
  BY DEF Caller
<1>1. ASSUME NEW p \in Port, OtherStarts(p) \/ SessionEnds(p) PROVE LabChange
  BY <1>1 DEF OtherStarts, SessionEnds, LabChange
<1>2. ASSUME NEW a \in Attempt, BridgeStep(a) PROVE LabChange
  <2>1. UNCHANGED <<lab, latest>>
    BY <1>2 DEF BridgeStep, BridgeMetadata, ConfigRead, AdminStartsForBridge, BridgeStarted,
                ConfigReread, AddRule, BridgeActivated
  <2> QED
    BY <2>1 DEF LabChange
<1>3. ASSUME NEW a \in Attempt, NEW p \in Port, NEW device \in BOOLEAN,
             StartHeadless(a, p, device)
      PROVE  Quiet(a)
  <2>0. lab[a].at = "new" /\ lab[a].session = NoSession /\ UNCHANGED <<adminVars, latest>>
    BY <1>3, <1>0 DEF StartHeadless, LabInv
  <2>1. CASE device
    <3>1. /\ lab'[a].at = "inspecting" /\ lab'[a].session = NoSession
          /\ \A d \in Caller : d # a => lab'[d] = lab[d]
      BY <1>3, <2>0, <2>1, <1>0 DEF StartHeadless, LabTypeOK, LabRecord
    <3> QED
      BY <2>0, <3>1 DEF Quiet, Early
  <2>2. CASE ~device
    BY <1>3, <2>0, <2>2, <1>0, FinishMoves DEF StartHeadless, Record, Quiet, Early
  <2> QED
    BY <2>1, <2>2
<1>4. ASSUME NEW a \in Attempt, AttemptStep(a) PROVE Quiet(a)
  <2>0. a \in Caller /\ (lab[a].at \in Early => lab[a].session = NoSession)
    BY <1>0 DEF LabInv, Early
  \* A step to another phase that keeps the session.
  <2>1. ASSUME NEW phase \in {"adb", "activating"}, lab' = [lab EXCEPT ![a].at = phase],
               lab[a].at \in {"inspecting", "activating"}, UNCHANGED <<adminVars, latest>>
        PROVE  Quiet(a)
    <3>1. /\ lab'[a].at = phase /\ lab'[a].session = lab[a].session
          /\ \A d \in Caller : d # a => lab'[d] = lab[d]
      BY <2>0, <2>1 DEF LabTypeOK, LabRecord
    <3> QED
      BY <2>0, <2>1, <3>1 DEF Quiet, Early
  <2>2. Polluted(a) => Quiet(a)
    BY <2>0, FinishMoves DEF Polluted, Record, Quiet, Early
  <2>3. AbortBridge(a) => Quiet(a)
    BY <2>1 DEF AbortBridge
  <2>4. ASSUME BridgeAnswers(a) PROVE Quiet(a)
    <3>1. CASE StartSessionIfNeeded(a, FALSE)
      BY <2>0, <2>4, <3>1, StartQuiet DEF BridgeAnswers
    <3>2. CASE lab' = [lab EXCEPT ![a].at = "polling", ![a].control = TRUE]
      <4>1. lab'[a].at = "polling" /\ \A d \in Caller : d # a => lab'[d] = lab[d]
        BY <2>0, <3>2 DEF LabTypeOK, LabRecord
      <4> QED
        BY <2>4, <4>1 DEF BridgeAnswers, Quiet, Early
    <3>3. CASE lab' = [lab EXCEPT ![a].at = "adb"]
      BY <2>1, <2>4, <3>3 DEF BridgeAnswers
    <3> QED
      BY <2>4, <3>1, <3>2, <3>3 DEF BridgeAnswers
  <2>5. ASSUME NEW b \in BOOLEAN, AskBridge(a, b) PROVE Quiet(a)
    <3> DEFINE phase == IF b THEN "activating" ELSE "adb"
    <3>1. phase \in {"adb", "activating"} /\ lab' = [lab EXCEPT ![a].at = phase]
      BY <2>5 DEF AskBridge
    <3> HIDE DEF phase
    <3> QED
      BY <2>1, <2>5, <3>1 DEF AskBridge
  <2>6. ASSUME NEW b \in BOOLEAN, AdbActivated(a, b) PROVE Quiet(a)
    BY <2>0, <2>6, StartQuiet DEF AdbActivated
  <2>7. ASSUME NEW b \in BOOLEAN, PollEnds(a, b) PROVE Quiet(a)
    <3>1. CASE Finish(a)
      BY <2>0, <2>7, <3>1, FinishMoves DEF PollEnds, Quiet, Early
    <3>2. CASE latest # NoSession /\ lab' = [lab EXCEPT ![a].at = "stopping", ![a].session = latest]
      <4>1. /\ lab'[a].at = "stopping" /\ lab'[a].session = latest
            /\ \A d \in Caller : d # a => lab'[d] = lab[d]
        BY <2>0, <3>2 DEF LabTypeOK, LabRecord
      <4> QED
        BY <2>7, <3>2, <4>1 DEF PollEnds, Quiet
    <3> QED
      BY <2>7, <3>1, <3>2 DEF PollEnds, Record
  <2> QED
    BY <1>4, <2>2, <2>3, <2>4, <2>5, <2>6, <2>7 DEF AttemptStep
<1>5. ASSUME NEW c \in Caller, SessionStep(c) PROVE LabChange
  BY <1>5 DEF SessionStep, LabChange
<1>6. ASSUME NEW c \in Start, CallStart(c) PROVE Quiet(c)
  BY <1>6, <1>0, StartQuiet DEF CallStart
<1>7. ASSUME NEW c \in Stop, CallStop(c) PROVE Quiet(c)
  <2>1. CASE Finish(c)
    BY <1>7, <2>1, <1>0, FinishMoves DEF CallStop, Quiet, Early
  <2>2. CASE latest # NoSession /\ lab' = [lab EXCEPT ![c].at = "stopping", ![c].session = latest]
    <3>1. /\ lab'[c].at = "stopping" /\ lab'[c].session = latest
          /\ \A d \in Caller : d # c => lab'[d] = lab[d]
      BY <2>2, <1>0 DEF LabTypeOK, LabRecord
    <3> QED
      BY <1>7, <2>2, <3>1 DEF CallStop, Quiet
  <2> QED
    BY <1>7, <2>1, <2>2 DEF CallStop
<1>8. UNCHANGED vars => LabChange
  BY DEF LabChange, vars
<1> QED
  BY <1>0, <1>1, <1>2, <1>3, <1>4, <1>5, <1>6, <1>7, <1>8 DEF Next, LabChange

\* A session goes on until it is ended from outside, or stopped by the add-on.
LEMMA RunsKeeps ==
    ASSUME TypeOK, SessionInv, LabInv, [Next]_vars,
           NEW s \in Session, owner[s] # "nobody", Runs(s) \/ s \in ended
    PROVE  \/ Runs(s)' \/ s \in ended'
           \/ \E c \in Caller : AdminStops(c, TRUE) /\ s = lab[c].session
<1>1. ASSUME UNCHANGED adminVars PROVE Runs(s)' \/ s \in ended'
  BY <1>1 DEF adminVars, Runs
<1>2. ASSUME NEW p \in Port, NEW who \in {"bridge", "lab", "other"}, Launch(p, who)
      PROVE  Runs(s)' \/ s \in ended'
  <2>1. UNCHANGED ended
    BY <1>2 DEF Launch
  <2>2. Runs(s) => Runs(s)'
    BY <1>2, LaunchKeeps
  <2> QED
    BY <2>1, <2>2
<1>3. ASSUME NEW p \in Port, SessionEnds(p) PROVE Runs(s)' \/ s \in ended'
  BY <1>3 DEF SessionEnds, Runs, TypeOK, AdminTypeOK
<1>4. ASSUME NEW c \in Caller, NEW ok \in BOOLEAN, AdminStops(c, ok)
      PROVE  Runs(s)' \/ s \in ended' \/ (AdminStops(c, TRUE) /\ s = lab[c].session)
  <2>1. UNCHANGED ended
    BY <1>4 DEF AdminStops
  <2>2. s # lab[c].session => (Runs(s)' <=> Runs(s))
    BY <1>4, StopKeeps
  <2>3. ~Runs(lab[c].session) => (Runs(s)' <=> Runs(s))
    BY <1>4, StopKeeps
  <2>4. Runs(lab[c].session) => ok = TRUE
    BY <1>4, StopKeeps
  <2> QED
    BY <1>4, <2>1, <2>2, <2>3, <2>4
<1>5. ASSUME NEW a \in Attempt, AddRule(a) PROVE Runs(s)' \/ s \in ended'
  BY <1>5 DEF AddRule, Runs
<1>6. ASSUME NEW a \in Attempt, AdminStartsForBridge(a) PROVE Runs(s)' \/ s \in ended'
  <2>1. lab[a].port \in Port
    BY DEF Caller, TypeOK, LabTypeOK, LabRecord
  <2> QED
    BY <1>6, <2>1, <1>1, <1>2 DEF AdminStartsForBridge
<1> QED
  BY <1>1, <1>2, <1>3, <1>4, <1>5, <1>6, AdminCases DEF AdminChange

\* What LabInv says of a call whose session was just started.
Arrived(c) ==
    lab[c].at = "started" /\ lab[c].session # NoSession =>
        LET s == lab[c].session
        IN  /\ owner[s] = "lab" /\ s # latest
            /\ Runs(s) \/ s \in ended
            /\ \A d \in Caller \ {c} :
                  lab[d].at \in {"started", "stopping"} => lab[d].session # s

LEMMA LabStepInv ==
    ASSUME TypeOK, SessionInv, LabInv, [Next]_vars
    PROVE  LabInv'
<1> USE DEF TypeOK
<1>k. \A s \in Session : owner[s] = "lab" => owner'[s] = "lab"
  BY SessionStepInv DEF Keeps
<1>t. /\ \A c \in Caller : lab[c].session \in Session \cup {NoSession}
      /\ latest \in Session \cup {NoSession}
  BY DEF LabTypeOK, LabRecord
<1>r. \A c \in Caller : Arrived(c)
  BY DEF LabInv, Arrived
\* Nobody stops a session on its way to the add-on.
<1>a. \A c \in Caller : lab[c].at = "started" /\ lab[c].session # NoSession =>
        \E s \in Session : /\ s = lab[c].session /\ owner'[s] = "lab"
                           /\ Runs(s)' \/ s \in ended'
  <2> SUFFICES ASSUME NEW c \in Caller, lab[c].at = "started", NEW s \in Session,
                      s = lab[c].session
               PROVE  owner'[s] = "lab" /\ (Runs(s)' \/ s \in ended')
    BY <1>t
  <2>1. s # NoSession
    BY ConstantAssumption DEF Session, NoSession
  <2>2. /\ owner[s] = "lab" /\ (Runs(s) \/ s \in ended)
        /\ \A d \in Caller \ {c} : lab[d].at \in {"started", "stopping"} => lab[d].session # s
    BY <1>r, <2>1 DEF Arrived
  <2>3. \A d \in Caller : AdminStops(d, TRUE) => s # lab[d].session
    BY <2>2 DEF AdminStops
  <2> QED
    BY <1>k, <2>2, <2>3, RunsKeeps
\* It is enough to look at the calls one by one.
<1>s. ASSUME latest' # NoSession => owner'[latest'] = "lab",
             \A c \in Caller : lab'[c].at = "stopping" =>
                lab'[c].session # NoSession /\ owner'[lab'[c].session] = "lab",
             \A c \in Caller : lab'[c].at \in Early => lab'[c].session = NoSession,
             \A c \in Caller : lab'[c].at = "started" /\ lab'[c].session # NoSession =>
                /\ owner'[lab'[c].session] = "lab" /\ lab'[c].session # latest'
                /\ \E s \in Session : s = lab'[c].session /\ (Runs(s)' \/ s \in ended')
                /\ \A d \in Caller \ {c} :
                      lab'[d].at \in {"started", "stopping"} => lab'[d].session # lab'[c].session
      PROVE  LabInv'
  BY <1>s DEF LabInv, Early, Runs
<1>l. /\ latest # NoSession => owner'[latest] = "lab"
      /\ \A c \in Caller : lab[c].at = "stopping" =>
            lab[c].session # NoSession /\ owner'[lab[c].session] = "lab"
      /\ \A c \in Caller : lab[c].at \in Early => lab[c].session = NoSession
  BY <1>k, <1>t DEF LabInv, Early
<1>1. CASE UNCHANGED <<lab, latest>>
  BY <1>1, <1>a, <1>l, <1>r, <1>s DEF Arrived
\* A call that neither stops nor has started a session, or that stops the latest.
<1>2. ASSUME NEW c \in Caller, \A d \in Caller : d # c => lab'[d] = lab[d],
             lab'[c].at \in Early => lab'[c].session = NoSession,
             latest' \in {latest, NoSession},
             \/ lab'[c].at \notin {"started", "stopping"}
             \/ lab'[c].at = "started" /\ lab'[c].session = NoSession
             \/ /\ lab'[c].at = "stopping" /\ latest' = latest
                /\ latest # NoSession /\ lab'[c].session = latest
      PROVE  LabInv'
  BY <1>2, <1>a, <1>l, <1>r, <1>s DEF Arrived
<1>3. ASSUME NEW c \in Caller, Quiet(c) PROVE LabInv'
  BY <1>2, <1>3 DEF Quiet, Early
<1>4. ASSUME NEW c \in Caller, AdminStarts(c) PROVE LabInv'
  <2>0. lab[c].session = NoSession /\ UNCHANGED latest
    BY <1>4 DEF AdminStarts, LabInv
  <2>1. CASE lab' = [lab EXCEPT ![c].at = "started"]
    <3>1. /\ lab'[c].at = "started" /\ lab'[c].session = NoSession
          /\ \A d \in Caller : d # c => lab'[d] = lab[d]
      BY <2>0, <2>1 DEF LabTypeOK, LabRecord
    <3> QED
      BY <1>2, <2>0, <3>1
  <2>2. ASSUME NEW p \in Port, Launch(p, "lab"),
               lab' = [lab EXCEPT ![c].at = "started", ![c].session = created + 1]
        PROVE  LabInv'
    <3>1. PICK n \in Session :
            n = created + 1 /\ owner[n] = "nobody" /\ owner'[n] = "lab" /\ Runs(n)'
      BY <2>2, LaunchKeeps
    <3>2. /\ lab'[c].at = "started" /\ lab'[c].session = n
          /\ \A d \in Caller : d # c => lab'[d] = lab[d]
      BY <2>2, <3>1 DEF LabTypeOK, LabRecord
    <3>3. latest # n
      BY <3>1, <1>t, ConstantAssumption DEF LabInv, Session, NoSession
    <3>4. \A d \in Caller : lab[d].at \in {"started", "stopping"} => lab[d].session # n
      BY <1>r, <1>t, <3>1, ConstantAssumption DEF Arrived, LabInv, Session, NoSession
    <3>5. \A d \in Caller : lab'[d].at \in Early => lab'[d].session = NoSession
      BY <1>l, <3>2 DEF Early
    <3>6. \A d \in Caller : lab'[d].at = "stopping" =>
            lab'[d].session # NoSession /\ owner'[lab'[d].session] = "lab"
      BY <1>l, <3>2
    <3>7. ASSUME NEW d \in Caller, lab'[d].at = "started", lab'[d].session # NoSession
          PROVE  /\ owner'[lab'[d].session] = "lab" /\ lab'[d].session # latest'
                 /\ \E s \in Session : s = lab'[d].session /\ (Runs(s)' \/ s \in ended')
                 /\ \A e \in Caller \ {d} :
                       lab'[e].at \in {"started", "stopping"} => lab'[e].session # lab'[d].session
      <4>1. CASE d = c
        BY <2>0, <3>1, <3>2, <3>3, <3>4, <4>1
      <4>2. CASE d # c
        BY <1>a, <1>r, <2>0, <3>2, <3>4, <3>7, <4>2 DEF Arrived
      <4> QED
        BY <4>1, <4>2
    <3> QED
      BY <1>l, <1>s, <2>0, <3>5, <3>6, <3>7
  <2>3. \A p \in IF c \in Attempt THEN {lab[c].port} ELSE Port : p \in Port
    BY DEF LabTypeOK, LabRecord
  <2> QED
    BY <1>4, <2>1, <2>2, <2>3 DEF AdminStarts
<1>5. ASSUME NEW c \in Caller, SessionStarted(c) PROVE LabInv'
  <2>0. /\ lab'[c].at \in {"polling", "done"}
        /\ \A d \in Caller : d # c => lab'[d] = lab[d]
    BY <1>5, FinishMoves DEF SessionStarted, Reject, LabTypeOK, LabRecord
  <2>1. CASE lab[c].session # NoSession
    <3>1. latest' = lab[c].session /\ lab[c].at = "started"
      BY <1>5, <2>1 DEF SessionStarted
    <3>2. \A d \in Caller \ {c} :
            lab[d].at \in {"started", "stopping"} => lab[d].session # lab[c].session
      BY <1>r, <2>1, <3>1 DEF Arrived
    <3> QED
      BY <1>a, <1>l, <1>r, <1>s, <2>0, <2>1, <3>1, <3>2 DEF Arrived, Early
  <2>2. CASE lab[c].session = NoSession
    BY <1>2, <1>5, <2>0, <2>2 DEF SessionStarted, Early
  <2> QED
    BY <2>1, <2>2
<1>6. ASSUME NEW c \in Caller, SessionStopped(c) PROVE LabInv'
  <2>1. Finish(c)
    BY <1>6 DEF SessionStopped, EndStop, Record, Reject
  <2>2. lab'[c].at = "done" /\ \A d \in Caller : d # c => lab'[d] = lab[d]
    BY <2>1, FinishMoves
  <2> QED
    BY <1>2, <1>6, <2>2 DEF SessionStopped, Early
<1>7. ASSUME NEW c \in Caller, NEW ok \in BOOLEAN, AdminStops(c, ok) PROVE LabInv'
  <2>1. /\ lab'[c].at = "stopped" /\ UNCHANGED latest
        /\ \A d \in Caller : d # c => lab'[d] = lab[d]
    BY <1>7 DEF AdminStops, LabTypeOK, LabRecord
  <2> QED
    BY <1>2, <2>1 DEF Early
<1> QED
  BY <1>1, <1>3, <1>4, <1>5, <1>6, <1>7, LabCases DEF LabChange

LEMMA LatestStepInv ==
    ASSUME TypeOK, SessionInv, LabInv, LatestRuns, [Next]_vars
    PROVE  LatestRuns'
<1> USE DEF TypeOK
<1>t. latest \in Session \cup {NoSession} /\ \A c \in Caller : lab[c].session \in Session \cup {NoSession}
  BY DEF LabTypeOK, LabRecord
<1> DEFINE Stopped(c) == lab[c].at = "stopped" /\ lab[c].stopOk /\ lab[c].session = latest
\* A latest session that stays is still there, or was stopped just now.
<1>a. ASSUME latest' = latest, latest # NoSession
      PROVE  \/ \E s \in Session : s = latest' /\ (Runs(s)' \/ s \in ended')
             \/ \E c \in Caller : AdminStops(c, TRUE) /\ lab[c].session = latest
             \/ \E c \in Caller : Stopped(c)
  <2>1. PICK s \in Session : s = latest
    BY <1>a, <1>t
  <2>2. owner[s] = "lab" /\ (Runs(s) \/ s \in ended \/ \E c \in Caller : Stopped(c))
    BY <1>a, <2>1 DEF LabInv, LatestRuns
  <2> QED
    BY <1>a, <2>1, <2>2, RunsKeeps
<1>s. ASSUME \/ latest' = NoSession
             \/ \E s \in Session : s = latest' /\ (Runs(s)' \/ s \in ended')
             \/ \E c \in Caller : lab'[c].at = "stopped" /\ lab'[c].stopOk /\ lab'[c].session = latest'
      PROVE  LatestRuns'
  BY <1>s DEF LatestRuns, Runs
\* The call that is just stopping it will have done so.
<1>b. ASSUME NEW c \in Caller, AdminStops(c, TRUE), lab[c].session = latest PROVE LatestRuns'
  <2>1. /\ lab'[c].at = "stopped" /\ lab'[c].stopOk /\ lab'[c].session = lab[c].session
        /\ latest' = latest
    BY <1>b DEF AdminStops, LabTypeOK, LabRecord
  <2> QED
    BY <1>b, <1>s, <2>1
\* It is enough that no call that has stopped a session moves.
<1>c. ASSUME latest' = latest,
             \A c \in Caller : lab[c].at = "stopped" /\ lab[c].stopOk => lab'[c] = lab[c]
      PROVE  LatestRuns'
  <2>1. \A c \in Caller : Stopped(c) =>
          lab'[c].at = "stopped" /\ lab'[c].stopOk /\ lab'[c].session = latest'
    BY <1>c
  <2> QED
    BY <1>a, <1>b, <1>c, <1>s, <2>1
<1>1. CASE UNCHANGED <<lab, latest>>
  BY <1>1, <1>c
<1>2. ASSUME NEW c \in Caller, Quiet(c) PROVE LatestRuns'
  BY <1>2, <1>c DEF Quiet
<1>3. ASSUME NEW c \in Caller, AdminStarts(c) PROVE LatestRuns'
  <2>1. \A d \in Caller : d # c => lab'[d] = lab[d]
    BY <1>3 DEF AdminStarts, LabTypeOK
  <2> QED
    BY <1>3, <1>c, <2>1 DEF AdminStarts
<1>4. ASSUME NEW c \in Caller, SessionStarted(c) PROVE LatestRuns'
  <2>1. CASE lab[c].session = NoSession
    <3>1. \A d \in Caller : d # c => lab'[d] = lab[d]
      BY <1>4, <2>1, FinishMoves DEF SessionStarted, Reject
    <3> QED
      BY <1>4, <1>c, <2>1, <3>1 DEF SessionStarted
  <2>2. CASE lab[c].session # NoSession
    <3>1. PICK s \in Session : s = lab[c].session
      BY <1>t, <2>2
    <3>2. /\ latest' = s /\ owner[s] = "lab" /\ (Runs(s) \/ s \in ended)
          /\ UNCHANGED adminVars
      BY <1>4, <2>2, <3>1 DEF SessionStarted, LabInv
    <3>3. Runs(s)' \/ s \in ended'
      BY <3>2 DEF Runs, adminVars
    <3> QED
      BY <1>s, <3>2, <3>3
  <2> QED
    BY <2>1, <2>2
<1>5. ASSUME NEW c \in Caller, SessionStopped(c) PROVE LatestRuns'
  <2>1. CASE lab[c].stopOk
    BY <1>5, <1>s, <2>1 DEF SessionStopped
  <2>2. CASE ~lab[c].stopOk
    <3>1. \A d \in Caller : d # c => lab'[d] = lab[d]
      BY <1>5, <2>2, FinishMoves DEF SessionStopped, EndStop, Reject
    <3> QED
      BY <1>5, <1>c, <2>2, <3>1 DEF SessionStopped
  <2> QED
    BY <2>1, <2>2
<1>6. ASSUME NEW c \in Caller, NEW ok \in BOOLEAN, AdminStops(c, ok) PROVE LatestRuns'
  <2>1. latest' = latest /\ lab[c].at = "stopping" /\ \A d \in Caller : d # c => lab'[d] = lab[d]
    BY <1>6 DEF AdminStops, LabTypeOK
  <2> QED
    BY <1>c, <2>1
<1> QED
  BY <1>1, <1>2, <1>3, <1>4, <1>5, <1>6, LabCases DEF LabChange

-----------------------------------------------------------------------------
(* Calls of the add-on that do not overlap. *)

\* While calls do not overlap, the one that is at the session is alone. It starts one only
\* if there is none, what it stops is the latest one, and the one that it has stopped is gone.
AloneInv ==
    ~overlap =>
        /\ \A c, d \in Caller : lab[c].at \in AtSession /\ lab[d].at \in AtSession => c = d
        /\ \A c \in Caller : lab[c].at \in {"starting", "started"} => latest = NoSession
        /\ \A c \in Caller : lab[c].at \in {"stopping", "stopped"} =>
              latest # NoSession /\ lab[c].session = latest
        /\ \A c \in Caller : lab[c].at = "stopped" /\ lab[c].stopOk => ~Runs(latest)

\* A session of which the add-on still knows.
Known(s) ==
    \/ latest = s
    \/ \E c \in Caller : lab[c].at = "started" /\ lab[c].session = s

\* The call c comes to the session, or keeps away from it.
Comes(c) ==
    /\ UNCHANGED <<adminVars, latest>>
    /\ lab[c].at \notin AtSession
    /\ \A d \in Caller : d # c => lab'[d] = lab[d]
    /\ \/ lab'[c].at \notin AtSession /\ UNCHANGED overlap
       \/ lab'[c].at = "starting" /\ latest = NoSession /\ NoteOverlap(c)
       \/ /\ lab'[c].at = "stopping" /\ latest # NoSession /\ lab'[c].session = latest
          /\ NoteOverlap(c)

CallChange ==
    \/ UNCHANGED <<lab, latest, overlap>> /\ ~\E c \in Caller : AdminStarts(c)
    \/ \E c \in Caller : Comes(c)
    \/ \E c \in Caller : AdminStarts(c) \/ SessionStarted(c) \/ SessionStopped(c)
    \/ \E c \in Caller, ok \in BOOLEAN : AdminStops(c, ok)

LEMMA StartComes ==
    ASSUME LabTypeOK, NEW c \in Caller, NEW control \in BOOLEAN,
           StartSessionIfNeeded(c, control), UNCHANGED <<adminVars, latest>>,
           lab[c].at \in {"new", "activating", "adb"}
    PROVE  Comes(c)
<1>1. CASE Finish(c) /\ UNCHANGED overlap
  BY <1>1, FinishMoves DEF Comes, AtSession
<1>2. CASE /\ lab' = [lab EXCEPT ![c].at = "polling", ![c].session = latest, ![c].control = control]
           /\ UNCHANGED overlap
  <2>1. lab'[c].at = "polling" /\ \A d \in Caller : d # c => lab'[d] = lab[d]
    BY <1>2 DEF LabTypeOK, LabRecord
  <2> QED
    BY <1>2, <2>1 DEF Comes, AtSession
<1>3. CASE /\ lab' = [lab EXCEPT ![c].at = "starting", ![c].control = control]
           /\ latest = NoSession /\ NoteOverlap(c)
  <2>1. lab'[c].at = "starting" /\ \A d \in Caller : d # c => lab'[d] = lab[d]
    BY <1>3 DEF LabTypeOK, LabRecord
  <2> QED
    BY <1>3, <2>1 DEF Comes, AtSession
<1> QED
  BY <1>1, <1>2, <1>3 DEF StartSessionIfNeeded

\* A call that goes on to stop the latest session comes to it.
LEMMA StopComes ==
    ASSUME LabTypeOK, NEW c \in Caller, UNCHANGED <<adminVars, latest>>, lab[c].at \notin AtSession,
           latest # NoSession, lab' = [lab EXCEPT ![c].at = "stopping", ![c].session = latest],
           NoteOverlap(c)
    PROVE  Comes(c)
<1>1. /\ lab'[c].at = "stopping" /\ lab'[c].session = latest
      /\ \A d \in Caller : d # c => lab'[d] = lab[d]
  BY DEF LabTypeOK, LabRecord
<1> QED
  BY <1>1 DEF Comes

LEMMA CallCases == TypeOK /\ [Next]_vars => CallChange
<1> SUFFICES ASSUME TypeOK, [Next]_vars PROVE CallChange
  OBVIOUS
<1> USE DEF TypeOK
<1>0. Attempt \subseteq Caller /\ Start \subseteq Caller /\ Stop \subseteq Caller
  BY DEF Caller
\* A step that moves no call is none of the admin server's for one.
<1>m. ASSUME UNCHANGED lab PROVE ~\E c \in Caller : AdminStarts(c)
  <2> SUFFICES ASSUME NEW c \in Caller, AdminStarts(c) PROVE FALSE
    OBVIOUS
  <2>1. lab[c].at = "starting" /\ lab'[c].at = "started"
    BY DEF AdminStarts, LabTypeOK, LabRecord
  <2> QED
    BY <1>m, <2>1
<1>1. ASSUME NEW p \in Port, OtherStarts(p) \/ SessionEnds(p) PROVE CallChange
  BY <1>1, <1>m DEF OtherStarts, SessionEnds, CallChange
<1>2. ASSUME NEW a \in Attempt, BridgeStep(a) PROVE CallChange
  <2>1. UNCHANGED <<lab, latest, overlap>>
    BY <1>2 DEF BridgeStep, BridgeMetadata, ConfigRead, AdminStartsForBridge, BridgeStarted,
                ConfigReread, AddRule, BridgeActivated
  <2> QED
    BY <2>1, <1>m DEF CallChange
<1>3. ASSUME NEW a \in Attempt, NEW p \in Port, NEW device \in BOOLEAN,
             StartHeadless(a, p, device)
      PROVE  Comes(a)
  <2>0. lab[a].at = "new" /\ UNCHANGED <<adminVars, latest, overlap>>
    BY <1>3 DEF StartHeadless
  <2>1. CASE device
    <3>1. lab'[a].at = "inspecting" /\ \A d \in Caller : d # a => lab'[d] = lab[d]
      BY <1>3, <2>1, <1>0 DEF StartHeadless, LabTypeOK, LabRecord
    <3> QED
      BY <2>0, <3>1 DEF Comes, AtSession
  <2>2. CASE ~device
    BY <1>3, <2>0, <2>2, <1>0, FinishMoves DEF StartHeadless, Record, Comes, AtSession
  <2> QED
    BY <2>1, <2>2
<1>4. ASSUME NEW a \in Attempt, AttemptStep(a) PROVE Comes(a)
  <2>0. a \in Caller
    BY <1>0
  <2>1. ASSUME NEW phase \in {"adb", "activating"}, lab' = [lab EXCEPT ![a].at = phase],
               lab[a].at \in {"inspecting", "activating"}, UNCHANGED <<adminVars, latest, overlap>>
        PROVE  Comes(a)
    <3>1. lab'[a].at = phase /\ \A d \in Caller : d # a => lab'[d] = lab[d]
      BY <2>0, <2>1 DEF LabTypeOK, LabRecord
    <3> QED
      BY <2>1, <3>1 DEF Comes, AtSession
  <2>2. Polluted(a) => Comes(a)
    BY <2>0, FinishMoves DEF Polluted, Record, Comes, AtSession
  <2>3. AbortBridge(a) => Comes(a)
    BY <2>1 DEF AbortBridge
  <2>4. ASSUME BridgeAnswers(a) PROVE Comes(a)
    <3>1. CASE StartSessionIfNeeded(a, FALSE)
      BY <2>0, <2>4, <3>1, StartComes DEF BridgeAnswers
    <3>2. CASE lab' = [lab EXCEPT ![a].at = "polling", ![a].control = TRUE] /\ UNCHANGED overlap
      <4>1. lab'[a].at = "polling" /\ \A d \in Caller : d # a => lab'[d] = lab[d]
        BY <2>0, <3>2 DEF LabTypeOK, LabRecord
      <4> QED
        BY <2>4, <3>2, <4>1 DEF BridgeAnswers, Comes, AtSession
    <3>3. CASE lab' = [lab EXCEPT ![a].at = "adb"] /\ UNCHANGED overlap
      BY <2>1, <2>4, <3>3 DEF BridgeAnswers
    <3> QED
      BY <2>4, <3>1, <3>2, <3>3 DEF BridgeAnswers
  <2>5. ASSUME NEW b \in BOOLEAN, AskBridge(a, b) PROVE Comes(a)
    <3> DEFINE phase == IF b THEN "activating" ELSE "adb"
    <3>1. phase \in {"adb", "activating"} /\ lab' = [lab EXCEPT ![a].at = phase]
      BY <2>5 DEF AskBridge
    <3> HIDE DEF phase
    <3> QED
      BY <2>1, <2>5, <3>1 DEF AskBridge
  <2>6. ASSUME NEW b \in BOOLEAN, AdbActivated(a, b) PROVE Comes(a)
    BY <2>0, <2>6, StartComes DEF AdbActivated
  <2>7. ASSUME NEW b \in BOOLEAN, PollEnds(a, b) PROVE Comes(a)
    <3>1. CASE Finish(a) /\ UNCHANGED overlap
      BY <2>0, <2>7, <3>1, FinishMoves DEF PollEnds, Comes, AtSession
    <3>2. CASE /\ latest # NoSession /\ lab' = [lab EXCEPT ![a].at = "stopping", ![a].session = latest]
               /\ NoteOverlap(a)
      BY <2>0, <2>7, <3>2, StopComes DEF PollEnds, AtSession
    <3> QED
      BY <2>7, <3>1, <3>2 DEF PollEnds, Record
  <2> QED
    BY <1>4, <2>2, <2>3, <2>4, <2>5, <2>6, <2>7 DEF AttemptStep
<1>5. ASSUME NEW c \in Caller, SessionStep(c) PROVE CallChange
  BY <1>5 DEF SessionStep, CallChange
<1>6. ASSUME NEW c \in Start, CallStart(c) PROVE Comes(c)
  BY <1>6, <1>0, StartComes DEF CallStart
<1>7. ASSUME NEW c \in Stop, CallStop(c) PROVE Comes(c)
  <2>1. CASE Finish(c) /\ UNCHANGED overlap
    BY <1>7, <2>1, <1>0, FinishMoves DEF CallStop, Comes, AtSession
  <2>2. CASE /\ latest # NoSession /\ lab' = [lab EXCEPT ![c].at = "stopping", ![c].session = latest]
             /\ NoteOverlap(c)
    BY <1>7, <2>2, <1>0, StopComes DEF CallStop, AtSession
  <2> QED
    BY <1>7, <2>1, <2>2 DEF CallStop
<1>8. UNCHANGED vars => CallChange
  BY <1>m DEF CallChange, vars
<1> QED
  BY <1>0, <1>1, <1>2, <1>3, <1>4, <1>5, <1>6, <1>7, <1>8 DEF Next, CallChange

\* Only a session that nobody has had can begin to run.
LEMMA OnlyNewOnesRun ==
    ASSUME TypeOK, SessionInv, LabInv, [Next]_vars, NEW s \in Session, Runs(s)'
    PROVE  Runs(s) \/ owner[s] = "nobody"
<1>1. ASSUME UNCHANGED adminVars PROVE Runs(s)
  BY <1>1 DEF adminVars, Runs
<1>2. ASSUME NEW p \in Port, NEW who \in {"bridge", "lab", "other"}, Launch(p, who)
      PROVE  Runs(s) \/ owner[s] = "nobody"
  BY <1>2, LaunchKeeps
<1>3. ASSUME NEW p \in Port, SessionEnds(p) PROVE Runs(s)
  BY <1>3 DEF SessionEnds, Runs, TypeOK, AdminTypeOK
<1>4. ASSUME NEW c \in Caller, NEW ok \in BOOLEAN, AdminStops(c, ok) PROVE Runs(s)
  BY <1>4 DEF AdminStops, Runs, TypeOK, AdminTypeOK
<1>5. ASSUME NEW a \in Attempt, AddRule(a) PROVE Runs(s)
  BY <1>5 DEF AddRule, Runs
<1>6. ASSUME NEW a \in Attempt, AdminStartsForBridge(a) PROVE Runs(s) \/ owner[s] = "nobody"
  <2>1. lab[a].port \in Port
    BY DEF Caller, TypeOK, LabTypeOK, LabRecord
  <2> QED
    BY <1>6, <2>1, <1>1, <1>2 DEF AdminStartsForBridge
<1> QED
  BY <1>1, <1>2, <1>3, <1>4, <1>5, <1>6, AdminCases DEF AdminChange

\* Only its own start gives the add-on a session.
LEMMA OnlyStartsOwn ==
    ASSUME TypeOK, SessionInv, [Next]_vars, ~\E c \in Caller : AdminStarts(c),
           NEW s \in Session, owner'[s] = "lab"
    PROVE  owner[s] = "lab"
<1>1. ASSUME UNCHANGED owner PROVE owner[s] = "lab"
  BY <1>1
<1>2. ASSUME NEW p \in Port, NEW who \in {"bridge", "other"}, Launch(p, who)
      PROVE  owner[s] = "lab"
  BY <1>2, LaunchKeeps
<1>3. ASSUME NEW a \in Attempt, BridgeStep(a) PROVE owner[s] = "lab"
  <2>1. lab[a].port \in Port
    BY DEF Caller, TypeOK, LabTypeOK, LabRecord
  <2>2. AdminStartsForBridge(a) => owner[s] = "lab"
    BY <2>1, <1>2, <1>1 DEF AdminStartsForBridge, adminVars
  <2>3. ~AdminStartsForBridge(a) => UNCHANGED owner
    BY <1>3 DEF BridgeStep, BridgeMetadata, ConfigRead, BridgeStarted, ConfigReread, AddRule,
                BridgeActivated, adminVars
  <2> QED
    BY <2>2, <2>3, <1>1
<1>4. ASSUME NEW c \in Caller, SessionStep(c) PROVE UNCHANGED owner
  BY <1>4 DEF SessionStep, SessionStarted, SessionStopped, AdminStops, adminVars
<1>5. ASSUME NEW a \in Attempt, AttemptStep(a) PROVE UNCHANGED owner
  BY <1>5 DEF AttemptStep, Polluted, AbortBridge, BridgeAnswers, AskBridge, AdbActivated, PollEnds,
              adminVars
<1>6. ASSUME \/ \E a \in Attempt, p \in Port, device \in BOOLEAN : StartHeadless(a, p, device)
             \/ \E c \in Start : CallStart(c)
             \/ \E c \in Stop : CallStop(c)
             \/ \E p \in Port : SessionEnds(p)
             \/ UNCHANGED vars
      PROVE  UNCHANGED owner
  BY <1>6 DEF StartHeadless, CallStart, CallStop, SessionEnds, adminVars, vars
<1>7. ASSUME NEW p \in Port, OtherStarts(p) PROVE owner[s] = "lab"
  BY <1>2, <1>7 DEF OtherStarts
<1> QED
  BY <1>1, <1>3, <1>4, <1>5, <1>6, <1>7 DEF Next

LEMMA AloneStep ==
    ASSUME TypeOK, SessionInv, LabInv, AloneInv, SessionIsKept, [Next]_vars
    PROVE  AloneInv' /\ SessionIsKept'
<1> USE DEF TypeOK
<1>t. /\ \A c \in Caller : lab[c].session \in Session \cup {NoSession}
      /\ latest \in Session \cup {NoSession}
      /\ \A s \in Session : s # NoSession
  BY ConstantAssumption DEF LabTypeOK, LabRecord, Session, NoSession
<1>l. latest # NoSession => latest \in Session /\ owner[latest] = "lab"
  BY <1>t DEF LabInv
<1>g. ASSUME latest # NoSession, ~Runs(latest), latest' = latest PROVE ~Runs(latest)'
  <2>1. PICK s \in Session : s = latest
    BY <1>l, <1>g
  <2>2. owner[s] = "lab" /\ ~Runs(s)
    BY <1>l, <1>g, <2>1
  <2>3. ~Runs(s)'
    BY <2>2, OnlyNewOnesRun
  <2> QED
    BY <1>g, <2>1, <2>3 DEF Runs
<1>k. ASSUME ~overlap, ~\E c \in Caller : AdminStarts(c), NEW s \in Session,
             owner'[s] = "lab", Runs(s)'
      PROVE  Runs(s) /\ owner[s] = "lab" /\ Known(s)
  BY <1>k, OnlyNewOnesRun, OnlyStartsOwn DEF SessionIsKept, Known
\* It is enough to show what follows for calls that do not overlap.
<1> SUFFICES ASSUME ~overlap'
             PROVE  /\ \A c, d \in Caller :
                          lab'[c].at \in AtSession /\ lab'[d].at \in AtSession => c = d
                    /\ \A c \in Caller : lab'[c].at \in {"starting", "started"} => latest' = NoSession
                    /\ \A c \in Caller : lab'[c].at \in {"stopping", "stopped"} =>
                          latest' # NoSession /\ lab'[c].session = latest'
                    /\ \A c \in Caller : lab'[c].at = "stopped" /\ lab'[c].stopOk => ~Runs(latest)'
                    /\ \A s \in Session : owner'[s] = "lab" /\ Runs(s)' => Known(s)'
  BY DEF AloneInv, SessionIsKept, Known, Runs
<1>1. CASE UNCHANGED <<lab, latest, overlap>> /\ ~\E c \in Caller : AdminStarts(c)
  <2>1. \A s \in Session : owner'[s] = "lab" /\ Runs(s)' => Known(s)'
    BY <1>1, <1>k DEF Known
  <2>2. \A c \in Caller : lab'[c].at = "stopped" /\ lab'[c].stopOk => ~Runs(latest)'
    BY <1>1, <1>g DEF AloneInv
  <2> QED
    BY <1>1, <2>1, <2>2 DEF AloneInv
<1>2. ASSUME NEW c \in Caller, Comes(c) PROVE ~overlap
  BY <1>2 DEF Comes, NoteOverlap
<1>3. ASSUME NEW c \in Caller, Comes(c)
      PROVE  /\ \A d, e \in Caller : lab'[d].at \in AtSession /\ lab'[e].at \in AtSession => d = e
             /\ \A d \in Caller : lab'[d].at \in {"starting", "started"} => latest' = NoSession
             /\ \A d \in Caller : lab'[d].at \in {"stopping", "stopped"} =>
                   latest' # NoSession /\ lab'[d].session = latest'
             /\ \A d \in Caller : lab'[d].at = "stopped" /\ lab'[d].stopOk => ~Runs(latest)'
             /\ \A s \in Session : owner'[s] = "lab" /\ Runs(s)' => Known(s)'
  <2>1. /\ UNCHANGED <<adminVars, latest>> /\ lab[c].at \notin AtSession
        /\ \A d \in Caller : d # c => lab'[d] = lab[d]
    BY <1>3 DEF Comes
  <2>2. \A d, e \in Caller : lab'[d].at \in AtSession /\ lab'[e].at \in AtSession => d = e
    <3>1. CASE lab'[c].at \notin AtSession
      BY <1>2, <1>3, <2>1, <3>1 DEF AloneInv
    <3>2. CASE NoteOverlap(c)
      BY <2>1, <3>2 DEF NoteOverlap
    <3> QED
      BY <1>3, <3>1, <3>2 DEF Comes
  <2>3. /\ \A d \in Caller : lab'[d].at \in {"starting", "started"} => latest' = NoSession
        /\ \A d \in Caller : lab'[d].at \in {"stopping", "stopped"} =>
              latest' # NoSession /\ lab'[d].session = latest'
    BY <1>2, <1>3, <2>1 DEF Comes, AloneInv, AtSession
  <2>4. \A d \in Caller : lab'[d].at = "stopped" /\ lab'[d].stopOk => ~Runs(latest)'
    <3> SUFFICES ASSUME NEW d \in Caller, lab'[d].at = "stopped", lab'[d].stopOk PROVE ~Runs(latest)'
      OBVIOUS
    <3>1. d # c
      BY <1>3 DEF Comes, AtSession
    <3>2. lab[d].at = "stopped" /\ lab[d].stopOk
      BY <2>1, <3>1
    <3> QED
      BY <1>2, <1>3, <1>g, <2>1, <3>2 DEF AloneInv
  <2>5. \A s \in Session : owner'[s] = "lab" /\ Runs(s)' => Known(s)'
    <3> SUFFICES ASSUME NEW s \in Session, owner'[s] = "lab", Runs(s)' PROVE Known(s)'
      OBVIOUS
    <3>1. owner[s] = "lab" /\ Runs(s)
      BY <2>1 DEF adminVars, Runs
    <3>2. Known(s)
      BY <1>2, <1>3, <3>1 DEF SessionIsKept, Known
    <3> QED
      BY <2>1, <3>2 DEF Known, AtSession
  <2> QED
    BY <2>2, <2>3, <2>4, <2>5
\* What a call that is at the session knows.
<1>a. ASSUME ~overlap, NEW c \in Caller, lab[c].at \in AtSession
      PROVE  /\ \A d \in Caller \ {c} : lab[d].at \notin AtSession
             /\ lab[c].at \in {"starting", "started"} => latest = NoSession
             /\ lab[c].at \in {"stopping", "stopped"} => latest # NoSession /\ lab[c].session = latest
             /\ lab[c].at = "stopped" /\ lab[c].stopOk => ~Runs(latest)
  BY <1>a DEF AloneInv
<1>4. ASSUME NEW c \in Caller, AdminStarts(c)
      PROVE  /\ \A d, e \in Caller : lab'[d].at \in AtSession /\ lab'[e].at \in AtSession => d = e
             /\ \A d \in Caller : lab'[d].at \in {"starting", "started"} => latest' = NoSession
             /\ \A d \in Caller : lab'[d].at \notin {"stopping", "stopped"}
             /\ \A s \in Session : owner'[s] = "lab" /\ Runs(s)' => Known(s)'
  <2>1. /\ lab[c].at = "starting" /\ ~overlap /\ latest' = latest
        /\ lab'[c].at = "started" /\ \A d \in Caller : d # c => lab'[d] = lab[d]
    BY <1>4 DEF AdminStarts, LabTypeOK, LabRecord
  <2>2. latest = NoSession /\ \A d \in Caller \ {c} : lab'[d].at \notin AtSession
    BY <2>1, <1>a DEF AtSession
  <2>3. \A s \in Session : ~(owner[s] = "lab" /\ Runs(s))
    <3> SUFFICES ASSUME NEW s \in Session, owner[s] = "lab", Runs(s) PROVE FALSE
      OBVIOUS
    <3>1. \E d \in Caller : lab[d].at = "started"
      BY <1>t, <2>1, <2>2 DEF SessionIsKept
    <3> QED
      BY <2>1, <2>2, <3>1 DEF AtSession
  <2>4. \A s \in Session : owner'[s] = "lab" /\ Runs(s)' => Known(s)'
    <3>1. lab[c].port \in Port
      BY DEF LabTypeOK, LabRecord
    <3>2. PICK p \in Port :
            \/ /\ Launch(p, "lab")
               /\ lab' = [lab EXCEPT ![c].at = "started", ![c].session = created + 1]
            \/ UNCHANGED adminVars
      BY <1>4, <3>1 DEF AdminStarts
    <3>3. CASE UNCHANGED adminVars
      BY <2>3, <3>3 DEF adminVars, Runs
    <3>4. CASE /\ Launch(p, "lab")
               /\ lab' = [lab EXCEPT ![c].at = "started", ![c].session = created + 1]
      <4>1. \A s \in Session : s # created + 1 => owner'[s] = owner[s] /\ (Runs(s)' <=> Runs(s))
        BY <3>4, LaunchKeeps
      <4>2. lab'[c].session = created + 1
        BY <3>4 DEF LabTypeOK, LabRecord
      <4> QED
        BY <2>1, <2>3, <4>1, <4>2 DEF Known
    <3> QED
      BY <3>2, <3>3, <3>4
  <2> QED
    BY <2>1, <2>2, <2>4 DEF AtSession
<1>5. ASSUME NEW c \in Caller, SessionStarted(c) \/ SessionStopped(c)
      PROVE  /\ \A d \in Caller : lab'[d].at \notin AtSession
             /\ \A s \in Session : owner'[s] = "lab" /\ Runs(s)' => Known(s)'
  <2>0. /\ lab[c].at \in {"started", "stopped"} /\ ~overlap /\ UNCHANGED adminVars
    BY <1>5 DEF SessionStarted, SessionStopped
  <2>1. /\ lab'[c].at \notin AtSession /\ \A d \in Caller : d # c => lab'[d] = lab[d]
    <3>1. CASE Finish(c)
      BY <3>1, FinishMoves DEF AtSession
    <3>2. CASE lab' = [lab EXCEPT ![c].at = "polling"]
      BY <3>2 DEF LabTypeOK, LabRecord, AtSession
    <3> QED
      BY <1>5, <3>1, <3>2 DEF SessionStarted, SessionStopped, EndStop, Reject, Record
  <2>2. \A d \in Caller : lab'[d].at \notin AtSession
    BY <2>0, <2>1, <1>a DEF AtSession
  <2>3. ASSUME NEW s \in Session, owner'[s] = "lab", Runs(s)' PROVE latest' = s
    <3>1. owner[s] = "lab" /\ Runs(s)
      BY <2>0, <2>3 DEF adminVars, Runs
    <3>2. latest = s \/ (lab[c].at = "started" /\ lab[c].session = s)
      BY <2>0, <3>1, <1>a DEF SessionIsKept, AtSession
    <3>3. CASE SessionStarted(c)
      <4>1. lab[c].session = s
        BY <1>t, <2>0, <3>2, <3>3, <1>a DEF SessionStarted, AtSession
      <4> QED
        BY <1>t, <3>3, <4>1 DEF SessionStarted
    <3>4. CASE SessionStopped(c)
      <4>1. latest = s /\ ~lab[c].stopOk
        BY <2>0, <3>1, <3>2, <3>4, <1>a DEF SessionStopped, AtSession
      <4> QED
        BY <3>4, <4>1 DEF SessionStopped
    <3> QED
      BY <1>5, <3>3, <3>4
  <2> QED
    BY <2>2, <2>3 DEF Known
<1>6. ASSUME NEW c \in Caller, NEW ok \in BOOLEAN, AdminStops(c, ok)
      PROVE  /\ \A d, e \in Caller : lab'[d].at \in AtSession /\ lab'[e].at \in AtSession => d = e
             /\ \A d \in Caller : lab'[d].at \notin {"starting", "started"}
             /\ \A d \in Caller : lab'[d].at \in {"stopping", "stopped"} =>
                   latest' # NoSession /\ lab'[d].session = latest'
             /\ \A d \in Caller : lab'[d].at = "stopped" /\ lab'[d].stopOk => ~Runs(latest)'
             /\ \A s \in Session : owner'[s] = "lab" /\ Runs(s)' => Known(s)'
  <2>1. /\ lab[c].at = "stopping" /\ ~overlap /\ latest' = latest /\ owner' = owner /\ portOf' = portOf
        /\ lab'[c].at = "stopped" /\ lab'[c].session = lab[c].session
        /\ \A d \in Caller : d # c => lab'[d] = lab[d]
    BY <1>6 DEF AdminStops, LabTypeOK, LabRecord
  <2>2. /\ latest # NoSession /\ lab[c].session = latest
        /\ \A d \in Caller \ {c} : lab'[d].at \notin AtSession
    BY <2>1, <1>a DEF AtSession
  <2>3. ~Runs(latest)'
    <3>1. portOf[latest] \in Port
      BY <1>l, <2>2 DEF AdminTypeOK
    <3>2. CASE Runs(latest)
      BY <1>6, <2>1, <2>2, <3>1, <3>2 DEF AdminStops, Runs, AdminTypeOK
    <3>3. CASE ~Runs(latest)
      BY <1>g, <2>1, <2>2, <3>3
    <3> QED
      BY <3>2, <3>3
  <2>4. ASSUME NEW s \in Session, owner'[s] = "lab", Runs(s)' PROVE FALSE
    <3>1. ~\E d \in Caller : AdminStarts(d)
      <4>1. \A d \in Caller : AdminStarts(d) => lab[d].at = "starting"
        BY DEF AdminStarts
      <4> QED
        BY <2>1, <2>2, <4>1 DEF AtSession
    <3>2. Known(s)
      BY <2>1, <2>4, <3>1, <1>k
    <3>3. latest = s
      BY <2>1, <2>2, <3>2 DEF Known, AtSession
    <3> QED
      BY <2>1, <2>3, <2>4, <3>3 DEF Runs
  <2> QED
    BY <2>1, <2>2, <2>3, <2>4 DEF AtSession
<1> QED
  BY <1>1, <1>3, <1>4, <1>5, <1>6, CallCases DEF CallChange, AtSession

-----------------------------------------------------------------------------
(* The theorems. *)

LEMMA InvInit == Init => IInv
<1> SUFFICES ASSUME Init PROVE IInv
  OBVIOUS
<1>1. TypeOK
  BY TypeInit
<1>2. \A s \in Session : s \in Nat /\ s > 0
  BY ConstantAssumption DEF Session
<1>3. SessionInv
  BY <1>2 DEF Init, SessionInv
<1>4. HandleInv /\ RulesInv /\ StartedIsRegistered
  BY DEF Init, HandleInv, RulesInv, StartedIsRegistered
<1>5. LabInv /\ LatestRuns
  BY DEF Init, LabInv, LatestRuns
<1> QED
  BY <1>1, <1>3, <1>4, <1>5 DEF IInv

LEMMA InvStep == IInv /\ [Next]_vars => IInv'
<1> SUFFICES ASSUME IInv, [Next]_vars PROVE IInv'
  OBVIOUS
<1>0. TypeOK /\ SessionInv /\ HandleInv /\ RulesInv /\ LabInv /\ StartedIsRegistered /\ LatestRuns
  BY DEF IInv
<1>1. TypeOK' /\ SessionInv' /\ HandleInv' /\ RulesInv'
  BY <1>0, TypeStep, SessionStepInv, HandleStepInv, RulesStepInv
<1>2. LabInv' /\ StartedIsRegistered' /\ LatestRuns'
  BY <1>0, LabStepInv, StartedStepInv, LatestStepInv
<1> QED
  BY <1>1, <1>2 DEF IInv

\* The inductive invariant holds, and with it the types of all variables.
THEOREM InvariantCorrect == Spec => []IInv
<1>1. Init => IInv
  BY InvInit
<1>2. IInv /\ [Next]_vars => IInv'
  BY InvStep
<1> QED
  BY <1>1, <1>2, PTL DEF Spec

THEOREM TypeCorrect == Spec => []TypeOK
<1>1. IInv => TypeOK
  BY DEF IInv
<1> QED
  BY <1>1, InvariantCorrect, PTL

\* The interceptor is only ever activated with a session of the bridge that has all
\* bootstrap rules, and that nothing but an end from outside can have taken away.
THEOREM PreparedCorrect == Spec => []ActivatedIsPrepared
<1>1. IInv => ActivatedIsPrepared
  <2> SUFFICES ASSUME IInv, NEW a \in Attempt, bridge[a].at = "activating"
               PROVE  LET s == bridge[a].session
                      IN  /\ s # NoSession
                          /\ owner[s] = "bridge" /\ portOf[s] = lab[a].port
                          /\ rules[s] = Rules
                          /\ Runs(s) \/ s \in ended
    BY DEF ActivatedIsPrepared
  <2>1. bridge[a].session \in Session \cup {NoSession}
    BY DEF IInv, TypeOK, BridgeTypeOK, BridgeRecord
  <2>2. bridge[a].session # NoSession /\ rules[bridge[a].session] = Rules
    BY DEF IInv, RulesInv
  <2>3. owner[bridge[a].session] = "bridge" /\ portOf[bridge[a].session] = lab[a].port
    BY <2>2 DEF IInv, HandleInv
  <2>4. Runs(bridge[a].session) \/ bridge[a].session \in ended
    BY <2>1, <2>2, <2>3 DEF IInv, SessionInv
  <2> QED
    BY <2>2, <2>3, <2>4
<1> QED
  BY <1>1, InvariantCorrect, PTL

\* No session that the bridge has started is lost while it runs.
THEOREM StartedCorrect == Spec => []StartedIsRegistered
<1>1. IInv => StartedIsRegistered
  BY DEF IInv
<1> QED
  BY <1>1, InvariantCorrect, PTL

\* The add-on's latest session runs, up to a stop that is about to be noted.
THEOREM LatestCorrect == Spec => []LatestRuns
<1>1. IInv => LatestRuns
  BY DEF IInv
<1> QED
  BY <1>1, InvariantCorrect, PTL

\* As long as its calls do not overlap, the add-on loses no session that it started, also when
\* attempts fail or their stop is refused (session-manager.ts:52-98).
THEOREM SessionKept == Spec => []SessionIsKept
<1>1. Init => AloneInv /\ SessionIsKept
  <2> SUFFICES ASSUME Init PROVE AloneInv /\ SessionIsKept
    OBVIOUS
  <2>1. \A c \in Caller : lab[c].at = "new"
    BY DEF Init
  <2>2. \A s \in Session : owner[s] = "nobody"
    BY DEF Init
  <2> QED
    BY <2>1, <2>2 DEF AloneInv, SessionIsKept, AtSession
<1>2. IInv /\ AloneInv /\ SessionIsKept /\ [Next]_vars => (AloneInv /\ SessionIsKept)'
  BY AloneStep DEF IInv
<1> QED
  BY <1>1, <1>2, InvariantCorrect, PTL DEF Spec

=============================================================================
