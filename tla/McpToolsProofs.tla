--------------------------- MODULE McpToolsProofs ---------------------------
(***************************************************************************)
(* Proofs about McpTools, for any operations and any number of launches.   *)
(***************************************************************************)
EXTENDS McpTools, TLAPS

(***************************************************************************)
(* The parts of the type invariant that steps disturb together: the        *)
(* client, and a launch with its refresh.                                  *)
(***************************************************************************)
ClientType == [request : {"none", "sent", "finding"}, listed : BOOLEAN, tools : ToolList,
               dirty : BOOLEAN, polled : BOOLEAN]
RefreshType == [stage : {"none", "asked", "answered"}, ops : SUBSET Op]

LaunchTypeOK ==
    /\ refresh \in [Slot -> RefreshType]
    /\ launch \in [Call -> Phase]
    /\ tries \in [Call -> Nat]
    /\ \A c \in Call : refresh[c].stage # "none" <=> launch[c] \in Refreshing

RestTypeOK ==
    /\ bridge \in [ready : BOOLEAN, ops : SUBSET Op]
    /\ changes \in Nat /\ timeouts \in Nat
    /\ cache \subseteq Op
    /\ lastKey \subseteq Op
    /\ open \in BOOLEAN

LEMMA TypeParts == TypeOK <=> LaunchTypeOK /\ RestTypeOK /\ client \in ClientType
BY DEF TypeOK, LaunchTypeOK, RestTypeOK, ClientType, RefreshType

LEMMA TypeJoined ==
    ASSUME LaunchTypeOK', RestTypeOK', client' \in ClientType
    PROVE  TypeOK'
BY DEF TypeOK, LaunchTypeOK, RestTypeOK, ClientType, RefreshType

LEMMA ToolsType == ASSUME NEW ops \in SUBSET Op PROVE Tools(ops) \in ToolList
BY ConstantAssumption DEF Tools, ToolList

LEMMA TypeInit == Init => TypeOK
<1> SUFFICES ASSUME Init PROVE TypeOK
    OBVIOUS
<1>1. refresh \in [Slot -> RefreshType]
  BY DEF Init, Asked, NoRefresh, RefreshType
<1>2. \A c \in Call : refresh[c] = NoRefresh
  BY ConstantAssumption DEF Init, Slot
<1>3. launch \in [Call -> Phase] /\ \A c \in Call : launch[c] \notin Refreshing
  BY DEF Init, Phase, Refreshing
<1>4. tries \in [Call -> Nat]
  BY ConstantAssumption DEF Init
<1>5. LaunchTypeOK
  BY <1>1, <1>2, <1>3, <1>4 DEF LaunchTypeOK, NoRefresh
<1>6. client \in ClientType
  BY DEF Init, ClientType, NotListed, ToolList
<1>7. RestTypeOK
  BY DEF Init, RestTypeOK
<1> QED BY <1>5, <1>6, <1>7, TypeParts

(***************************************************************************)
(* A slot is refreshed by its owner only: a launch is unaffected by the    *)
(* answers to others, and moves on when its own has come.                  *)
(***************************************************************************)

\* Another stage of the same request, or a request of no launch, leaves the
\* launches as they are.
LEMMA SlotFrame ==
    ASSUME LaunchTypeOK, UNCHANGED <<launch, tries>>,
           NEW r \in Slot, NEW v \in RefreshType, refresh' = [refresh EXCEPT ![r] = v],
           r \in Call => (v.stage # "none" <=> refresh[r].stage # "none")
    PROVE  LaunchTypeOK'
<1>1. refresh' \in [Slot -> RefreshType]
  BY DEF LaunchTypeOK
<1>2. ASSUME NEW c \in Call PROVE refresh'[c].stage # "none" <=> refresh[c].stage # "none"
  BY DEF LaunchTypeOK, Slot
<1> QED BY <1>1, <1>2 DEF LaunchTypeOK

LEMMA LaunchFrame ==
    ASSUME LaunchTypeOK, UNCHANGED <<refresh, launch, tries>>
    PROVE  LaunchTypeOK'
BY DEF LaunchTypeOK

\* A step of the launch c, which takes its request along.
LEMMA LaunchMoves ==
    ASSUME LaunchTypeOK, NEW c \in Call, NEW p \in Phase, NEW v \in RefreshType,
           To(c, p), refresh' = [refresh EXCEPT ![c] = v],
           v.stage # "none" <=> p \in Refreshing,
           tries' \in [Call -> Nat]
    PROVE  LaunchTypeOK'
<1>1. c \in Slot
  BY DEF Slot
<1>2. refresh' \in [Slot -> RefreshType] /\ launch' \in [Call -> Phase]
  BY <1>1 DEF LaunchTypeOK, To
<1>3. ASSUME NEW d \in Call PROVE refresh'[d].stage # "none" <=> launch'[d] \in Refreshing
  <2>1. CASE d = c
    BY <1>1, <2>1 DEF LaunchTypeOK, To
  <2>2. CASE d # c
    BY <1>1, <2>2 DEF LaunchTypeOK, To, Slot
  <2> QED BY <2>1, <2>2
<1> QED BY <1>2, <1>3 DEF LaunchTypeOK

\* The same for a step that has no request before or after.
LEMMA LaunchMovesOn ==
    ASSUME LaunchTypeOK, NEW c \in Call, NEW p \in Phase, To(c, p),
           UNCHANGED <<refresh, tries>>, launch[c] \notin Refreshing, p \notin Refreshing
    PROVE  LaunchTypeOK'
<1>1. refresh' = [refresh EXCEPT ![c] = refresh[c]]
  BY DEF LaunchTypeOK, Slot
<1>2. refresh[c] \in RefreshType /\ refresh[c].stage = "none"
  BY DEF LaunchTypeOK, Slot
<1> QED BY <1>1, <1>2, LaunchMoves DEF LaunchTypeOK

LEMMA RequestTypes == Asked \in RefreshType /\ NoRefresh \in RefreshType
                      /\ Asked.stage = "asked" /\ NoRefresh.stage = "none"
BY DEF Asked, NoRefresh, RefreshType

LEMMA SlotStep ==
    ASSUME TypeOK, NEW r \in Slot, Answer(r) \/ TimeOut(r)
    PROVE  TypeOK'
<1>1. PICK v \in RefreshType : refresh' = [refresh EXCEPT ![r] = v] /\ v.stage = "answered"
  BY DEF Answer, TimeOut, RefreshType, TypeOK
<1>2. refresh[r].stage = "asked"
  BY DEF Answer, TimeOut
<1>3. LaunchTypeOK'
  BY <1>1, <1>2, SlotFrame, TypeParts DEF Answer, TimeOut
<1> QED BY <1>3, TypeParts, TypeJoined DEF Answer, TimeOut, RestTypeOK

LEMMA BackgroundStep ==
    ASSUME TypeOK, InitialRefreshed \/ Poll \/ Polled
    PROVE  TypeOK'
<1>1. PICK r \in {"initial", "poll"}, v \in RefreshType : refresh' = [refresh EXCEPT ![r] = v]
  BY RequestTypes DEF InitialRefreshed, Poll, Polled, Refreshed, Ask
<1>2. r \in Slot /\ r \notin Call
  BY ConstantAssumption DEF Slot
<1>3. LaunchTypeOK'
  BY <1>1, <1>2, SlotFrame, TypeParts DEF InitialRefreshed, Poll, Polled
<1>4. \A s \in Slot : refresh[s].ops \subseteq Op
  BY DEF TypeOK
<1>5. RestTypeOK'
  BY <1>4, TypeParts DEF InitialRefreshed, Poll, Polled, Refreshed, RestTypeOK, Slot
<1>6. client' \in ClientType
  BY TypeParts DEF InitialRefreshed, Poll, Polled, ClientType
<1> QED BY <1>3, <1>5, <1>6, TypeParts, TypeJoined

LEMMA ListStep ==
    ASSUME TypeOK, ListTools \/ ReadCache \/ ListLaunch
    PROVE  TypeOK'
<1>1. Tools(cache) \in ToolList /\ Tools({}) \in ToolList
  BY ToolsType DEF TypeOK
<1>2. client' \in ClientType
  BY <1>1, TypeParts DEF ListTools, ReadCache, ListLaunch, ClientType
<1>3. LaunchTypeOK'
  BY LaunchFrame, TypeParts DEF ListTools, ReadCache, ListLaunch
<1> QED BY <1>2, <1>3, TypeParts, TypeJoined DEF ListTools, ReadCache, ListLaunch, RestTypeOK

LEMMA LaunchTypeStep ==
    ASSUME TypeOK, NEW c \in Call, StartHttpToolkit(c) \/ LaunchStep(c)
    PROVE  TypeOK'
<1>1. c \in Slot /\ LaunchTypeOK
  BY TypeParts DEF Slot
<1>2. ASSUME StartHttpToolkit(c) PROVE LaunchTypeOK' /\ cache' = cache
  BY <1>1, <1>2, LaunchMoves, RequestTypes
  DEF StartHttpToolkit, Ask, Phase, Refreshing, LaunchTypeOK
<1>3. ASSUME LaunchRefreshed(c) PROVE LaunchTypeOK' /\ cache' \subseteq Op
  <2>1. launch[c] \in Refreshing
    BY <1>1, <1>3 DEF LaunchRefreshed, Refreshed, LaunchTypeOK
  <2>2. NextPhase(c) \in Phase /\ NextPhase(c) \notin Refreshing
    BY <2>1 DEF NextPhase, Phase, Refreshing
  <2>3. LaunchTypeOK'
    BY <1>1, <1>3, <2>2, LaunchMoves, RequestTypes DEF LaunchRefreshed, Refreshed, LaunchTypeOK
  <2>4. refresh[c].ops \subseteq Op
    BY <1>1 DEF LaunchTypeOK, RefreshType
  <2> QED BY <1>3, <2>3, <2>4 DEF LaunchRefreshed, Refreshed
<1>4. ASSUME NEW answered \in BOOLEAN, FirstStatus(c, answered)
      PROVE  LaunchTypeOK' /\ cache' = cache
  <2>1. CASE answered /\ bridge.ready
    BY <1>1, <1>4, <2>1, LaunchMoves, RequestTypes
    DEF FirstStatus, Ask, Phase, Refreshing, LaunchTypeOK
  <2>2. CASE ~(answered /\ bridge.ready)
    BY <1>1, <1>4, <2>2, LaunchMovesOn DEF FirstStatus, Phase, Refreshing
  <2> QED BY <1>4, <2>1, <2>2 DEF FirstStatus
<1>5. ASSUME FindApp(c) PROVE LaunchTypeOK' /\ cache' = cache
  BY <1>1, <1>5, LaunchMovesOn DEF FindApp, Phase, Refreshing
<1>6. ASSUME Delay(c) PROVE LaunchTypeOK' /\ cache' = cache
  <2>1. tries' \in [Call -> Nat]
    BY <1>1, <1>6 DEF Delay, LaunchTypeOK
  <2> QED BY <1>1, <1>6, <2>1, LaunchMoves, RequestTypes
          DEF Delay, Ask, Phase, Refreshing
<1>7. ASSUME NEW answered \in BOOLEAN, LoopStatus(c, answered)
      PROVE  LaunchTypeOK' /\ cache' = cache
  <2>1. PICK p \in {"ready", "delay", "failed"} : To(c, p)
    BY <1>7 DEF LoopStatus
  <2> QED BY <1>1, <1>7, <2>1, LaunchMovesOn DEF LoopStatus, Phase, Refreshing
<1>8. LaunchTypeOK' /\ cache' \subseteq Op
  BY <1>2, <1>3, <1>4, <1>5, <1>6, <1>7, TypeParts DEF LaunchStep, RestTypeOK
<1>9. UNCHANGED <<bridge, changes, timeouts, lastKey, client, open>>
  BY DEF StartHttpToolkit, LaunchStep, LaunchRefreshed, FirstStatus, FindApp, Delay, LoopStatus
<1> QED BY <1>8, <1>9, TypeParts, TypeJoined DEF RestTypeOK

LEMMA TypeStep == TypeOK /\ [Next]_vars => TypeOK'
<1> SUFFICES ASSUME TypeOK, [Next]_vars PROVE TypeOK'
    OBVIOUS
<1>1. ASSUME NEW b \in [ready : BOOLEAN, ops : SUBSET Op], BridgeChanges(b) PROVE TypeOK'
  <2>1. RestTypeOK'
    BY <1>1, TypeParts DEF BridgeChanges, RestTypeOK
  <2> QED BY <1>1, <2>1, LaunchFrame, TypeParts, TypeJoined DEF BridgeChanges
<1>2. CASE Close
  BY <1>2, LaunchFrame, TypeParts, TypeJoined DEF Close, RestTypeOK
<1>3. CASE UNCHANGED vars
  BY <1>3, LaunchFrame, TypeParts, TypeJoined DEF vars, RestTypeOK
<1> QED BY <1>1, <1>2, <1>3, SlotStep, BackgroundStep, ListStep, LaunchTypeStep DEF Next

\* The variables keep to their types, and a launch has a request of its own in
\* flight exactly while it awaits a refresh.
THEOREM TypeCorrect == Spec => []TypeOK
<1>1. Init => TypeOK
  BY TypeInit
<1>2. TypeOK /\ [Next]_vars => TypeOK'
  BY TypeStep
<1> QED BY <1>1, <1>2, PTL DEF Spec

(***************************************************************************)
(* The lists clients hold.                                                 *)
(***************************************************************************)
Watched == PolledListIsWatched /\ PolledReadIsWatched

\* A poll tells the client of any difference, whenever it comes.
LEMMA PolledStep ==
    ASSUME TypeOK, Watched, Polled
    PROVE  Watched'
<1>1. client' = [client EXCEPT !.dirty = client.dirty \/ lastKey' # lastKey]
  BY DEF Polled
<1>2. client \in ClientType
  BY TypeParts
<1>3. client'.dirty <=> client.dirty \/ lastKey' # lastKey
  BY <1>1, <1>2 DEF ClientType
<1>4. /\ client'.request = client.request /\ client'.polled = client.polled
      /\ client'.listed = client.listed /\ client'.tools = client.tools
  BY <1>1, <1>2 DEF ClientType
<1> QED BY <1>3, <1>4 DEF Watched, PolledListIsWatched, PolledReadIsWatched

\* A list is read from the cache at once, or found empty and answered later.
LEMMA ListedStep ==
    ASSUME TypeOK, Watched, ListTools \/ ReadCache \/ ListLaunch
    PROVE  Watched'
<1>1. client \in ClientType
  BY TypeParts
<1>2. CASE ListTools
  <2>1. client'.request = "sent"
    BY <1>1, <1>2 DEF ListTools, ClientType
  <2> QED BY <2>1 DEF Watched, PolledListIsWatched, PolledReadIsWatched
<1>3. CASE ReadCache
  <2>1. client'.polled <=> cache = lastKey
    BY <1>1, <1>3 DEF ReadCache, ClientType
  <2>2. cache # {} => client'.request = "none" /\ client'.tools.ops = cache
    BY <1>1, <1>3 DEF ReadCache, ClientType, Tools
  <2>3. cache = {} => client'.request = "finding"
    BY <1>1, <1>3 DEF ReadCache, ClientType
  <2>4. lastKey' = lastKey
    BY <1>3 DEF ReadCache
  <2> QED BY <2>1, <2>2, <2>3, <2>4 DEF Watched, PolledListIsWatched, PolledReadIsWatched
<1>4. CASE ListLaunch
  <2>1. /\ client.request = "finding"
        /\ client'.request = "none" /\ client'.tools.ops = {}
        /\ client'.polled = client.polled /\ client'.dirty = client.dirty
        /\ lastKey' = lastKey
    BY <1>1, <1>4 DEF ListLaunch, ClientType, Tools
  <2> QED BY <2>1 DEF Watched, PolledListIsWatched, PolledReadIsWatched
<1> QED BY <1>2, <1>3, <1>4

LEMMA IInvStep == IInv /\ [Next]_vars => IInv'
<1> SUFFICES ASSUME IInv, [Next]_vars PROVE IInv'
    OBVIOUS
<1>1. TypeOK /\ Watched /\ TypeOK'
  BY TypeStep DEF IInv, Watched
<1>2. ASSUME UNCHANGED <<lastKey, client>> PROVE Watched'
  BY <1>1, <1>2 DEF Watched, PolledListIsWatched, PolledReadIsWatched
<1>3. CASE Polled \/ ListTools \/ ReadCache \/ ListLaunch
  BY <1>1, <1>3, PolledStep, ListedStep DEF IInv, Watched
<1>4. CASE ~(Polled \/ ListTools \/ ReadCache \/ ListLaunch)
  <2>1. UNCHANGED <<lastKey, client>>
    BY <1>4 DEF Next, vars, BridgeChanges, Answer, TimeOut, InitialRefreshed, Poll,
           StartHttpToolkit, LaunchStep, LaunchRefreshed, FirstStatus, FindApp, Delay,
           LoopStatus, Close
  <2> QED BY <1>1, <1>2, <2>1 DEF IInv, Watched
<1> QED BY <1>3, <1>4

\* A list read when the cache agreed with the last poll is current, or the
\* client has been told.
THEOREM InvariantCorrect == Spec => []IInv
<1>1. Init => IInv
  BY TypeInit DEF IInv, Init, PolledListIsWatched, PolledReadIsWatched
<1>2. IInv /\ [Next]_vars => IInv'
  BY IInvStep
<1> QED BY <1>1, <1>2, PTL DEF Spec

\* The same, for the list that the client has.
THEOREM ListWatched == Spec => []PolledListIsWatched
<1>1. IInv => PolledListIsWatched
  BY DEF IInv
<1> QED BY <1>1, InvariantCorrect, PTL

=============================================================================
