--------------------------- MODULE UiBridgeProofs ---------------------------
(***************************************************************************)
(* Theorems about UiBridge, for every set of channels, requests and        *)
(* operation lists.                                                        *)
(***************************************************************************)
EXTENDS UiBridge, SequenceTheorems, TLAPS

\* The splice that removes a channel: what is left, and in which order.
LEMMA WithoutProperties ==
    ASSUME NEW S, NEW s \in Seq(S), NEW i \in DOMAIN s
    PROVE  /\ Without(s, i) \in Seq(S)
           /\ Len(Without(s, i)) = Len(s) - 1
           /\ DOMAIN Without(s, i) = 1 .. Len(s) - 1
           /\ \A j \in 1 .. Len(s) - 1 :
                Without(s, i)[j] = IF j < i THEN s[j] ELSE s[j + 1]
<1>1. Len(s) \in Nat /\ DOMAIN s = 1 .. Len(s) /\ s \in [1 .. Len(s) -> S]
  BY LenProperties
<1>2. Len(s) - 1 \in Nat
  BY <1>1
<1> DEFINE e(j) == IF j < i THEN s[j] ELSE s[j + 1]
<1>3. \A j \in 1 .. Len(s) - 1 : e(j) \in S
  BY <1>1
<1>4. Without(s, i) = [j \in 1 .. Len(s) - 1 |-> e(j)]
  BY DEF Without
<1> HIDE DEF e
<1>5. Without(s, i) \in [1 .. Len(s) - 1 -> S]
  BY <1>3, <1>4
<1>6. Without(s, i) \in Seq(S)
  BY <1>2, <1>5
<1>7. Len(Without(s, i)) = Len(s) - 1
  BY <1>2, <1>4, <1>6
<1>8. \A j \in 1 .. Len(s) - 1 : Without(s, i)[j] = e(j)
  BY <1>4
<1> QED
  BY <1>4, <1>6, <1>7, <1>8 DEF e

\* There is a primary exactly when the list is not empty, and it is a channel.
LEMMA PrimaryType ==
    ASSUME channels \in Seq(Channel), HasPrimary
    PROVE  /\ 1 \in DOMAIN channels
           /\ Primary \in Channel
<1>1. Len(channels) \in Nat \ {0} /\ DOMAIN channels = 1 .. Len(channels)
  BY EmptySeq, LenProperties DEF HasPrimary
<1>2. channels[1] \in Channel
  BY <1>1, ElementOfSeq
<1> QED
  BY <1>1, <1>2 DEF Primary

LEMMA TypeInit == Init => TypeOK
<1> SUFFICES ASSUME Init PROVE TypeOK
  OBVIOUS
<1>1. <<>> \in Seq(Channel)
  BY EmptySeq
<1> QED
  BY <1>1, OpListAssumption
  DEF Init, TypeOK, ChannelTypeOK, RequestTypeOK, HistoryTypeOK

LEMMA TypeStep == TypeOK /\ [Next]_vars => TypeOK'
<1> SUFFICES ASSUME TypeOK, [Next]_vars PROVE TypeOK'
  OBVIOUS
<1> USE DEF TypeOK
<1>a. UNCHANGED chanVars => ChannelTypeOK'
  BY DEF ChannelTypeOK, chanVars
<1>b. UNCHANGED reqVars => RequestTypeOK'
  BY DEF RequestTypeOK, reqVars
<1>c. UNCHANGED histVars => HistoryTypeOK'
  BY DEF HistoryTypeOK, histVars
<1>d. ASSUME NEW r \in Request, NEW status \in {0, 200, 400, 403, 500, 502, 503},
             Answer(r, status), UNCHANGED <<heard, tokenShown, intent>>
      PROVE  RequestTypeOK' /\ HistoryTypeOK'
  BY <1>d DEF Answer, RequestTypeOK, HistoryTypeOK
<1>e. RejectAllPending => RequestTypeOK'
  BY DEF RejectAllPending, RequestTypeOK
<1>f. Emit => heard' \in BOOLEAN
  BY DEF Emit, IsReady
<1>1. ASSUME NEW c \in Channel, Connect(c) PROVE TypeOK'
  <2>1. Append(channels, c) \in Seq(Channel)
    BY DEF ChannelTypeOK
  <2>2. ChannelTypeOK'
    BY <1>1, <2>1 DEF Connect, ChannelTypeOK
  <2> QED
    BY <1>1, <2>2, <1>b, <1>c DEF Connect
<1>2. ASSUME NEW c \in Channel, NEW l \in OpList, OperationsMessage(c, l) PROVE TypeOK'
  <2>1. ChannelTypeOK'
    BY <1>2 DEF OperationsMessage, ApplyOperations, ChannelTypeOK
  <2>2. HistoryTypeOK'
    BY <1>2, <1>f DEF OperationsMessage, ApplyOperations, HistoryTypeOK
  <2> QED
    BY <1>2, <2>1, <2>2, <1>b DEF OperationsMessage
<1>3. ASSUME NEW c \in Channel, NEW t \in BOOLEAN,
             NEW jwt \in {"loggedOut", "malformed", "token"}, AuthMessage(c, t, jwt)
      PROVE  TypeOK'
  <2>1. /\ UNCHANGED <<channels, reqVars, destroyed, exposed>>
        /\ authSeq' = [authSeq EXCEPT ![c] = @ + 1]
        /\ authSeq' \in [Channel -> Nat]
        /\ \/ RejectToken(c)
           \/ /\ tokenShown' \in {tokenShown, tokenShown \cup {c}}
              /\ LogOut(c) \/ RejectMalformedJwt(c) \/ StartValidation(c)
    BY <1>3 DEF AuthMessage, ChannelTypeOK
  <2>2. tokenShown' \subseteq Channel
    BY <2>1 DEF RejectToken, HistoryTypeOK
  <2>3. NoInitialAuth =>
          /\ heard' \in BOOLEAN
          /\ operations' \in [Channel -> OpList]
          /\ pendingOps' \in [Channel -> OpList \cup {None}]
          /\ authenticated' \in [Channel -> BOOLEAN]
    BY DEF NoInitialAuth, ChannelTypeOK, HistoryTypeOK
  <2>4. CompleteInitialAuth(c) =>
          /\ heard' \in BOOLEAN
          /\ operations' \in [Channel -> OpList]
          /\ pendingOps' \in [Channel -> OpList \cup {None}]
          /\ authenticated' \in [Channel -> BOOLEAN]
    BY <1>f DEF CompleteInitialAuth, ApplyOperations, ChannelTypeOK, HistoryTypeOK
  <2>5. CASE RejectToken(c)
    <3>1. ChannelTypeOK'
      BY <2>1, <2>3, <2>5 DEF RejectToken, CloseSocket, ChannelTypeOK
    <3>2. HistoryTypeOK'
      BY <2>1, <2>2, <2>3, <2>5 DEF RejectToken, HistoryTypeOK
    <3> QED
      BY <2>1, <3>1, <3>2, <1>b
  <2>6. CASE LogOut(c)
    <3>1. ChannelTypeOK'
      BY <2>1, <2>3, <2>4, <2>6 DEF LogOut, ChannelTypeOK
    <3>2. HistoryTypeOK'
      BY <2>1, <2>2, <2>3, <2>4, <2>6 DEF LogOut, HistoryTypeOK
    <3> QED
      BY <2>1, <3>1, <3>2, <1>b
  <2>7. CASE RejectMalformedJwt(c)
    <3>1. ChannelTypeOK'
      BY <2>1, <2>3, <2>7 DEF RejectMalformedJwt, CloseSocket, ChannelTypeOK
    <3>2. HistoryTypeOK'
      BY <2>1, <2>2, <2>3, <2>7 DEF RejectMalformedJwt, HistoryTypeOK
    <3> QED
      BY <2>1, <3>1, <3>2, <1>b
  <2>8. CASE StartValidation(c)
    <3>1. validating' \subseteq Validation
      <4>1. authSeq[c] + 1 \in Nat /\ (~authenticated[c]) \in BOOLEAN
        BY DEF ChannelTypeOK
      <4>2. [ch |-> c, seq |-> authSeq[c] + 1, first |-> ~authenticated[c]] \in Validation
        BY <4>1 DEF Validation
      <4> QED
        BY <2>8, <4>2 DEF StartValidation, ChannelTypeOK
    <3>2. ChannelTypeOK'
      BY <2>1, <2>3, <2>8, <3>1 DEF StartValidation, ChannelTypeOK
    <3>3. HistoryTypeOK'
      BY <2>1, <2>2, <2>3, <2>8 DEF StartValidation, HistoryTypeOK
    <3> QED
      BY <2>1, <3>2, <3>3, <1>b
  <2> QED
    BY <2>1, <2>5, <2>6, <2>7, <2>8
<1>4. ASSUME NEW v \in validating, NEW u \in {"free", "paid"}, ValidationSucceeds(v, u)
      PROVE  TypeOK'
  <2>1. v.ch \in Channel
    BY DEF ChannelTypeOK, Validation
  <2>2. /\ operations' \in [Channel -> OpList]
        /\ pendingOps' \in [Channel -> OpList \cup {None}]
        /\ authenticated' \in [Channel -> BOOLEAN]
    BY <1>4, <2>1 DEF ValidationSucceeds, CompleteInitialAuth, NoInitialAuth,
                      ApplyOperations, ChannelTypeOK
  <2>3. ChannelTypeOK'
    BY <1>4, <2>1, <2>2 DEF ValidationSucceeds, ChannelTypeOK
  <2>4. HistoryTypeOK'
    BY <1>4, <1>f DEF ValidationSucceeds, CompleteInitialAuth, NoInitialAuth,
                           ApplyOperations, HistoryTypeOK
  <2> QED
    BY <1>4, <2>3, <2>4, <1>b DEF ValidationSucceeds
<1>5. ASSUME NEW v \in validating, ValidationFails(v) PROVE TypeOK'
  <2>1. v.ch \in Channel
    BY DEF ChannelTypeOK, Validation
  <2>2. ChannelTypeOK'
    BY <1>5, <2>1 DEF ValidationFails, CloseSocket, ChannelTypeOK
  <2> QED
    BY <1>5, <2>2, <1>b, <1>c DEF ValidationFails
<1>6. ASSUME NEW c \in Channel, PeerCloses(c) PROVE TypeOK'
  <2>1. ChannelTypeOK'
    BY <1>6 DEF PeerCloses, ChannelTypeOK
  <2> QED
    BY <1>6, <2>1, <1>b, <1>c DEF PeerCloses
<1>7. ASSUME NEW c \in Channel, ChannelClose(c) PROVE TypeOK'
  <2>1. PICK i \in DOMAIN channels : channels' = Without(channels, i)
    BY <1>7 DEF ChannelClose
  <2>2. channels' \in Seq(Channel)
    BY <2>1, WithoutProperties DEF ChannelTypeOK
  <2>3. ChannelTypeOK'
    BY <1>7, <2>2 DEF ChannelClose, ChannelTypeOK
  <2>4. RequestTypeOK'
    BY <1>7, <1>b, <1>e DEF ChannelClose
  <2>5. HistoryTypeOK'
    BY <1>7, <1>f DEF ChannelClose, HistoryTypeOK
  <2> QED
    BY <1>7, <2>3, <2>4, <2>5 DEF ChannelClose
<1>8. ASSUME ListOperations PROVE TypeOK'
  <2>1. Primary \in Channel
    BY <1>8, PrimaryType DEF ListOperations, IsReady, ChannelTypeOK
  <2>2. HistoryTypeOK'
    BY <1>8, <2>1 DEF ListOperations, HistoryTypeOK
  <2> QED
    BY <1>8, <2>2, <1>a, <1>b DEF ListOperations
<1>9. ASSUME NEW r \in Request, ApiExecute(r) PROVE TypeOK'
  <2>1. RequestTypeOK' /\ HistoryTypeOK'
    BY <1>9 DEF ApiExecute, Answer, RequestTypeOK, HistoryTypeOK
  <2> QED
    BY <1>9, <2>1, <1>a DEF ApiExecute
<1>10. ASSUME NEW r \in Request, BodyRead(r) PROVE TypeOK'
  <2>1. ASSUME IsReady PROVE Primary \in Channel
    BY <2>1, PrimaryType DEF IsReady, ChannelTypeOK
  <2>2. RequestTypeOK' /\ HistoryTypeOK'
    BY <1>10, <2>1 DEF BodyRead, ExecuteOperation, Answer, RequestTypeOK, HistoryTypeOK
  <2> QED
    BY <1>10, <2>2, <1>a DEF BodyRead
<1>11. ASSUME NEW r \in Request, BodyFails(r) PROVE TypeOK'
  BY <1>11, <1>a, <1>d DEF BodyFails
<1>12. ASSUME NEW r \in Request, NEW ok \in BOOLEAN, Response(r, ok) PROVE TypeOK'
  BY <1>12, <1>a, <1>d DEF Response
<1>13. ASSUME NEW r \in Request, RequestTimeout(r) PROVE TypeOK'
  BY <1>13, <1>a, <1>d DEF RequestTimeout
<1>14. ASSUME Destroy PROVE TypeOK'
  <2>1. <<>> \in Seq(Channel)
    BY EmptySeq
  <2>2. ChannelTypeOK'
    BY <1>14, <2>1 DEF Destroy, ChannelTypeOK
  <2> QED
    BY <1>14, <2>2, <1>c, <1>e DEF Destroy
<1>15. ASSUME UNCHANGED vars PROVE TypeOK'
  BY <1>15, <1>a, <1>b, <1>c DEF vars
<1> QED
  BY <1>1, <1>2, <1>3, <1>4, <1>5, <1>6, <1>7, <1>8, <1>9, <1>10, <1>11, <1>12, <1>13,
     <1>14, <1>15 DEF Next

\* Every variable keeps its type in every behaviour of the bridge.
THEOREM TypeCorrect == Spec => []TypeOK
BY TypeInit, TypeStep, PTL DEF Spec

(***************************************************************************)
(* Authentication.                                                         *)
(***************************************************************************)
AuthPart ==
    /\ \A c \in Channel : ChannelAuthInv(c)
    /\ \A v \in validating : ValidationInv(v)
    /\ LatestAuthWins

\* The five ways an auth message and its validation end.  An auth message makes
\* every validation in flight stale: its number is new.
LEMMA AuthMessageStep ==
    ASSUME IInv, NEW c \in Channel, NEW t \in BOOLEAN,
           NEW jwt \in {"loggedOut", "malformed", "token"}, AuthMessage(c, t, jwt)
    PROVE  AuthPart'
<1> USE DEF IInv, TypeOK, ChannelTypeOK, HistoryTypeOK, AuthPart
<1>1. /\ authSeq' = [authSeq EXCEPT ![c] = @ + 1]
      /\ tokenShown \subseteq tokenShown'
      /\ ws[c] # "none"
      /\ \/ RejectToken(c) /\ ~authenticated[c]
         \/ /\ ~authenticated[c] => c \in tokenShown'
            /\ LogOut(c) \/ RejectMalformedJwt(c) \/ StartValidation(c)
  BY DEF AuthMessage, RejectToken, Receiving
<1>2. \A v \in validating :
        /\ v.ch \in Channel /\ v.seq \in Nat /\ authSeq[v.ch] \in Nat
        /\ v.seq <= authSeq'[v.ch]
        /\ v.seq = authSeq'[v.ch] => v.ch # c /\ intent[v.ch] = "token"
        /\ IF v.first THEN v.ch \in tokenShown' ELSE authenticated[v.ch]
  <2> SUFFICES ASSUME NEW v \in validating
               PROVE  /\ v.ch \in Channel /\ v.seq \in Nat /\ authSeq[v.ch] \in Nat
                      /\ v.seq <= authSeq'[v.ch]
                      /\ v.seq = authSeq'[v.ch] => v.ch # c /\ intent[v.ch] = "token"
                      /\ IF v.first THEN v.ch \in tokenShown' ELSE authenticated[v.ch]
    OBVIOUS
  <2>1. v.ch \in Channel /\ v.seq \in Nat /\ authSeq[v.ch] \in Nat
    BY DEF Validation
  <2>2. ValidationInv(v)
    OBVIOUS
  <2> QED
    BY <1>1, <2>1, <2>2 DEF ValidationInv
<1>3. ASSUME NoInitialAuth \/ CompleteInitialAuth(c),
             \A d \in Channel : authenticated[d] => authenticated'[d],
             UNCHANGED validating, 
             \A d \in Channel : d # c => intent'[d] = intent[d]
      PROVE  \A v \in validating' : ValidationInv(v)'
  BY <1>2, <1>3 DEF ValidationInv
<1>4. CASE RejectToken(c)
  <2>1. /\ NoInitialAuth
        /\ UNCHANGED <<user, validating>>
        /\ intent' = [intent EXCEPT ![c] = "rejected"]
        /\ ws' = [ws EXCEPT ![c] = IF @ = "open" THEN "closing" ELSE @]
        /\ ~authenticated[c]
    BY <1>1, <1>4 DEF RejectToken, CloseSocket, LogOut, RejectMalformedJwt,
                      StartValidation
  <2>2. \A v \in validating' : ValidationInv(v)'
    BY <1>3, <2>1 DEF NoInitialAuth
  <2>3. \A d \in Channel : ChannelAuthInv(d)'
    BY <1>1, <2>1 DEF NoInitialAuth, ChannelAuthInv
  <2>4. LatestAuthWins'
    BY <2>1 DEF LatestAuthWins, ChannelAuthInv
  <2> QED
    BY <2>2, <2>3, <2>4
<1>5. CASE LogOut(c) /\ (~authenticated[c] => c \in tokenShown')
  <2>1. /\ UNCHANGED <<ws, validating>>
        /\ intent' = [intent EXCEPT ![c] = "loggedOut"]
        /\ user' = [user EXCEPT ![c] = "none"]
        /\ IF authenticated[c] THEN NoInitialAuth ELSE CompleteInitialAuth(c)
    BY <1>5 DEF LogOut
  <2>2. /\ authenticated' = [authenticated EXCEPT ![c] = TRUE]
        /\ \A d \in Channel : d # c => operations'[d] = operations[d]
    BY <2>1 DEF NoInitialAuth, CompleteInitialAuth, ApplyOperations
  <2>3. \A v \in validating' : ValidationInv(v)'
    BY <1>3, <2>1, <2>2
  <2>4. \A d \in Channel : ChannelAuthInv(d)'
    BY <1>1, <1>5, <2>1, <2>2 DEF ChannelAuthInv
  <2>5. LatestAuthWins'
    BY <2>1 DEF LatestAuthWins
  <2> QED
    BY <2>3, <2>4, <2>5
<1>6. CASE RejectMalformedJwt(c)
  <2>1. /\ NoInitialAuth
        /\ UNCHANGED validating
        /\ user' = [user EXCEPT ![c] = "none"]
        /\ intent' = [intent EXCEPT ![c] = "malformed"]
        /\ ws' = [ws EXCEPT ![c] = IF @ = "open" THEN "closing" ELSE @]
    BY <1>6 DEF RejectMalformedJwt, CloseSocket
  <2>2. \A v \in validating' : ValidationInv(v)'
    BY <1>3, <2>1 DEF NoInitialAuth
  <2>3. \A d \in Channel : ChannelAuthInv(d)'
    BY <1>1, <2>1 DEF NoInitialAuth, ChannelAuthInv
  <2>4. LatestAuthWins'
    BY <2>1 DEF LatestAuthWins
  <2> QED
    BY <2>2, <2>3, <2>4
<1>7. CASE StartValidation(c) /\ (~authenticated[c] => c \in tokenShown')
  <2>0. PICK new : new = [ch |-> c, seq |-> authSeq[c] + 1, first |-> ~authenticated[c]]
    OBVIOUS
  <2>1. /\ NoInitialAuth
        /\ UNCHANGED <<ws, user>>
        /\ validating' = validating \cup {new}
        /\ intent' = [intent EXCEPT ![c] = "token"]
    BY <1>7, <2>0 DEF StartValidation
  <2>2. ValidationInv(new)'
    <3>1. /\ new.ch = c /\ new.seq = authSeq[c] + 1
          /\ IF new.first THEN ~authenticated[c] ELSE authenticated[c]
      BY <2>0
    <3>2. authSeq'[c] = authSeq[c] + 1 /\ authSeq[c] \in Nat
      BY <1>1
    <3>3. new.seq <= authSeq'[new.ch] /\ intent'[new.ch] = "token"
      BY <2>1, <3>1, <3>2
    <3>4. IF new.first THEN new.ch \in tokenShown' ELSE authenticated'[new.ch]
      BY <1>7, <2>1, <3>1 DEF NoInitialAuth
    <3> QED
      BY <3>3, <3>4 DEF ValidationInv
  <2>3. \A v \in validating : ValidationInv(v)'
    BY <1>2, <2>1 DEF NoInitialAuth, ValidationInv
  <2>4. \A d \in Channel : ChannelAuthInv(d)'
    BY <1>1, <2>1 DEF NoInitialAuth, ChannelAuthInv
  <2>5. LatestAuthWins'
    BY <2>1 DEF LatestAuthWins
  <2> QED
    BY <2>1, <2>2, <2>3, <2>4, <2>5
<1> QED
  BY <1>1, <1>4, <1>5, <1>6, <1>7

LEMMA ValidationSucceedsStep ==
    ASSUME IInv, NEW v \in validating, NEW u \in {"free", "paid"}, ValidationSucceeds(v, u)
    PROVE  AuthPart'
<1> USE DEF IInv, TypeOK, ChannelTypeOK, HistoryTypeOK, AuthPart
<1>1. v.ch \in Channel /\ ValidationInv(v)
  BY DEF Validation
<1>2. /\ validating' = validating \ {v}
      /\ UNCHANGED <<ws, authSeq, tokenShown, intent>>
  BY DEF ValidationSucceeds
<1>3. CASE ~Current(v)
  <2>1. UNCHANGED <<user, authenticated, operations>>
    BY <1>3 DEF ValidationSucceeds, NoInitialAuth
  <2> QED
    BY <1>2, <2>1 DEF ChannelAuthInv, ValidationInv, LatestAuthWins
<1>4. CASE Current(v)
  <2>1. /\ ws[v.ch] = "open"
        /\ intent[v.ch] = "token"
        /\ user' = [user EXCEPT ![v.ch] = u]
        /\ IF v.first THEN CompleteInitialAuth(v.ch) ELSE NoInitialAuth
    BY <1>1, <1>4 DEF Current, ValidationSucceeds, ValidationInv
  <2>2. /\ authenticated' = [authenticated EXCEPT ![v.ch] = TRUE]
        /\ \A d \in Channel : d # v.ch => operations'[d] = operations[d]
    BY <1>1, <2>1 DEF NoInitialAuth, CompleteInitialAuth, ApplyOperations, ValidationInv
  <2>3. v.ch \in tokenShown
    BY <1>1 DEF ValidationInv, ChannelAuthInv
  <2>4. \A d \in Channel : ChannelAuthInv(d)'
    BY <1>1, <1>2, <2>1, <2>2, <2>3 DEF ChannelAuthInv
  <2>5. \A w \in validating' : ValidationInv(w)'
    <3> SUFFICES ASSUME NEW w \in validating PROVE ValidationInv(w)'
      BY <1>2
    <3>1. w.ch \in Channel /\ ValidationInv(w)
      BY DEF Validation
    <3> QED
      BY <1>2, <2>2, <3>1 DEF ValidationInv
  <2>6. LatestAuthWins'
    BY <1>1, <1>2, <2>1 DEF LatestAuthWins
  <2> QED
    BY <2>4, <2>5, <2>6
<1> QED
  BY <1>3, <1>4

\* Every other action leaves the accounts and the auth state alone, or clears
\* the account of a refused channel.
LEMMA AuthStep == IInv /\ [Next]_vars => AuthPart'
<1> SUFFICES ASSUME IInv, [Next]_vars PROVE AuthPart'
  OBVIOUS
<1>1. ASSUME UNCHANGED <<operations, user, authenticated, authSeq, validating, tokenShown,
                         intent>>,
             \A c \in Channel : ws[c] # "none" => ws'[c] # "none"
      PROVE  AuthPart'
  BY <1>1 DEF IInv, AuthPart, ChannelAuthInv, ValidationInv, LatestAuthWins
<1>2. ASSUME UNCHANGED <<chanVars, tokenShown, intent>> PROVE AuthPart'
  BY <1>1, <1>2 DEF chanVars
<1>3. ASSUME NEW c \in Channel, Connect(c) PROVE AuthPart'
  BY <1>1, <1>3 DEF Connect, histVars, IInv, TypeOK, ChannelTypeOK
<1>4. ASSUME NEW c \in Channel, NEW l \in OpList, OperationsMessage(c, l) PROVE AuthPart'
  <2>1. /\ UNCHANGED <<user, authenticated, authSeq, validating, ws, tokenShown, intent>>
        /\ \A d \in Channel : ~authenticated[d] => operations'[d] = operations[d]
    BY <1>4 DEF OperationsMessage, ApplyOperations, IInv, TypeOK, ChannelTypeOK
  <2> QED
    BY <2>1 DEF IInv, AuthPart, ChannelAuthInv, ValidationInv, LatestAuthWins
<1>5. ASSUME NEW v \in validating, ValidationFails(v) PROVE AuthPart'
  <2>1. v.ch \in Channel
    BY DEF IInv, TypeOK, ChannelTypeOK, Validation
  <2>2. /\ validating' \subseteq validating
        /\ UNCHANGED <<operations, authenticated, authSeq, tokenShown, intent>>
        /\ \A c \in Channel : user'[c] \in {user[c], "none"}
        /\ \A c \in Channel : ws[c] # "none" => ws'[c] # "none"
    BY <1>5, <2>1 DEF ValidationFails, CloseSocket, histVars, IInv, TypeOK, ChannelTypeOK
  <2> QED
    BY <2>2 DEF IInv, AuthPart, ChannelAuthInv, ValidationInv, LatestAuthWins
<1>6. ASSUME NEW c \in Channel, PeerCloses(c) \/ ChannelClose(c) PROVE AuthPart'
  BY <1>1, <1>6 DEF PeerCloses, ChannelClose, histVars, IInv, TypeOK, ChannelTypeOK
<1>7. ASSUME Destroy PROVE AuthPart'
  BY <1>1, <1>7 DEF Destroy, histVars
<1>8. ASSUME NEW r \in Request, NEW ok \in BOOLEAN,
             \/ ApiExecute(r) \/ BodyRead(r) \/ BodyFails(r) \/ RequestTimeout(r)
             \/ Response(r, ok)
      PROVE  AuthPart'
  BY <1>2, <1>8 DEF ApiExecute, BodyRead, BodyFails, RequestTimeout, Response
<1>9. ASSUME ListOperations \/ UNCHANGED vars PROVE AuthPart'
  BY <1>2, <1>9 DEF ListOperations, vars, histVars
<1> QED
  BY <1>3, <1>4, <1>5, <1>6, <1>7, <1>8, <1>9, AuthMessageStep, ValidationSucceedsStep
  DEF Next

(***************************************************************************)
(* The list of channels.                                                   *)
(***************************************************************************)

\* The four actions that change the list or the sockets: what they do to them.
ListStays == channels' = channels

LEMMA ListFrame ==
    ASSUME IInv, [Next]_vars
    PROVE  \/ ListStays
           \/ \E c \in Channel : Connect(c) \/ ChannelClose(c)
           \/ Destroy
BY DEF Next, ListStays, vars, chanVars, OperationsMessage, AuthMessage, ValidationSucceeds,
       ValidationFails, PeerCloses, ListOperations, ApiExecute, BodyRead, BodyFails,
       RequestTimeout, Response

LEMMA SocketFrame ==
    ASSUME IInv, [Next]_vars
    PROVE  \A c \in Channel : ws[c] # "none" => ws'[c] # "none"
<1> USE DEF IInv, TypeOK, ChannelTypeOK
<1>1. ASSUME NEW c \in Channel, NEW t \in BOOLEAN,
             NEW jwt \in {"loggedOut", "malformed", "token"}, AuthMessage(c, t, jwt)
      PROVE  ws' = ws \/ CloseSocket(c)
  BY <1>1 DEF AuthMessage, RejectToken, LogOut, RejectMalformedJwt, StartValidation
<1>2. ASSUME NEW c \in Channel, CloseSocket(c)
      PROVE  \A d \in Channel : ws[d] # "none" => ws'[d] # "none"
  BY <1>2 DEF CloseSocket
<1>3. ASSUME NEW v \in validating, ValidationFails(v) PROVE ws' = ws \/ CloseSocket(v.ch)
  BY <1>3 DEF ValidationFails
<1>4. \A v \in validating : v.ch \in Channel
  BY DEF Validation
<1>5. ASSUME NEW c \in Channel, Connect(c) \/ PeerCloses(c) \/ ChannelClose(c)
      PROVE  \A d \in Channel : ws[d] # "none" => ws'[d] # "none"
  BY <1>5 DEF Connect, PeerCloses, ChannelClose
<1>6. Destroy => \A d \in Channel : ws[d] # "none" => ws'[d] # "none"
  BY DEF Destroy
<1>7. ASSUME ws' = ws PROVE \A d \in Channel : ws[d] # "none" => ws'[d] # "none"
  BY <1>7
<1>8. \/ ws' = ws
      \/ \E c \in Channel : Connect(c) \/ PeerCloses(c) \/ ChannelClose(c)
      \/ \E c \in Channel, t \in BOOLEAN, jwt \in {"loggedOut", "malformed", "token"} :
           AuthMessage(c, t, jwt)
      \/ \E v \in validating : ValidationFails(v)
      \/ Destroy
  BY DEF Next, vars, chanVars, OperationsMessage, ValidationSucceeds, ListOperations,
         ApiExecute, BodyRead, BodyFails, RequestTimeout, Response
<1> QED
  BY <1>1, <1>2, <1>3, <1>4, <1>5, <1>6, <1>7, <1>8

LEMMA ListStep == IInv /\ [Next]_vars => ChannelsListedOnce'
<1> SUFFICES ASSUME IInv, [Next]_vars PROVE ChannelsListedOnce'
  OBVIOUS
<1>1. /\ channels \in Seq(Channel)
      /\ Len(channels) \in Nat
      /\ DOMAIN channels = 1 .. Len(channels)
      /\ \A i \in 1 .. Len(channels) : channels[i] \in Channel
      /\ ChannelsListedOnce
  BY LenProperties, ElementOfSeq DEF IInv, TypeOK, ChannelTypeOK
<1>2. \A c \in Channel : ws[c] # "none" => ws'[c] # "none"
  BY SocketFrame
<1>3. CASE ListStays
  BY <1>1, <1>2, <1>3 DEF ListStays, ChannelsListedOnce
<1>4. ASSUME NEW c \in Channel, Connect(c) PROVE ChannelsListedOnce'
  <2>1. ws[c] = "none" /\ ws'[c] = "open" /\ channels' = Append(channels, c)
    BY <1>4 DEF Connect, IInv, TypeOK, ChannelTypeOK
  <2>2. /\ DOMAIN channels' = 1 .. Len(channels) + 1
        /\ \A i \in 1 .. Len(channels) : channels'[i] = channels[i]
        /\ channels'[Len(channels) + 1] = c
    BY <1>1, <2>1
  <2>3. \A i \in 1 .. Len(channels) : channels'[i] # c /\ ws'[channels'[i]] # "none"
    <3> SUFFICES ASSUME NEW i \in 1 .. Len(channels)
                 PROVE  channels'[i] # c /\ ws'[channels'[i]] # "none"
      OBVIOUS
    <3>1. channels[i] \in Channel /\ ws[channels[i]] # "none"
      BY <1>1 DEF ChannelsListedOnce
    <3> QED
      BY <1>2, <2>1, <2>2, <3>1
  <2>4. \A i \in DOMAIN channels' : ws'[channels'[i]] # "none"
    BY <1>1, <2>1, <2>2, <2>3
  <2>5. \A i, j \in DOMAIN channels' : channels'[i] = channels'[j] => i = j
    <3>1. DOMAIN channels' = DOMAIN channels \cup {Len(channels) + 1}
      BY <1>1, <2>2
    <3>2. \A i, j \in DOMAIN channels : channels'[i] = channels'[j] => i = j
      BY <1>1, <2>2 DEF ChannelsListedOnce
    <3>3. \A i \in DOMAIN channels : channels'[i] # channels'[Len(channels) + 1]
      BY <1>1, <2>2, <2>3
    <3> QED
      BY <3>1, <3>2, <3>3
  <2> QED
    BY <2>4, <2>5 DEF ChannelsListedOnce
<1>5. ASSUME NEW c \in Channel, ChannelClose(c) PROVE ChannelsListedOnce'
  <2>1. PICK i \in DOMAIN channels : channels' = Without(channels, i)
    BY <1>5 DEF ChannelClose
  <2>2. /\ DOMAIN channels' = 1 .. Len(channels) - 1
        /\ \A j \in 1 .. Len(channels) - 1 :
             channels'[j] = IF j < i THEN channels[j] ELSE channels[j + 1]
    BY <1>1, <2>1, WithoutProperties
  <2> DEFINE old(j) == IF j < i THEN j ELSE j + 1
  <2>3. \A j \in DOMAIN channels' : old(j) \in DOMAIN channels /\ channels'[j] = channels[old(j)]
    <3> SUFFICES ASSUME NEW j \in 1 .. Len(channels) - 1
                 PROVE  old(j) \in 1 .. Len(channels) /\ channels'[j] = channels[old(j)]
      BY <1>1, <2>2
    <3>1. CASE j < i
      BY <1>1, <2>2, <3>1
    <3>2. CASE ~(j < i)
      BY <1>1, <2>2, <3>2
    <3> QED
      BY <3>1, <3>2
  <2>4. \A j, k \in DOMAIN channels' : old(j) = old(k) => j = k
    BY <1>1, <2>1, <2>2
  <2> HIDE DEF old
  <2>5. \A j \in DOMAIN channels' : ws'[channels'[j]] # "none"
    BY <1>1, <1>2, <2>3 DEF ChannelsListedOnce
  <2> QED
    BY <1>1, <2>3, <2>4, <2>5 DEF ChannelsListedOnce
<1>6. CASE Destroy
  <2>1. DOMAIN channels' = {}
    BY <1>6 DEF Destroy
  <2> QED
    BY <2>1 DEF ChannelsListedOnce
<1> QED
  BY <1>3, <1>4, <1>5, <1>6, ListFrame

\* What the primary becomes: it stays, unless the list was empty, it is the
\* channel that closes, or the bridge is destroyed.
LEMMA PrimaryAfterConnect ==
    ASSUME IInv, NEW c \in Channel, Connect(c)
    PROVE  /\ HasPrimary'
           /\ Primary' = IF HasPrimary THEN Primary ELSE c
<1>1. channels \in Seq(Channel) /\ channels' = Append(channels, c)
  BY DEF Connect, IInv, TypeOK, ChannelTypeOK
<1>2. CASE channels = <<>>
  BY <1>1, <1>2 DEF HasPrimary, Primary
<1>3. CASE channels # <<>>
  <2>1. Len(channels) \in Nat \ {0}
    BY <1>1, <1>3, EmptySeq
  <2>2. channels'[1] = channels[1] /\ Len(channels') = Len(channels) + 1
    BY <1>1, <2>1
  <2>3. channels' # <<>>
    BY <2>1, <2>2
  <2> QED
    BY <1>3, <2>2, <2>3 DEF HasPrimary, Primary
<1> QED
  BY <1>2, <1>3

LEMMA PrimaryAfterClose ==
    ASSUME IInv, NEW c \in Channel, ChannelClose(c)
    PROVE  /\ ~IsPrimary(c) => HasPrimary /\ HasPrimary' /\ Primary' = Primary
           /\ HasPrimary' => Primary' \in Channel /\ Primary' # c
<1>1. PICK i \in DOMAIN channels : channels[i] = c /\ channels' = Without(channels, i)
  BY DEF ChannelClose
<1>2. /\ Len(channels) \in Nat
      /\ DOMAIN channels = 1 .. Len(channels)
      /\ \A j \in 1 .. Len(channels) : channels[j] \in Channel
      /\ channels \in Seq(Channel)
  BY LenProperties, ElementOfSeq DEF IInv, TypeOK, ChannelTypeOK
<1>3. /\ channels' \in Seq(Channel)
      /\ Len(channels') = Len(channels) - 1
      /\ \A j \in 1 .. Len(channels) - 1 :
           channels'[j] = IF j < i THEN channels[j] ELSE channels[j + 1]
  BY <1>1, <1>2, WithoutProperties
<1>4. channels # <<>>
  BY <1>1, <1>2
<1>5. ASSUME i # 1 PROVE HasPrimary' /\ Primary' = Primary
  <2>1. Len(channels) >= 2
    BY <1>1, <1>2, <1>5
  <2>2. channels'[1] = channels[1] /\ channels' # <<>>
    BY <1>1, <1>2, <1>3, <1>5, <2>1
  <2> QED
    BY <2>2 DEF HasPrimary, Primary
<1>6. ASSUME HasPrimary' PROVE Primary' \in Channel /\ Primary' # c
  <2>1. Len(channels') \in Nat \ {0}
    BY <1>3, <1>6, EmptySeq DEF HasPrimary
  <2>2. channels'[1] = IF i = 1 THEN channels[2] ELSE channels[1]
    BY <1>1, <1>2, <1>3, <2>1
  <2>3. IF i = 1 THEN 2 \in DOMAIN channels ELSE 1 \in DOMAIN channels
    BY <1>1, <1>2, <1>3, <2>1
  <2>4. \A j \in DOMAIN channels : channels[j] = channels[i] => j = i
    BY <1>1 DEF IInv, ChannelsListedOnce
  <2>5. CASE i = 1
    <3>1. Primary' = channels[2] /\ 2 \in DOMAIN channels
      BY <2>2, <2>3, <2>5 DEF Primary
    <3> QED
      BY <1>1, <1>2, <2>4, <2>5, <3>1
  <2>6. CASE i # 1
    <3>1. Primary' = channels[1] /\ 1 \in DOMAIN channels
      BY <2>2, <2>3, <2>6 DEF Primary
    <3> QED
      BY <1>1, <1>2, <2>4, <2>6, <3>1
  <2> QED
    BY <2>5, <2>6
<1> QED
  BY <1>1, <1>4, <1>5, <1>6 DEF IsPrimary, HasPrimary, Primary

(***************************************************************************)
(* Requests.                                                               *)
(***************************************************************************)

\* A request becomes "sent" only when its body is read, on the primary.
LEMMA SentOnlyByBodyRead ==
    ASSUME IInv, [Next]_vars, NEW r \in Request, phase'[r] = "sent"
    PROVE  \/ phase[r] = "sent" /\ sentTo'[r] = sentTo[r] /\ ~RejectAllPending
           \/ /\ BodyRead(r)
              /\ TierOutcome(r) = "allowed"
              /\ phase[r] = "reading"
              /\ IsReady
              /\ sentTo'[r] = Primary
<1> USE DEF IInv, TypeOK, RequestTypeOK
<1>1. ~RejectAllPending
  BY DEF RejectAllPending
<1>2. ASSUME UNCHANGED reqVars PROVE phase[r] = "sent" /\ sentTo'[r] = sentTo[r]
  BY <1>2 DEF reqVars
<1>3. ASSUME NEW q \in Request, NEW status, Answer(q, status)
      PROVE  phase[r] = "sent" /\ sentTo'[r] = sentTo[r]
  BY <1>3 DEF Answer
<1>4. ASSUME NEW q \in Request, ApiExecute(q)
      PROVE  phase[r] = "sent" /\ sentTo'[r] = sentTo[r]
  BY <1>3, <1>4 DEF ApiExecute
<1>5. ASSUME NEW q \in Request, BodyRead(q), \A status : ~Answer(q, status)
      PROVE  \/ phase[r] = "sent" /\ sentTo'[r] = sentTo[r]
             \/ /\ q = r
                /\ TierOutcome(r) = "allowed"
                /\ phase[r] = "reading"
                /\ IsReady
                /\ sentTo'[r] = Primary
  BY <1>5 DEF BodyRead, ExecuteOperation
<1>6. \/ UNCHANGED reqVars
      \/ \E q \in Request : ApiExecute(q) \/ BodyRead(q)
      \/ \E q \in Request, status \in Nat : Answer(q, status)
  BY <1>1 DEF Next, Connect, PeerCloses, ChannelClose, OperationsMessage, AuthMessage,
              ValidationFails, ValidationSucceeds, ListOperations, BodyFails,
              RequestTimeout, Response, Destroy, vars
<1> QED
  BY <1>1, <1>2, <1>3, <1>4, <1>5, <1>6

LEMMA PendingStep == IInv /\ [Next]_vars => PendingOnPrimary'
<1> SUFFICES ASSUME IInv, [Next]_vars, NEW r \in Request, phase'[r] = "sent"
             PROVE  IsPrimary(sentTo[r])'
  BY DEF PendingOnPrimary
<1>1. CASE phase[r] = "sent" /\ sentTo'[r] = sentTo[r] /\ ~RejectAllPending
  <2>1. IsPrimary(sentTo[r])
    BY <1>1 DEF IInv, PendingOnPrimary
  <2>2. CASE ListStays
    BY <1>1, <2>1, <2>2 DEF ListStays, IsPrimary, HasPrimary, Primary
  <2>3. ASSUME NEW c \in Channel, Connect(c) PROVE IsPrimary(sentTo[r])'
    BY <1>1, <2>1, <2>3, PrimaryAfterConnect DEF IsPrimary
  <2>4. ASSUME NEW c \in Channel, ChannelClose(c) PROVE IsPrimary(sentTo[r])'
    <3>1. ~IsPrimary(c)
      BY <1>1, <2>4 DEF ChannelClose
    <3> QED
      BY <1>1, <2>1, <2>4, <3>1, PrimaryAfterClose DEF IsPrimary
  <2> QED
    BY <1>1, <2>2, <2>3, <2>4, ListFrame DEF Destroy
<1>2. CASE BodyRead(r) /\ IsReady /\ sentTo'[r] = Primary
  BY <1>2 DEF BodyRead, IsReady, IsPrimary, HasPrimary, Primary, chanVars
<1> QED
  BY <1>1, <1>2, SentOnlyByBodyRead

LEMMA ExposedStep == IInv /\ [Next]_vars => ExposedAfterToken'
<1> SUFFICES ASSUME IInv, [Next]_vars PROVE ExposedAfterToken'
  OBVIOUS
<1>1. tokenShown \subseteq tokenShown'
  BY DEF Next, vars, histVars, Connect, PeerCloses, ChannelClose, OperationsMessage,
         AuthMessage, RejectToken, ValidationFails, ValidationSucceeds, ListOperations,
         ApiExecute, BodyRead, BodyFails, RequestTimeout, Response, Destroy
<1>2. exposed' = exposed \/ (IsReady /\ exposed' = exposed \cup {Primary})
  BY DEF Next, vars, histVars, Connect, PeerCloses, ChannelClose, OperationsMessage,
         AuthMessage, ValidationFails, ValidationSucceeds, ListOperations, ApiExecute,
         BodyRead, BodyFails, RequestTimeout, Response, Destroy, Answer, ExecuteOperation
<1>3. IsReady => Primary \in tokenShown
  BY PrimaryType DEF IsReady, IInv, TypeOK, ChannelTypeOK, ChannelAuthInv
<1> QED
  BY <1>1, <1>2, <1>3 DEF IInv, ExposedAfterToken

(***************************************************************************)
(* Readiness.                                                              *)
(***************************************************************************)
LEMMA InitialAuthIsHeard ==
    ASSUME IInv, NEW c \in Channel, CompleteInitialAuth(c), ListStays, heard = IsReady
    PROVE  heard' = IsReady'
<1> USE DEF IInv, TypeOK, ChannelTypeOK
<1>1. HasPrimary' = HasPrimary /\ Primary' = Primary
  BY DEF ListStays, HasPrimary, Primary
<1>2. HasPrimary => Primary \in Channel
  BY PrimaryType
<1>3. CASE ~IsPrimary(c)
  <2>1. heard' = heard
    BY <1>3 DEF CompleteInitialAuth, ApplyOperations
  <2>2. HasPrimary => /\ authenticated'[Primary] = authenticated[Primary]
                      /\ operations'[Primary] = operations[Primary]
    BY <1>2, <1>3 DEF CompleteInitialAuth, ApplyOperations, IsPrimary
  <2> QED
    BY <1>1, <2>1, <2>2 DEF IsReady
<1>4. CASE IsPrimary(c) /\ pendingOps[c] # None
  BY <1>4 DEF CompleteInitialAuth, ApplyOperations, Emit
<1>5. CASE IsPrimary(c) /\ pendingOps[c] = None
  <2>1. operations' = operations /\ heard' = heard /\ authenticated'[c] = TRUE
    BY <1>5 DEF CompleteInitialAuth
  <2>2. ~authenticated[c] => DOMAIN operations[c] = {}
    BY DEF ChannelAuthInv, NoOps
  <2> QED
    BY <1>1, <1>5, <2>1, <2>2 DEF IsReady, IsPrimary
<1> QED
  BY <1>3, <1>4, <1>5

LEMMA ListenerStep == IInv /\ [Next]_vars => ListenerUpToDate'
<1> SUFFICES ASSUME IInv, [Next]_vars, ~destroyed' PROVE heard' = IsReady'
  BY DEF ListenerUpToDate
<1> USE DEF IInv, TypeOK, ChannelTypeOK
<1>1. heard = IsReady
  BY DEF ListenerUpToDate, Next, Connect, PeerCloses, ChannelClose, OperationsMessage,
         AuthMessage, ValidationFails, ValidationSucceeds, ListOperations, ApiExecute,
         BodyRead, BodyFails, RequestTimeout, Response, Destroy, vars
<1>2. ASSUME UNCHANGED <<channels, authenticated, operations, heard>> PROVE heard' = IsReady'
  BY <1>1, <1>2 DEF IsReady, HasPrimary, Primary
<1>3. ASSUME NoInitialAuth, ListStays PROVE heard' = IsReady'
  BY <1>2, <1>3 DEF NoInitialAuth, ListStays
<1>4. ASSUME NEW c \in Channel, Connect(c) PROVE heard' = IsReady'
  <2>1. /\ UNCHANGED <<heard, authenticated, operations>>
        /\ ~authenticated[c]
    BY <1>4 DEF Connect, histVars, ChannelAuthInv
  <2> QED
    BY <1>1, <1>4, <2>1, PrimaryAfterConnect DEF IsReady
<1>5. ASSUME NEW c \in Channel, ChannelClose(c) PROVE heard' = IsReady'
  <2>1. UNCHANGED <<authenticated, operations>>
    BY <1>5 DEF ChannelClose
  <2>2. CASE IsPrimary(c)
    BY <1>1, <1>5, <2>2 DEF ChannelClose, Emit, IsReady
  <2>3. CASE ~IsPrimary(c)
    <3>1. heard' = heard
      BY <1>5, <2>3 DEF ChannelClose
    <3> QED
      BY <1>1, <1>5, <2>1, <2>3, <3>1, PrimaryAfterClose DEF IsReady
  <2> QED
    BY <2>2, <2>3
<1>6. ASSUME NEW c \in Channel, NEW l \in OpList, OperationsMessage(c, l)
      PROVE  heard' = IsReady'
  <2>1. CASE IsPrimary(c) /\ authenticated[c]
    BY <1>6, <2>1 DEF OperationsMessage, ApplyOperations, Emit
  <2>2. CASE ~IsPrimary(c) /\ authenticated[c]
    <3>1. /\ UNCHANGED <<channels, authenticated, heard>>
          /\ operations' = [operations EXCEPT ![c] = l]
      BY <1>6, <2>2 DEF OperationsMessage, ApplyOperations
    <3>2. HasPrimary => Primary \in Channel /\ Primary # c
      BY <2>2, PrimaryType DEF IsPrimary
    <3>3. HasPrimary' = HasPrimary /\ Primary' = Primary
      BY <3>1 DEF HasPrimary, Primary
    <3>4. HasPrimary => operations'[Primary] = operations[Primary]
      BY <3>1, <3>2
    <3> QED
      BY <1>1, <3>1, <3>3, <3>4 DEF IsReady
  <2>3. CASE ~authenticated[c]
    BY <1>2, <1>6, <2>3 DEF OperationsMessage
  <2> QED
    BY <2>1, <2>2, <2>3
<1>7. ASSUME NEW c \in Channel, NEW t \in BOOLEAN,
             NEW jwt \in {"loggedOut", "malformed", "token"}, AuthMessage(c, t, jwt)
      PROVE  heard' = IsReady'
  <2>1. ListStays /\ (NoInitialAuth \/ CompleteInitialAuth(c))
    BY <1>7 DEF AuthMessage, RejectToken, LogOut, RejectMalformedJwt, StartValidation,
                ListStays
  <2> QED
    BY <1>1, <1>3, <2>1, InitialAuthIsHeard
<1>8. ASSUME NEW v \in validating, NEW u \in {"free", "paid"}, ValidationSucceeds(v, u)
      PROVE  heard' = IsReady'
  <2>1. ListStays /\ (NoInitialAuth \/ CompleteInitialAuth(v.ch)) /\ v.ch \in Channel
    BY <1>8 DEF ValidationSucceeds, ListStays, Validation
  <2> QED
    BY <1>1, <1>3, <2>1, InitialAuthIsHeard
<1> QED
  BY <1>2, <1>4, <1>5, <1>6, <1>7, <1>8
  DEF Next, vars, chanVars, histVars, PeerCloses, ValidationFails, ListOperations,
      ApiExecute, BodyRead, BodyFails, RequestTimeout, Response, Destroy

(***************************************************************************)
(* The theorems.                                                           *)
(***************************************************************************)

\* The inductive invariant holds in every behaviour of the bridge: no request
\* is pending on a channel that is not primary, nothing is exposed before the
\* token is presented, the latest auth message decides the account, and the
\* events are enough to follow readiness.
THEOREM SafetyCorrect == Spec => []IInv
<1>1. Init => IInv
  <2> SUFFICES ASSUME Init PROVE IInv
    OBVIOUS
  <2>1. TypeOK
    BY TypeInit
  <2>2. DOMAIN channels = {} /\ ~HasPrimary
    BY DEF Init, HasPrimary
  <2> QED
    BY <2>1, <2>2 DEF Init, IInv, ChannelAuthInv, ChannelsListedOnce, PendingOnPrimary,
                      ExposedAfterToken, LatestAuthWins, ListenerUpToDate, IsReady
<1>2. IInv /\ [Next]_vars => IInv'
  <2> SUFFICES ASSUME IInv, [Next]_vars PROVE IInv'
    OBVIOUS
  <2>1. TypeOK'
    BY TypeStep DEF IInv
  <2>2. AuthPart'
    BY AuthStep
  <2>3. ChannelsListedOnce' /\ PendingOnPrimary' /\ ExposedAfterToken' /\ ListenerUpToDate'
    BY ListStep, PendingStep, ExposedStep, ListenerStep
  <2> QED
    BY <2>1, <2>2, <2>3 DEF IInv, AuthPart
<1> QED
  BY <1>1, <1>2, PTL DEF Spec

\* Every request in flight waits for the channel that is primary now.
THEOREM PendingCorrect == Spec => []PendingOnPrimary
BY SafetyCorrect, PTL DEF IInv

\* No operation is listed or run on a channel that has not presented the token.
THEOREM ExposureCorrect == Spec => []ExposedAfterToken
BY SafetyCorrect, PTL DEF IInv

\* A superseded validation never gives a channel an account.
THEOREM LatestAuthCorrect == Spec => []LatestAuthWins
BY SafetyCorrect, PTL DEF IInv

\* A listener that rereads isReady at every event knows whether the bridge is ready.
THEOREM ListenerCorrect == Spec => []ListenerUpToDate
BY SafetyCorrect, PTL DEF IInv

\* A request is only forwarded to a primary whose account allows it.
THEOREM TierRespected == Spec => SentWithinTier
<1> DEFINE Allowed == \A r \in Request :
                        phase[r] # "sent" /\ phase'[r] = "sent" =>
                          \/ IsPaidUser
                          \/ SourceOf[r] = "other"
                          \/ SourceOf[r] = "mcp" /\ FreeTier(r)
<1>1. IInv /\ [Next]_vars => Allowed
  <2> SUFFICES ASSUME IInv, [Next]_vars,
                      NEW r \in Request, phase[r] # "sent", phase'[r] = "sent"
               PROVE  \/ IsPaidUser
                      \/ SourceOf[r] = "other"
                      \/ SourceOf[r] = "mcp" /\ FreeTier(r)
    OBVIOUS
  <2>1. TierOutcome(r) = "allowed"
    BY SentOnlyByBodyRead
  <2>2. SourceOf[r] \in {"ctl", "mcp", "other"}
    BY ConstantAssumption
  <2> QED
    BY <2>1, <2>2 DEF TierOutcome, FreeTier
<1>2. IInv /\ [Next]_vars => [Allowed]_vars
  BY <1>1
<1> QED
  BY <1>2, SafetyCorrect, PTL DEF Spec, SentWithinTier

(***************************************************************************)
(* The bridge implements the broker.                                       *)
(***************************************************************************)
Jobs == [r \in Request |-> JobOf(r)]

LEMMA AnswerIsSettleOrRefuse ==
    ASSUME IInv, NEW r \in Request, NEW status \in Nat, Answer(r, status),
           CurrentSession' = CurrentSession,
           \/ phase[r] = "sent"
           \/ phase[r] \in {"new", "reading"} /\ status # 200
    PROVE  Broker!Settle(r) \/ Broker!Refuse(r)
<1> USE DEF IInv, TypeOK, RequestTypeOK
<1>1. /\ JobOf(r) = IF phase[r] = "sent" THEN "with session" ELSE "new"
      /\ JobOf(r)' = IF status = 200 THEN "ok" ELSE "failed"
      /\ \A q \in Request : q # r => JobOf(q)' = JobOf(q)
  <2>1. /\ phase'[r] = "done" /\ code'[r] = status
        /\ \A q \in Request : q # r => phase'[q] = phase[q] /\ code'[q] = code[q]
    BY DEF Answer
  <2>2. JobOf(r) = IF phase[r] = "sent" THEN "with session" ELSE "new"
    BY DEF JobOf
  <2>3. JobOf(r)' = IF status = 200 THEN "ok" ELSE "failed"
    BY <2>1 DEF JobOf
  <2>4. \A q \in Request : q # r => JobOf(q)' = JobOf(q)
    <3> SUFFICES ASSUME NEW q \in Request, q # r PROVE JobOf(q)' = JobOf(q)
      OBVIOUS
    <3>1. phase'[q] = phase[q] /\ code'[q] = code[q]
      BY <2>1
    <3> QED
      BY <3>1 DEF JobOf
  <2> QED
    BY <2>2, <2>3, <2>4
<1>2. Jobs' = [Jobs EXCEPT ![r] = JobOf(r)']
  BY <1>1, ZenonT(40) DEF Jobs
<1>3. CASE phase[r] = "sent"
  BY <1>1, <1>2, <1>3 DEF Broker!Settle, Jobs
<1>4. CASE phase[r] # "sent"
  BY <1>1, <1>2, <1>4 DEF Broker!Refuse, Jobs
<1> QED
  BY <1>3, <1>4

\* When the session changes, every job that was with one has failed.
LEMMA ChangeIsSwitch ==
    ASSUME IInv,
           RejectAllPending \/ (UNCHANGED reqVars /\ \A r \in Request : phase[r] # "sent"),
           CurrentSession' # CurrentSession,
           CurrentSession' \in Channel \cup {None}
    PROVE  Broker!Next
<1>1. Jobs' = [r \in Request |-> IF JobOf(r) = "with session" THEN "failed" ELSE JobOf(r)]
  <2>1. ASSUME NEW r \in Request
        PROVE  JobOf(r)' = IF JobOf(r) = "with session" THEN "failed" ELSE JobOf(r)
    <3>1. CASE phase[r] = "sent"
      <4>1. phase'[r] = "done" /\ code'[r] = 502
        BY <3>1 DEF RejectAllPending
      <4> QED
        BY <3>1, <4>1 DEF JobOf
    <3>2. CASE phase[r] # "sent"
      <4>1. phase'[r] = phase[r] /\ code'[r] = code[r]
        BY <3>2 DEF RejectAllPending, reqVars
      <4> QED
        BY <3>2, <4>1 DEF JobOf
    <3> QED
      BY <3>1, <3>2
  <2> QED
    BY <2>1 DEF Jobs
<1>2. Broker!Switch(CurrentSession')
  BY <1>1 DEF Broker!Switch, Jobs
<1> QED
  BY <1>2 DEF Broker!Next

LEMMA BrokerStep == IInv /\ [Next]_vars => [Broker!Next]_(Broker!vars)
<1> SUFFICES ASSUME IInv, [Next]_vars PROVE Broker!Next \/ UNCHANGED Broker!vars
  OBVIOUS
<1> USE DEF IInv, TypeOK, RequestTypeOK
<1>1. ListStays => CurrentSession' = CurrentSession
  BY DEF ListStays, CurrentSession, HasPrimary, Primary
<1>2. ASSUME UNCHANGED reqVars, CurrentSession' = CurrentSession
      PROVE  UNCHANGED Broker!vars
  BY <1>2 DEF Broker!vars, JobOf, reqVars
<1>3. ASSUME NEW r \in Request, NEW status \in Nat, Answer(r, status), ListStays,
             phase[r] = "sent" \/ (phase[r] \in {"new", "reading"} /\ status # 200)
      PROVE  Broker!Next
  BY <1>1, <1>3, AnswerIsSettleOrRefuse DEF Broker!Next
<1>4. ASSUME NEW c \in Channel, Connect(c)
      PROVE  Broker!Next \/ UNCHANGED Broker!vars
  <2>1. UNCHANGED reqVars
    BY <1>4 DEF Connect
  <2>2. CASE HasPrimary
    <3>1. CurrentSession' = CurrentSession
      BY <1>4, <2>2, PrimaryAfterConnect DEF CurrentSession
    <3> QED
      BY <1>2, <2>1, <3>1
  <2>3. CASE ~HasPrimary
    <3>1. CurrentSession' = c /\ CurrentSession = None
      BY <1>4, <2>3, PrimaryAfterConnect DEF CurrentSession
    <3>2. \A r \in Request : phase[r] # "sent"
      BY <2>3 DEF PendingOnPrimary, IsPrimary
    <3> QED
      BY <2>1, <3>1, <3>2, ChangeIsSwitch, ConstantAssumption
  <2> QED
    BY <2>2, <2>3
<1>5. ASSUME NEW c \in Channel, ChannelClose(c)
      PROVE  Broker!Next \/ UNCHANGED Broker!vars
  <2>1. CASE IsPrimary(c)
    <3>1. RejectAllPending
      BY <1>5, <2>1 DEF ChannelClose
    <3>2. CurrentSession = c
      BY <2>1 DEF IsPrimary, CurrentSession
    <3>3. CurrentSession' # c /\ CurrentSession' \in Channel \cup {None}
      BY <1>5, PrimaryAfterClose, ConstantAssumption DEF CurrentSession
    <3> QED
      BY <3>1, <3>2, <3>3, ChangeIsSwitch
  <2>2. CASE ~IsPrimary(c)
    <3>1. CurrentSession' = CurrentSession
      BY <1>5, <2>2, PrimaryAfterClose DEF CurrentSession
    <3>2. UNCHANGED reqVars
      BY <1>5, <2>2 DEF ChannelClose
    <3> QED
      BY <1>2, <3>1, <3>2
  <2> QED
    BY <2>1, <2>2
<1>6. ASSUME Destroy PROVE Broker!Next \/ UNCHANGED Broker!vars
  <2>1. RejectAllPending /\ CurrentSession' = None
    BY <1>6 DEF Destroy, CurrentSession, HasPrimary
  <2>2. CASE HasPrimary
    <3>1. CurrentSession # None
      BY <2>2, PrimaryType, ConstantAssumption DEF CurrentSession, ChannelTypeOK
    <3> QED
      BY <2>1, <3>1, ChangeIsSwitch
  <2>3. CASE ~HasPrimary
    <3>1. \A r \in Request : phase[r] # "sent"
      BY <2>3 DEF PendingOnPrimary, IsPrimary
    <3>2. UNCHANGED reqVars
      BY <2>1, <3>1 DEF RejectAllPending, reqVars
    <3> QED
      BY <1>2, <2>1, <2>3, <3>2 DEF CurrentSession
  <2> QED
    BY <2>2, <2>3
<1>7. ASSUME NEW r \in Request, ApiExecute(r)
      PROVE  Broker!Next \/ UNCHANGED Broker!vars
  <2>1. ListStays /\ phase[r] = "new"
    BY <1>7 DEF ApiExecute, ListStays, chanVars
  <2>2. CASE Answer(r, 503)
    BY <1>3, <2>1, <2>2
  <2>3. CASE phase' = [phase EXCEPT ![r] = "reading"] /\ code' = code
    BY <1>1, <2>1, <2>3, ZenonT(40) DEF Broker!vars, JobOf
  <2> QED
    BY <1>7, <2>2, <2>3 DEF ApiExecute
<1>8. ASSUME NEW r \in Request, BodyRead(r) PROVE Broker!Next
  <2>1. ListStays /\ phase[r] = "reading"
    BY <1>8 DEF BodyRead, ListStays, chanVars
  <2>2. CASE \E status \in {400, 403, 500, 502} : Answer(r, status)
    BY <1>3, <2>1, <2>2
  <2>3. CASE IsReady /\ phase' = [phase EXCEPT ![r] = "sent"] /\ code' = code
    <3>1. CurrentSession # None
      BY <2>3, PrimaryType, ConstantAssumption DEF IsReady, CurrentSession, ChannelTypeOK
    <3>2. JobOf(r) = "new" /\ Jobs' = [Jobs EXCEPT ![r] = "with session"]
      BY <2>1, <2>3, ZenonT(40) DEF JobOf, Jobs
    <3>3. Broker!Hand(r)
      BY <1>1, <2>1, <3>1, <3>2 DEF Broker!Hand, Jobs
    <3> QED
      BY <3>3 DEF Broker!Next
  <2> QED
    BY <1>8, <2>2, <2>3 DEF BodyRead, ExecuteOperation
<1>9. ASSUME NEW r \in Request, NEW ok \in BOOLEAN,
             BodyFails(r) \/ RequestTimeout(r) \/ Response(r, ok)
      PROVE  Broker!Next
  <2>1. ListStays
    BY <1>9 DEF BodyFails, RequestTimeout, Response, ListStays, chanVars
  <2> QED
    BY <1>3, <1>9, <2>1 DEF BodyFails, RequestTimeout, Response
<1>10. CASE ListStays /\ UNCHANGED reqVars
  BY <1>1, <1>2, <1>10
<1> QED
  BY <1>4, <1>5, <1>6, <1>7, <1>8, <1>9, <1>10
  DEF Next, vars, chanVars, ListStays, PeerCloses, OperationsMessage, AuthMessage,
      ValidationFails, ValidationSucceeds, ListOperations

\* Whatever happens to the channels, the requests of clients behave as the
\* abstract broker says.
THEOREM BrokerImplemented == Spec => ImplementsBroker
<1>1. Init => Broker!Init
  BY DEF Init, Broker!Init, CurrentSession, HasPrimary, JobOf
<1> QED
  BY <1>1, BrokerStep, SafetyCorrect, PTL DEF Spec, ImplementsBroker, Broker!Spec

=============================================================================
