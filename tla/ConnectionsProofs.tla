------------------------- MODULE ConnectionsProofs -------------------------
(***************************************************************************)
(* Theorems about Connections, for every number of transfers, peers and    *)
(* stubs and every limit: the limit, the type invariant, that the counts   *)
(* which several threads keep under several locks agree, that session ids  *)
(* differ, that every connect has one answer, and that no edge of the      *)
(* listening socket is lost.                                               *)
(***************************************************************************)
EXTENDS Connections, ConditionLockerProofs, FiniteSetTheorems, Integers, TLAPS

-----------------------------------------------------------------------------
(* Types. *)

(* The type invariant without what follows from the counts' agreement      *)
(* (nothing below zero, no id above the largest), by groups of variables.  *)
CountType ==
    /\ curSessionCnt \in Int /\ curMaxSessionId \in Nat
    /\ sucConnected \in [Owner -> SUBSET SessionId]
WorkType ==
    /\ work \in [Owner -> Work]
    /\ \A o \in Owner : work[o].at = "transfer" => work[o].id \in SessionId
    /\ work["connector"].at \in {"connect", "failed"} => work["connector"].stub \in Stub
EngineType ==
    /\ curSessionConnecting \in Int /\ sessionCnt \in [Transfer -> Int]
    /\ inbox \in [Transfer -> Seq(Message)]
SessionType == sessions \subseteq Session /\ leaving \subseteq closing
NodeType == pending \subseteq asked /\ asked \subseteq Stub /\ users \subseteq SessionId

TypeBase ==
    /\ AcceptPollerTypeOK /\ CountType /\ WorkType /\ requests \in Seq(Request)
    /\ EngineType /\ SessionType /\ NodeType

(* Whatever a step leaves alone keeps its type.                            *)
LEMMA TypesKept ==
    ASSUME TypeBase
    PROVE  /\ UNCHANGED acceptPollerVars => AcceptPollerTypeOK'
           /\ UNCHANGED countVars => CountType'
           /\ UNCHANGED work => WorkType'
           /\ UNCHANGED requests => (requests \in Seq(Request))'
           /\ UNCHANGED engineVars => EngineType'
           /\ UNCHANGED sessionVars => SessionType'
           /\ UNCHANGED nodeVars => NodeType'
<1>1. UNCHANGED acceptPollerVars => AcceptPollerTypeOK'
  BY DEF TypeBase, acceptPollerVars, AcceptPollerTypeOK
<1>2. UNCHANGED countVars => CountType'
  BY DEF TypeBase, countVars, CountType
<1>3. UNCHANGED work => WorkType'
  BY DEF TypeBase, WorkType
<1>4. UNCHANGED requests => (requests \in Seq(Request))'
  BY DEF TypeBase
<1>5. UNCHANGED engineVars => EngineType'
  BY DEF TypeBase, engineVars, EngineType
<1>6. UNCHANGED sessionVars => SessionType'
  BY DEF TypeBase, sessionVars, SessionType
<1>7. UNCHANGED nodeVars => NodeType'
  BY DEF TypeBase, nodeVars, NodeType
<1> QED
  BY <1>1, <1>2, <1>3, <1>4, <1>5, <1>6, <1>7

LEMMA InitType == Init => TypeBase
<1> SUFFICES ASSUME Init PROVE TypeBase
  OBVIOUS
<1> USE ConnectionsAssumption DEF Init
<1>1. AcceptPollerTypeOK
  <2>1. NewLocker \in LockerType({Prehandler})
    BY DEF NewLocker, LockerType
  <2>2. MaxPeers \in Nat /\ AcceptPollerInit
    OBVIOUS
  <2> QED
    BY <2>1, <2>2, 0 \in 0 .. MaxPeers, 0 \in 0 .. 0 DEF AcceptPollerInit, AcceptPollerTypeOK
<1>2. CountType
  BY DEF CountType
<1>3. WorkType
  BY DEF WorkType, Work, Idle, Owner
<1>4. requests \in Seq(Request)
  OBVIOUS
<1>5. EngineType
  BY DEF EngineType
<1>6. SessionType
  BY DEF SessionType
<1>7. NodeType
  BY DEF NodeType
<1> QED
  BY <1>1, <1>2, <1>3, <1>4, <1>5, <1>6, <1>7 DEF TypeBase

(* The steps of the listening port's two threads.                          *)
LEMMA AcceptPollerTypes ==
    ASSUME TypeBase,
           PeerConnects \/ Notify \/ TakeEvent \/ WaitForEvent \/ Awake \/ Return
             \/ AcceptOne \/ AcceptNone
    PROVE  AcceptPollerTypeOK'
<1> USE ConnectionsAssumption DEF TypeBase, AcceptPollerTypeOK
<1>1. CASE PeerConnects
  BY <1>1 DEF PeerConnects
<1>2. CASE Notify
  <2>1. guard' \in LockerType({Prehandler})
    BY <1>2, SinalResult DEF Notify
  <2> QED
    BY <1>2, <2>1 DEF Notify
<1>3. CASE TakeEvent
  BY <1>3 DEF TakeEvent
<1>4. CASE WaitForEvent
  <2>1. guard' \in LockerType({Prehandler})
    <3>1. /\ LeaveDeadWait(guard, Prehandler) \in LockerType({Prehandler})
          /\ Sleep(guard, Prehandler) \in LockerType({Prehandler})
      BY LockerCalls
    <3> QED
      BY <1>4, <3>1 DEF WaitForEvent
  <2> QED
    BY <1>4, <2>1 DEF WaitForEvent
<1>5. CASE Awake
  <2>1. guard' \in LockerType({Prehandler})
    BY <1>5, LockerCalls DEF Awake
  <2> QED
    BY <1>5, <2>1 DEF Awake
<1>6. CASE Return
  <2>1. guard' \in LockerType({Prehandler})
    BY <1>6, LockerCalls DEF Return
  <2> QED
    BY <1>6, <2>1 DEF Return
<1>7. CASE AcceptOne
  BY <1>7 DEF AcceptOne
<1>8. CASE AcceptNone
  BY <1>8 DEF AcceptNone
<1> QED
  BY <1>1, <1>2, <1>3, <1>4, <1>5, <1>6, <1>7, <1>8

LEMMA AdmitTypes ==
    ASSUME TypeBase, NEW o \in Owner, NEW stub \in Stub \cup {NoStub}, Admit(o, stub)
    PROVE  CountType' /\ WorkType'
<1>1. curMaxSessionId + 1 \in SessionId /\ curMaxSessionId + 1 \in Nat
  BY DEF TypeBase, CountType, SessionId
<1>2. CountType'
  <2>1. sucConnected' \in [Owner -> SUBSET SessionId]
    BY <1>1 DEF TypeBase, CountType, Admit
  <2> QED
    BY <1>1, <2>1 DEF TypeBase, CountType, Admit
<1>3. WorkType'
  <2> DEFINE w == [at |-> "transfer", stub |-> stub, id |-> curMaxSessionId + 1]
  <2>1. w \in Work
    BY <1>1 DEF Work
  <2>2. work' = [work EXCEPT ![o] = w]
    BY DEF Admit
  <2>3. work' \in [Owner -> Work]
    BY <2>1, <2>2 DEF TypeBase, WorkType
  <2>4. \A p \in Owner : work'[p].at = "transfer" => work'[p].id \in SessionId
    BY <2>2, <1>1 DEF TypeBase, WorkType
  <2>5. work'["connector"].at \in {"connect", "failed"} => work'["connector"].stub \in Stub
    BY <2>2 DEF TypeBase, WorkType, Owner
  <2> QED
    BY <2>3, <2>4, <2>5 DEF WorkType
<1> QED
  BY <1>2, <1>3

(* Every message a session is announced with, and every answer, is one.    *)
LEMMA InboxTypes ==
    ASSUME TypeBase, NEW t \in Transfer
    PROVE  /\ \A m \in Message : [inbox EXCEPT ![t] = Append(@, m)] \in [Transfer -> Seq(Message)]
           /\ inbox[t] # <<>> =>
                  /\ [inbox EXCEPT ![t] = Tail(@)] \in [Transfer -> Seq(Message)]
                  /\ Head(inbox[t]) \in Message
<1>1. inbox \in [Transfer -> Seq(Message)]
  BY DEF TypeBase, EngineType
<1> QED
  BY <1>1

LEMMA NextType == TypeBase /\ [Next]_vars => TypeBase'
<1> SUFFICES ASSUME TypeBase, [Next]_vars PROVE TypeBase'
  OBVIOUS
<1> USE DEF countVars, engineVars, sessionVars, nodeVars, dispatcherVars
<1>1. CASE AcceptPollerStep
  BY <1>1, AcceptPollerTypes, TypesKept DEF AcceptPollerStep, TypeBase
<1>2. CASE Accept
  <2>1. AcceptPollerTypeOK'
    BY <1>2, AcceptPollerTypes DEF Accept
  <2>2. CountType' /\ WorkType'
    <3>1. CASE Admit("acceptor", NoStub)
      BY <3>1, AdmitTypes DEF Owner
    <3>2. CASE UNCHANGED <<countVars, work>>
      BY <3>2, TypesKept
    <3> QED
      BY <1>2, <3>1, <3>2 DEF Accept
  <2> QED
    BY <1>2, <2>1, <2>2, TypesKept DEF Accept, TypeBase
<1>3. CASE EndOfBacklog
  BY <1>3, AcceptPollerTypes, TypesKept DEF EndOfBacklog, TypeBase
<1>4. CASE CheckConnect
  <2>1. requests \in Seq(Request) /\ requests # <<>> /\ Head(requests).kind = "connect"
    BY <1>4 DEF CheckConnect, TypeBase
  <2>2. Head(requests) \in Request /\ requests' \in Seq(Request)
    BY <1>4, <2>1 DEF CheckConnect
  <2>3. Head(requests).stub \in Stub
    BY <2>1, <2>2 DEF Request
  <2> DEFINE w == [at |-> IF curSessionCnt >= Limit THEN "failed" ELSE "connect",
                   stub |-> Head(requests).stub, id |-> 0]
  <2>4. w \in Work
    BY <2>3 DEF Work
  <2>5. work' = [work EXCEPT !["connector"] = w]
    BY <1>4 DEF CheckConnect
  <2>6. w.at # "transfer" /\ w.stub \in Stub
    BY <2>3
  <2> HIDE DEF w
  <2>7. WorkType'
    BY <2>4, <2>5, <2>6 DEF WorkType, TypeBase, Owner
  <2> QED
    BY <1>4, <2>2, <2>7, TypesKept DEF CheckConnect, TypeBase
<1>5. CASE Connected
  <2>1. work["connector"].stub \in Stub
    BY <1>5 DEF Connected, TypeBase, WorkType
  <2>2. CountType' /\ WorkType'
    BY <1>5, <2>1, AdmitTypes DEF Connected, Owner
  <2> QED
    BY <1>5, <2>2, TypesKept DEF Connected, TypeBase
<1>6. CASE ConnectFails
  <2>1. WorkType'
    BY <1>6 DEF ConnectFails, WorkType, TypeBase, Owner, Work
  <2> QED
    BY <1>6, <2>1, TypesKept DEF ConnectFails, TypeBase
<1>7. CASE Gone
  <2>1. requests' \in Seq(Request)
    BY <1>7 DEF Gone, TypeBase
  <2>2. CountType'
    <3>1. sucConnected' \in [Owner -> SUBSET SessionId]
      BY <1>7 DEF Gone, TypeBase, CountType
    <3> QED
      BY <1>7, <3>1 DEF Gone, TypeBase, CountType
  <2> QED
    BY <1>7, <2>1, <2>2, TypesKept DEF Gone, TypeBase
<1>8. CASE ConnectFailure
  <2>1. PICK t \in Transfer :
            inbox' = [inbox EXCEPT ![t] = Append(@, [kind |-> "failure", stub |-> work["connector"].stub])]
    BY <1>8 DEF ConnectFailure
  <2>2. [kind |-> "failure", stub |-> work["connector"].stub] \in Message
    BY <1>8 DEF ConnectFailure, Message, TypeBase, WorkType
  <2>3. EngineType'
    BY <1>8, <2>1, <2>2, InboxTypes DEF ConnectFailure, TypeBase, EngineType
  <2>4. WorkType'
    BY <1>8 DEF ConnectFailure, WorkType, TypeBase, Owner, Work, Idle
  <2> QED
    BY <1>8, <2>3, <2>4, TypesKept DEF ConnectFailure, TypeBase
<1>9. ASSUME NEW o \in Owner, WillConnect(o) PROVE TypeBase'
  <2> DEFINE s(t) == [id |-> work[o].id, owner |-> o, stub |-> work[o].stub, transfer |-> t]
             m(t) == [kind |-> "connected", session |-> s(t)]
  <2>1. PICK t \in Transfer :
            /\ sessionCnt' = [sessionCnt EXCEPT ![t] = @ + 1]
            /\ inbox' = [inbox EXCEPT ![t] = Append(@, m(t))]
    BY <1>9 DEF WillConnect
  <2>2. work[o].id \in SessionId /\ work[o].stub \in Stub \cup {NoStub}
    BY <1>9 DEF WillConnect, TypeBase, WorkType, Work
  <2>3. s(t) \in Session
    BY <2>2 DEF Session
  <2>4. m(t) \in Message
    BY <2>3 DEF Message
  <2> HIDE DEF m
  <2>5. inbox' \in [Transfer -> Seq(Message)]
    BY <2>1, <2>4, InboxTypes
  <2>6. EngineType'
    BY <1>9, <2>1, <2>5 DEF WillConnect, TypeBase, EngineType
  <2>7. WorkType'
    BY <1>9 DEF WillConnect, WorkType, TypeBase, Owner, Work, Idle
  <2> QED
    BY <1>9, <2>6, <2>7, TypesKept DEF WillConnect, TypeBase
<1>10. ASSUME NEW stub \in Stub, AsynConnect(stub) PROVE TypeBase'
  <2>1. [kind |-> "connect", stub |-> stub] \in Request
    BY DEF Request
  <2>2. requests' \in Seq(Request)
    BY <1>10, <2>1 DEF AsynConnect, TypeBase
  <2>3. NodeType'
    BY <1>10 DEF AsynConnect, TypeBase, NodeType
  <2> QED
    BY <1>10, <2>2, <2>3, TypesKept DEF AsynConnect, TypeBase
<1>11. ASSUME NEW t \in Transfer, HandleConnectFailure(t) PROVE TypeBase'
  <2>1. EngineType'
    BY <1>11, InboxTypes DEF HandleConnectFailure, TakeMessage, TypeBase, EngineType
  <2>2. SessionType'
    BY <1>11 DEF HandleConnectFailure, TakeMessage, TypeBase, SessionType
  <2>3. NodeType'
    BY <1>11 DEF HandleConnectFailure, TakeMessage, Finish, TypeBase, NodeType
  <2> QED
    BY <1>11, <2>1, <2>2, <2>3, TypesKept DEF HandleConnectFailure, TakeMessage, TypeBase
<1>12. ASSUME NEW t \in Transfer, HandleConnected(t) PROVE TypeBase'
  <2>1. EngineType'
    BY <1>12, InboxTypes DEF HandleConnected, TakeMessage, TypeBase, EngineType
  <2>2. Head(inbox[t]).session \in Session
    <3>1. Head(inbox[t]) \in Message /\ Head(inbox[t]).kind = "connected"
      BY <1>12, InboxTypes DEF HandleConnected, TakeMessage
    <3> QED
      BY <3>1 DEF Message
  <2>3. SessionType'
    BY <1>12, <2>2 DEF HandleConnected, TakeMessage, TypeBase, SessionType
  <2>4. Head(inbox[t]).session.id \in SessionId
    BY <2>2 DEF Session
  <2>5. NodeType'
    BY <1>12, <2>4 DEF HandleConnected, TakeMessage, Finish, TypeBase, NodeType
  <2> QED
    BY <1>12, <2>1, <2>3, <2>5, TypesKept DEF HandleConnected, TakeMessage, TypeBase
<1>13. ASSUME NEW session \in sessions, SessionEnds(session) PROVE TypeBase'
  <2>1. SessionType'
    BY <1>13 DEF SessionEnds, TypeBase, SessionType
  <2> QED
    BY <1>13, <2>1, TypesKept DEF SessionEnds, TypeBase
<1>14. ASSUME NEW session \in sessions, Disconnect(session) PROVE TypeBase'
  <2>1. SessionType'
    BY <1>14 DEF Disconnect, TypeBase, SessionType
  <2>2. [kind |-> "gone", id |-> session.id] \in Request
    BY DEF Request, TypeBase, SessionType, Session
  <2>3. requests' \in Seq(Request)
    BY <1>14, <2>2 DEF Disconnect, TypeBase
  <2>4. NodeType'
    BY <1>14 DEF Disconnect, TypeBase, NodeType
  <2> QED
    BY <1>14, <2>1, <2>3, <2>4, TypesKept DEF Disconnect, TypeBase
<1>15. ASSUME NEW session \in sessions, Leave(session) PROVE TypeBase'
  <2>1. SessionType'
    BY <1>15 DEF Leave, TypeBase, SessionType
  <2>2. CountType'
    BY <1>15 DEF Leave, TypeBase, CountType
  <2>3. session.transfer \in Transfer
    BY DEF TypeBase, SessionType, Session
  <2>4. EngineType'
    BY <1>15, <2>3 DEF Leave, TypeBase, EngineType
  <2> QED
    BY <1>15, <2>1, <2>2, <2>4, TypesKept DEF Leave, TypeBase
<1>16. CASE UNCHANGED vars
  BY <1>16, TypesKept DEF vars, TypeBase
<1> QED
  BY <1>1, <1>2, <1>3, <1>4, <1>5, <1>6, <1>7, <1>8, <1>9, <1>10, <1>11, <1>12,
     <1>13, <1>14, <1>15, <1>16 DEF Next

-----------------------------------------------------------------------------
(* The limit. *)

(* No step takes the count over the limit by more than the connector's     *)
(* one uncounted connection.                                               *)
LEMMA NextLimit == TypeBase /\ LimitHolds /\ [Next]_vars => LimitHolds'
<1> SUFFICES ASSUME TypeBase, LimitHolds, [Next]_vars PROVE LimitHolds'
  OBVIOUS
<1> USE ConnectionsAssumption
<1> USE DEF LimitHolds, countVars
<1>0. curSessionCnt \in Int /\ curMaxSessionId \in Int /\ Limit \in Nat /\ work \in [Owner -> Work]
  BY DEF TypeBase, CountType, WorkType
<1>1. CASE Accept
  <2>1. CASE curSessionCnt < Limit
    BY <1>0, <1>1, <2>1 DEF Accept, Admit, Owner
  <2>2. CASE ~(curSessionCnt < Limit)
    BY <1>0, <1>1, <2>2 DEF Accept
  <2> QED
    BY <2>1, <2>2
<1>2. CASE CheckConnect
  <2>1. work'["connector"].at = IF curSessionCnt >= Limit THEN "failed" ELSE "connect"
    BY <1>0, <1>2 DEF CheckConnect, Owner
  <2>2. work["connector"].at = "idle" /\ curSessionCnt' = curSessionCnt
    BY <1>2 DEF CheckConnect, Idle
  <2> QED
    BY <1>0, <2>1, <2>2
<1>3. CASE Connected
  <2>1. curSessionCnt' = curSessionCnt + 1 /\ work'["connector"].at = "transfer"
    BY <1>0, <1>3 DEF Connected, Admit, Owner
  <2> QED
    BY <1>0, <1>3, <2>1 DEF Connected
<1>4. CASE ConnectFails
  <2>1. curSessionCnt' = curSessionCnt /\ work'["connector"].at = "failed"
    BY <1>0, <1>4 DEF ConnectFails, Owner, Work
  <2> QED
    BY <1>0, <2>1
<1>5. CASE Gone
  BY <1>0, <1>5 DEF Gone
<1>6. CASE ConnectFailure
  <2>1. curSessionCnt' = curSessionCnt /\ work'["connector"].at = "idle"
    BY <1>0, <1>6 DEF ConnectFailure, Owner, Idle
  <2> QED
    BY <1>0, <1>6, <2>1 DEF ConnectFailure
<1>7. ASSUME NEW o \in Owner, WillConnect(o) PROVE LimitHolds'
  <2>1. curSessionCnt' = curSessionCnt /\ work' = [work EXCEPT ![o] = Idle]
    BY <1>7 DEF WillConnect
  <2> QED
    BY <1>0, <1>7, <2>1 DEF WillConnect, Owner, Idle
<1>8. ASSUME NEW session \in sessions, Leave(session) PROVE LimitHolds'
  BY <1>0, <1>8 DEF Leave
<1>9. CASE UNCHANGED <<curSessionCnt, work>>
  BY <1>9
<1>10. AcceptPollerStep \/ EndOfBacklog => UNCHANGED <<curSessionCnt, work>>
  BY DEF AcceptPollerStep, EndOfBacklog
<1>11. \A stub \in Stub : AsynConnect(stub) => UNCHANGED <<curSessionCnt, work>>
  BY DEF AsynConnect
<1>12. \A t \in Transfer : HandleConnectFailure(t) \/ HandleConnected(t) => UNCHANGED <<curSessionCnt, work>>
  BY DEF HandleConnectFailure, HandleConnected, TakeMessage
<1>13. \A s \in sessions : SessionEnds(s) \/ Disconnect(s) => UNCHANGED <<curSessionCnt, work>>
  BY DEF SessionEnds, Disconnect
<1> QED
  BY <1>1, <1>2, <1>3, <1>4, <1>5, <1>6, <1>7, <1>8, <1>9, <1>10, <1>11, <1>12, <1>13
  DEF Next, vars

(* _curSessionCnt exceeds the limit by one at the most, whatever threads   *)
(* race for the last place.                                                *)
THEOREM LimitCorrect == Spec => []LimitHolds
<1>1. Init => LimitHolds
  BY ConnectionsAssumption DEF Init, LimitHolds, Idle, Owner
<1>2. Spec => [](TypeBase /\ LimitHolds)
  BY <1>1, InitType, NextType, NextLimit, PTL DEF Spec
<1> QED
  BY <1>2, PTL

-----------------------------------------------------------------------------
(* What the queues hold. *)

SessionsOf(q) == {m.session : m \in {x \in ToSet(q) : x.kind = "connected"}}
GoneOf(q) == {r.id : r \in {x \in ToSet(q) : x.kind = "gone"}}

(* No session is announced twice in a queue, no id told to be gone twice.  *)
AnnouncedOnce(q) ==
    \A i, j \in 1 .. Len(q) :
        (/\ q[i].kind = "connected" /\ q[j].kind = "connected"
         /\ q[i].session = q[j].session) => i = j
GoneOnce(q) ==
    \A i, j \in 1 .. Len(q) :
        (q[i].kind = "gone" /\ q[j].kind = "gone" /\ q[i].id = q[j].id) => i = j

(* Appending and taking, by index.                                         *)
LEMMA AppendAndTail ==
    ASSUME NEW S, NEW q \in Seq(S), NEW x \in S
    PROVE  /\ Len(Append(q, x)) = Len(q) + 1
           /\ \A i \in 1 .. Len(q) : Append(q, x)[i] = q[i]
           /\ Append(q, x)[Len(q) + 1] = x
           /\ q # <<>> => /\ Len(Tail(q)) = Len(q) - 1 /\ Len(q) >= 1
                          /\ \A i \in 1 .. Len(q) - 1 : Tail(q)[i] = q[i + 1]
                          /\ Head(q) = q[1]
OBVIOUS

LEMMA SessionsOfElement ==
    ASSUME NEW S, NEW q \in Seq(S)
    PROVE  \A s : s \in SessionsOf(q) <=>
               \E i \in 1 .. Len(q) : q[i].kind = "connected" /\ s = q[i].session
<1>1. ToSet(q) = {q[i] : i \in 1 .. Len(q)}
  BY DEF ToSet
<1> QED
  BY <1>1 DEF SessionsOf

LEMMA GoneOfElement ==
    ASSUME NEW S, NEW q \in Seq(S)
    PROVE  \A id : id \in GoneOf(q) <=>
               \E i \in 1 .. Len(q) : q[i].kind = "gone" /\ id = q[i].id
<1>1. ToSet(q) = {q[i] : i \in 1 .. Len(q)}
  BY DEF ToSet
<1> QED
  BY <1>1 DEF GoneOf

LEMMA SessionsAfterAppend ==
    ASSUME NEW S, NEW q \in Seq(S), NEW m \in S, AnnouncedOnce(q),
           m.kind = "connected" => m.session \notin SessionsOf(q)
    PROVE  /\ AnnouncedOnce(Append(q, m))
           /\ SessionsOf(Append(q, m)) =
                  SessionsOf(q) \cup (IF m.kind = "connected" THEN {m.session} ELSE {})
<1> DEFINE p == Append(q, m)
<1>1. /\ p \in Seq(S) /\ Len(q) \in Nat /\ Len(p) = Len(q) + 1
      /\ \A i \in 1 .. Len(q) : p[i] = q[i]
      /\ p[Len(q) + 1] = m
  BY AppendAndTail
<1> HIDE DEF p
<1>2. \A s : s \in SessionsOf(q) <=>
            \E i \in 1 .. Len(q) : q[i].kind = "connected" /\ s = q[i].session
  BY SessionsOfElement
<1>3. \A s : s \in SessionsOf(p) <=>
            \E i \in 1 .. Len(p) : p[i].kind = "connected" /\ s = p[i].session
  BY <1>1, SessionsOfElement
<1>4. AnnouncedOnce(p)
  <2> SUFFICES ASSUME NEW i \in 1 .. Len(p), NEW j \in 1 .. Len(p),
                      p[i].kind = "connected", p[j].kind = "connected",
                      p[i].session = p[j].session
               PROVE  i = j
    BY DEF AnnouncedOnce
  <2>1. CASE i \in 1 .. Len(q) /\ j \in 1 .. Len(q)
    <3>1. p[i] = q[i] /\ p[j] = q[j]
      BY <1>1, <2>1
    <3> QED
      BY <2>1, <3>1 DEF AnnouncedOnce
  <2>2. CASE i = Len(q) + 1 /\ j \in 1 .. Len(q)
    BY <1>1, <1>2, <2>2
  <2>3. CASE i \in 1 .. Len(q) /\ j = Len(q) + 1
    BY <1>1, <1>2, <2>3
  <2> QED
    BY <1>1, <2>1, <2>2, <2>3
<1>5. \A s : s \in SessionsOf(p) <=> s \in SessionsOf(q) \/ (m.kind = "connected" /\ s = m.session)
  <2> TAKE s
  <2>1. s \in SessionsOf(q) => s \in SessionsOf(p)
    <3> HAVE s \in SessionsOf(q)
    <3>1. PICK i \in 1 .. Len(q) : q[i].kind = "connected" /\ s = q[i].session
      BY <1>2
    <3>2. i \in 1 .. Len(p) /\ p[i] = q[i]
      BY <1>1
    <3> QED
      BY <1>3, <3>1, <3>2
  <2>2. (m.kind = "connected" /\ s = m.session) => s \in SessionsOf(p)
    <3>1. Len(q) + 1 \in 1 .. Len(p)
      BY <1>1
    <3> QED
      BY <1>1, <1>3, <3>1
  <2>3. s \in SessionsOf(p) => s \in SessionsOf(q) \/ (m.kind = "connected" /\ s = m.session)
    <3> HAVE s \in SessionsOf(p)
    <3>1. PICK i \in 1 .. Len(p) : p[i].kind = "connected" /\ s = p[i].session
      BY <1>3
    <3>2. CASE i \in 1 .. Len(q)
      BY <1>1, <1>2, <3>1, <3>2
    <3>3. CASE i = Len(q) + 1
      BY <1>1, <3>1, <3>3
    <3> QED
      BY <1>1, <3>2, <3>3
  <2> QED
    BY <2>1, <2>2, <2>3
<1> QED
  BY <1>4, <1>5 DEF p

LEMMA SessionsAfterTake ==
    ASSUME NEW S, NEW q \in Seq(S), AnnouncedOnce(q), q # <<>>
    PROVE  /\ AnnouncedOnce(Tail(q))
           /\ Head(q).kind = "connected" => Head(q).session \in SessionsOf(q)
           /\ SessionsOf(Tail(q)) =
                  SessionsOf(q) \ (IF Head(q).kind = "connected" THEN {Head(q).session} ELSE {})
<1> DEFINE p == Tail(q)
           m == Head(q)
<1>1. /\ p \in Seq(S) /\ Len(q) \in Nat /\ Len(q) >= 1 /\ Len(p) = Len(q) - 1
      /\ \A i \in 1 .. Len(q) - 1 : p[i] = q[i + 1]
      /\ q[1] = m
  <2>1. m \in S
    OBVIOUS
  <2> QED
    BY <2>1, AppendAndTail
<1> HIDE DEF p, m
<1>2. \A s : s \in SessionsOf(q) <=>
            \E i \in 1 .. Len(q) : q[i].kind = "connected" /\ s = q[i].session
  BY SessionsOfElement
<1>3. \A s : s \in SessionsOf(p) <=>
            \E i \in 1 .. Len(p) : p[i].kind = "connected" /\ s = p[i].session
  BY <1>1, SessionsOfElement
<1>4. AnnouncedOnce(p)
  <2> SUFFICES ASSUME NEW i \in 1 .. Len(p), NEW j \in 1 .. Len(p),
                      p[i].kind = "connected", p[j].kind = "connected",
                      p[i].session = p[j].session
               PROVE  i = j
    BY DEF AnnouncedOnce
  <2>1. /\ i + 1 \in 1 .. Len(q) /\ j + 1 \in 1 .. Len(q)
        /\ p[i] = q[i + 1] /\ p[j] = q[j + 1]
    BY <1>1
  <2>2. i + 1 = j + 1
    BY <2>1 DEF AnnouncedOnce
  <2> QED
    BY <1>1, <2>2
<1>5. m.kind = "connected" => m.session \in SessionsOf(q)
  <2>1. 1 \in 1 .. Len(q)
    BY <1>1
  <2> QED
    BY <1>1, <1>2, <2>1
<1>6. \A s : s \in SessionsOf(p) <=> s \in SessionsOf(q) /\ ~(m.kind = "connected" /\ s = m.session)
  <2> TAKE s
  <2>1. s \in SessionsOf(p) => s \in SessionsOf(q) /\ ~(m.kind = "connected" /\ s = m.session)
    <3> HAVE s \in SessionsOf(p)
    <3>1. PICK i \in 1 .. Len(p) : p[i].kind = "connected" /\ s = p[i].session
      BY <1>3
    <3>2. i + 1 \in 1 .. Len(q) /\ i + 1 # 1 /\ 1 \in 1 .. Len(q) /\ p[i] = q[i + 1]
      BY <1>1
    <3>3. s \in SessionsOf(q)
      BY <1>2, <3>1, <3>2
    <3>4. ~(m.kind = "connected" /\ s = m.session)
      BY <1>1, <3>1, <3>2 DEF AnnouncedOnce
    <3> QED
      BY <3>3, <3>4
  <2>2. ASSUME s \in SessionsOf(q), ~(m.kind = "connected" /\ s = m.session)
        PROVE  s \in SessionsOf(p)
    <3>1. PICK i \in 1 .. Len(q) : q[i].kind = "connected" /\ s = q[i].session
      BY <1>2, <2>2
    <3>2. i # 1
      BY <1>1, <2>2, <3>1
    <3>3. i - 1 \in 1 .. Len(p) /\ p[i - 1] = q[i]
      BY <1>1, <3>2
    <3> QED
      BY <1>3, <3>1, <3>3
  <2> QED
    BY <2>1, <2>2
<1> QED
  BY <1>4, <1>5, <1>6 DEF p, m

LEMMA GoneAfterAppend ==
    ASSUME NEW S, NEW q \in Seq(S), NEW m \in S, GoneOnce(q),
           m.kind = "gone" => m.id \notin GoneOf(q)
    PROVE  /\ GoneOnce(Append(q, m))
           /\ GoneOf(Append(q, m)) =
                  GoneOf(q) \cup (IF m.kind = "gone" THEN {m.id} ELSE {})
<1> DEFINE p == Append(q, m)
<1>1. /\ p \in Seq(S) /\ Len(q) \in Nat /\ Len(p) = Len(q) + 1
      /\ \A i \in 1 .. Len(q) : p[i] = q[i]
      /\ p[Len(q) + 1] = m
  BY AppendAndTail
<1> HIDE DEF p
<1>2. \A s : s \in GoneOf(q) <=>
            \E i \in 1 .. Len(q) : q[i].kind = "gone" /\ s = q[i].id
  BY GoneOfElement
<1>3. \A s : s \in GoneOf(p) <=>
            \E i \in 1 .. Len(p) : p[i].kind = "gone" /\ s = p[i].id
  BY <1>1, GoneOfElement
<1>4. GoneOnce(p)
  <2> SUFFICES ASSUME NEW i \in 1 .. Len(p), NEW j \in 1 .. Len(p),
                      p[i].kind = "gone", p[j].kind = "gone",
                      p[i].id = p[j].id
               PROVE  i = j
    BY DEF GoneOnce
  <2>1. CASE i \in 1 .. Len(q) /\ j \in 1 .. Len(q)
    <3>1. p[i] = q[i] /\ p[j] = q[j]
      BY <1>1, <2>1
    <3> QED
      BY <2>1, <3>1 DEF GoneOnce
  <2>2. CASE i = Len(q) + 1 /\ j \in 1 .. Len(q)
    BY <1>1, <1>2, <2>2
  <2>3. CASE i \in 1 .. Len(q) /\ j = Len(q) + 1
    BY <1>1, <1>2, <2>3
  <2> QED
    BY <1>1, <2>1, <2>2, <2>3
<1>5. \A s : s \in GoneOf(p) <=> s \in GoneOf(q) \/ (m.kind = "gone" /\ s = m.id)
  <2> TAKE s
  <2>1. s \in GoneOf(q) => s \in GoneOf(p)
    <3> HAVE s \in GoneOf(q)
    <3>1. PICK i \in 1 .. Len(q) : q[i].kind = "gone" /\ s = q[i].id
      BY <1>2
    <3>2. i \in 1 .. Len(p) /\ p[i] = q[i]
      BY <1>1
    <3> QED
      BY <1>3, <3>1, <3>2
  <2>2. (m.kind = "gone" /\ s = m.id) => s \in GoneOf(p)
    <3>1. Len(q) + 1 \in 1 .. Len(p)
      BY <1>1
    <3> QED
      BY <1>1, <1>3, <3>1
  <2>3. s \in GoneOf(p) => s \in GoneOf(q) \/ (m.kind = "gone" /\ s = m.id)
    <3> HAVE s \in GoneOf(p)
    <3>1. PICK i \in 1 .. Len(p) : p[i].kind = "gone" /\ s = p[i].id
      BY <1>3
    <3>2. CASE i \in 1 .. Len(q)
      BY <1>1, <1>2, <3>1, <3>2
    <3>3. CASE i = Len(q) + 1
      BY <1>1, <3>1, <3>3
    <3> QED
      BY <1>1, <3>2, <3>3
  <2> QED
    BY <2>1, <2>2, <2>3
<1> QED
  BY <1>4, <1>5 DEF p

LEMMA GoneAfterTake ==
    ASSUME NEW S, NEW q \in Seq(S), GoneOnce(q), q # <<>>
    PROVE  /\ GoneOnce(Tail(q))
           /\ Head(q).kind = "gone" => Head(q).id \in GoneOf(q)
           /\ GoneOf(Tail(q)) =
                  GoneOf(q) \ (IF Head(q).kind = "gone" THEN {Head(q).id} ELSE {})
<1> DEFINE p == Tail(q)
           m == Head(q)
<1>1. /\ p \in Seq(S) /\ Len(q) \in Nat /\ Len(q) >= 1 /\ Len(p) = Len(q) - 1
      /\ \A i \in 1 .. Len(q) - 1 : p[i] = q[i + 1]
      /\ q[1] = m
  <2>1. m \in S
    OBVIOUS
  <2> QED
    BY <2>1, AppendAndTail
<1> HIDE DEF p, m
<1>2. \A s : s \in GoneOf(q) <=>
            \E i \in 1 .. Len(q) : q[i].kind = "gone" /\ s = q[i].id
  BY GoneOfElement
<1>3. \A s : s \in GoneOf(p) <=>
            \E i \in 1 .. Len(p) : p[i].kind = "gone" /\ s = p[i].id
  BY <1>1, GoneOfElement
<1>4. GoneOnce(p)
  <2> SUFFICES ASSUME NEW i \in 1 .. Len(p), NEW j \in 1 .. Len(p),
                      p[i].kind = "gone", p[j].kind = "gone",
                      p[i].id = p[j].id
               PROVE  i = j
    BY DEF GoneOnce
  <2>1. /\ i + 1 \in 1 .. Len(q) /\ j + 1 \in 1 .. Len(q)
        /\ p[i] = q[i + 1] /\ p[j] = q[j + 1]
    BY <1>1
  <2>2. i + 1 = j + 1
    BY <2>1 DEF GoneOnce
  <2> QED
    BY <1>1, <2>2
<1>5. m.kind = "gone" => m.id \in GoneOf(q)
  <2>1. 1 \in 1 .. Len(q)
    BY <1>1
  <2> QED
    BY <1>1, <1>2, <2>1
<1>6. \A s : s \in GoneOf(p) <=> s \in GoneOf(q) /\ ~(m.kind = "gone" /\ s = m.id)
  <2> TAKE s
  <2>1. s \in GoneOf(p) => s \in GoneOf(q) /\ ~(m.kind = "gone" /\ s = m.id)
    <3> HAVE s \in GoneOf(p)
    <3>1. PICK i \in 1 .. Len(p) : p[i].kind = "gone" /\ s = p[i].id
      BY <1>3
    <3>2. i + 1 \in 1 .. Len(q) /\ i + 1 # 1 /\ 1 \in 1 .. Len(q) /\ p[i] = q[i + 1]
      BY <1>1
    <3>3. s \in GoneOf(q)
      BY <1>2, <3>1, <3>2
    <3>4. ~(m.kind = "gone" /\ s = m.id)
      BY <1>1, <3>1, <3>2 DEF GoneOnce
    <3> QED
      BY <3>3, <3>4
  <2>2. ASSUME s \in GoneOf(q), ~(m.kind = "gone" /\ s = m.id)
        PROVE  s \in GoneOf(p)
    <3>1. PICK i \in 1 .. Len(q) : q[i].kind = "gone" /\ s = q[i].id
      BY <1>2, <2>2
    <3>2. i # 1
      BY <1>1, <2>2, <3>1
    <3>3. i - 1 \in 1 .. Len(p) /\ p[i - 1] = q[i]
      BY <1>1, <3>2
    <3> QED
      BY <1>3, <3>1, <3>3
  <2> QED
    BY <2>1, <2>2
<1> QED
  BY <1>4, <1>5, <1>6 DEF p, m

-----------------------------------------------------------------------------
(* The inductive invariant of the counts. *)

(* An id belongs to one session, which is announced once or is in          *)
(* _sessions, and came by way of the transfer that counts it.              *)
QueuesOnce == (\A t \in Transfer : AnnouncedOnce(inbox[t])) /\ GoneOnce(requests)
KnownOnce == \A a, b \in Known : a.id = b.id => a = b
ComingOnce == \A t \in Transfer : \A s \in Coming(t) : s.transfer = t /\ s \notin sessions

(* Ids are below the largest; an id in the hands of acceptor or connector  *)
(* is nobody else's.                                                       *)
IdsBelow ==
    /\ \A s \in Known : s.id \in 1 .. curMaxSessionId
    /\ GoneIds \subseteq 1 .. curMaxSessionId
    /\ \A o \in Owner : InHand(o) \subseteq 1 .. curMaxSessionId
HandsApart ==
    /\ InHand("acceptor") \cap InHand("connector") = {}
    /\ \A o \in Owner : \A id \in InHand(o) : id \notin GoneIds /\ \A s \in Known : s.id # id

(* One session leaves at a time.  An id the connector is yet to count down *)
(* is of a session that has left or is leaving.                            *)
LeavingOne ==
    /\ \A a, b \in leaving : a = b
    /\ \A id \in leaving : \E s \in sessions : s.id = id
GoneHasLeft == \A s \in Known : s.id \in GoneIds => s.id \in leaving

Finite == IsFiniteSet(Known) /\ \A o \in Owner : IsFiniteSet(sucConnected[o])

IInv ==
    /\ TypeBase /\ QueuesOnce /\ KnownOnce /\ ComingOnce /\ IdsBelow /\ HandsApart
    /\ LeavingOne /\ GoneHasLeft /\ Finite /\ CountsAgree

LEMMA KnownKept ==
    ASSUME UNCHANGED sessions, \A t \in Transfer : Coming(t)' = Coming(t)
    PROVE  /\ Known' = Known
           /\ \A o \in Owner : OwnedBy(o)' = OwnedBy(o)
<1>1. Known' = Known
  BY DEF Known
<1> QED
  BY <1>1 DEF OwnedBy

LEMMA QueuesKept ==
    /\ UNCHANGED inbox => \A t \in Transfer : Coming(t)' = Coming(t)
    /\ UNCHANGED requests => GoneIds' = GoneIds
    /\ UNCHANGED work => \A o \in Owner : InHand(o)' = InHand(o)
    /\ QueuesOnce /\ UNCHANGED <<inbox, requests>> => QueuesOnce'
BY DEF Coming, GoneIds, InHand, QueuesOnce, AnnouncedOnce, GoneOnce

(* Every id the two sets hold is one that was given out.                   *)
LEMMA IdsGivenOut ==
    ASSUME IInv
    PROVE  \A o \in Owner : sucConnected[o] \subseteq 1 .. curMaxSessionId
<1>1. \A o \in Owner : OwnedBy(o) \subseteq 1 .. curMaxSessionId
  BY DEF OwnedBy, IInv, IdsBelow
<1> QED
  BY <1>1 DEF IInv, IdsBelow, CountsAgree, IdsAreOfSessions, Owner

(* A step that moves no session and no id.                                 *)
LEMMA NothingMoves ==
    ASSUME IInv, TypeBase', QueuesOnce',
           \A t \in Transfer : Coming(t)' = Coming(t),
           \A o \in Owner : InHand(o)' = InHand(o),
           GoneIds' = GoneIds,
           UNCHANGED <<sessions, leaving, countVars, curSessionConnecting, sessionCnt>>
    PROVE  IInv'
<1>1. Known' = Known /\ \A o \in Owner : OwnedBy(o)' = OwnedBy(o)
  BY KnownKept
<1>2. KnownOnce' /\ ComingOnce' /\ GoneHasLeft'
  BY <1>1 DEF IInv, KnownOnce, ComingOnce, GoneHasLeft
<1>3. IdsBelow' /\ HandsApart'
  BY <1>1 DEF IInv, IdsBelow, HandsApart, countVars, Owner
<1>4. LeavingOne'
  BY DEF IInv, LeavingOne
<1>5. Finite'
  BY <1>1 DEF IInv, Finite, countVars
<1>6. IdsAreCounted' /\ IdsAreOfSessions' /\ SessionsAreCounted'
  BY <1>1 DEF IInv, CountsAgree, IdsAreCounted, IdsAreOfSessions, SessionsAreCounted, countVars, Owner
<1> QED
  BY <1>2, <1>3, <1>4, <1>5, <1>6 DEF IInv, CountsAgree

(* A new session is counted, its id goes from the counter to the hands of  *)
(* acceptor or connector.                                                  *)
LEMMA AdmitMoves ==
    ASSUME IInv, TypeBase', NEW o \in Owner, NEW stub, Admit(o, stub), InHand(o) = {},
           UNCHANGED <<sessions, leaving, requests, inbox, curSessionConnecting, sessionCnt>>
    PROVE  IInv'
<1> DEFINE n == curMaxSessionId + 1
<1>0. /\ curMaxSessionId \in Nat /\ curMaxSessionId' = n /\ n \in 1 .. n /\ n \notin 1 .. curMaxSessionId
      /\ 1 .. curMaxSessionId \subseteq 1 .. n
  BY DEF IInv, TypeBase, CountType, Admit
<1>1. \A t \in Transfer : Coming(t)' = Coming(t)
  BY QueuesKept
<1>2. GoneIds' = GoneIds /\ QueuesOnce'
  BY QueuesKept DEF IInv
<1>3. Known' = Known /\ \A p \in Owner : OwnedBy(p)' = OwnedBy(p)
  BY <1>1, KnownKept
<1>4. InHand(o)' = {n} /\ \A p \in Owner : p # o => InHand(p)' = InHand(p)
  BY DEF InHand, Admit, IInv, TypeBase, WorkType
<1>5. /\ sucConnected'[o] = sucConnected[o] \cup {n}
      /\ \A p \in Owner : p # o => sucConnected'[p] = sucConnected[p]
  BY DEF Admit, IInv, TypeBase, CountType
<1>6. curSessionCnt' = curSessionCnt + 1
  BY DEF Admit
<1> HIDE DEF n
<1>7. KnownOnce' /\ ComingOnce' /\ GoneHasLeft' /\ LeavingOne'
  BY <1>1, <1>2, <1>3 DEF IInv, KnownOnce, ComingOnce, GoneHasLeft, LeavingOne
<1>8. IdsBelow'
  BY <1>0, <1>2, <1>3, <1>4 DEF IInv, IdsBelow
<1>9. HandsApart'
  <2>1. \A p \in Owner : \A id \in InHand(p)' : id \notin GoneIds /\ \A s \in Known : s.id # id
    BY <1>0, <1>4 DEF IInv, IdsBelow, HandsApart
  <2>2. InHand("acceptor")' \cap InHand("connector")' = {}
    BY <1>0, <1>4 DEF IInv, IdsBelow, HandsApart, Owner
  <2> QED
    BY <1>2, <1>3, <2>1, <2>2 DEF HandsApart
<1>10. \A p \in Owner : IsFiniteSet(sucConnected[p]) /\ Cardinality(sucConnected[p]) \in Nat
  BY FS_CardinalityType DEF IInv, Finite
<1>11. n \notin sucConnected[o]
  BY <1>0, IdsGivenOut
<1>12. /\ IsFiniteSet(sucConnected'[o])
       /\ Cardinality(sucConnected'[o]) = Cardinality(sucConnected[o]) + 1
  <2>1. PICK S : S = sucConnected[o]
    OBVIOUS
  <2>2. IsFiniteSet(S) /\ n \notin S
    BY <1>10, <1>11, <2>1
  <2>3. IsFiniteSet(S \cup {n}) /\ Cardinality(S \cup {n}) = Cardinality(S) + 1
    BY <2>2, FS_AddElement
  <2> QED
    BY <1>5, <2>1, <2>3
<1>13. Finite'
  BY <1>3, <1>5, <1>12 DEF IInv, Finite
<1>14. IdsAreCounted'
  <2>1. curSessionCnt = Cardinality(sucConnected["acceptor"]) + Cardinality(sucConnected["connector"])
    BY DEF IInv, CountsAgree, IdsAreCounted
  <2>2. Cardinality(sucConnected["acceptor"]) \in Nat /\ Cardinality(sucConnected["connector"]) \in Nat
    BY <1>10 DEF Owner
  <2>3. CASE o = "acceptor"
    <3>1. sucConnected'["connector"] = sucConnected["connector"]
      BY <1>5, <2>3 DEF Owner
    <3> QED
      BY <1>6, <1>12, <2>1, <2>2, <2>3, <3>1 DEF IdsAreCounted
  <2>4. CASE o = "connector"
    <3>1. sucConnected'["acceptor"] = sucConnected["acceptor"]
      BY <1>5, <2>4 DEF Owner
    <3> QED
      BY <1>6, <1>12, <2>1, <2>2, <2>4, <3>1 DEF IdsAreCounted
  <2> QED
    BY <2>3, <2>4 DEF Owner
<1>15. IdsAreOfSessions'
  BY <1>2, <1>3, <1>4, <1>5 DEF IInv, CountsAgree, IdsAreOfSessions, Owner
<1>16. SessionsAreCounted'
  BY <1>3 DEF IInv, CountsAgree, SessionsAreCounted
<1> QED
  BY <1>2, <1>7, <1>8, <1>9, <1>13, <1>14, <1>15, <1>16 DEF IInv, CountsAgree

(* The connector counts a session of its own down.                         *)
LEMMA GoneMoves ==
    ASSUME IInv, TypeBase', Gone
    PROVE  IInv'
<1> DEFINE id == Head(requests).id
<1>1. /\ requests \in Seq(Request) /\ requests # <<>> /\ Head(requests).kind = "gone"
      /\ requests' = Tail(requests)
  BY DEF Gone, IInv, TypeBase
<1>2. GoneIds = GoneOf(requests) /\ GoneIds' = GoneOf(requests') /\ GoneOnce(requests)
  BY DEF GoneIds, GoneOf, IInv, QueuesOnce
<1>3. id \in GoneIds /\ GoneIds' = GoneIds \ {id} /\ GoneOnce(requests')
  BY <1>1, <1>2, GoneAfterTake
<1>4. /\ \A t \in Transfer : Coming(t)' = Coming(t)
      /\ \A o \in Owner : InHand(o)' = InHand(o)
  BY QueuesKept DEF Gone, engineVars
<1>5. QueuesOnce'
  BY <1>3 DEF IInv, QueuesOnce, AnnouncedOnce, Gone, engineVars
<1>6. UNCHANGED <<sessions, leaving, curMaxSessionId, curSessionConnecting, sessionCnt>>
  BY DEF Gone, engineVars, dispatcherVars, sessionVars
<1>7. Known' = Known /\ \A o \in Owner : OwnedBy(o)' = OwnedBy(o)
  BY <1>4, <1>6, KnownKept
<1>8. /\ sucConnected'["connector"] = sucConnected["connector"] \ {id}
      /\ sucConnected'["acceptor"] = sucConnected["acceptor"]
      /\ curSessionCnt' = curSessionCnt - 1
  BY DEF Gone, IInv, TypeBase, CountType, Owner
<1> HIDE DEF id
<1>9. KnownOnce' /\ ComingOnce' /\ GoneHasLeft' /\ LeavingOne'
  BY <1>3, <1>4, <1>6, <1>7 DEF IInv, KnownOnce, ComingOnce, GoneHasLeft, LeavingOne
<1>10. IdsBelow' /\ HandsApart'
  BY <1>3, <1>4, <1>6, <1>7 DEF IInv, IdsBelow, HandsApart, Owner
<1>11. \A o \in Owner : IsFiniteSet(sucConnected[o]) /\ Cardinality(sucConnected[o]) \in Nat
  BY FS_CardinalityType DEF IInv, Finite
<1>12. id \in sucConnected["connector"]
  BY <1>3 DEF IInv, CountsAgree, IdsAreOfSessions
<1>13. /\ IsFiniteSet(sucConnected'["connector"])
       /\ Cardinality(sucConnected'["connector"]) = Cardinality(sucConnected["connector"]) - 1
  BY <1>8, <1>11, <1>12, FS_RemoveElement DEF Owner
<1>14. Finite'
  BY <1>7, <1>8, <1>13 DEF IInv, Finite, Owner
<1>15. IdsAreCounted'
  <2>1. curSessionCnt = Cardinality(sucConnected["acceptor"]) + Cardinality(sucConnected["connector"])
    BY DEF IInv, CountsAgree, IdsAreCounted
  <2>2. Cardinality(sucConnected["acceptor"]) \in Nat /\ Cardinality(sucConnected["connector"]) \in Nat
    BY <1>11 DEF Owner
  <2> QED
    BY <1>8, <1>13, <2>1, <2>2 DEF IdsAreCounted
<1>16. IdsAreOfSessions'
  <2>1. id \notin InHand("connector")
    BY <1>3 DEF IInv, HandsApart, Owner
  <2>2. id \notin OwnedBy("connector") \ leaving
    BY <1>3 DEF IInv, GoneHasLeft, OwnedBy
  <2> QED
    BY <1>3, <1>4, <1>6, <1>7, <1>8, <2>1, <2>2 DEF IInv, CountsAgree, IdsAreOfSessions, Owner
<1>17. SessionsAreCounted'
  BY <1>6, <1>7 DEF IInv, CountsAgree, SessionsAreCounted
<1> QED
  BY <1>5, <1>9, <1>10, <1>14, <1>15, <1>16, <1>17 DEF IInv, CountsAgree

(* The cardinalities the engine's counters are compared with.              *)
LEMMA KnownCardinalities ==
    ASSUME IInv
    PROVE  /\ IsFiniteSet(Known) /\ Cardinality(Known) \in Nat
           /\ \A t \in Transfer : /\ IsFiniteSet({s \in Known : s.transfer = t})
                                  /\ Cardinality({s \in Known : s.transfer = t}) \in Nat
<1>1. IsFiniteSet(Known)
  BY DEF IInv, Finite
<1>2. \A t \in Transfer : IsFiniteSet({s \in Known : s.transfer = t})
  BY <1>1, FS_Subset
<1> QED
  BY <1>1, <1>2, FS_CardinalityType

(* The engine gives a session to a transfer, which announces it.           *)
LEMMA WillConnectMoves ==
    ASSUME IInv, TypeBase', NEW o \in Owner, WillConnect(o)
    PROVE  IInv'
<1>1. PICK t \in Transfer :
          /\ sessionCnt' = [sessionCnt EXCEPT ![t] = @ + 1]
          /\ inbox' = [inbox EXCEPT ![t] = Append(@,
                 [kind |-> "connected",
                  session |-> [id |-> work[o].id, owner |-> o, stub |-> work[o].stub, transfer |-> t]])]
  BY DEF WillConnect
<1> DEFINE s == [id |-> work[o].id, owner |-> o, stub |-> work[o].stub, transfer |-> t]
           m == [kind |-> "connected", session |-> s]
<1>2. InHand(o) = {s.id} /\ InHand(o)' = {} /\ \A p \in Owner : p # o => InHand(p)' = InHand(p)
  BY DEF InHand, WillConnect, IInv, TypeBase, WorkType, Idle
<1>3. s.owner = o /\ s.transfer = t /\ m.kind = "connected" /\ m.session = s /\ s \in Session
  <2>1. work[o].id \in SessionId /\ work[o].stub \in Stub \cup {NoStub}
    BY DEF WillConnect, IInv, TypeBase, WorkType, Work
  <2> QED
    BY <2>1 DEF Session
<1> HIDE DEF s
<1>4. inbox' = [inbox EXCEPT ![t] = Append(@, m)]
  BY <1>1 DEF s
<1>5. m \in Message
  BY <1>3 DEF Message
<1> HIDE DEF m
<1>6. /\ UNCHANGED <<requests, sessions, leaving, countVars>>
      /\ curSessionConnecting' = curSessionConnecting + 1
  BY DEF WillConnect, dispatcherVars, sessionVars
<1>7. GoneIds' = GoneIds
  BY <1>6, QueuesKept
<1>8. /\ s.id \in 1 .. curMaxSessionId /\ s.id \notin GoneIds
      /\ \A x \in Known : x.id # s.id
  BY <1>2 DEF IInv, IdsBelow, HandsApart
<1>9. s \notin Known /\ \A u \in Transfer : s \notin Coming(u)
  BY <1>8 DEF Known
<1>10. s.id \notin leaving
  BY <1>8 DEF IInv, LeavingOne, Known
<1>11. inbox \in [Transfer -> Seq(Message)]
  BY DEF IInv, TypeBase, EngineType
<1>12. /\ inbox'[t] = Append(inbox[t], m)
       /\ \A u \in Transfer : u # t => inbox'[u] = inbox[u]
  BY <1>4, <1>11
<1>13. \A u \in Transfer : Coming(u) = SessionsOf(inbox[u]) /\ Coming(u)' = SessionsOf(inbox'[u])
  BY DEF Coming, SessionsOf
<1>14. AnnouncedOnce(inbox'[t]) /\ Coming(t)' = Coming(t) \cup {s}
  <2>1. inbox[t] \in Seq(Message) /\ AnnouncedOnce(inbox[t])
    BY <1>11 DEF IInv, QueuesOnce
  <2>2. m.session \notin SessionsOf(inbox[t])
    BY <1>3, <1>9, <1>13
  <2>3. /\ AnnouncedOnce(Append(inbox[t], m))
        /\ SessionsOf(Append(inbox[t], m)) = SessionsOf(inbox[t]) \cup {m.session}
    BY <1>3, <1>5, <2>1, <2>2, SessionsAfterAppend
  <2> QED
    BY <1>3, <1>12, <1>13, <2>3
<1>15. \A u \in Transfer : u # t => Coming(u)' = Coming(u)
  BY <1>12, <1>13
<1>16. Known' = Known \cup {s}
  BY <1>6, <1>14, <1>15 DEF Known
<1>17. OwnedBy(o)' = OwnedBy(o) \cup {s.id} /\ \A p \in Owner : p # o => OwnedBy(p)' = OwnedBy(p)
  BY <1>3, <1>16 DEF OwnedBy
<1>18. QueuesOnce'
  BY <1>6, <1>12, <1>14 DEF IInv, QueuesOnce
<1>19. KnownOnce'
  BY <1>8, <1>16 DEF IInv, KnownOnce
<1>20. ComingOnce'
  BY <1>3, <1>6, <1>9, <1>14, <1>15 DEF IInv, ComingOnce, Known
<1>21. IdsBelow'
  BY <1>2, <1>6, <1>7, <1>8, <1>16 DEF IInv, IdsBelow, countVars
<1>22. HandsApart'
  <2>1. \A p \in Owner : InHand(p)' \subseteq InHand(p)
    BY <1>2
  <2>2. \A p \in Owner : s.id \notin InHand(p)'
    BY <1>2 DEF IInv, HandsApart, Owner
  <2>3. InHand("acceptor")' \cap InHand("connector")' = {}
    BY <2>1 DEF IInv, HandsApart, Owner
  <2>4. \A p \in Owner : \A id \in InHand(p)' : id \notin GoneIds' /\ \A x \in Known' : x.id # id
    <3> SUFFICES ASSUME NEW p \in Owner, NEW id \in InHand(p)'
                 PROVE  id \notin GoneIds /\ \A x \in Known \cup {s} : x.id # id
      BY <1>7, <1>16
    <3>1. id \in InHand(p) /\ id # s.id
      BY <2>1, <2>2
    <3> QED
      BY <3>1 DEF IInv, HandsApart
  <2> QED
    BY <2>3, <2>4 DEF HandsApart
<1>23. LeavingOne' /\ GoneHasLeft'
  BY <1>6, <1>7, <1>8, <1>16 DEF IInv, LeavingOne, GoneHasLeft
<1>24. /\ IsFiniteSet(Known') /\ Cardinality(Known') = Cardinality(Known) + 1
  BY <1>9, <1>16, KnownCardinalities, FS_AddElement
<1>25. Finite'
  BY <1>6, <1>24 DEF IInv, Finite, countVars
<1>26. IdsAreCounted' /\ IdsAreOfSessions'
  <2>1. IdsAreCounted'
    BY <1>6 DEF IInv, CountsAgree, IdsAreCounted, countVars
  <2>2. IdsAreOfSessions'
    BY <1>2, <1>6, <1>7, <1>10, <1>17 DEF IInv, CountsAgree, IdsAreOfSessions, countVars, Owner
  <2> QED
    BY <2>1, <2>2
<1>27. SessionsAreCounted'
  <2> DEFINE Mine(u) == {x \in Known : x.transfer = u}
             MineNext(u) == {x \in Known' : x.transfer = u}
  <2>1. MineNext(t) = Mine(t) \cup {s} /\ s \notin Mine(t)
    BY <1>3, <1>9, <1>16
  <2>2. \A u \in Transfer : u # t => MineNext(u) = Mine(u)
    BY <1>3, <1>16
  <2>3. IsFiniteSet(Mine(t)) /\ \A u \in Transfer : sessionCnt[u] = Cardinality(Mine(u))
    BY KnownCardinalities DEF IInv, CountsAgree, SessionsAreCounted
  <2>4. sessionCnt'[t] = sessionCnt[t] + 1 /\ \A u \in Transfer : u # t => sessionCnt'[u] = sessionCnt[u]
    BY <1>1 DEF IInv, TypeBase, EngineType
  <2> HIDE DEF Mine, MineNext
  <2>5. Cardinality(MineNext(t)) = Cardinality(Mine(t)) + 1
    BY <2>1, <2>3, FS_AddElement
  <2>6. \A u \in Transfer : sessionCnt'[u] = Cardinality(MineNext(u))
    BY <2>2, <2>3, <2>4, <2>5
  <2>7. curSessionConnecting' = Cardinality(Known')
    BY <1>6, <1>24 DEF IInv, CountsAgree, SessionsAreCounted
  <2> QED
    BY <2>6, <2>7 DEF SessionsAreCounted, MineNext
<1> QED
  BY <1>18, <1>19, <1>20, <1>21, <1>22, <1>23, <1>25, <1>26, <1>27 DEF IInv, CountsAgree

(* The dispatcher takes a session over from a queue.                       *)
LEMMA HandleConnectedMoves ==
    ASSUME IInv, TypeBase', NEW t \in Transfer, HandleConnected(t)
    PROVE  IInv'
<1> DEFINE s == Head(inbox[t]).session
<1>1. inbox \in [Transfer -> Seq(Message)] /\ inbox[t] \in Seq(Message)
  BY DEF IInv, TypeBase, EngineType
<1>2. /\ inbox[t] # <<>> /\ Head(inbox[t]).kind = "connected"
      /\ inbox'[t] = Tail(inbox[t])
      /\ \A u \in Transfer : u # t => inbox'[u] = inbox[u]
  BY <1>1 DEF HandleConnected, TakeMessage
<1>3. /\ sessions' = sessions \cup {s}
      /\ UNCHANGED <<requests, work, leaving, countVars, curSessionConnecting, sessionCnt>>
  BY DEF HandleConnected, TakeMessage
<1>4. \A u \in Transfer : Coming(u) = SessionsOf(inbox[u]) /\ Coming(u)' = SessionsOf(inbox'[u])
  BY DEF Coming, SessionsOf
<1>5. AnnouncedOnce(inbox'[t]) /\ s \in Coming(t) /\ Coming(t)' = Coming(t) \ {s}
  <2>1. AnnouncedOnce(inbox[t])
    BY DEF IInv, QueuesOnce
  <2> QED
    BY <1>1, <1>2, <1>4, <2>1, SessionsAfterTake
<1> HIDE DEF s
<1>6. \A u \in Transfer : u # t => Coming(u)' = Coming(u)
  BY <1>2, <1>4
<1>7. Known' = Known
  <2>1. \A x : x \in Known <=> x \in sessions \/ \E u \in Transfer : x \in Coming(u)
    BY DEF Known
  <2>2. \A x : x \in Known' <=> x \in sessions' \/ \E u \in Transfer : x \in Coming(u)'
    BY DEF Known
  <2>3. \A x : x \in Known' => x \in Known
    BY <1>3, <1>5, <1>6, <2>1, <2>2
  <2>4. \A x : x \in Known => x \in Known'
    BY <1>3, <1>5, <1>6, <2>1, <2>2
  <2> QED
    BY <2>3, <2>4
<1>8. \A o \in Owner : OwnedBy(o)' = OwnedBy(o)
  BY <1>7 DEF OwnedBy
<1>9. GoneIds' = GoneIds /\ \A o \in Owner : InHand(o)' = InHand(o)
  BY <1>3, QueuesKept
<1>10. QueuesOnce'
  BY <1>2, <1>3, <1>5 DEF IInv, QueuesOnce
<1>11. KnownOnce' /\ GoneHasLeft'
  BY <1>3, <1>7, <1>9 DEF IInv, KnownOnce, GoneHasLeft
<1>12. ComingOnce'
  BY <1>3, <1>5, <1>6 DEF IInv, ComingOnce
<1>13. IdsBelow' /\ HandsApart'
  BY <1>3, <1>7, <1>9 DEF IInv, IdsBelow, HandsApart, countVars, Owner
<1>14. LeavingOne'
  BY <1>3 DEF IInv, LeavingOne
<1>15. Finite'
  BY <1>3, <1>7 DEF IInv, Finite, countVars
<1>16. IdsAreCounted' /\ IdsAreOfSessions' /\ SessionsAreCounted'
  BY <1>3, <1>7, <1>8, <1>9
  DEF IInv, CountsAgree, IdsAreCounted, IdsAreOfSessions, SessionsAreCounted, countVars, Owner
<1> QED
  BY <1>10, <1>11, <1>12, <1>13, <1>14, <1>15, <1>16 DEF IInv, CountsAgree

(* A session leaves the logic; if the connector's, its id goes from the    *)
(* sessions to the connector's queue.                                      *)
LEMMA DisconnectMoves ==
    ASSUME IInv, TypeBase', NEW s \in sessions, Disconnect(s)
    PROVE  IInv'
<1>1. /\ leaving = {} /\ leaving' = {s.id}
      /\ UNCHANGED <<work, inbox, sessions, countVars, curSessionConnecting, sessionCnt>>
      /\ requests' = IF s.owner = "connector" THEN Append(requests, [kind |-> "gone", id |-> s.id])
                     ELSE requests
  BY DEF Disconnect, AtRest, engineVars
<1>2. /\ \A t \in Transfer : Coming(t)' = Coming(t)
      /\ \A o \in Owner : InHand(o)' = InHand(o)
  BY <1>1, QueuesKept
<1>3. Known' = Known /\ \A o \in Owner : OwnedBy(o)' = OwnedBy(o)
  BY <1>1, <1>2, KnownKept
<1>4. s \in Known /\ s \in Session
  BY DEF Known, IInv, TypeBase, SessionType
<1>5. s.id \notin GoneIds
  BY <1>1, <1>4 DEF IInv, GoneHasLeft
<1>6. GoneIds = GoneOf(requests) /\ GoneIds' = GoneOf(requests') /\ GoneOnce(requests)
  BY DEF GoneIds, GoneOf, IInv, QueuesOnce
<1>7. /\ GoneIds' = GoneIds \cup (IF s.owner = "connector" THEN {s.id} ELSE {})
      /\ GoneOnce(requests')
  <2> DEFINE r == [kind |-> "gone", id |-> s.id]
  <2>1. r \in Request /\ r.kind = "gone" /\ r.id = s.id
    BY <1>4 DEF Request, Session
  <2>2. requests \in Seq(Request)
    BY DEF IInv, TypeBase
  <2> HIDE DEF r
  <2>3. /\ GoneOnce(Append(requests, r))
        /\ GoneOf(Append(requests, r)) = GoneOf(requests) \cup {s.id}
    BY <1>5, <1>6, <2>1, <2>2, GoneAfterAppend
  <2>4. requests' = IF s.owner = "connector" THEN Append(requests, r) ELSE requests
    BY <1>1 DEF r
  <2>5. CASE s.owner = "connector"
    BY <1>6, <2>3, <2>4, <2>5
  <2>6. CASE s.owner # "connector"
    BY <1>6, <2>4, <2>6
  <2> QED
    BY <2>5, <2>6
<1>8. QueuesOnce'
  BY <1>1, <1>7 DEF IInv, QueuesOnce
<1>9. KnownOnce' /\ ComingOnce'
  BY <1>1, <1>2, <1>3 DEF IInv, KnownOnce, ComingOnce
<1>10. IdsBelow'
  BY <1>1, <1>2, <1>3, <1>4, <1>7 DEF IInv, IdsBelow, countVars, Owner
<1>11. HandsApart'
  <2>1. \A o \in Owner : s.id \notin InHand(o)
    BY <1>4 DEF IInv, HandsApart
  <2> QED
    BY <1>2, <1>3, <1>7, <2>1 DEF IInv, HandsApart, Owner
<1>12. LeavingOne'
  BY <1>1 DEF LeavingOne
<1>13. GoneHasLeft'
  BY <1>1, <1>3, <1>7 DEF IInv, GoneHasLeft
<1>14. Finite'
  BY <1>1, <1>3 DEF IInv, Finite, countVars
<1>15. IdsAreOfSessions'
  <2>1. /\ sucConnected["acceptor"] = InHand("acceptor") \cup OwnedBy("acceptor")
        /\ sucConnected["connector"] = InHand("connector") \cup OwnedBy("connector") \cup GoneIds
    BY <1>1 DEF IInv, CountsAgree, IdsAreOfSessions
  <2>2. CASE s.owner = "connector"
    <3>1. s.id \in OwnedBy("connector")
      BY <1>4, <2>2 DEF OwnedBy
    <3>2. OwnedBy("connector") \cup GoneIds
             = (OwnedBy("connector") \ leaving') \cup GoneIds'
      BY <1>1, <1>7, <2>2, <3>1
    <3> QED
      BY <1>1, <1>2, <1>3, <2>1, <3>2 DEF IdsAreOfSessions, countVars, Owner
  <2>3. CASE s.owner # "connector"
    <3>1. s.id \notin OwnedBy("connector")
      BY <1>4, <2>3 DEF OwnedBy, IInv, KnownOnce
    <3>2. OwnedBy("connector") \cup GoneIds
             = (OwnedBy("connector") \ leaving') \cup GoneIds'
      BY <1>1, <1>7, <2>3, <3>1
    <3> QED
      BY <1>1, <1>2, <1>3, <2>1, <3>2 DEF IdsAreOfSessions, countVars, Owner
  <2> QED
    BY <2>2, <2>3
<1>16. IdsAreCounted' /\ SessionsAreCounted'
  BY <1>1, <1>3 DEF IInv, CountsAgree, IdsAreCounted, SessionsAreCounted, countVars
<1> QED
  BY <1>8, <1>9, <1>10, <1>11, <1>12, <1>13, <1>14, <1>15, <1>16 DEF IInv, CountsAgree

(* A session leaves the engine and its transfer, and the acceptor counts   *)
(* its own down.                                                           *)
LEMMA LeaveMoves ==
    ASSUME IInv, TypeBase', NEW s \in sessions, Leave(s)
    PROVE  IInv'
<1>1. /\ s.id \in leaving /\ leaving' = {} /\ sessions' = sessions \ {s}
      /\ curSessionConnecting' = curSessionConnecting - 1
      /\ sessionCnt' = [sessionCnt EXCEPT ![s.transfer] = @ - 1]
      /\ UNCHANGED <<work, inbox, requests, curMaxSessionId>>
  BY DEF Leave
<1>2. /\ \A t \in Transfer : Coming(t)' = Coming(t)
      /\ \A o \in Owner : InHand(o)' = InHand(o)
      /\ GoneIds' = GoneIds /\ QueuesOnce'
  BY <1>1, QueuesKept DEF IInv
<1>3. s \in Known /\ s \in Session /\ s.transfer \in Transfer /\ s.owner \in Owner
  BY DEF Known, IInv, TypeBase, SessionType, Session
<1>4. leaving = {s.id}
  BY <1>1 DEF IInv, LeavingOne
<1>5. Known' = Known \ {s}
  <2>1. \A t \in Transfer : s \notin Coming(t)
    BY DEF IInv, ComingOnce
  <2> QED
    BY <1>1, <1>2, <2>1 DEF Known
<1>6. OwnedBy(s.owner)' = OwnedBy(s.owner) \ {s.id}
  BY <1>3, <1>5 DEF OwnedBy, IInv, KnownOnce
<1>7. \A o \in Owner : o # s.owner => OwnedBy(o)' = OwnedBy(o) /\ s.id \notin OwnedBy(o)
  BY <1>3, <1>5 DEF OwnedBy, IInv, KnownOnce
<1>8. s.id \in OwnedBy(s.owner)
  BY <1>3 DEF OwnedBy
<1>9. KnownOnce' /\ ComingOnce' /\ LeavingOne'
  BY <1>1, <1>2, <1>5 DEF IInv, KnownOnce, ComingOnce, LeavingOne
<1>10. GoneHasLeft'
  BY <1>1, <1>2, <1>3, <1>4, <1>5 DEF IInv, GoneHasLeft, KnownOnce
<1>11. IdsBelow' /\ HandsApart'
  BY <1>1, <1>2, <1>5 DEF IInv, IdsBelow, HandsApart, Owner
<1>12. \A o \in Owner : IsFiniteSet(sucConnected[o]) /\ Cardinality(sucConnected[o]) \in Nat
  BY FS_CardinalityType DEF IInv, Finite
<1>13. curSessionCnt = Cardinality(sucConnected["acceptor"]) + Cardinality(sucConnected["connector"])
  BY DEF IInv, CountsAgree, IdsAreCounted
<1>14. Finite' /\ IdsAreCounted' /\ IdsAreOfSessions'
  <2>1. IsFiniteSet(Known')
    BY <1>5, FS_RemoveElement DEF IInv, Finite
  <2>2. CASE s.owner = "acceptor"
    <3>1. s.id \in sucConnected["acceptor"]
      BY <1>8, <2>2 DEF IInv, CountsAgree, IdsAreOfSessions
    <3>2. /\ curSessionCnt' = curSessionCnt - 1
          /\ sucConnected'["acceptor"] = sucConnected["acceptor"] \ {s.id}
          /\ sucConnected'["connector"] = sucConnected["connector"]
      BY <2>2, <3>1 DEF Leave, IInv, TypeBase, CountType, Owner
    <3>3. /\ IsFiniteSet(sucConnected'["acceptor"])
          /\ Cardinality(sucConnected'["acceptor"]) = Cardinality(sucConnected["acceptor"]) - 1
      BY <1>12, <3>1, <3>2, FS_RemoveElement DEF Owner
    <3>4. Finite'
      BY <1>12, <2>1, <3>2, <3>3 DEF Finite, Owner
    <3>5. IdsAreCounted'
      <4>1. Cardinality(sucConnected["acceptor"]) \in Nat /\ Cardinality(sucConnected["connector"]) \in Nat
        BY <1>12 DEF Owner
      <4> QED
        BY <1>13, <3>2, <3>3, <4>1 DEF IdsAreCounted
    <3>6. IdsAreOfSessions'
      <4>1. s.id \notin InHand("acceptor")
        BY <1>3 DEF IInv, HandsApart, Owner
      <4>2. OwnedBy("connector") \ leaving = OwnedBy("connector")' \ leaving'
        BY <1>1, <1>4, <1>7, <2>2 DEF Owner
      <4> QED
        BY <1>2, <1>6, <2>2, <3>2, <4>1, <4>2 DEF IInv, CountsAgree, IdsAreOfSessions, Owner
    <3> QED
      BY <3>4, <3>5, <3>6
  <2>3. CASE s.owner = "connector"
    <3>1. UNCHANGED <<curSessionCnt, sucConnected>>
      BY <2>3 DEF Leave
    <3>2. OwnedBy("connector") \ leaving = OwnedBy("connector")' \ leaving'
      BY <1>1, <1>4, <1>6, <2>3
    <3>3. OwnedBy("acceptor")' = OwnedBy("acceptor")
      BY <1>7, <2>3 DEF Owner
    <3>4. Finite' /\ IdsAreCounted'
      BY <1>12, <1>13, <2>1, <3>1 DEF Finite, IdsAreCounted
    <3>5. IdsAreOfSessions'
      BY <1>2, <3>1, <3>2, <3>3 DEF IInv, CountsAgree, IdsAreOfSessions, Owner
    <3> QED
      BY <3>4, <3>5
  <2> QED
    BY <1>3, <2>2, <2>3 DEF Owner
<1>15. SessionsAreCounted'
  <2> DEFINE Mine(u) == {x \in Known : x.transfer = u}
             MineNext(u) == {x \in Known' : x.transfer = u}
  <2>1. MineNext(s.transfer) = Mine(s.transfer) \ {s} /\ s \in Mine(s.transfer)
    BY <1>3, <1>5
  <2>2. \A u \in Transfer : u # s.transfer => MineNext(u) = Mine(u)
    BY <1>5
  <2>3. /\ \A u \in Transfer : IsFiniteSet(Mine(u)) /\ Cardinality(Mine(u)) \in Nat
        /\ \A u \in Transfer : sessionCnt[u] = Cardinality(Mine(u))
    BY KnownCardinalities DEF IInv, CountsAgree, SessionsAreCounted
  <2>4. /\ sessionCnt'[s.transfer] = sessionCnt[s.transfer] - 1
        /\ \A u \in Transfer : u # s.transfer => sessionCnt'[u] = sessionCnt[u]
    BY <1>1, <1>3 DEF IInv, TypeBase, EngineType
  <2> HIDE DEF Mine, MineNext
  <2>5. Cardinality(MineNext(s.transfer)) = Cardinality(Mine(s.transfer)) - 1
    BY <1>3, <2>1, <2>3, FS_RemoveElement
  <2>6. \A u \in Transfer : sessionCnt'[u] = Cardinality(MineNext(u))
    BY <1>3, <2>2, <2>3, <2>4, <2>5
  <2>7. curSessionConnecting' = Cardinality(Known')
    <3>1. Cardinality(Known') = Cardinality(Known) - 1
      BY <1>3, <1>5, KnownCardinalities, FS_RemoveElement
    <3> QED
      BY <1>1, <3>1 DEF IInv, CountsAgree, SessionsAreCounted
  <2> QED
    BY <2>6, <2>7 DEF SessionsAreCounted, MineNext
<1> QED
  BY <1>2, <1>9, <1>10, <1>11, <1>14, <1>15 DEF IInv, CountsAgree

LEMMA InitInv == Init => IInv
<1> SUFFICES ASSUME Init PROVE IInv
  OBVIOUS
<1>1. TypeBase
  BY InitType
<1>2. QueuesOnce
  BY DEF Init, QueuesOnce, AnnouncedOnce, GoneOnce
<1>3. Known = {} /\ GoneIds = {} /\ \A t \in Transfer : Coming(t) = {}
  <2>1. ToSet(<< >>) = {}
    BY DEF ToSet
  <2> QED
    BY <2>1 DEF Init, Known, GoneIds, Coming
<1>4. \A o \in Owner : InHand(o) = {} /\ OwnedBy(o) = {} /\ sucConnected[o] = {}
  BY <1>3 DEF Init, InHand, OwnedBy, Idle
<1>5. KnownOnce /\ ComingOnce /\ IdsBelow /\ HandsApart /\ GoneHasLeft
  BY <1>3, <1>4 DEF KnownOnce, ComingOnce, IdsBelow, HandsApart, GoneHasLeft, Owner
<1>6. LeavingOne
  BY DEF Init, LeavingOne
<1>7. Finite
  BY <1>3, <1>4, FS_EmptySet DEF Finite
<1>8. IdsAreCounted /\ IdsAreOfSessions
  BY <1>3, <1>4, FS_EmptySet DEF Init, IdsAreCounted, IdsAreOfSessions, Owner
<1>9. SessionsAreCounted
  <2>1. \A t \in Transfer : {s \in Known : s.transfer = t} = {}
    BY <1>3
  <2> QED
    BY <1>3, <2>1, FS_EmptySet DEF Init, SessionsAreCounted
<1> QED
  BY <1>1, <1>2, <1>5, <1>6, <1>7, <1>8, <1>9 DEF IInv, CountsAgree

(* A message taken or an answer sent: a queue that moves no session.       *)
LEMMA AnswerMoves ==
    ASSUME IInv, TypeBase', NEW t \in Transfer, NEW q \in Seq(Message),
           inbox' = [inbox EXCEPT ![t] = q],
           AnnouncedOnce(q), SessionsOf(q) = SessionsOf(inbox[t]),
           \A o \in Owner : InHand(o)' = InHand(o),
           UNCHANGED <<requests, sessions, leaving, countVars, curSessionConnecting, sessionCnt>>
    PROVE  IInv'
<1>1. inbox \in [Transfer -> Seq(Message)]
  BY DEF IInv, TypeBase, EngineType
<1>2. inbox'[t] = q /\ \A u \in Transfer : u # t => inbox'[u] = inbox[u]
  BY <1>1
<1>3. \A u \in Transfer : Coming(u) = SessionsOf(inbox[u]) /\ Coming(u)' = SessionsOf(inbox'[u])
  BY DEF Coming, SessionsOf
<1>4. \A u \in Transfer : Coming(u)' = Coming(u)
  BY <1>2, <1>3
<1>5. QueuesOnce'
  BY <1>2 DEF IInv, QueuesOnce
<1>6. GoneIds' = GoneIds
  BY QueuesKept
<1> QED
  BY <1>4, <1>5, <1>6, NothingMoves

LEMMA NextInv == IInv /\ [Next]_vars => IInv'
<1> SUFFICES ASSUME IInv, [Next]_vars PROVE IInv'
  OBVIOUS
<1>0. TypeBase /\ TypeBase'
  BY NextType DEF IInv
<1> DEFINE Same == UNCHANGED <<sessions, leaving, countVars, curSessionConnecting, sessionCnt>>
<1>1. ASSUME UNCHANGED <<requests, inbox, work>>, Same PROVE IInv'
  <2>1. QueuesOnce' /\ GoneIds' = GoneIds
    BY <1>1, QueuesKept DEF IInv
  <2> QED
    BY <1>0, <1>1, <2>1, QueuesKept, NothingMoves
<1>2. CASE AcceptPollerStep \/ EndOfBacklog
  BY <1>1, <1>2 DEF AcceptPollerStep, EndOfBacklog, engineVars, dispatcherVars, sessionVars
<1>3. CASE Accept
  <2>1. CASE Admit("acceptor", NoStub)
    <3>1. InHand("acceptor") = {}
      BY <1>3 DEF Accept, InHand, Idle
    <3> QED
      BY <1>0, <1>3, <2>1, <3>1, AdmitMoves DEF Accept, engineVars, dispatcherVars, sessionVars, Owner
  <2>2. CASE UNCHANGED <<countVars, work>>
    BY <1>1, <1>3, <2>2 DEF Accept, engineVars, dispatcherVars, sessionVars
  <2> QED
    BY <1>3, <2>1, <2>2 DEF Accept
<1>4. CASE CheckConnect
  <2>1. /\ requests \in Seq(Request) /\ requests # <<>> /\ Head(requests).kind = "connect"
        /\ requests' = Tail(requests)
    BY <1>4 DEF CheckConnect, IInv, TypeBase
  <2>2. GoneIds = GoneOf(requests) /\ GoneIds' = GoneOf(requests') /\ GoneOnce(requests)
    BY DEF GoneIds, GoneOf, IInv, QueuesOnce
  <2>3. GoneIds' = GoneIds /\ GoneOnce(requests')
    BY <2>1, <2>2, GoneAfterTake
  <2>4. \A o \in Owner : InHand(o)' = InHand(o)
    <3>1. InHand("connector") = {} /\ InHand("connector")' = {}
      BY <1>0, <1>4 DEF CheckConnect, InHand, Idle, TypeBase, WorkType, Owner
    <3>2. InHand("acceptor") = InHand("acceptor")'
      BY <1>0, <1>4 DEF CheckConnect, InHand, TypeBase, WorkType, Owner
    <3> QED
      BY <3>1, <3>2 DEF Owner
  <2>5. Same /\ UNCHANGED inbox
    BY <1>4 DEF CheckConnect, engineVars, dispatcherVars, sessionVars
  <2>6. QueuesOnce'
    BY <2>3, <2>5 DEF IInv, QueuesOnce
  <2> QED
    BY <1>0, <2>3, <2>4, <2>5, <2>6, QueuesKept, NothingMoves
<1>5. CASE Connected
  <2>1. InHand("connector") = {}
    BY <1>5 DEF Connected, InHand
  <2> QED
    BY <1>0, <1>5, <2>1, AdmitMoves DEF Connected, engineVars, dispatcherVars, sessionVars, Owner
<1>6. CASE ConnectFails
  <2>1. \A o \in Owner : InHand(o)' = InHand(o)
    <3>1. InHand("connector") = {} /\ InHand("connector")' = {}
      BY <1>0, <1>6 DEF ConnectFails, InHand, TypeBase, WorkType, Owner, Work
    <3>2. InHand("acceptor") = InHand("acceptor")'
      BY <1>0, <1>6 DEF ConnectFails, InHand, TypeBase, WorkType, Owner
    <3> QED
      BY <3>1, <3>2 DEF Owner
  <2>2. Same /\ UNCHANGED <<inbox, requests>>
    BY <1>6 DEF ConnectFails, engineVars, dispatcherVars, sessionVars
  <2>3. QueuesOnce' /\ GoneIds' = GoneIds
    BY <2>2, QueuesKept DEF IInv
  <2> QED
    BY <1>0, <2>1, <2>2, <2>3, QueuesKept, NothingMoves
<1>7. CASE Gone
  BY <1>0, <1>7, GoneMoves
<1>8. CASE ConnectFailure
  <2> DEFINE m == [kind |-> "failure", stub |-> work["connector"].stub]
  <2>1. PICK t \in Transfer : inbox' = [inbox EXCEPT ![t] = Append(@, m)]
    BY <1>8 DEF ConnectFailure
  <2>2. m \in Message /\ m.kind # "connected"
    BY <1>0, <1>8 DEF ConnectFailure, Message, TypeBase, WorkType
  <2>3. inbox \in [Transfer -> Seq(Message)] /\ AnnouncedOnce(inbox[t])
    BY <1>0 DEF TypeBase, EngineType, IInv, QueuesOnce
  <2> HIDE DEF m
  <2> DEFINE q == Append(inbox[t], m)
  <2>4. q \in Seq(Message) /\ AnnouncedOnce(q) /\ SessionsOf(q) = SessionsOf(inbox[t])
    <3>1. inbox[t] \in Seq(Message)
      BY <2>3
    <3>2. /\ AnnouncedOnce(q)
          /\ SessionsOf(q) =
                 SessionsOf(inbox[t]) \cup (IF m.kind = "connected" THEN {m.session} ELSE {})
      BY <2>2, <2>3, <3>1, SessionsAfterAppend
    <3> QED
      BY <2>2, <3>1, <3>2
  <2>5. inbox' = [inbox EXCEPT ![t] = q]
    BY <2>1, <2>3
  <2>6. \A o \in Owner : InHand(o)' = InHand(o)
    <3>1. InHand("connector") = {} /\ InHand("connector")' = {}
      BY <1>0, <1>8 DEF ConnectFailure, InHand, TypeBase, WorkType, Owner, Idle
    <3>2. InHand("acceptor") = InHand("acceptor")'
      BY <1>0, <1>8 DEF ConnectFailure, InHand, TypeBase, WorkType, Owner
    <3> QED
      BY <3>1, <3>2 DEF Owner
  <2>7. Same /\ UNCHANGED requests
    BY <1>8 DEF ConnectFailure, dispatcherVars, sessionVars
  <2> HIDE DEF q
  <2> QED
    BY <1>0, <2>4, <2>5, <2>6, <2>7, AnswerMoves
<1>9. ASSUME NEW o \in Owner, WillConnect(o) PROVE IInv'
  BY <1>0, <1>9, WillConnectMoves
<1>10. ASSUME NEW stub \in Stub, AsynConnect(stub) PROVE IInv'
  <2> DEFINE r == [kind |-> "connect", stub |-> stub]
  <2>1. r \in Request /\ r.kind # "gone" /\ requests \in Seq(Request) /\ requests' = Append(requests, r)
    BY <1>0, <1>10 DEF AsynConnect, Request, TypeBase
  <2> HIDE DEF r
  <2>2. GoneIds = GoneOf(requests) /\ GoneIds' = GoneOf(requests') /\ GoneOnce(requests)
    BY DEF GoneIds, GoneOf, IInv, QueuesOnce
  <2>3. GoneIds' = GoneIds /\ GoneOnce(requests')
    <3>1. /\ GoneOnce(Append(requests, r))
          /\ GoneOf(Append(requests, r)) =
                 GoneOf(requests) \cup (IF r.kind = "gone" THEN {r.id} ELSE {})
      BY <2>1, <2>2, GoneAfterAppend
    <3> QED
      BY <2>1, <2>2, <3>1
  <2>4. Same /\ UNCHANGED <<inbox, work>>
    BY <1>10 DEF AsynConnect, engineVars, sessionVars
  <2>5. QueuesOnce'
    BY <2>3, <2>4 DEF IInv, QueuesOnce
  <2> QED
    BY <1>0, <2>3, <2>4, <2>5, QueuesKept, NothingMoves
<1>11. ASSUME NEW t \in Transfer, HandleConnectFailure(t) PROVE IInv'
  <2>1. inbox \in [Transfer -> Seq(Message)] /\ inbox[t] \in Seq(Message) /\ AnnouncedOnce(inbox[t])
    BY <1>0 DEF TypeBase, EngineType, IInv, QueuesOnce
  <2>2. inbox[t] # <<>> /\ Head(inbox[t]).kind = "failure"
    BY <1>11 DEF HandleConnectFailure, TakeMessage
  <2> DEFINE q == Tail(inbox[t])
  <2>3. q \in Seq(Message) /\ AnnouncedOnce(q) /\ SessionsOf(q) = SessionsOf(inbox[t])
    <3>1. /\ AnnouncedOnce(q)
          /\ SessionsOf(q) = SessionsOf(inbox[t])
                 \ (IF Head(inbox[t]).kind = "connected" THEN {Head(inbox[t]).session} ELSE {})
      BY <2>1, <2>2, SessionsAfterTake
    <3>2. q \in Seq(Message)
      BY <2>1, <2>2
    <3> HIDE DEF q
    <3>3. SessionsOf(q) = SessionsOf(inbox[t])
      BY <2>2, <3>1
    <3> QED
      BY <3>1, <3>2, <3>3
  <2>4. inbox' = [inbox EXCEPT ![t] = q]
    BY <1>11, <2>1 DEF HandleConnectFailure, TakeMessage
  <2>5. Same /\ UNCHANGED <<requests, work>>
    BY <1>11 DEF HandleConnectFailure, TakeMessage
  <2> HIDE DEF q
  <2> QED
    BY <1>0, <2>3, <2>4, <2>5, QueuesKept, AnswerMoves
<1>12. ASSUME NEW t \in Transfer, HandleConnected(t) PROVE IInv'
  BY <1>0, <1>12, HandleConnectedMoves
<1>13. ASSUME NEW session \in sessions, SessionEnds(session) PROVE IInv'
  BY <1>1, <1>13 DEF SessionEnds, engineVars
<1>14. ASSUME NEW session \in sessions, Disconnect(session) PROVE IInv'
  BY <1>0, <1>14, DisconnectMoves
<1>15. ASSUME NEW session \in sessions, Leave(session) PROVE IInv'
  BY <1>0, <1>15, LeaveMoves
<1>16. CASE UNCHANGED vars
  BY <1>1, <1>16 DEF vars, engineVars, dispatcherVars, sessionVars
<1> QED
  BY <1>2, <1>3, <1>4, <1>5, <1>6, <1>7, <1>8, <1>9, <1>10, <1>11, <1>12, <1>13,
     <1>14, <1>15, <1>16 DEF Next

LEMMA InvAlways == Spec => []IInv
BY InitInv, NextInv, PTL DEF Spec

(* The counts that acceptor, connector, engine, transfers and dispatcher   *)
(* keep of the sessions agree at every moment, for every number of         *)
(* sessions.                                                               *)
THEOREM CountsCorrect == Spec => []CountsAgree
<1>1. IInv => CountsAgree
  BY DEF IInv
<1> QED
  BY <1>1, InvAlways, PTL

(* Session ids differ: no two sessions the dispatcher has, or is about to  *)
(* get, share one, and the id acceptor or connector has in its hands is    *)
(* neither the other's, nor a session's, nor one the connector is yet to   *)
(* count down.                                                             *)
THEOREM SessionIdsDiffer == Spec => [](KnownOnce /\ HandsApart)
<1>1. IInv => KnownOnce /\ HandsApart
  BY DEF IInv
<1> QED
  BY <1>1, InvAlways, PTL

(* An id is drawn above all ids drawn before, and the largest never falls. *)
NewIds ==
    /\ curMaxSessionId <= curMaxSessionId'
    /\ \A o \in Owner : \A id \in InHand(o)' :
          id \in InHand(o) \/ (curMaxSessionId < id /\ id <= curMaxSessionId')

LEMMA AdmitNewIds ==
    ASSUME TypeBase, NEW o \in Owner, NEW stub, Admit(o, stub)
    PROVE  NewIds
<1>1. /\ curMaxSessionId \in Nat /\ curMaxSessionId' = curMaxSessionId + 1
      /\ work' = [work EXCEPT ![o] = [at |-> "transfer", stub |-> stub, id |-> curMaxSessionId']]
  BY DEF Admit, TypeBase, CountType
<1>2. InHand(o)' = {curMaxSessionId'} /\ \A p \in Owner : p # o => InHand(p)' = InHand(p)
  BY <1>1 DEF InHand, TypeBase, WorkType
<1>3. curMaxSessionId < curMaxSessionId' /\ curMaxSessionId' <= curMaxSessionId'
  BY <1>1
<1> QED
  BY <1>1, <1>2, <1>3 DEF NewIds

(* Whatever is not Admit draws no id. *)
LEMMA NoNewId ==
    ASSUME TypeBase, UNCHANGED curMaxSessionId,
           \A o \in Owner : work'[o].at = "transfer" => work[o].at = "transfer" /\ work'[o].id = work[o].id
    PROVE  NewIds
<1>1. curMaxSessionId \in Nat /\ curMaxSessionId' = curMaxSessionId
  BY DEF TypeBase, CountType
<1>2. \A o \in Owner : InHand(o)' \subseteq InHand(o)
  BY DEF InHand
<1> QED
  BY <1>1, <1>2 DEF NewIds

(* No session id is ever given a second time, though two threads draw them *)
(* (FS_EpollTransferPoller::OnWillConnect refuses an id it still has).     *)
THEOREM IdsAreNew == Spec => [][NewIds]_vars
<1>1. ASSUME TypeBase, [Next]_vars PROVE [NewIds]_vars
  <2> SUFFICES ASSUME ~UNCHANGED vars PROVE NewIds
    OBVIOUS
  <2>0. work \in [Owner -> Work] /\ Idle.at = "idle"
    BY <1>1 DEF TypeBase, WorkType, Idle
  <2>1. CASE Accept /\ curSessionCnt < Limit
    BY <1>1, <2>1, AdmitNewIds DEF Accept, Owner
  <2>2. CASE Connected
    BY <1>1, <2>2, AdmitNewIds DEF Connected, Owner
  <2>3. CASE UNCHANGED <<curMaxSessionId, work>>
    BY <1>1, <2>3, NoNewId
  <2>4. CASE CheckConnect
    <3>1. UNCHANGED curMaxSessionId /\ work'["connector"].at \in {"failed", "connect"}
          /\ work'["acceptor"] = work["acceptor"]
      BY <2>0, <2>4 DEF CheckConnect, countVars, Owner
    <3> QED
      BY <1>1, <3>1, NoNewId DEF Owner
  <2>5. CASE ConnectFails
    <3>1. UNCHANGED curMaxSessionId /\ work'["connector"].at = "failed"
          /\ work'["acceptor"] = work["acceptor"]
      BY <2>0, <2>5 DEF ConnectFails, countVars, Owner, Work
    <3> QED
      BY <1>1, <3>1, NoNewId DEF Owner
  <2>6. CASE ConnectFailure
    <3>1. UNCHANGED curMaxSessionId /\ work'["connector"].at = "idle"
          /\ work'["acceptor"] = work["acceptor"]
      BY <2>0, <2>6 DEF ConnectFailure, countVars, Owner
    <3> QED
      BY <1>1, <3>1, NoNewId DEF Owner
  <2>7. ASSUME NEW o \in Owner, WillConnect(o) PROVE NewIds
    <3>1. UNCHANGED curMaxSessionId /\ work' = [work EXCEPT ![o] = Idle]
      BY <2>7 DEF WillConnect, countVars
    <3>2. \A p \in Owner : work'[p].at = "transfer" => work'[p] = work[p]
      BY <2>0, <3>1
    <3> QED
      BY <1>1, <3>1, <3>2, NoNewId
  <2>8. CASE Accept /\ ~(curSessionCnt < Limit)
    BY <2>3, <2>8 DEF Accept, countVars
  <2>9. CASE AcceptPollerStep \/ EndOfBacklog \/ Gone \/ \E stub \in Stub : AsynConnect(stub)
    BY <2>3, <2>9 DEF AcceptPollerStep, EndOfBacklog, Gone, AsynConnect, countVars
  <2>10. CASE \E t \in Transfer : HandleConnectFailure(t) \/ HandleConnected(t)
    BY <2>3, <2>10 DEF HandleConnectFailure, HandleConnected, TakeMessage, countVars
  <2>11. CASE \E session \in sessions : SessionEnds(session) \/ Disconnect(session) \/ Leave(session)
    BY <2>3, <2>11 DEF SessionEnds, Disconnect, Leave, countVars
  <2> QED
    BY <1>1, <2>1, <2>2, <2>4, <2>5, <2>6, <2>7, <2>8, <2>9, <2>10, <2>11 DEF Next
<1>2. Spec => []TypeBase
  BY InitType, NextType, PTL DEF Spec
<1> QED
  BY <1>1, <1>2, PTL DEF Spec

(* Every variable keeps to its type; no count falls below zero.            *)
THEOREM TypeCorrect == Spec => []TypeOK
<1>1. ASSUME IInv PROVE TypeOK
  <2>1. \A o \in Owner : Cardinality(sucConnected[o]) \in Nat
    BY <1>1, FS_CardinalityType DEF IInv, Finite
  <2>2. curSessionCnt \in Nat
    BY <1>1, <2>1 DEF IInv, CountsAgree, IdsAreCounted, Owner
  <2>3. curSessionConnecting \in Nat
    BY <1>1, KnownCardinalities DEF IInv, CountsAgree, SessionsAreCounted
  <2>4. sessionCnt \in [Transfer -> Nat]
    <3>1. \A t \in Transfer : sessionCnt[t] \in Nat
      BY <1>1, KnownCardinalities DEF IInv, CountsAgree, SessionsAreCounted
    <3> QED
      BY <1>1, <3>1 DEF IInv, TypeBase, EngineType
  <2>5. sucConnected \in [Owner -> SUBSET (1 .. curMaxSessionId)]
    BY <1>1, IdsGivenOut DEF IInv, TypeBase, CountType
  <2> QED
    BY <1>1, <2>2, <2>3, <2>4, <2>5
    DEF TypeOK, IInv, TypeBase, CountType, WorkType, EngineType, SessionType, NodeType
<1> QED
  BY <1>1, InvAlways, PTL
-----------------------------------------------------------------------------
(* Answers.  A stub that is pending is in one place: in the connector's    *)
(* queue, in its hand, or in the queue from one transfer; any other stub   *)
(* is in none of them.                                                     *)
ConnectOf(r) == IF r.kind = "connect" THEN r.stub ELSE NoStub
Mapped(q, f) == [i \in 1 .. Len(q) |-> f[q[i]]]
Asked == Mapped(requests, [r \in Request |-> ConnectOf(r)])
Answers(t) == Mapped(inbox[t], [m \in Message |-> StubOf(m)])

AnyStub == Stub \cup {NoStub}
Never(q, s) == \A i \in 1 .. Len(q) : q[i] # s
Once(q, s) == \E i \in 1 .. Len(q) : q[i] = s /\ \A j \in 1 .. Len(q) : q[j] = s => j = i

NoAnswer(s) == \A t \in Transfer : Never(Answers(t), s)
OneAnswer(s) == \E t \in Transfer : Once(Answers(t), s) /\ \A u \in Transfer \ {t} : Never(Answers(u), s)

Trying(s) == work["connector"].stub = s
InRequests(s) == Once(Asked, s) /\ ~Trying(s) /\ NoAnswer(s)
InConnector(s) == Never(Asked, s) /\ Trying(s) /\ NoAnswer(s)
InInbox(s) == Never(Asked, s) /\ ~Trying(s) /\ OneAnswer(s)
Nowhere(s) == Never(Asked, s) /\ ~Trying(s) /\ NoAnswer(s)

Placed(s) ==
    /\ s \in pending => InRequests(s) \/ InConnector(s) \/ InInbox(s)
    /\ s \notin pending => Nowhere(s)

UsersOfSessions == \A u \in users : u \notin leaving /\ \E s \in sessions : s.stub # NoStub /\ s.id = u

AnswerInv ==
    /\ work["acceptor"].stub = NoStub
    /\ \A s \in Stub : Placed(s)
    /\ UsersOfSessions

LEMMA OnceInAppend ==
    ASSUME NEW S, NEW q \in Seq(S), NEW x \in S, NEW s
    PROVE  /\ x # s /\ Never(q, s) => Never(Append(q, x), s)
           /\ x # s /\ Once(q, s) => Once(Append(q, x), s)
           /\ x = s /\ Never(q, s) => Once(Append(q, x), s)
<1>1. PICK n \in Nat : n = Len(q)
  OBVIOUS
<1>2. /\ Len(Append(q, x)) = n + 1
      /\ \A i \in 1 .. n : Append(q, x)[i] = q[i]
      /\ Append(q, x)[n + 1] = x
  BY <1>1
<1>3. \A i \in 1 .. n + 1 : i \in 1 .. n \/ i = n + 1
  BY <1>1
<1>4. \A i \in 1 .. n : i \in 1 .. n + 1
  BY <1>1
<1>5. n + 1 \in 1 .. n + 1
  BY <1>1
<1> QED
  BY <1>1, <1>2, <1>3, <1>4, <1>5 DEF Never, Once

LEMMA OnceInTail ==
    ASSUME NEW S, NEW q \in Seq(S), q # <<>>, NEW s
    PROVE  /\ Never(q, s) => Never(Tail(q), s)
           /\ Head(q) # s /\ Once(q, s) => Once(Tail(q), s)
           /\ Head(q) = s => ~Never(q, s)
           /\ Head(q) = s /\ Once(q, s) => Never(Tail(q), s)
<1>1. PICK n \in Nat : n = Len(q)
  OBVIOUS
<1>2. /\ Len(Tail(q)) = n - 1 /\ n >= 1 /\ Head(q) = q[1]
      /\ \A i \in 1 .. n - 1 : Tail(q)[i] = q[i + 1]
  BY <1>1
<1>3. \A i \in 1 .. n - 1 : i + 1 \in 1 .. n /\ i + 1 # 1
  BY <1>1
<1>4. \A i \in 1 .. n : i = 1 \/ (i - 1 \in 1 .. n - 1 /\ Tail(q)[i - 1] = q[i])
  BY <1>1, <1>2
<1>5. 1 \in 1 .. n
  BY <1>2
<1>6. Never(q, s) => Never(Tail(q), s)
  BY <1>1, <1>2, <1>3 DEF Never
<1>7. ASSUME Head(q) # s, Once(q, s) PROVE Once(Tail(q), s)
  <2>1. PICK i \in 1 .. n : q[i] = s /\ \A j \in 1 .. n : q[j] = s => j = i
    BY <1>1, <1>7 DEF Once
  <2>0. n >= 1 /\ n \in Nat /\ Len(Tail(q)) = n - 1
    BY <1>2
  <2>2. i - 1 \in 1 .. n - 1 /\ Tail(q)[i - 1] = s
    BY <1>2, <1>4, <1>7, <2>1
  <2>3. ASSUME NEW j \in 1 .. n - 1, Tail(q)[j] = s PROVE j = i - 1
    <3>1. j + 1 \in 1 .. n /\ q[j + 1] = s
      BY <1>2, <1>3, <2>3
    <3>2. j + 1 = i
      BY <2>1, <3>1
    <3> QED
      BY <3>2
  <2> QED
    BY <2>0, <2>2, <2>3 DEF Once
<1>8. Head(q) = s => ~Never(q, s)
  BY <1>1, <1>2, <1>5 DEF Never
<1>9. Head(q) = s /\ Once(q, s) => Never(Tail(q), s)
  <2>1. \A i \in 1 .. n - 1 : Tail(q)[i] = q[i + 1] /\ i + 1 \in 1 .. n /\ i + 1 # 1
    BY <1>2, <1>3
  <2>2. Head(q) = s /\ Once(q, s) => \A j \in 1 .. n : q[j] = s => j = 1
    BY <1>1, <1>2, <1>5 DEF Once
  <2> QED
    BY <1>2, <2>1, <2>2 DEF Never
<1> QED
  BY <1>6, <1>7, <1>8, <1>9

LEMMA MappedAppend ==
    ASSUME NEW S, NEW T, NEW f \in [S -> T], NEW q \in Seq(S), NEW x \in S
    PROVE  Mapped(Append(q, x), f) = Append(Mapped(q, f), f[x])
<1>1. PICK n \in Nat : n = Len(q)
  OBVIOUS
<1>2. Mapped(q, f) \in Seq(T) /\ Len(Mapped(q, f)) = n
  BY <1>1 DEF Mapped
<1>3. Mapped(Append(q, x), f) = Append(Mapped(q, f), f[x])
  <2>1. /\ Len(Append(q, x)) = n + 1 /\ \A i \in 1 .. n : Append(q, x)[i] = q[i]
        /\ Append(q, x)[n + 1] = x
    BY <1>1
  <2>2. Mapped(Append(q, x), f) = [i \in 1 .. n + 1 |-> f[Append(q, x)[i]]]
    BY <2>1 DEF Mapped
  <2>3. Append(Mapped(q, f), f[x]) = [i \in 1 .. n + 1 |-> IF i <= n THEN Mapped(q, f)[i] ELSE f[x]]
    BY <1>1, <1>2
  <2>4. \A i \in 1 .. n + 1 : f[Append(q, x)[i]] = IF i <= n THEN Mapped(q, f)[i] ELSE f[x]
    BY <1>1, <2>1 DEF Mapped
  <2> QED
    BY <2>2, <2>3, <2>4
<1> QED
  BY <1>3

LEMMA MappedTail ==
    ASSUME NEW S, NEW T, NEW f \in [S -> T], NEW q \in Seq(S), q # <<>>
    PROVE  /\ Mapped(q, f) # <<>> /\ Mapped(Tail(q), f) = Tail(Mapped(q, f))
           /\ Head(Mapped(q, f)) = f[Head(q)] /\ Head(q) \in S
<1>1. PICK n \in Nat : n = Len(q)
  OBVIOUS
<1>2. Mapped(q, f) \in Seq(T) /\ Len(Mapped(q, f)) = n
  BY <1>1 DEF Mapped
<1>3. /\ Mapped(q, f) # <<>> /\ Mapped(Tail(q), f) = Tail(Mapped(q, f))
      /\ Head(Mapped(q, f)) = f[Head(q)] /\ Head(q) \in S
  <2>1. /\ n >= 1 /\ Len(Tail(q)) = n - 1 /\ Head(q) = q[1] /\ Head(q) \in S
        /\ \A i \in 1 .. n - 1 : Tail(q)[i] = q[i + 1]
    BY <1>1
  <2>2. Mapped(Tail(q), f) = [i \in 1 .. n - 1 |-> f[q[i + 1]]]
    BY <2>1 DEF Mapped
  <2>3. Mapped(q, f) # <<>> /\ Head(Mapped(q, f)) = Mapped(q, f)[1]
        /\ Tail(Mapped(q, f)) = [i \in 1 .. n - 1 |-> Mapped(q, f)[i + 1]]
    <3> DEFINE w == Mapped(q, f)
    <3> HIDE DEF w
    <3>1. w \in Seq(T) /\ Len(w) = n /\ w # <<>>
      BY <1>2, <2>1 DEF w
    <3>2. /\ Head(w) = w[1] /\ Tail(w) \in Seq(T) /\ Len(Tail(w)) = n - 1
          /\ \A i \in 1 .. n - 1 : Tail(w)[i] = w[i + 1]
      BY <3>1, <2>1, <1>1
    <3>3. Tail(w) = [i \in 1 .. n - 1 |-> w[i + 1]]
      <4>1. ASSUME NEW v \in Seq(T), Len(v) = n - 1 PROVE v = [i \in 1 .. n - 1 |-> v[i]]
        BY <4>1, <1>1
      <4>2. Tail(w) = [i \in 1 .. n - 1 |-> Tail(w)[i]]
        BY <3>2, <4>1
      <4> QED
        BY <3>2, <4>2
    <3> QED
      BY <3>1, <3>2, <3>3 DEF w
  <2>4. \A i \in 1 .. n : Mapped(q, f)[i] = f[q[i]]
    BY <1>1 DEF Mapped
  <2>5. \A i \in 1 .. n - 1 : i + 1 \in 1 .. n
    BY <1>1
  <2>6. Head(Mapped(q, f)) = f[Head(q)]
    BY <2>1, <2>3, <2>4
  <2> QED
    BY <2>1, <2>2, <2>3, <2>4, <2>5, <2>6
<1> QED
  BY <1>3

LEMMA QueuesOfStubs ==
    ASSUME TypeBase
    PROVE  Asked \in Seq(AnyStub) /\ \A t \in Transfer : Answers(t) \in Seq(AnyStub)
<1> DEFINE f == [r \in Request |-> ConnectOf(r)]
           g == [m \in Message |-> StubOf(m)]
<1>1. f \in [Request -> AnyStub]
  BY DEF ConnectOf, Request, AnyStub
<1>2. g \in [Message -> AnyStub]
  BY DEF StubOf, Message, Session, AnyStub
<1>3. requests \in Seq(Request) /\ \A t \in Transfer : inbox[t] \in Seq(Message)
  BY DEF TypeBase, EngineType
<1>4. Asked = Mapped(requests, f) /\ \A t \in Transfer : Answers(t) = Mapped(inbox[t], g)
  BY DEF Asked, Answers
<1>5. \A S, T : \A h \in [S -> T], q \in Seq(S) : Mapped(q, h) \in Seq(T)
  BY DEF Mapped
<1> HIDE DEF f, g
<1> QED
  BY <1>1, <1>2, <1>3, <1>4, <1>5

(* A request more, a request less. *)
LEMMA RequestMore ==
    ASSUME TypeBase, NEW r \in Request, requests' = Append(requests, r), NEW s
    PROVE  /\ ConnectOf(r) # s /\ Never(Asked, s) => Never(Asked, s)'
           /\ ConnectOf(r) # s /\ Once(Asked, s) => Once(Asked, s)'
           /\ ConnectOf(r) = s /\ Never(Asked, s) => Once(Asked, s)'
<1> DEFINE f == [x \in Request |-> ConnectOf(x)]
<1>1. f \in [Request -> AnyStub] /\ f[r] = ConnectOf(r) /\ f[r] \in AnyStub
  BY DEF ConnectOf, Request, AnyStub
<1>2. requests \in Seq(Request) /\ Asked \in Seq(AnyStub)
  BY QueuesOfStubs DEF TypeBase
<1>3. Asked = Mapped(requests, f) /\ Asked' = Mapped(requests', f)
  BY DEF Asked
<1> HIDE DEF f
<1>4. Mapped(Append(requests, r), f) = Append(Mapped(requests, f), f[r])
  BY <1>1, <1>2, MappedAppend
<1>5. Asked' = Append(Asked, ConnectOf(r))
  BY <1>1, <1>3, <1>4
<1>6. /\ ConnectOf(r) # s /\ Never(Asked, s) => Never(Append(Asked, ConnectOf(r)), s)
      /\ ConnectOf(r) # s /\ Once(Asked, s) => Once(Append(Asked, ConnectOf(r)), s)
      /\ ConnectOf(r) = s /\ Never(Asked, s) => Once(Append(Asked, ConnectOf(r)), s)
  BY <1>1, <1>2, OnceInAppend
<1> QED
  BY <1>5, <1>6 DEF Never, Once

LEMMA RequestLess ==
    ASSUME TypeBase, requests # <<>>, requests' = Tail(requests), NEW s
    PROVE  /\ Never(Asked, s) => Never(Asked, s)'
           /\ ConnectOf(Head(requests)) # s /\ Once(Asked, s) => Once(Asked, s)'
           /\ ConnectOf(Head(requests)) = s => ~Never(Asked, s)
           /\ ConnectOf(Head(requests)) = s /\ Once(Asked, s) => Never(Asked, s)'
<1> DEFINE f == [x \in Request |-> ConnectOf(x)]
<1>1. f \in [Request -> AnyStub] /\ \A x \in Request : f[x] = ConnectOf(x)
  BY DEF ConnectOf, Request, AnyStub
<1>2. requests \in Seq(Request) /\ Asked \in Seq(AnyStub) /\ Head(requests) \in Request
  BY QueuesOfStubs DEF TypeBase
<1>3. Asked = Mapped(requests, f) /\ Asked' = Mapped(requests', f)
  BY DEF Asked
<1> HIDE DEF f
<1>4. /\ Mapped(requests, f) # <<>> /\ Mapped(Tail(requests), f) = Tail(Mapped(requests, f))
      /\ Head(Mapped(requests, f)) = f[Head(requests)]
  BY <1>1, <1>2, MappedTail
<1>5. Asked # <<>> /\ Asked' = Tail(Asked) /\ Head(Asked) = ConnectOf(Head(requests))
  BY <1>1, <1>2, <1>3, <1>4
<1>6. /\ Never(Asked, s) => Never(Tail(Asked), s)
      /\ Head(Asked) # s /\ Once(Asked, s) => Once(Tail(Asked), s)
      /\ Head(Asked) = s => ~Never(Asked, s)
      /\ Head(Asked) = s /\ Once(Asked, s) => Never(Tail(Asked), s)
  BY <1>2, <1>5, OnceInTail
<1> QED
  BY <1>5, <1>6 DEF Never, Once

(* An answer more, an answer less.                                         *)
LEMMA AnswerMore ==
    ASSUME TypeBase, NEW t \in Transfer, NEW m \in Message,
           inbox' = [inbox EXCEPT ![t] = Append(@, m)], NEW s
    PROVE  /\ StubOf(m) # s /\ NoAnswer(s) => NoAnswer(s)'
           /\ StubOf(m) # s /\ OneAnswer(s) => OneAnswer(s)'
           /\ StubOf(m) = s /\ NoAnswer(s) => OneAnswer(s)'
<1> DEFINE g == [x \in Message |-> StubOf(x)]
<1>1. g \in [Message -> AnyStub] /\ g[m] = StubOf(m) /\ StubOf(m) \in AnyStub
  BY DEF StubOf, Message, Session, AnyStub
<1>2. inbox \in [Transfer -> Seq(Message)] /\ \A u \in Transfer : Answers(u) \in Seq(AnyStub)
  BY QueuesOfStubs DEF TypeBase, EngineType
<1>3. \A u \in Transfer : Answers(u) = Mapped(inbox[u], g) /\ Answers(u)' = Mapped(inbox'[u], g)
  BY DEF Answers
<1>4. inbox'[t] = Append(inbox[t], m) /\ \A u \in Transfer \ {t} : inbox'[u] = inbox[u]
  BY <1>2
<1> HIDE DEF g
<1>5. Mapped(Append(inbox[t], m), g) = Append(Mapped(inbox[t], g), g[m])
  <2>1. inbox[t] \in Seq(Message) /\ m \in Message /\ g \in [Message -> AnyStub]
    BY <1>1, <1>2
  <2> QED
    BY <2>1, MappedAppend
<1>6. Answers(t)' = Append(Answers(t), StubOf(m)) /\ \A u \in Transfer \ {t} : Answers(u)' = Answers(u)
  BY <1>1, <1>3, <1>4, <1>5
<1>7. /\ StubOf(m) # s /\ Never(Answers(t), s) => Never(Append(Answers(t), StubOf(m)), s)
      /\ StubOf(m) # s /\ Once(Answers(t), s) => Once(Append(Answers(t), StubOf(m)), s)
      /\ StubOf(m) = s /\ Never(Answers(t), s) => Once(Append(Answers(t), StubOf(m)), s)
  BY <1>1, <1>2, OnceInAppend
<1>8. /\ StubOf(m) # s /\ Never(Answers(t), s) => Never(Answers(t), s)'
      /\ StubOf(m) # s /\ Once(Answers(t), s) => Once(Answers(t), s)'
      /\ StubOf(m) = s /\ Never(Answers(t), s) => Once(Answers(t), s)'
  BY <1>6, <1>7 DEF Never, Once
<1>9. \A u \in Transfer \ {t} : (Never(Answers(u), s)' <=> Never(Answers(u), s)) /\ (Once(Answers(u), s)' <=> Once(Answers(u), s))
  BY <1>6 DEF Never, Once
<1> QED
  BY <1>8, <1>9 DEF NoAnswer, OneAnswer

LEMMA AnswerLess ==
    ASSUME TypeBase, NEW t \in Transfer, inbox[t] # <<>>,
           inbox' = [inbox EXCEPT ![t] = Tail(@)], NEW s
    PROVE  /\ Head(inbox[t]) \in Message
           /\ NoAnswer(s) => NoAnswer(s)'
           /\ StubOf(Head(inbox[t])) # s /\ OneAnswer(s) => OneAnswer(s)'
           /\ StubOf(Head(inbox[t])) = s => ~NoAnswer(s)
           /\ StubOf(Head(inbox[t])) = s /\ OneAnswer(s) => NoAnswer(s)'
<1> DEFINE g == [x \in Message |-> StubOf(x)]
<1>1. g \in [Message -> AnyStub] /\ \A x \in Message : g[x] = StubOf(x)
  BY DEF StubOf, Message, Session, AnyStub
<1>2. /\ inbox \in [Transfer -> Seq(Message)] /\ \A u \in Transfer : Answers(u) \in Seq(AnyStub)
      /\ Head(inbox[t]) \in Message
  BY QueuesOfStubs DEF TypeBase, EngineType
<1>3. \A u \in Transfer : Answers(u) = Mapped(inbox[u], g) /\ Answers(u)' = Mapped(inbox'[u], g)
  BY DEF Answers
<1>4. inbox'[t] = Tail(inbox[t]) /\ \A u \in Transfer \ {t} : inbox'[u] = inbox[u]
  BY <1>2
<1> HIDE DEF g
<1>5. /\ Mapped(inbox[t], g) # <<>> /\ Mapped(Tail(inbox[t]), g) = Tail(Mapped(inbox[t], g))
      /\ Head(Mapped(inbox[t], g)) = g[Head(inbox[t])]
  <2>1. inbox[t] \in Seq(Message) /\ g \in [Message -> AnyStub]
    BY <1>1, <1>2
  <2> QED
    BY <2>1, MappedTail
<1>6. /\ Answers(t) # <<>> /\ Answers(t)' = Tail(Answers(t)) /\ Head(Answers(t)) = StubOf(Head(inbox[t]))
      /\ \A u \in Transfer \ {t} : Answers(u)' = Answers(u)
  BY <1>1, <1>2, <1>3, <1>4, <1>5
<1>7. /\ Never(Answers(t), s) => Never(Tail(Answers(t)), s)
      /\ Head(Answers(t)) # s /\ Once(Answers(t), s) => Once(Tail(Answers(t)), s)
      /\ Head(Answers(t)) = s => ~Never(Answers(t), s)
      /\ Head(Answers(t)) = s /\ Once(Answers(t), s) => Never(Tail(Answers(t)), s)
  BY <1>2, <1>6, OnceInTail
<1>8. /\ Never(Answers(t), s) => Never(Answers(t), s)'
      /\ StubOf(Head(inbox[t])) # s /\ Once(Answers(t), s) => Once(Answers(t), s)'
      /\ StubOf(Head(inbox[t])) = s => ~Never(Answers(t), s)
      /\ StubOf(Head(inbox[t])) = s /\ Once(Answers(t), s) => Never(Answers(t), s)'
  BY <1>6, <1>7 DEF Never, Once
<1>9. \A u \in Transfer \ {t} : (Never(Answers(u), s)' <=> Never(Answers(u), s)) /\ (Once(Answers(u), s)' <=> Once(Answers(u), s))
  BY <1>6 DEF Never, Once
<1> QED
  BY <1>2, <1>8, <1>9 DEF NoAnswer, OneAnswer

LEMMA StubsStay ==
    /\ UNCHANGED requests => \A s : (Never(Asked, s)' <=> Never(Asked, s)) /\ (Once(Asked, s)' <=> Once(Asked, s))
    /\ UNCHANGED inbox => \A s : (NoAnswer(s)' <=> NoAnswer(s)) /\ (OneAnswer(s)' <=> OneAnswer(s))
    /\ work'["connector"].stub = work["connector"].stub => \A s : Trying(s)' <=> Trying(s)
<1>1. UNCHANGED requests => \A s : (Never(Asked, s)' <=> Never(Asked, s)) /\ (Once(Asked, s)' <=> Once(Asked, s))
  BY DEF Never, Once, Asked
<1>2. UNCHANGED inbox => \A s : (NoAnswer(s)' <=> NoAnswer(s)) /\ (OneAnswer(s)' <=> OneAnswer(s))
  BY DEF NoAnswer, OneAnswer, Never, Once, Answers
<1>3. work'["connector"].stub = work["connector"].stub => \A s : Trying(s)' <=> Trying(s)
  BY DEF Trying
<1> QED
  BY <1>1, <1>2, <1>3
LEMMA InitAnswers == Init => AnswerInv
<1> SUFFICES ASSUME Init PROVE AnswerInv
  OBVIOUS
<1>1. /\ Len(Asked) = 0 /\ \A t \in Transfer : Len(Answers(t)) = 0
      /\ work["acceptor"].stub = NoStub /\ work["connector"].stub = NoStub
      /\ pending = {} /\ users = {}
  BY DEF Init, Asked, Answers, Mapped, Idle, Owner
<1>2. ASSUME NEW s \in Stub PROVE Placed(s)
  BY <1>1, ConnectionsAssumption DEF Placed, Nowhere, Never, NoAnswer, Trying
<1> QED
  BY <1>1, <1>2 DEF AnswerInv, UsersOfSessions

(* The stubs stay where they are when queues, hand and pending do.         *)
LEMMA PlacedStays ==
    ASSUME \A s \in Stub : Placed(s), UNCHANGED <<requests, inbox, pending>>,
           work'["connector"].stub = work["connector"].stub
    PROVE  \A s \in Stub : Placed(s)'
BY StubsStay DEF Placed, InRequests, InConnector, InInbox, Nowhere

(* A request that no stub asks with, or that is gone, moves none.          *)
LEMMA GoneMovesNoStub ==
    ASSUME TypeBase, \A s \in Stub : Placed(s), UNCHANGED <<inbox, pending, work>>,
           \/ \E r \in Request : r.kind = "gone" /\ requests' = Append(requests, r)
           \/ requests # <<>> /\ requests' = Tail(requests) /\ Head(requests).kind = "gone"
    PROVE  \A s \in Stub : Placed(s)'
<1> SUFFICES ASSUME NEW s \in Stub PROVE Placed(s)'
  OBVIOUS
<1>1. (Never(Asked, s) => Never(Asked, s)') /\ (Once(Asked, s) => Once(Asked, s)')
  <2>1. ASSUME NEW r \in Request, r.kind = "gone", requests' = Append(requests, r)
        PROVE  (Never(Asked, s) => Never(Asked, s)') /\ (Once(Asked, s) => Once(Asked, s)')
    <3>1. ConnectOf(r) # s
      BY <2>1, ConnectionsAssumption DEF ConnectOf
    <3> QED
      BY <2>1, <3>1, RequestMore
  <2>2. ASSUME requests # <<>>, requests' = Tail(requests), Head(requests).kind = "gone"
        PROVE  (Never(Asked, s) => Never(Asked, s)') /\ (Once(Asked, s) => Once(Asked, s)')
    <3>1. ConnectOf(Head(requests)) # s
      BY <2>2, ConnectionsAssumption DEF ConnectOf
    <3> QED
      BY <2>2, <3>1, RequestLess
  <2> QED
    BY <2>1, <2>2
<1>2. (NoAnswer(s)' <=> NoAnswer(s)) /\ (OneAnswer(s)' <=> OneAnswer(s)) /\ (Trying(s)' <=> Trying(s))
  BY StubsStay
<1> QED
  BY <1>1, <1>2 DEF Placed, InRequests, InConnector, InInbox, Nowhere

(* The dispatcher takes an answer: its stub, if it was pending, no longer  *)
(* is.                                                                     *)
LEMMA AnswerTaken ==
    ASSUME TypeBase, \A s \in Stub : Placed(s), UNCHANGED <<requests, work>>,
           NEW t \in Transfer, inbox[t] # <<>>, inbox' = [inbox EXCEPT ![t] = Tail(@)],
           pending' = pending \ {StubOf(Head(inbox[t]))}
    PROVE  \A s \in Stub : Placed(s)'
<1> SUFFICES ASSUME NEW s \in Stub PROVE Placed(s)'
  OBVIOUS
<1>1. (Never(Asked, s)' <=> Never(Asked, s)) /\ (Once(Asked, s)' <=> Once(Asked, s)) /\ (Trying(s)' <=> Trying(s))
  BY StubsStay
<1>2. CASE StubOf(Head(inbox[t])) = s
  <2>1. ~NoAnswer(s) /\ (OneAnswer(s) => NoAnswer(s)')
    BY <1>2, AnswerLess
  <2>2. s \notin pending'
    BY <1>2
  <2> QED
    BY <1>1, <2>1, <2>2 DEF Placed, InRequests, InConnector, InInbox, Nowhere
<1>3. CASE StubOf(Head(inbox[t])) # s
  <2>1. (NoAnswer(s) => NoAnswer(s)') /\ (OneAnswer(s) => OneAnswer(s)')
    BY <1>3, AnswerLess
  <2>2. s \in pending' <=> s \in pending
    BY <1>3
  <2> QED
    BY <1>1, <2>1, <2>2 DEF Placed, InRequests, InConnector, InInbox, Nowhere
<1> QED
  BY <1>2, <1>3

(* A thread hands its result to a transfer: the connector's stub goes from *)
(* its hand to that queue, the acceptor's sessions are nobody's answer.    *)
LEMMA AnswerGiven ==
    ASSUME TypeBase, \A s \in Stub : Placed(s), UNCHANGED <<requests, pending>>,
           NEW t \in Transfer, NEW m \in Message, inbox' = [inbox EXCEPT ![t] = Append(@, m)],
           \/ StubOf(m) = work["connector"].stub /\ work'["connector"].stub = NoStub
           \/ StubOf(m) = NoStub /\ work'["connector"].stub = work["connector"].stub
    PROVE  \A s \in Stub : Placed(s)'
<1> SUFFICES ASSUME NEW s \in Stub PROVE Placed(s)'
  OBVIOUS
<1>0. s # NoStub
  BY ConnectionsAssumption
<1>1. /\ (Never(Asked, s)' <=> Never(Asked, s)) /\ (Once(Asked, s)' <=> Once(Asked, s))
      /\ s \in pending' <=> s \in pending
  BY StubsStay
<1>2. CASE StubOf(m) = s
  <2>1. NoAnswer(s) => OneAnswer(s)'
    BY <1>2, AnswerMore
  <2>2. Trying(s) /\ ~Trying(s)'
    BY <1>0, <1>2 DEF Trying
  <2> QED
    BY <1>1, <2>1, <2>2 DEF Placed, InRequests, InConnector, InInbox, Nowhere
<1>3. CASE StubOf(m) # s
  <2>1. (NoAnswer(s) => NoAnswer(s)') /\ (OneAnswer(s) => OneAnswer(s)')
    BY <1>3, AnswerMore
  <2>2. Trying(s)' <=> Trying(s)
    BY <1>0, <1>3 DEF Trying
  <2> QED
    BY <1>1, <2>1, <2>2 DEF Placed, InRequests, InConnector, InInbox, Nowhere
<1> QED
  BY <1>2, <1>3

(* The users stay with their sessions.                                     *)
LEMMA UsersStay ==
    ASSUME UsersOfSessions, UNCHANGED <<sessions, leaving, users>>
    PROVE  UsersOfSessions'
BY DEF UsersOfSessions

LEMMA NextAnswers == TypeBase /\ AnswerInv /\ [Next]_vars => AnswerInv'
<1> SUFFICES ASSUME TypeBase, AnswerInv, [Next]_vars PROVE AnswerInv'
  OBVIOUS
<1>0. /\ work["acceptor"].stub = NoStub /\ UsersOfSessions /\ \A s \in Stub : Placed(s)
      /\ work \in [Owner -> Work] /\ Owner = {"acceptor", "connector"}
      /\ requests \in Seq(Request) /\ inbox \in [Transfer -> Seq(Message)]
  BY DEF AnswerInv, TypeBase, WorkType, EngineType, Owner
<1>1. ASSUME UNCHANGED <<requests, inbox, pending, sessions, leaving, users>>,
             work'["acceptor"].stub = NoStub, work'["connector"].stub = work["connector"].stub
      PROVE  AnswerInv'
  BY <1>0, <1>1, PlacedStays, UsersStay DEF AnswerInv
<1>2. CASE AcceptPollerStep \/ EndOfBacklog \/ UNCHANGED vars
  BY <1>0, <1>1, <1>2 DEF AcceptPollerStep, EndOfBacklog, vars, engineVars, dispatcherVars, sessionVars, nodeVars
<1>3. CASE Accept
  <2>1. work'["acceptor"].stub = NoStub /\ work'["connector"] = work["connector"]
    BY <1>0, <1>3 DEF Accept, Admit
  <2> QED
    BY <1>1, <1>3, <2>1 DEF Accept, engineVars, dispatcherVars, sessionVars, nodeVars
<1>4. CASE CheckConnect
  <2>1. /\ requests # <<>> /\ requests' = Tail(requests) /\ Head(requests) \in Request
        /\ work'["connector"].stub = ConnectOf(Head(requests)) /\ work["connector"].stub = NoStub
        /\ work'["acceptor"] = work["acceptor"]
    BY <1>0, <1>4 DEF CheckConnect, ConnectOf, Idle
  <2>2. UNCHANGED <<inbox, pending, sessions, leaving, users>>
    BY <1>4 DEF CheckConnect, engineVars, dispatcherVars, sessionVars, nodeVars
  <2>3. ASSUME NEW s \in Stub PROVE Placed(s)'
    <3>0. Placed(s)
      BY <1>0
    <3>1. (NoAnswer(s)' <=> NoAnswer(s)) /\ (OneAnswer(s)' <=> OneAnswer(s)) /\ (s \in pending' <=> s \in pending)
      BY <2>2, StubsStay
    <3>2. ~Trying(s) /\ (Trying(s)' <=> ConnectOf(Head(requests)) = s)
      BY <2>1, ConnectionsAssumption DEF Trying
    <3>3. CASE ConnectOf(Head(requests)) = s
      <4>1. ~Never(Asked, s) /\ (Once(Asked, s) => Never(Asked, s)')
        BY <2>1, <3>3, RequestLess
      <4> QED
        BY <3>0, <3>1, <3>2, <3>3, <4>1 DEF Placed, InRequests, InConnector, InInbox, Nowhere
    <3>4. CASE ConnectOf(Head(requests)) # s
      <4>1. (Never(Asked, s) => Never(Asked, s)') /\ (Once(Asked, s) => Once(Asked, s)')
        BY <2>1, <3>4, RequestLess
      <4> QED
        BY <3>0, <3>1, <3>2, <3>4, <4>1 DEF Placed, InRequests, InConnector, InInbox, Nowhere
    <3> QED
      BY <3>3, <3>4
  <2> QED
    BY <1>0, <2>1, <2>2, <2>3, UsersStay DEF AnswerInv
<1>5. CASE Connected \/ ConnectFails
  <2>1. work'["acceptor"] = work["acceptor"] /\ work'["connector"].stub = work["connector"].stub
    BY <1>0, <1>5 DEF Connected, ConnectFails, Admit, Work
  <2> QED
    BY <1>0, <1>1, <1>5, <2>1 DEF Connected, ConnectFails, engineVars, dispatcherVars, sessionVars, nodeVars
<1>6. CASE Gone
  <2>1. /\ requests # <<>> /\ requests' = Tail(requests) /\ Head(requests).kind = "gone"
        /\ UNCHANGED <<inbox, pending, work, sessions, leaving, users>>
    BY <1>6 DEF Gone, engineVars, dispatcherVars, sessionVars, nodeVars
  <2> QED
    BY <1>0, <2>1, GoneMovesNoStub, UsersStay DEF AnswerInv
<1>7. CASE ConnectFailure
  <2> DEFINE m == [kind |-> "failure", stub |-> work["connector"].stub]
  <2>1. PICK t \in Transfer : inbox' = [inbox EXCEPT ![t] = Append(@, m)]
    BY <1>7 DEF ConnectFailure
  <2>2. m \in Message /\ StubOf(m) = work["connector"].stub
    BY <1>7 DEF ConnectFailure, Message, TypeBase, WorkType, StubOf
  <2>3. /\ UNCHANGED <<requests, pending, sessions, leaving, users>>
        /\ work'["connector"].stub = NoStub /\ work'["acceptor"] = work["acceptor"]
    BY <1>0, <1>7 DEF ConnectFailure, dispatcherVars, sessionVars, nodeVars, Idle
  <2> HIDE DEF m
  <2>4. \A s \in Stub : Placed(s)'
    BY <1>0, <2>1, <2>2, <2>3, AnswerGiven
  <2> QED
    BY <1>0, <2>3, <2>4, UsersStay DEF AnswerInv
<1>8. ASSUME NEW o \in Owner, WillConnect(o) PROVE AnswerInv'
  <2>1. PICK t \in Transfer : inbox' = [inbox EXCEPT ![t] = Append(@,
            [kind |-> "connected",
             session |-> [id |-> work[o].id, owner |-> o, stub |-> work[o].stub, transfer |-> t]])]
    BY <1>8 DEF WillConnect
  <2> DEFINE m == [kind |-> "connected",
                   session |-> [id |-> work[o].id, owner |-> o, stub |-> work[o].stub, transfer |-> t]]
  <2>2. m \in Message /\ StubOf(m) = work[o].stub
    BY <1>8 DEF WillConnect, Message, Session, TypeBase, WorkType, Work, StubOf
  <2>3. /\ UNCHANGED <<requests, pending, sessions, leaving, users>>
        /\ work' = [work EXCEPT ![o] = Idle]
    BY <1>8 DEF WillConnect, dispatcherVars, sessionVars, nodeVars
  <2>4. inbox' = [inbox EXCEPT ![t] = Append(@, m)]
    BY <2>1
  <2> HIDE DEF m
  <2>5. work'["acceptor"].stub = NoStub
    BY <1>0, <2>3 DEF Idle
  <2>6. \/ StubOf(m) = work["connector"].stub /\ work'["connector"].stub = NoStub
        \/ StubOf(m) = NoStub /\ work'["connector"].stub = work["connector"].stub
    BY <1>0, <2>2, <2>3 DEF Idle
  <2>7. \A s \in Stub : Placed(s)'
    BY <1>0, <2>2, <2>3, <2>4, <2>6, AnswerGiven
  <2> QED
    BY <2>3, <2>5, <2>7, <1>0, UsersStay DEF AnswerInv
<1>9. ASSUME NEW stub \in Stub, AsynConnect(stub) PROVE AnswerInv'
  <2> DEFINE r == [kind |-> "connect", stub |-> stub]
  <2>1. r \in Request /\ ConnectOf(r) = stub /\ requests' = Append(requests, r)
    BY <1>9 DEF AsynConnect, Request, ConnectOf
  <2>2. /\ UNCHANGED <<inbox, work, sessions, leaving, users>>
        /\ stub \notin pending /\ pending' = pending \cup {stub}
    BY <1>9 DEF AsynConnect, engineVars, sessionVars, TypeBase, NodeType
  <2> HIDE DEF r
  <2>3. ASSUME NEW s \in Stub PROVE Placed(s)'
    <3>0. Placed(s)
      BY <1>0
    <3>1. (NoAnswer(s)' <=> NoAnswer(s)) /\ (OneAnswer(s)' <=> OneAnswer(s)) /\ (Trying(s)' <=> Trying(s))
      BY <2>2, StubsStay
    <3>2. CASE s = stub
      <4>1. Never(Asked, s) => Once(Asked, s)'
        BY <2>1, <3>2, RequestMore
      <4> QED
        BY <2>2, <3>0, <3>1, <3>2, <4>1 DEF Placed, InRequests, Nowhere
    <3>3. CASE s # stub
      <4>1. (Never(Asked, s) => Never(Asked, s)') /\ (Once(Asked, s) => Once(Asked, s)')
        BY <2>1, <3>3, RequestMore
      <4> QED
        BY <2>2, <3>0, <3>1, <3>3, <4>1 DEF Placed, InRequests, InConnector, InInbox, Nowhere
    <3> QED
      BY <3>2, <3>3
  <2> QED
    BY <1>0, <2>2, <2>3, UsersStay DEF AnswerInv
<1>10. ASSUME NEW t \in Transfer, HandleConnectFailure(t) PROVE AnswerInv'
  <2>1. /\ inbox[t] # <<>> /\ inbox' = [inbox EXCEPT ![t] = Tail(@)]
        /\ pending' = pending \ {StubOf(Head(inbox[t]))}
        /\ UNCHANGED <<requests, work, sessions, leaving, users>>
    BY <1>10 DEF HandleConnectFailure, TakeMessage, Finish, StubOf
  <2>2. \A s \in Stub : Placed(s)'
    BY <1>0, <2>1, AnswerTaken
  <2> QED
    BY <1>0, <2>1, <2>2, UsersStay DEF AnswerInv
<1>11. ASSUME NEW t \in Transfer, HandleConnected(t) PROVE AnswerInv'
  <2> DEFINE session == Head(inbox[t]).session
  <2>1. /\ inbox[t] # <<>> /\ inbox' = [inbox EXCEPT ![t] = Tail(@)]
        /\ pending' = pending \ {StubOf(Head(inbox[t]))}
        /\ UNCHANGED <<requests, work, leaving>> /\ leaving = {}
        /\ sessions' = sessions \cup {session}
        /\ users' = users \/ users' = IF session.stub \in pending THEN users \cup {session.id} ELSE users
    BY <1>11 DEF HandleConnected, TakeMessage, Finish, StubOf, AtRest
  <2>2. \A s \in Stub : Placed(s)'
    BY <1>0, <2>1, AnswerTaken
  <2>3. UsersOfSessions'
    <3>1. session.stub \in pending => session.stub # NoStub
      BY ConnectionsAssumption DEF TypeBase, NodeType
    <3> HIDE DEF session
    <3> QED
      BY <1>0, <2>1, <3>1 DEF UsersOfSessions
  <2> QED
    BY <1>0, <2>1, <2>2, <2>3 DEF AnswerInv
<1>12. ASSUME NEW session \in sessions, SessionEnds(session) PROVE AnswerInv'
  BY <1>0, <1>1, <1>12 DEF SessionEnds, engineVars, nodeVars
<1>13. ASSUME NEW session \in sessions, Disconnect(session) PROVE AnswerInv'
  <2> DEFINE r == [kind |-> "gone", id |-> session.id]
  <2>1. /\ UNCHANGED <<inbox, pending, work, sessions>> /\ leaving = {}
        /\ leaving' = {session.id} /\ users' = users \ {session.id}
        /\ requests' = requests \/ requests' = Append(requests, r)
    BY <1>13 DEF Disconnect, engineVars, AtRest
  <2>2. r \in Request /\ r.kind = "gone"
    BY DEF Request, TypeBase, SessionType, Session
  <2> HIDE DEF r
  <2>3. \A s \in Stub : Placed(s)'
    <3>1. CASE requests' = requests
      BY <1>0, <2>1, <3>1, PlacedStays
    <3>2. CASE requests' = Append(requests, r)
      BY <1>0, <2>1, <2>2, <3>2, GoneMovesNoStub
    <3> QED
      BY <2>1, <3>1, <3>2
  <2>4. UsersOfSessions'
    BY <1>0, <2>1 DEF UsersOfSessions
  <2> QED
    BY <1>0, <2>1, <2>3, <2>4 DEF AnswerInv
<1>14. ASSUME NEW session \in sessions, Leave(session) PROVE AnswerInv'
  <2>1. /\ UNCHANGED <<inbox, pending, work, requests, users>>
        /\ session.id \in leaving /\ leaving' = {} /\ sessions' = sessions \ {session}
    BY <1>14 DEF Leave, nodeVars
  <2>2. UsersOfSessions'
    BY <1>0, <2>1 DEF UsersOfSessions
  <2> QED
    BY <1>0, <2>1, <2>2, PlacedStays DEF AnswerInv
<1> QED
  BY <1>2, <1>3, <1>4, <1>5, <1>6, <1>7, <1>8, <1>9, <1>10, <1>11, <1>12, <1>13, <1>14 DEF Next

(* A stub that is pending is on its way in exactly one place, any other in *)
(* none: every connect has its one answer, none comes for a stub that does *)
(* not wait; and NodeConnectionMgr's users are sessions of its own that    *)
(* have not gone.  For any number of stubs, transfers and sessions.        *)
THEOREM AnswersCorrect == Spec => []PendingIsOutstanding
<1>1. ASSUME TypeBase, AnswerInv PROVE PendingIsOutstanding
  <2>1. ASSUME NEW s \in Stub PROVE Cardinality(Outstanding(s)) = IF s \in pending THEN 1 ELSE 0
    <3>0. Placed(s) /\ s # NoStub
      BY <1>1, ConnectionsAssumption DEF AnswerInv
    <3> DEFINE R == {<<"requests", i>> : i \in {j \in DOMAIN requests : requests[j].kind = "connect" /\ requests[j].stub = s}}
               C == IF work["connector"].stub = s THEN {<<"connector">>} ELSE {}
               I == UNION {{<<"inbox", t, i>> : i \in {j \in DOMAIN inbox[t] : StubOf(inbox[t][j]) = s}} : t \in Transfer}
    <3>1. Outstanding(s) = R \cup C \cup I
      BY DEF Outstanding
    <3>2. /\ DOMAIN requests = 1 .. Len(requests) /\ Len(Asked) = Len(requests)
          /\ \A i \in 1 .. Len(requests) : Asked[i] = s <=> requests[i].kind = "connect" /\ requests[i].stub = s
      <4>1. requests \in Seq(Request)
        BY <1>1 DEF TypeBase
      <4> QED
        BY <3>0, <4>1 DEF Asked, Mapped, ConnectOf
    <3>3. ASSUME NEW t \in Transfer
          PROVE  /\ DOMAIN inbox[t] = 1 .. Len(inbox[t]) /\ Len(Answers(t)) = Len(inbox[t])
                 /\ \A i \in 1 .. Len(inbox[t]) : Answers(t)[i] = StubOf(inbox[t][i])
      <4>1. inbox[t] \in Seq(Message)
        BY <1>1 DEF TypeBase, EngineType
      <4> QED
        BY <4>1 DEF Answers, Mapped
    <3>4. Never(Asked, s) => R = {}
      BY <3>2 DEF Never
    <3>4a. ASSUME Once(Asked, s) PROVE \E x : R = {x}
      <4>1. PICK i \in 1 .. Len(requests) : Asked[i] = s /\ \A j \in 1 .. Len(requests) : Asked[j] = s => j = i
        BY <3>2, <3>4a DEF Once
      <4>2. R = {<<"requests", i>>}
        BY <3>2, <4>1
      <4> QED
        BY <4>2
    <3>5. (~Trying(s) => C = {}) /\ (Trying(s) => \E x : C = {x})
      BY DEF Trying
    <3>6. NoAnswer(s) => I = {}
      BY <3>3 DEF NoAnswer, Never
    <3>7. ASSUME OneAnswer(s) PROVE \E x : I = {x}
      <4>1. PICK t \in Transfer : Once(Answers(t), s) /\ \A u \in Transfer \ {t} : Never(Answers(u), s)
        BY <3>7 DEF OneAnswer
      <4>2. PICK i \in 1 .. Len(Answers(t)) :
                Answers(t)[i] = s /\ \A j \in 1 .. Len(Answers(t)) : Answers(t)[j] = s => j = i
        BY <4>1 DEF Once
      <4>2a. /\ i \in DOMAIN inbox[t] /\ StubOf(inbox[t][i]) = s
             /\ \A j \in DOMAIN inbox[t] : StubOf(inbox[t][j]) = s => j = i
        BY <3>3, <4>2
      <4>3. ASSUME NEW u \in Transfer \ {t}, NEW j \in DOMAIN inbox[u] PROVE StubOf(inbox[u][j]) # s
        <5>1. j \in 1 .. Len(Answers(u)) /\ Answers(u)[j] = StubOf(inbox[u][j])
          BY <3>3
        <5> QED
          BY <4>1, <5>1 DEF Never
      <4>4. I = {<<"inbox", t, i>>}
        BY <4>2a, <4>3
      <4> QED
        BY <4>4
    <3> HIDE DEF R, C, I
    <3>8. CASE s \in pending
      <4>1. \E x : Outstanding(s) = {x}
        BY <3>0, <3>1, <3>4, <3>4a, <3>5, <3>6, <3>7, <3>8 DEF Placed, InRequests, InConnector, InInbox
      <4> QED
        BY <3>8, <4>1, FS_Singleton
    <3>9. CASE s \notin pending
      <4>1. Outstanding(s) = {}
        BY <3>0, <3>1, <3>4, <3>5, <3>6, <3>9 DEF Placed, Nowhere
      <4> QED
        BY <3>9, <4>1, FS_EmptySet
    <3> QED
      BY <3>8, <3>9
  <2> QED
    BY <1>1, <2>1 DEF PendingIsOutstanding, AnswerInv, UsersOfSessions
<1>2. TypeBase /\ AnswerInv /\ [Next]_vars => (TypeBase /\ AnswerInv)'
  BY NextType, NextAnswers
<1>3. Init => TypeBase /\ AnswerInv
  BY InitType, InitAnswers
<1> QED
  BY <1>1, <1>2, <1>3, PTL DEF Spec

-----------------------------------------------------------------------------
(* The listening port. *)

(* While a peer waits in the kernel's accept queue, the edge is yet to be  *)
(* told, or the prehandling thread was told, or it accepts; and a thread   *)
(* that was told does not sleep.                                           *)
BacklogIsSeen == backlog > 0 => edge \/ isEventArrived \/ ppc = "accept"
ToldIsAwake == isEventArrived /\ ppc = "wait" => guard.asleep = {}

LEMMA SinalWakesPrehandler ==
    ASSUME guard \in LockerType({Prehandler}), NEW g \in Sinal(guard)
    PROVE  g.asleep = {}
<1>1. CASE guard.asleep = {}
  BY <1>1 DEF Sinal, LockerType
<1>2. CASE guard.asleep # {}
  <2>1. PICK t \in guard.asleep : g = [guard EXCEPT !.isSinal = TRUE, !.asleep = @ \ {t}]
    BY <1>2 DEF Sinal
  <2>2. guard.asleep \subseteq {Prehandler}
    BY DEF LockerType
  <2>3. g.asleep = guard.asleep \ {t}
    BY <2>1 DEF LockerType
  <2> QED
    BY <2>2, <2>3
<1> QED
  BY <1>1, <1>2

LEMMA StepBacklog == AcceptPollerTypeOK /\ BacklogIsSeen /\ ToldIsAwake /\ [Next]_vars
                       => (BacklogIsSeen /\ ToldIsAwake)'
<1> SUFFICES ASSUME AcceptPollerTypeOK, BacklogIsSeen, ToldIsAwake, [Next]_vars
             PROVE  (BacklogIsSeen /\ ToldIsAwake)'
  OBVIOUS
<1> USE DEF AcceptPollerTypeOK, BacklogIsSeen, ToldIsAwake
<1>1. CASE UNCHANGED acceptPollerVars
  BY <1>1 DEF acceptPollerVars
<1>2. CASE PeerConnects
  BY <1>2 DEF PeerConnects
<1>3. CASE Notify
  <2>1. guard'.asleep = {} /\ isEventArrived' = TRUE
    BY <1>3, SinalWakesPrehandler DEF Notify
  <2> QED
    BY <2>1
<1>4. CASE TakeEvent
  BY <1>4 DEF TakeEvent
<1>5. CASE WaitForEvent
  BY <1>5 DEF WaitForEvent
<1>6. CASE Awake
  <2>1. guard'.asleep = guard.asleep \ {Prehandler}
    BY <1>6 DEF Awake, WakeUp, LockerType
  <2> QED
    BY <1>6, <2>1 DEF Awake
<1>7. CASE Return
  BY <1>7 DEF Return
<1>8. CASE AcceptOne
  BY <1>8 DEF AcceptOne
<1>9. CASE AcceptNone
  BY <1>9 DEF AcceptNone
<1>10. UNCHANGED acceptPollerVars \/ PeerConnects \/ Notify \/ TakeEvent \/ WaitForEvent \/ Awake
         \/ Return \/ AcceptOne \/ AcceptNone
  BY DEF Next, vars, AcceptPollerStep, Accept, EndOfBacklog, CheckConnect, Connected, ConnectFails,
         Gone, ConnectFailure, WillConnect, AsynConnect, TakeMessage, HandleConnectFailure,
         HandleConnected, SessionEnds, Disconnect, Leave
<1> QED
  BY <1>1, <1>2, <1>3, <1>4, <1>5, <1>6, <1>7, <1>8, <1>9, <1>10

(* No edge of the listening socket is lost between epoll, the flag         *)
(* _isEventArrived and the condition variable: what BacklogIsServed needs  *)
(* beside fairness.                                                        *)
THEOREM BacklogHasServer == Spec => [](BacklogIsSeen /\ ToldIsAwake)
<1>1. Init => BacklogIsSeen /\ ToldIsAwake
  BY DEF Init, AcceptPollerInit, BacklogIsSeen, ToldIsAwake
<1>2. AcceptPollerTypeOK /\ BacklogIsSeen /\ ToldIsAwake /\ [Next]_vars
        => (BacklogIsSeen /\ ToldIsAwake)'
  BY StepBacklog
<1>3. TypeOK => AcceptPollerTypeOK
  BY DEF TypeOK
<1> QED
  BY <1>1, <1>2, <1>3, TypeCorrect, PTL DEF Spec

=============================================================================
