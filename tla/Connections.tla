---------------------------- MODULE Connections ----------------------------
(***************************************************************************)
(* How a connection becomes a session of the dispatcher, how it is counted *)
(* meanwhile, and how whoever asked for it is answered.                    *)
(*                                                                         *)
(*   acceptor    accepts what peers connect (AcceptPoller) and admits it   *)
(*               under the limit: IFS_AcceptorPoller.cpp                   *)
(*   connector   a thread with a queue; connects to other nodes for the    *)
(*               logic: IFS_Connector.cpp                                  *)
(*   engine      gives a new session to the transfer with the fewest:      *)
(*               IFS_NetEngine.cpp, IFS_MsgTransfer.cpp                    *)
(*   dispatcher  owns the sessions and runs the logic, of which this holds *)
(*               NodeConnectionMgr: IFS_MsgDispatcher.cpp, LogicSvc.cpp    *)
(*                                                                         *)
(* One acceptor, one connector (as in _CreateConnector) and one dispatcher *)
(* (as in every shipped configuration).  What happens to a session between *)
(* its connection and its end is EpollSession's.  Left out, as they cannot *)
(* happen while the engine runs: OnWillConnect that finds the session id   *)
(* in use, Push to a queue that no longer works; and the engine's end.     *)
(***************************************************************************)
EXTENDS AcceptPoller, Sequences, SequencesExt

CONSTANTS
    Stub,              \* the stubs the logic gives to its connects; each is unique
    NoStub,            \* an accepted session's stub (0)
    TransferQuantity,
    Limit              \* _maxSessionQuantityLimit

ASSUME ConnectionsAssumption ==
    /\ IsFiniteSet(Stub) /\ NoStub \notin Stub
    /\ TransferQuantity \in Nat \ {0} /\ Limit \in Nat /\ MaxPeers \in Nat

VARIABLES
    \* under _sessionlocker
    curSessionCnt,         \* _curSessionCnt
    curMaxSessionId,       \* _curMaxSessionId
    sucConnected,          \* _sucConnectedSessionIds of the acceptor and of the connector
    \* the threads of the acceptor and of the connector
    work,                  \* what each is at
    requests,              \* the connector's queue: stubs to connect, ids that are gone
    \* engine and transfers
    curSessionConnecting,  \* _curSessionConnecting
    sessionCnt,            \* _sessionCnt of each transfer
    inbox,                 \* from each transfer, the dispatcher's queue
    \* the dispatcher's thread
    sessions,              \* _sessions
    closing,               \* of these, the ones that are to be removed
    leaving,               \* the session _OnSessionDisconnectedNoFree is at, or none
    pending,               \* _pendingStubRefInfos
    users,                 \* _sessionIdRefConnectedUsers
    asked                  \* the stubs used so far

countVars == <<curSessionCnt, curMaxSessionId, sucConnected>>
engineVars == <<curSessionConnecting, sessionCnt, inbox>>
sessionVars == <<sessions, closing, leaving>>
nodeVars == <<pending, users, asked>>
dispatcherVars == <<sessionVars, nodeVars>>
vars == <<acceptPollerVars, countVars, work, requests, engineVars, dispatcherVars>>

Owner == {"acceptor", "connector"}
Transfer == 1 .. TransferQuantity
SessionId == Nat \ {0}
Session == [id : SessionId, owner : Owner, stub : Stub \cup {NoStub}, transfer : Transfer]

Idle == [at |-> "idle", stub |-> NoStub, id |-> 0]
Work == [at : {"idle", "connect", "transfer", "failed"}, stub : Stub \cup {NoStub}, id : Nat]

Request == [kind : {"connect"}, stub : Stub] \cup [kind : {"gone"}, id : SessionId]
Message == [kind : {"connected"}, session : Session] \cup [kind : {"failure"}, stub : Stub]

(* The type invariant: the values the variables can take.                  *)
TypeOK ==
    /\ AcceptPollerTypeOK
    /\ curSessionCnt \in Nat /\ curMaxSessionId \in Nat
    /\ sucConnected \in [Owner -> SUBSET (1 .. curMaxSessionId)]
    /\ work \in [Owner -> Work] /\ requests \in Seq(Request)
    /\ curSessionConnecting \in Nat /\ sessionCnt \in [Transfer -> Nat]
    /\ inbox \in [Transfer -> Seq(Message)]
    /\ sessions \subseteq Session /\ leaving \subseteq closing
    /\ pending \subseteq asked /\ asked \subseteq Stub /\ users \subseteq SessionId

Init ==
    /\ AcceptPollerInit
    /\ curSessionCnt = 0 /\ curMaxSessionId = 0 /\ sucConnected = [o \in Owner |-> {}]
    /\ work = [o \in Owner |-> Idle] /\ requests = <<>>
    /\ curSessionConnecting = 0 /\ sessionCnt = [t \in Transfer |-> 0]
    /\ inbox = [t \in Transfer |-> <<>>]
    /\ sessions = {} /\ closing = {} /\ leaving = {}
    /\ pending = {} /\ users = {} /\ asked = {}

-----------------------------------------------------------------------------
(* Admission: the critical sections of _sessionlocker. *)

(* One more session of owner o, whose next step is to find it a transfer.  *)
Admit(o, stub) ==
    /\ curSessionCnt' = curSessionCnt + 1 /\ curMaxSessionId' = curMaxSessionId + 1
    /\ sucConnected' = [sucConnected EXCEPT ![o] = @ \cup {curMaxSessionId + 1}]
    /\ work' = [work EXCEPT ![o] = [at |-> "transfer", stub |-> stub, id |-> curMaxSessionId + 1]]

(* Mutant of Accept: a full house takes one more.                          *)
Accept_OffByOne ==
    /\ AcceptOne
    /\ work["acceptor"] = Idle
    /\ IF curSessionCnt <= Limit
       THEN Admit("acceptor", NoStub)
       ELSE UNCHANGED <<countVars, work>>
    /\ UNCHANGED <<requests, engineVars, dispatcherVars>>

(* _HandleSessionWillConnect: above the limit the socket is closed.        *)
Accept ==
    /\ AcceptOne
    /\ work["acceptor"] = Idle
    /\ IF curSessionCnt < Limit
       THEN Admit("acceptor", NoStub)
       ELSE UNCHANGED <<countVars, work>>
    /\ UNCHANGED <<requests, engineVars, dispatcherVars>>

(* The connector takes a request to connect; _CheckConnect reads the count *)
(* and lets the lock go before the connection is tried.                    *)
CheckConnect ==
    /\ work["connector"] = Idle
    /\ requests # <<>> /\ Head(requests).kind = "connect"
    /\ requests' = Tail(requests)
    /\ work' = [work EXCEPT !["connector"] =
                   [at |-> IF curSessionCnt >= Limit THEN "failed" ELSE "connect",
                    stub |-> Head(requests).stub, id |-> 0]]
    /\ UNCHANGED <<acceptPollerVars, countVars, engineVars, dispatcherVars>>

(* Mutant of Connected: the id is kept, the count forgotten.               *)
Connected_Uncounted ==
    /\ work["connector"].at = "connect"
    /\ curMaxSessionId' = curMaxSessionId + 1
    /\ sucConnected' = [sucConnected EXCEPT !["connector"] = @ \cup {curMaxSessionId + 1}]
    /\ work' = [work EXCEPT !["connector"].at = "transfer", !["connector"].id = curMaxSessionId + 1]
    /\ UNCHANGED curSessionCnt
    /\ UNCHANGED <<acceptPollerVars, requests, engineVars, dispatcherVars>>

(* _Connect succeeds; it is counted without another look at the limit.     *)
Connected ==
    /\ work["connector"].at = "connect"
    /\ Admit("connector", work["connector"].stub)
    /\ UNCHANGED <<acceptPollerVars, requests, engineVars, dispatcherVars>>

(* No socket, refused or timed out.  (A timeout after which the socket has *)
(* no error counts as success, in the code and, as Connected, here.)       *)
ConnectFails ==
    /\ work["connector"].at = "connect"
    /\ work' = [work EXCEPT !["connector"].at = "failed"]
    /\ UNCHANGED <<acceptPollerVars, countVars, requests, engineVars, dispatcherVars>>

(* Mutant of Gone: only the id is forgotten.                               *)
Gone_KeepsCount ==
    /\ work["connector"] = Idle
    /\ requests # <<>> /\ Head(requests).kind = "gone"
    /\ requests' = Tail(requests)
    /\ sucConnected' = [sucConnected EXCEPT !["connector"] = @ \ {Head(requests).id}]
    /\ UNCHANGED <<acceptPollerVars, curSessionCnt, curMaxSessionId, work, engineVars, dispatcherVars>>

(* _OnSessionDisconnected of the connector: a session of its own has gone. *)
Gone ==
    /\ work["connector"] = Idle
    /\ requests # <<>> /\ Head(requests).kind = "gone"
    /\ requests' = Tail(requests)
    /\ sucConnected' = [sucConnected EXCEPT !["connector"] = @ \ {Head(requests).id}]
    /\ curSessionCnt' = curSessionCnt - 1
    /\ UNCHANGED <<acceptPollerVars, curMaxSessionId, work, engineVars, dispatcherVars>>

-----------------------------------------------------------------------------
(* Engine and transfers. *)

(* The first of those with the fewest sessions.                            *)
IsMinTransfer(t) ==
    \A u \in Transfer : sessionCnt[t] <= sessionCnt[u] /\ (u < t => sessionCnt[t] < sessionCnt[u])

(* HandleCompEv_WillConnect: the session is counted by the engine and by   *)
(* the transfer, whose message makes the dispatcher its owner.             *)
WillConnect(o) ==
    /\ work[o].at = "transfer"
    /\ \E t \in Transfer :
           LET session == [id |-> work[o].id, owner |-> o, stub |-> work[o].stub, transfer |-> t]
           IN  /\ IsMinTransfer(t)
               /\ sessionCnt' = [sessionCnt EXCEPT ![t] = @ + 1]
               /\ inbox' = [inbox EXCEPT ![t] = Append(@, [kind |-> "connected", session |-> session])]
    /\ curSessionConnecting' = curSessionConnecting + 1
    /\ work' = [work EXCEPT ![o] = Idle]
    /\ UNCHANGED <<acceptPollerVars, countVars, requests, dispatcherVars>>

(* Mutant of ConnectFailure: the failure is only logged.                   *)
ConnectFailure_Silent ==
    /\ work["connector"].at = "failed"
    /\ work' = [work EXCEPT !["connector"] = Idle]
    /\ UNCHANGED <<acceptPollerVars, countVars, requests, engineVars, dispatcherVars>>

(* HandleCompEv_ConnectFailure: back to who asked, by way of a transfer.   *)
ConnectFailure ==
    /\ work["connector"].at = "failed"
    /\ \E t \in Transfer :
           /\ IsMinTransfer(t)
           /\ inbox' = [inbox EXCEPT ![t] =
                           Append(@, [kind |-> "failure", stub |-> work["connector"].stub])]
    /\ work' = [work EXCEPT !["connector"] = Idle]
    /\ UNCHANGED <<acceptPollerVars, countVars, requests, curSessionConnecting, sessionCnt, dispatcherVars>>

-----------------------------------------------------------------------------
(* The dispatcher's thread. *)

AtRest == leaving = {}

(* NodeConnectionMgr::AsynConnect: the connector gets the request, then    *)
(* the stub becomes pending.                                               *)
AsynConnect(stub) ==
    /\ AtRest /\ stub \notin asked
    /\ requests' = Append(requests, [kind |-> "connect", stub |-> stub])
    /\ pending' = pending \cup {stub} /\ asked' = asked \cup {stub}
    /\ UNCHANGED <<acceptPollerVars, countVars, work, engineVars, sessionVars, users>>

(* The next message that came by way of transfer t.                        *)
TakeMessage(t, kind) ==
    /\ AtRest
    /\ inbox[t] # <<>> /\ Head(inbox[t]).kind = kind
    /\ inbox' = [inbox EXCEPT ![t] = Tail(@)]
    /\ UNCHANGED <<acceptPollerVars, countVars, work, requests, curSessionConnecting, sessionCnt, leaving, asked>>

(* _OnConnectFinish, if the stub is one of the pending.                    *)
Finish(stub) == pending' = pending \ {stub}

(* _OnConnectFailure.                                                      *)
HandleConnectFailure(t) ==
    /\ TakeMessage(t, "failure")
    /\ Finish(Head(inbox[t]).stub)
    /\ UNCHANGED <<sessions, closing, users>>

(* Mutant of HandleConnected: a session that is closed while it connects   *)
(* answers nobody.                                                         *)
HandleConnected_FailIsSilent(t) ==
    /\ TakeMessage(t, "connected")
    /\ LET session == Head(inbox[t]).session
       IN  /\ sessions' = sessions \cup {session}
           /\ \/ /\ users' = IF session.stub \in pending THEN users \cup {session.id} ELSE users
                 /\ Finish(session.stub)
                 /\ UNCHANGED closing
              \/ /\ closing' = closing \cup {session.id}
                 /\ UNCHANGED <<users, pending>>

(* OnSessionConnected of dispatcher and logic.  A listener of the event    *)
(* OnSessionConnecting may close the session: then the connect failed      *)
(* (_OnSessionConnectFail) and there is no user.                           *)
HandleConnected(t) ==
    /\ TakeMessage(t, "connected")
    /\ LET session == Head(inbox[t]).session
       IN  /\ sessions' = sessions \cup {session}
           /\ Finish(session.stub)
           /\ \/ /\ users' = IF session.stub \in pending THEN users \cup {session.id} ELSE users
                 /\ UNCHANGED closing
              \/ /\ closing' = closing \cup {session.id}
                 /\ UNCHANGED users

(* The peer, its heartbeat or the logic ends a session.                    *)
SessionEnds(session) ==
    /\ AtRest /\ session.id \notin closing
    /\ closing' = closing \cup {session.id}
    /\ UNCHANGED <<acceptPollerVars, countVars, work, requests, engineVars, sessions, leaving, nodeVars>>

(* Mutant of Disconnect: the owner's delegate is not called.               *)
Disconnect_TellsNobody(session) ==
    /\ AtRest /\ session.id \in closing
    /\ leaving' = {session.id}
    /\ users' = users \ {session.id}
    /\ UNCHANGED <<acceptPollerVars, countVars, work, requests, engineVars, sessions, closing, pending, asked>>

(* _OnSessionDisconnectedNoFree, the logic's part: the connector's         *)
(* delegate (_OnUserDisconnected) puts the id in its queue, the user goes. *)
Disconnect(session) ==
    /\ AtRest /\ session.id \in closing
    /\ leaving' = {session.id}
    /\ requests' = IF session.owner = "connector"
                   THEN Append(requests, [kind |-> "gone", id |-> session.id])
                   ELSE requests
    /\ users' = users \ {session.id}
    /\ UNCHANGED <<acceptPollerVars, countVars, work, engineVars, sessions, closing, pending, asked>>

(* ... and the engine's part, HandleCompEv_Disconnected: the acceptor      *)
(* counts its own session down, the transfer any.                          *)
Leave(session) ==
    /\ session.id \in leaving
    /\ IF session.owner = "acceptor" /\ session.id \in sucConnected["acceptor"]
       THEN /\ curSessionCnt' = curSessionCnt - 1
            /\ sucConnected' = [sucConnected EXCEPT !["acceptor"] = @ \ {session.id}]
       ELSE UNCHANGED <<curSessionCnt, sucConnected>>
    /\ curSessionConnecting' = curSessionConnecting - 1
    /\ sessionCnt' = [sessionCnt EXCEPT ![session.transfer] = @ - 1]
    /\ sessions' = sessions \ {session} /\ closing' = closing \ {session.id} /\ leaving' = {}
    /\ UNCHANGED <<acceptPollerVars, curMaxSessionId, work, requests, inbox, nodeVars>>

-----------------------------------------------------------------------------
AcceptPollerStep ==
    /\ PeerConnects \/ Notify \/ TakeEvent \/ WaitForEvent \/ Awake \/ Return
    /\ UNCHANGED <<countVars, work, requests, engineVars, dispatcherVars>>

(* The handover of a socket comes before the next accept.                  *)
EndOfBacklog ==
    /\ AcceptNone /\ work["acceptor"] = Idle
    /\ UNCHANGED <<countVars, work, requests, engineVars, dispatcherVars>>

Next ==
    \/ AcceptPollerStep \/ Accept \/ EndOfBacklog
    \/ CheckConnect \/ Connected \/ ConnectFails \/ Gone \/ ConnectFailure
    \/ \E o \in Owner : WillConnect(o)
    \/ \E stub \in Stub : AsynConnect(stub)
    \/ \E t \in Transfer : HandleConnectFailure(t) \/ HandleConnected(t)
    \/ \E session \in sessions : SessionEnds(session) \/ Disconnect(session) \/ Leave(session)

Spec == Init /\ [][Next]_vars

(* Threads that are not stopped go on, and a connect ends by its timeout.  *)
(* Nobody has to ask for a connection, to end a session or to connect, and *)
(* a wait need not return unsignalled.  Disconnect has no fairness: when a *)
(* session is being closed, it is not the dispatcher's scheduling alone    *)
(* that decides whether it is ever removed (EpollSession: RemovalCompletes *)
(* and where it fails, IFS_MsgDispatcher.cpp:593).                         *)
Fairness ==
    /\ WF_vars(Notify /\ UNCHANGED <<countVars, work, requests, engineVars, dispatcherVars>>)
    /\ WF_vars(/\ TakeEvent \/ WaitForEvent \/ Return
               /\ UNCHANGED <<countVars, work, requests, engineVars, dispatcherVars>>)
    /\ WF_vars(Accept \/ EndOfBacklog \/ WillConnect("acceptor"))
    /\ WF_vars(CheckConnect \/ Connected \/ ConnectFails \/ Gone \/ ConnectFailure \/ WillConnect("connector"))
    /\ \A t \in Transfer : WF_vars(HandleConnectFailure(t) \/ HandleConnected(t))
    /\ WF_vars(\E session \in sessions : Leave(session))

FairSpec == Spec /\ Fairness

-----------------------------------------------------------------------------
(* Properties. *)

(* _curSessionCnt exceeds the limit by one at the most, and not while the  *)
(* connector tries a connection it has yet to count (IFS_Connector.cpp     *)
(* 177-179 counts without the check of 265).                               *)
LimitHolds == curSessionCnt <= IF work["connector"].at = "connect" THEN Limit ELSE Limit + 1

Coming(t) == {m.session : m \in {x \in ToSet(inbox[t]) : x.kind = "connected"}}
Known == sessions \cup UNION {Coming(t) : t \in Transfer}
InHand(o) == IF work[o].at = "transfer" THEN {work[o].id} ELSE {}
GoneIds == {r.id : r \in {x \in ToSet(requests) : x.kind = "gone"}}
OwnedBy(o) == {s.id : s \in {x \in Known : x.owner = o}}

(* _curSessionCnt counts the ids of the two sets, ...                      *)
IdsAreCounted ==
    curSessionCnt = Cardinality(sucConnected["acceptor"]) + Cardinality(sucConnected["connector"])

(* ... which are those of the sessions, of the ones on the way to the      *)
(* dispatcher and of those that left it and are yet to be counted down; ...*)
IdsAreOfSessions ==
    /\ sucConnected["acceptor"] = InHand("acceptor") \cup OwnedBy("acceptor")
    /\ sucConnected["connector"] =
           InHand("connector") \cup (OwnedBy("connector") \ leaving) \cup GoneIds

(* ... and engine and transfers count the sessions they were given.        *)
SessionsAreCounted ==
    /\ curSessionConnecting = Cardinality(Known)
    /\ \A t \in Transfer : sessionCnt[t] = Cardinality({s \in Known : s.transfer = t})

(* The counts that different threads keep under different locks agree.     *)
CountsAgree == IdsAreCounted /\ IdsAreOfSessions /\ SessionsAreCounted

(* The places where something is on its way for a stub: its request, the   *)
(* attempt to connect, and the result of it.                               *)
StubOf(m) == IF m.kind = "connected" THEN m.session.stub ELSE m.stub

Outstanding(stub) ==
    {<<"requests", i>> : i \in {j \in DOMAIN requests : requests[j].kind = "connect" /\ requests[j].stub = stub}}
    \cup (IF work["connector"].stub = stub THEN {<<"connector">>} ELSE {})
    \cup UNION {{<<"inbox", t, i>> : i \in {j \in DOMAIN inbox[t] : StubOf(inbox[t][j]) = stub}} : t \in Transfer}

(* NodeConnectionMgr keeps a stub pending as long as its answer is due and *)
(* no longer: there is one answer for it, and none for any other stub.     *)
(* Its users are sessions of its own that have not gone.                   *)
PendingIsOutstanding ==
    /\ \A stub \in Stub : Cardinality(Outstanding(stub)) = IF stub \in pending THEN 1 ELSE 0
    /\ users \subseteq {s.id : s \in {x \in sessions : x.stub # NoStub}} \ leaving

(* Every AsynConnect is answered, with success or failure                  *)
(* (NodeConnectionMgr::_OnConnectFinish).                                  *)
EachConnectIsAnswered == \A stub \in Stub : (stub \in pending) ~> (stub \notin pending)

(* A session the dispatcher removes gives its place under the limit back,  *)
(* whichever of acceptor and connector it came from.  One that is being    *)
(* closed and never removed keeps it.                                      *)
SlotsReturn ==
    \A id \in 1 .. MaxPeers + Cardinality(Stub) :
        (id \in leaving) ~> (id \notin sucConnected["acceptor"] \cup sucConnected["connector"])

(* The edge-triggered listening socket is emptied: no peer waits in the    *)
(* kernel's accept queue for another one to come.                          *)
BacklogIsServed == (backlog > 0) ~> (backlog = 0)
=============================================================================
