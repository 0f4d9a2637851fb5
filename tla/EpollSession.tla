---------------------------- MODULE EpollSession ----------------------------
(***************************************************************************)
(* The life of one network session on Linux, across the threads that share *)
(* it: the dispatcher that owns it (IFS_MsgDispatcher.cpp, FS_Session.cpp),*)
(* the receive and the send thread of the transfer, which hold its buffers *)
(* while an io is posted, and the epoll thread                             *)
(* (FS_EpollTransferPoller.cpp).  Session ids are never used again, and no *)
(* handler touches a session other than its own, except for the shutdown:  *)
(* it waits for the ios of every session of every transfer (IsIoFinish),   *)
(* here for those of the one session.                                      *)
(*                                                                         *)
(* The dispatcher posts an io by putting a pointer to the session's buffer *)
(* into a mailbox; the io comes back as a message.  It may free the session*)
(* when no io is posted.  The receive and the send side of the transfer    *)
(* are the same code twice, so what they keep is a function of Dirs.       *)
(* Mailboxes and the dispatcher's queue are the queues of                  *)
(* MessageQueueNoThread and ConcurrentMessageQueueNoThread: here, FIFOs.   *)
(* Data is counted in chunks.                                              *)
(***************************************************************************)
EXTENDS Naturals, Sequences, SequencesExt

CONSTANTS
    Env,        \* what this instance lets happen, of the names below
    MaxData,    \* bound: chunks the peer sends
    MaxOut      \* bound: chunks waiting in the session's send buffer

ASSUME SessionAssumption ==
    /\ Env \subseteq {"burst",     \* the end of the stream may come right behind data
                      "reset",     \* the peer may reset: EPOLLHUP or EPOLLERR
                      "close",     \* the logic may close the session, its heartbeat run out
                      "oversize",  \* a message may be larger than the receive buffer
                      "shutdown",  \* the engine may be closed
                      "late"}      \* connections are still accepted meanwhile
    /\ MaxData \in Nat /\ MaxOut \in Nat

VARIABLES
    \* the socket and its peer
    arrived,     \* chunks the peer has sent
    avail,       \* of those, the ones still in the socket
    fin,         \* the peer closed its end
    broken,      \* the connection was reset
    full,        \* the socket takes no more to send
    edges,       \* edge-triggered events to be told; registered with epoll?
    registered,
    \* the transfer
    status,      \* _sessionIdRefRecverEvStatus/..SenderEvStatus: absent is "none"
    io,          \* ..EvIoData: absent is "none", NULL is "null"
    failing,     \* the thread reported data and has yet to report the end of the stream
    box,         \* the two mailboxes
    \* the dispatcher
    inbox,       \* its queue
    batch,       \* the messages it took for this frame
    dpc,         \* where it is in its frame or after its loop
    has,         \* hasMsg: this frame took messages
    last,        \* this is the frame after the loop
    poolWorking, \* IsPoolWorking
    life,        \* the session object: "none" (nobody connected yet), "coming",
                 \* "alive", "closed" (disconnected, not freed), "freed"
    s,           \* its fields, and its places in the dispatcher's sets
    handled,     \* chunks handed to the logic
    byUs         \* the server side decided to close the session

peerVars == <<arrived, avail, fin, broken, full>>
epollVars == <<edges, registered>>
transferVars == <<status, io, failing, box>>
frameVars == <<batch, dpc, has, last, poolWorking>>
sessionVars == <<life, s, handled, byUs>>
vars == <<peerVars, epollVars, transferVars, inbox, frameVars, sessionVars>>

Dirs == {"recv", "send"}
Both(x) == [d \in Dirs |-> x]

NewSession ==
    [mask |-> FALSE,             \* _maskClose
     post |-> Both(FALSE),       \* _isPostRecv, _isPostSend
     canceled |-> Both(FALSE),   \* _isRecvIoCanceled, _isSendIoCanceled
     toPost |-> Both(FALSE),     \* in _toPostRecv, _toPostSend
     toRemove |-> FALSE,         \* in _toRemove
     beat |-> TRUE,              \* in _sessionHeartbeatQueue
     recvFull |-> FALSE,         \* IsFull of the receive buffer
     out |-> 0,                  \* chunks in the send buffer
     len |-> 0]                  \* chunks the posted send covers

Message == [kind : Dirs, bytes : Nat, inMonitor : BOOLEAN] \cup {[kind |-> "connected"]}

TypeOK ==
    /\ arrived \in 0 .. MaxData /\ avail \in 0 .. arrived /\ handled \in 0 .. arrived
    /\ fin \in BOOLEAN /\ broken \in BOOLEAN /\ full \in BOOLEAN
    /\ edges \subseteq {"in", "out", "hup", "hupSend"} /\ registered \in BOOLEAN
    /\ status \in [Dirs -> {"none", "idle", "ready"}]
    /\ io \in [Dirs -> {"none", "null", "posted"}]
    /\ failing \in [Dirs -> BOOLEAN]
    /\ box \in [Dirs -> Seq({"ready", "post", "cancel", "quiet"})]
    /\ inbox \in Seq(Message) /\ batch \in Seq(Message)
    /\ dpc \in {"wait", "timers", "handle", "post", "remove", "last", "cancel", "finish", "end"}
    /\ has \in BOOLEAN /\ last \in BOOLEAN /\ poolWorking \in BOOLEAN /\ byUs \in BOOLEAN
    /\ life \in {"none", "coming", "alive", "closed", "freed"}
    /\ s \in [mask : BOOLEAN, post : [Dirs -> BOOLEAN], canceled : [Dirs -> BOOLEAN],
              toPost : [Dirs -> BOOLEAN], toRemove : BOOLEAN, beat : BOOLEAN, recvFull : BOOLEAN,
              out : 0 .. MaxOut, len : 0 .. MaxOut]

Init ==
    /\ arrived = 0 /\ avail = 0 /\ fin = FALSE /\ broken = FALSE /\ full = FALSE
    /\ edges = {} /\ registered = FALSE
    /\ status = Both("none") /\ io = Both("none") /\ failing = Both(FALSE)
    /\ box = Both(<<>>)
    /\ inbox = <<>> /\ batch = <<>>
    /\ dpc = "wait" /\ has = FALSE /\ last = FALSE /\ poolWorking = TRUE
    /\ life = "none" /\ s = NewSession /\ handled = 0 /\ byUs = FALSE

Edge(e) == edges' = IF registered THEN edges \cup {e} ELSE edges

-----------------------------------------------------------------------------
(* The peer and the kernel. *)
PeerSends ==
    /\ arrived < MaxData /\ ~fin /\ ~broken
    /\ arrived' = arrived + 1 /\ avail' = avail + 1
    /\ Edge("in")
    /\ UNCHANGED <<fin, broken, full, registered, transferVars, inbox, frameVars, sessionVars>>

PeerCloses ==
    /\ ~fin /\ ~broken
    /\ avail = 0 \/ "burst" \in Env
    /\ fin' = TRUE
    /\ Edge("in")
    /\ UNCHANGED <<arrived, avail, broken, full, registered, transferVars, inbox, frameVars, sessionVars>>

PeerResets ==
    /\ "reset" \in Env /\ ~broken /\ registered
    /\ broken' = TRUE
    /\ Edge("hup")
    /\ UNCHANGED <<arrived, avail, fin, full, registered, transferVars, inbox, frameVars, sessionVars>>

PeerReads ==
    /\ full /\ ~broken
    /\ full' = FALSE
    /\ Edge("out")
    /\ UNCHANGED <<arrived, avail, fin, broken, registered, transferVars, inbox, frameVars, sessionVars>>

(* An acceptor or connector thread: OnWillConnect of the transfer.         *)
WillConnect ==
    /\ life = "none"
    /\ poolWorking \/ "late" \in Env
    /\ life' = "coming"
    /\ status' = Both("idle") /\ io' = Both("null")
    /\ inbox' = Append(inbox, [kind |-> "connected"])
    /\ UNCHANGED <<peerVars, epollVars, failing, box, frameVars, s, handled, byUs>>

(* The epoll thread and the thread that distributes its events.  An error  *)
(* hides what else is reported with it and cancels both directions.        *)
If(e, word) == IF e \in edges THEN <<word>> ELSE <<>>

Distribute ==
    /\ registered /\ edges # {}
    /\ \/ /\ "hup" \in edges
          /\ edges' = {"hupSend"}
          /\ box' = [box EXCEPT !["recv"] = Append(@, "cancel")]
       \/ /\ "hup" \notin edges
          /\ edges' = {}
          /\ box' = [recv |-> box["recv"] \o If("in", "ready"),
                     send |-> box["send"] \o If("hupSend", "cancel") \o If("out", "ready")]
    /\ UNCHANGED <<peerVars, registered, status, io, failing, inbox, frameVars, sessionVars>>

-----------------------------------------------------------------------------
(* The receive and the send thread of the transfer.  What the loop of      *)
(* recv (send) calls can end with: so many chunks moved, and "again"       *)
(* (EAGAIN), "stop" (buffer full, nothing left to send) or "closed".       *)
Outcomes(d) ==
    IF d = "recv"
    THEN {o \in [bytes : 0 .. avail, end : {"again", "stop", "closed"}] :
             CASE o.end = "again" -> o.bytes = avail /\ ~fin /\ ~broken
               [] o.end = "stop" -> o.bytes > 0
               [] o.end = "closed" -> broken \/ (fin /\ o.bytes = avail)}
    ELSE {o \in [bytes : 0 .. s.len, end : {"again", "stop", "closed"}] :
             CASE o.end = "again" -> ~broken /\ o.bytes < s.len /\ (full => o.bytes = 0)
               [] o.end = "stop" -> ~broken /\ ~full /\ o.bytes = s.len
               [] o.end = "closed" -> broken /\ o.bytes < s.len}

(* Chunks moved are reported and end the io.  An end of the stream or an   *)
(* error is reported by a message of its own, with the session forgotten:  *)
(* after data that is a second step, the dispatcher may run in between.    *)
Data(d, n) == [kind |-> d, bytes |-> n, inMonitor |-> TRUE]
End(d) == [kind |-> d, bytes |-> 0, inMonitor |-> FALSE]

(* Mutant of FirstReport: the end of the stream hides the data before it.  *)
FirstReport_EndHidesData(d, o) ==
    CASE o.end = "closed" -> <<End(d)>>
      [] o.end # "closed" /\ o.bytes > 0 -> <<Data(d, o.bytes)>>
      [] OTHER -> <<>>

FirstReport(d, o) ==
    CASE o.bytes > 0 -> <<Data(d, o.bytes)>>
      [] o.bytes = 0 /\ o.end = "closed" -> <<End(d)>>
      [] OTHER -> <<>>

DoIo(d) ==
    \E o \in Outcomes(d) :
        /\ inbox' = inbox \o FirstReport(d, o)
        /\ failing' = [failing EXCEPT ![d] = o.bytes > 0 /\ o.end = "closed"]
        /\ io' = [io EXCEPT ![d] = IF o.bytes > 0 \/ o.end = "closed" THEN "none" ELSE "posted"]
        /\ status' = [status EXCEPT ![d] = CASE o.end = "again" -> "idle"
                                             [] o.end = "closed" /\ o.bytes = 0 -> "none"
                                             [] OTHER -> "ready"]
        /\ IF d = "recv"
           THEN avail' = avail - o.bytes /\ UNCHANGED full
           ELSE full' = (full \/ o.end = "again") /\ UNCHANGED avail
        /\ UNCHANGED <<arrived, fin, broken>>

Fail(d) ==
    /\ failing[d]
    /\ failing' = [failing EXCEPT ![d] = FALSE]
    /\ io' = [io EXCEPT ![d] = "none"]
    /\ status' = [status EXCEPT ![d] = "none"]
    /\ inbox' = Append(inbox, End(d))
    /\ UNCHANGED <<peerVars, epollVars, box, frameVars, sessionVars>>

Take(d, what) ==
    /\ ~failing[d]
    /\ box[d] # <<>> /\ Head(box[d]) = what
    /\ box' = [box EXCEPT ![d] = Tail(@)]
    /\ UNCHANGED <<epollVars, frameVars, sessionVars>>

(* Mutant of OnReady: an event that comes before the io is forgotten. *)
OnReady_ForgetsEarly(d) ==
    /\ Take(d, "ready")
    /\ IF status[d] # "none" /\ io[d] = "posted"
       THEN DoIo(d)
       ELSE UNCHANGED <<status, io, failing, inbox, peerVars>>

(* _OnEpollReadableEv, _OnEpollWritableEv *)
OnReady(d) ==
    /\ Take(d, "ready")
    /\ \/ status[d] = "none" /\ UNCHANGED <<status, io, failing, inbox, peerVars>>
       \/ status[d] # "none" /\ io[d] = "posted" /\ DoIo(d)
       \/ /\ status[d] # "none" /\ io[d] # "posted"
          /\ status' = [status EXCEPT ![d] = "ready"]
          /\ UNCHANGED <<io, failing, inbox, peerVars>>

(* _OnBePostedRecv, _OnBePostedSend *)
OnBePosted(d) ==
    /\ Take(d, "post")
    /\ \/ status[d] = "none" /\ UNCHANGED <<status, io, failing, inbox, peerVars>>
       \/ /\ status[d] = "idle"
          /\ io' = [io EXCEPT ![d] = "posted"]
          /\ UNCHANGED <<status, failing, inbox, peerVars>>
       \/ status[d] = "ready" /\ DoIo(d)

(* Mutant of OnCancel: it never answers. *)
OnCancel_Silent(d, what) ==
    /\ Take(d, what)
    /\ status' = [status EXCEPT ![d] = "none"]
    /\ io' = [io EXCEPT ![d] = IF status[d] = "none" THEN @ ELSE "none"]
    /\ UNCHANGED <<failing, inbox, peerVars>>

(* Mutant of OnCancel: only the status is erased. *)
OnCancel_KeepsIo(d, what) ==
    /\ Take(d, what)
    /\ status' = [status EXCEPT ![d] = "none"]
    /\ inbox' = IF status[d] # "none" /\ what = "cancel" THEN Append(inbox, End(d)) ELSE inbox
    /\ UNCHANGED <<io, failing, peerVars>>

(* _OnBePostedCancleIoToRecver, _OnBePostedCancleIoToSender *)
OnCancel(d, what) ==
    /\ Take(d, what)
    /\ status' = [status EXCEPT ![d] = "none"]
    /\ io' = [io EXCEPT ![d] = IF status[d] = "none" THEN @ ELSE "none"]
    /\ inbox' = IF status[d] # "none" /\ what = "cancel"
                THEN Append(inbox, End(d))
                ELSE inbox
    /\ UNCHANGED <<failing, peerVars>>

Poller(d) == Fail(d) \/ OnReady(d) \/ OnBePosted(d) \/ OnCancel(d, "cancel") \/ OnCancel(d, "quiet")

-----------------------------------------------------------------------------
(* What the dispatcher does to the session and to the mailboxes: operators *)
(* from [s, box, us] to the same, us for byUs.                             *)
Here == [s |-> s, box |-> box, us |-> byUs]

Becomes(x) == s' = x.s /\ box' = x.box /\ byUs' = x.us

(* PostRecv, PostSend with something to post.  The mailbox takes it: while *)
(* a dispatcher's thread runs, the mailboxes work (IFS_NetEngine.cpp calls *)
(* WillClose, which joins the dispatchers, at 246 and BeforeClose, which   *)
(* closes the mailboxes, at 249).                                          *)
PostIo(x, d) ==
    [x EXCEPT !.s.post[d] = TRUE,
              !.s.len = IF d = "send" THEN x.s.out ELSE @,
              !.box[d] = Append(@, "post")]

(* PostRecv: a full receive buffer is not posted, and that is a success.   *)
PostRecv(x) == IF x.s.recvFull THEN x ELSE PostIo(x, "recv")

CancelIo(x, d, word) ==      \* CancelRecvIoAndMaskClose, CancelSendIoAndMaskClose
    IF x.s.canceled[d]
    THEN [x EXCEPT !.s.mask = TRUE]
    ELSE [x EXCEPT !.s.mask = TRUE, !.s.canceled[d] = TRUE, !.box[d] = Append(@, word)]

CancelBoth(x, word) == CancelIo(CancelIo(x, "recv", word), "send", word)

DelayClose(x) == [x EXCEPT !.s.mask = TRUE, !.s.toRemove = TRUE, !.us = TRUE]

SendData(x) ==
    IF x.s.mask THEN x
    ELSE [x EXCEPT !.s.out = @ + 1,
                   !.s.toPost["send"] = @ \/ ~x.s.post["send"]]

(* The logic, called back: it may send, close the session, or both.        *)
AfterLogic(x) ==
    LET sent == IF x.s.out < MaxOut THEN {x, SendData(x)} ELSE {x}
    IN  sent \cup (IF "close" \in Env THEN {DelayClose(y) : y \in sent} ELSE {})

-----------------------------------------------------------------------------
(* The dispatcher's frame. *)
(* Mutant of WaitForPoping: the messages are copied out of the queue. *)
WaitForPoping_Copies ==
    /\ dpc = "wait"
    /\ dpc' = "timers"
    /\ batch' = inbox /\ has' = (inbox # <<>>)
    /\ UNCHANGED <<peerVars, epollVars, transferVars, inbox, last, poolWorking, sessionVars>>

WaitForPoping ==
    /\ dpc = "wait"
    /\ dpc' = "timers"
    /\ batch' = inbox /\ inbox' = <<>> /\ has' = (inbox # <<>>)
    /\ UNCHANGED <<peerVars, epollVars, transferVars, last, poolWorking, sessionVars>>

(* RotateWheel, whose timers call the logic, and _CheckHeartbeat.          *)
Timers ==
    /\ dpc = "timers"
    /\ dpc' = "handle"
    /\ \/ life # "alive" /\ UNCHANGED <<s, box, byUs>>
       \/ /\ life = "alive"
          /\ \E x \in AfterLogic(Here) : Becomes(x)
       \/ /\ life = "alive" /\ s.beat /\ "close" \in Env
          /\ \E x \in AfterLogic(Here) :
                Becomes([DelayClose(x) EXCEPT !.s.beat = FALSE])
    /\ UNCHANGED <<peerVars, epollVars, status, io, failing, inbox, batch, has, last, poolWorking, life, handled>>

OnSessionConnected ==
    /\ life' = "alive"
    /\ registered' = TRUE
    /\ edges' = {"out"} \cup (IF avail > 0 \/ fin THEN {"in"} ELSE {})
    /\ \E x \in AfterLogic([s |-> NewSession, box |-> box, us |-> FALSE]) :
          Becomes(IF x.s.mask THEN x ELSE PostRecv(x))
    /\ UNCHANGED handled

(* A message that ends the session, or that comes back to one being closed.*)
Disconnected(m) ==
    /\ s' = [s EXCEPT !.post[m.kind] = FALSE,
                      !.canceled[m.kind] = @ \/ ~m.inMonitor,
                      !.toRemove = TRUE]
    /\ UNCHANGED <<box, byUs, handled>>

(* The message handler takes whole messages out of the buffer.  What is    *)
(* left is the beginning of one, and may fill it.  (In the code only after *)
(* a receive that ended with "stop"; here after any.)                      *)
LeftInBuffer == IF "oversize" \in Env THEN BOOLEAN ELSE {FALSE}

(* Mutant of RecvSuc: the receive is not posted again. *)
RecvSuc_NoRepost(m) ==
    \E isFull \in LeftInBuffer :
    LET done == [Here EXCEPT !.s.post["recv"] = FALSE, !.s.recvFull = isFull]
    IN  /\ handled' = handled + m.bytes
        /\ \E x \in AfterLogic(done) :
              LET y == IF ~x.s.mask /\ ~x.s.post["send"] /\ x.s.out > 0 THEN PostIo(x, "send") ELSE x
              IN  Becomes([y EXCEPT !.s.beat = TRUE])

RecvSuc(m) ==
    \E isFull \in LeftInBuffer :
    LET done == [Here EXCEPT !.s.post["recv"] = FALSE, !.s.recvFull = isFull]
    IN  /\ handled' = handled + m.bytes
        /\ \E x \in AfterLogic(done) :
              LET y == IF ~x.s.mask /\ ~x.s.post["send"] /\ x.s.out > 0 THEN PostIo(x, "send") ELSE x
              IN  Becomes([y EXCEPT !.s.beat = TRUE,
                                    !.s.toPost["recv"] = @ \/ ~y.s.mask])

(* Mutant of SendSuc: what a partial send left over is not posted again. *)
SendSuc_NoRepost(m) ==
    /\ s' = [s EXCEPT !.post["send"] = FALSE,
                      !.out = @ - m.bytes,
                      !.len = 0,
                      !.beat = TRUE]
    /\ UNCHANGED <<box, byUs, handled>>

SendSuc(m) ==
    /\ s' = [s EXCEPT !.post["send"] = FALSE,
                      !.out = @ - m.bytes,
                      !.len = 0,
                      !.beat = TRUE,
                      !.toPost["send"] = @ \/ s.out > m.bytes]
    /\ UNCHANGED <<box, byUs, handled>>

HandleMessage ==
    /\ dpc = "handle" /\ batch # <<>>
    /\ batch' = Tail(batch)
    /\ LET m == Head(batch)
       IN  \/ /\ m.kind = "connected"
              /\ OnSessionConnected
           \/ /\ m.kind # "connected" /\ life # "alive"
              /\ UNCHANGED <<epollVars, sessionVars, box>>
           \/ /\ m.kind # "connected" /\ life = "alive"
              /\ s.mask \/ m.bytes = 0
              /\ Disconnected(m)
              /\ UNCHANGED <<epollVars, life>>
           \/ /\ m.kind # "connected" /\ life = "alive"
              /\ ~s.mask /\ m.bytes > 0
              /\ IF m.kind = "recv" THEN RecvSuc(m) ELSE SendSuc(m)
              /\ UNCHANGED <<epollVars, life>>
    /\ UNCHANGED <<peerVars, status, io, failing, inbox, dpc, has, last, poolWorking>>

(* Mutant of PostEvents: a send is posted over the one that is out. *)
PostEvents_PostsTwice ==
    /\ dpc = "handle" /\ batch = <<>>
    /\ dpc' = "remove"
    /\ LET x == IF s.toPost["recv"] /\ ~s.mask /\ ~s.post["recv"] THEN PostRecv(Here) ELSE Here
           y == IF s.toPost["send"] /\ s.out > 0 THEN PostIo(x, "send") ELSE x
       IN  Becomes([y EXCEPT !.s.toPost = Both(FALSE)])
    /\ UNCHANGED <<peerVars, epollVars, status, io, failing, inbox, batch, has, last, poolWorking, life, handled>>

PostEvents ==
    /\ dpc = "handle" /\ batch = <<>>
    /\ dpc' = "remove"
    /\ LET x == IF s.toPost["recv"] /\ ~s.mask /\ ~s.post["recv"] THEN PostRecv(Here) ELSE Here
           y == IF s.toPost["send"] /\ ~s.post["send"] /\ s.out > 0 THEN PostIo(x, "send") ELSE x
       IN  Becomes([y EXCEPT !.s.toPost = Both(FALSE)])
    /\ UNCHANGED <<peerVars, epollVars, status, io, failing, inbox, batch, has, last, poolWorking, life, handled>>

(* The loop around the frame: on while the pool works or messages came.    *)
FrameEnds ==
    dpc' = IF last THEN "cancel" ELSE IF poolWorking \/ has THEN "wait" ELSE "last"

(* Mutant of CanDisconnect: a posted send is overlooked. *)
CanDisconnect_RecvOnly == ~s.post["recv"]

CanDisconnect == \A d \in Dirs : ~s.post[d]

(* _WillRemoveSessions: an io that is still posted is canceled and waited  *)
(* for; otherwise the session is disconnected and freed.                   *)
WillRemoveSessions ==
    /\ dpc = "remove"
    /\ FrameEnds
    /\ LET x == [Here EXCEPT !.s.mask = TRUE, !.s.toRemove = FALSE]
       IN  \/ /\ ~s.toRemove
              /\ UNCHANGED <<s, box, byUs, life, epollVars>>
           \/ /\ s.toRemove /\ ~CanDisconnect
              /\ Becomes(CancelBoth(x, "cancel"))
              /\ UNCHANGED <<life, epollVars>>
           \/ /\ s.toRemove /\ CanDisconnect
              /\ Becomes(CancelBoth(x, "quiet"))
              /\ life' = "freed"
              /\ registered' = FALSE /\ edges' = {}
    /\ UNCHANGED <<peerVars, status, io, failing, inbox, batch, has, last, poolWorking, handled>>

-----------------------------------------------------------------------------
(* Shutdown of the dispatcher. *)
ClosePool ==
    /\ "shutdown" \in Env /\ poolWorking
    /\ poolWorking' = FALSE
    /\ UNCHANGED <<peerVars, epollVars, transferVars, inbox, batch, dpc, has, last, sessionVars>>

LastFrame ==
    /\ dpc = "last"
    /\ dpc' = "timers" /\ last' = TRUE
    /\ batch' = inbox /\ inbox' = <<>> /\ has' = (inbox # <<>>)
    /\ UNCHANGED <<peerVars, epollVars, transferVars, poolWorking, sessionVars>>

CancelAllSessionIos ==
    /\ dpc = "cancel"
    /\ dpc' = "finish"
    /\ IF life = "alive"
       THEN /\ Becomes([CancelBoth([Here EXCEPT !.s.post = Both(FALSE)], "quiet") EXCEPT !.us = TRUE])
            /\ life' = "closed"
            /\ registered' = FALSE /\ edges' = {}
       ELSE UNCHANGED <<s, box, byUs, life, epollVars>>
    /\ UNCHANGED <<peerVars, status, io, failing, inbox, batch, has, last, poolWorking, handled>>

IsIoFinish == \A d \in Dirs : io[d] = "none"

WaitForTransferIoFinish ==
    /\ dpc = "finish" /\ IsIoFinish
    /\ dpc' = "end"
    /\ life' = IF life = "closed" THEN "freed" ELSE life
    /\ UNCHANGED <<peerVars, epollVars, transferVars, inbox, batch, has, last, poolWorking, s, handled, byUs>>

-----------------------------------------------------------------------------
PeerNext == PeerSends \/ PeerCloses \/ PeerResets \/ PeerReads

DispatcherNext ==
    \/ WaitForPoping \/ Timers \/ HandleMessage \/ PostEvents \/ WillRemoveSessions
    \/ LastFrame \/ CancelAllSessionIos \/ WaitForTransferIoFinish

Next ==
    \/ PeerNext \/ WillConnect \/ Distribute \/ ClosePool
    \/ \E d \in Dirs : Poller(d)
    \/ DispatcherNext

Spec == Init /\ [][Next]_vars

(* The threads of the program run on; the peer, the logic and whoever      *)
(* shuts the engine down are free.  (Sessions do not depend on timers: the *)
(* dispatcher's wait is timed, so frames go on without messages.)          *)
FairSpec ==
    /\ Spec
    /\ WF_vars(Distribute)
    /\ \A d \in Dirs : WF_vars(Poller(d))
    /\ WF_vars(DispatcherNext)

-----------------------------------------------------------------------------
Alive == life = "alive"
Messages == batch \o inbox     \* what the dispatcher has yet to handle
Posts(d) == {i \in 1 .. Len(box[d]) : box[d][i] = "post"}
Answers(d) == {i \in 1 .. Len(Messages) : Messages[i].kind = d}
Done(d) == {i \in Answers(d) : Messages[i].bytes > 0}
Lent(d) == Posts(d) # {} \/ io[d] = "posted"

(* Between frames a session that is not being closed has a receive posted, *)
(* unless its receive buffer is full, the one case in which the code lets  *)
(* a session go deaf (FS_Session.cpp:98-104); and in that case it has none *)
(* posted: a receive into no room is never answered (_OnRecv gives up      *)
(* before it calls recv, and nothing is reported).                         *)
DeafWhenFullOnly == (dpc = "wait" /\ Alive /\ ~s.mask) => (s.post["recv"] = ~s.recvFull)

(* ... and what the logic sent is posted, unless nothing is left of it.    *)
NoStrandedOutput == (dpc = "wait" /\ Alive /\ ~s.mask /\ s.out > 0) => s.post["send"]

(* Edge-triggered epoll reports an event once: whatever is in the socket   *)
(* is remembered as "ready", or its event is still on its way.             *)
ReadinessRemembered ==
    (registered /\ ~broken) =>
        /\ status["recv"] = "idle" /\ (avail > 0 \/ fin) =>
               "in" \in edges \/ Contains(box["recv"], "ready")
        /\ status["send"] = "idle" /\ ~full =>
               "out" \in edges \/ Contains(box["send"], "ready")

(* A buffer is handed out once: in each direction at most one io is in the *)
(* mailbox, with the transfer, or finished and not handled yet.            *)
OneIoPerDirection ==
    \A d \in Dirs : Alive =>
        LET places == Posts(d) \X {"mailbox"} \cup Done(d) \X {"answer"}
                          \cup (IF io[d] = "posted" THEN {<<0, "transfer">>} ELSE {})
        IN  \A p, q \in places : p = q

(* When the peer ends the conversation in order, the logic has seen all of *)
(* it before the session goes.                                             *)
CleanCloseDeliversAll ==
    (life = "freed" /\ ~byUs /\ ~broken) => handled = arrived

(* The dispatcher's flag is right about the transfer: a posted io is in    *)
(* the mailbox or with the transfer, which knows the session, or its       *)
(* answer is on the way.                                                   *)
PostedIoIsAnswered ==
    \A d \in Dirs :
        (Alive /\ s.post[d]) =>
            \/ status[d] # "none" /\ Lent(d)
            \/ Answers(d) # {}

(* "has io uncompleted please check" (FS_Session.cpp:58-59), and "without  *)
(* waiting, buffers may be freed and leave wild pointers" (514 of          *)
(* IFS_MsgDispatcher.cpp): no buffer of a freed session is with the        *)
(* transfer, nor in a mailbox.                                             *)
NoIoOutlivesSession ==
    life = "freed" => \A d \in Dirs : ~Lent(d)

(* The same for the sessions _WillRemoveSessions frees while the server    *)
(* works.                                                                  *)
NoIoOutlivesRemoval == poolWorking => NoIoOutlivesSession

(* "prepare to remove, wait for the transfer to return and remove the      *)
(* session for good" (IFS_MsgDispatcher.cpp:451): a session to be removed  *)
(* is removed.                                                             *)
RemovalCompletes == (Alive /\ (s.mask \/ s.toRemove)) ~> ~Alive

(* The dispatcher's thread ends once its pool is closed, so that it can be *)
(* joined, unless every frame of its loop still brings messages.           *)
ShutdownCompletes == ~poolWorking ~> (dpc = "end" \/ (has /\ ~last))
=============================================================================
