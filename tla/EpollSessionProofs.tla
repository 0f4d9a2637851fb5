------------------------- MODULE EpollSessionProofs -------------------------
(***************************************************************************)
(* What holds of a session whatever its peer does: the types (Shape), and  *)
(* that a side of the session is always posted, about to be posted, out of *)
(* room or ending (Flow); that no event of the socket is forgotten (Told); *)
(* and the books (Books): where an io and what the peer sent are between   *)
(* mailbox, transfer and answer, and that who ends the session has a       *)
(* reason (Over).  What holds besides if the peer ends in order (Orderly)  *)
(* is Ordered, and that no close is stuck (Leaving).                       *)
(***************************************************************************)
EXTENDS EpollSession, SequenceTheorems, TLAPS

Word == {"ready", "post", "cancel", "quiet"}

Fields ==
    [mask : BOOLEAN, post : [Dirs -> BOOLEAN], canceled : [Dirs -> BOOLEAN],
     toPost : [Dirs -> BOOLEAN], toRemove : BOOLEAN, beat : BOOLEAN, recvFull : BOOLEAN,
     out : Int, len : Int]

(* What the dispatcher's operators work on.                                *)
View == [s : Fields, box : [Dirs -> Seq(Word)], us : BOOLEAN]

Shape ==
    /\ arrived \in Nat /\ avail \in Nat /\ handled \in Nat
    /\ fin \in BOOLEAN /\ broken \in BOOLEAN /\ full \in BOOLEAN
    /\ edges \subseteq {"in", "out", "hup", "hupSend"} /\ registered \in BOOLEAN
    /\ status \in [Dirs -> {"none", "idle", "ready"}]
    /\ io \in [Dirs -> {"none", "null", "posted"}]
    /\ failing \in [Dirs -> BOOLEAN]
    /\ box \in [Dirs -> Seq(Word)]
    /\ inbox \in Seq(Message) /\ batch \in Seq(Message)
    /\ dpc \in {"wait", "timers", "handle", "post", "remove", "last", "cancel", "finish", "end"}
    /\ has \in BOOLEAN /\ last \in BOOLEAN /\ poolWorking \in BOOLEAN /\ byUs \in BOOLEAN
    /\ life \in {"none", "coming", "alive", "closed", "freed"}
    /\ s \in Fields

-----------------------------------------------------------------------------
(* What the operators on views do, field by field.                         *)
LEMMA NewFields ==
    ASSUME NEW x \in View, NEW f \in Fields, NEW b \in [Dirs -> Seq(Word)], NEW u \in BOOLEAN,
           NEW y, y = [x EXCEPT !.s = f, !.box = b, !.us = u]
    PROVE  y \in View /\ y.s = f /\ y.box = b /\ y.us = u
BY DEF View

LEMMA NewBox ==
    ASSUME NEW b \in [Dirs -> Seq(Word)], NEW d \in Dirs, NEW w \in Word
    PROVE  [b EXCEPT ![d] = Append(@, w)] \in [Dirs -> Seq(Word)]
<1>1. Append(b[d], w) \in Seq(Word)
  OBVIOUS
<1> QED
  BY <1>1

LEMMA NewFlag ==
    ASSUME NEW p \in [Dirs -> BOOLEAN], NEW d \in Dirs, NEW v \in BOOLEAN
    PROVE  [p EXCEPT ![d] = v] \in [Dirs -> BOOLEAN]
OBVIOUS

\* What PostIo makes of a view x, for the direction d.
IoPosted(x, d, y) ==
    /\ y \in View
    /\ y.s.post = [x.s.post EXCEPT ![d] = TRUE]
    /\ y.s.mask = x.s.mask /\ y.s.canceled = x.s.canceled /\ y.s.toPost = x.s.toPost
    /\ y.s.toRemove = x.s.toRemove /\ y.s.recvFull = x.s.recvFull /\ y.s.out = x.s.out
    /\ y.s.len = IF d = "send" THEN x.s.out ELSE x.s.len
    /\ y.box = [x.box EXCEPT ![d] = Append(@, "post")]
    /\ y.us = x.us

LEMMA PostIoIs ==
    ASSUME NEW x \in View, NEW d \in Dirs, NEW y, y = PostIo(x, d)
    PROVE  IoPosted(x, d, y)
<1>1. PICK p, n, b :
         /\ p = [x.s.post EXCEPT ![d] = TRUE]
         /\ n = IF d = "send" THEN x.s.out ELSE x.s.len
         /\ b = [x.box EXCEPT ![d] = Append(@, "post")]
  OBVIOUS
<1>2. p \in [Dirs -> BOOLEAN] /\ b \in [Dirs -> Seq(Word)] /\ n \in Int
  BY <1>1, NewFlag, NewBox DEF View, Fields, Word
<1>3. PICK f : f = [x.s EXCEPT !.post = p, !.len = n]
  OBVIOUS
<1>4. /\ f \in Fields /\ f.post = p /\ f.mask = x.s.mask /\ f.canceled = x.s.canceled
      /\ f.toPost = x.s.toPost /\ f.toRemove = x.s.toRemove /\ f.out = x.s.out /\ f.len = n
      /\ f.recvFull = x.s.recvFull
  BY <1>2, <1>3 DEF View, Fields
<1>5. y = [x EXCEPT !.s = f, !.box = b, !.us = x.us]
  BY <1>1, <1>3 DEF PostIo, View, Fields
<1>6. y \in View /\ y.s = f /\ y.box = b /\ y.us = x.us
  <2>1. y \in View /\ y.s = f /\ y.box = b
    BY <1>2, <1>4, <1>5, NewFields DEF View
  <2>2. y.us = x.us
    BY <1>2, <1>4, <1>5 DEF View
  <2> QED
    BY <2>1, <2>2
<1> QED
  BY <1>1, <1>4, <1>6 DEF IoPosted

LEMMA CancelIoIs ==
    ASSUME NEW x \in View, NEW d \in Dirs, NEW w \in Word, NEW y, y = CancelIo(x, d, w)
    PROVE  /\ y \in View
           /\ y.s.mask /\ y.s.canceled[d]
           /\ \A e \in Dirs \ {d} : y.s.canceled[e] = x.s.canceled[e]
           /\ y.s.post = x.s.post /\ y.s.toPost = x.s.toPost /\ y.s.toRemove = x.s.toRemove
           /\ y.s.out = x.s.out /\ y.s.len = x.s.len /\ y.s.recvFull = x.s.recvFull
           /\ y.box = IF x.s.canceled[d] THEN x.box ELSE [x.box EXCEPT ![d] = Append(@, w)]
           /\ y.us = x.us
<1>1. PICK c, b :
         /\ c = IF x.s.canceled[d] THEN x.s.canceled ELSE [x.s.canceled EXCEPT ![d] = TRUE]
         /\ b = IF x.s.canceled[d] THEN x.box ELSE [x.box EXCEPT ![d] = Append(@, w)]
  OBVIOUS
<1>2. c \in [Dirs -> BOOLEAN] /\ b \in [Dirs -> Seq(Word)]
  BY <1>1, NewFlag, NewBox DEF View, Fields
<1>3. c[d] /\ \A e \in Dirs \ {d} : c[e] = x.s.canceled[e]
  BY <1>1 DEF View, Fields
<1>4. PICK f : f = [x.s EXCEPT !.mask = TRUE, !.canceled = c]
  OBVIOUS
<1>5. /\ f \in Fields /\ f.post = x.s.post /\ f.mask /\ f.canceled = c
      /\ f.toPost = x.s.toPost /\ f.toRemove = x.s.toRemove /\ f.out = x.s.out
      /\ f.len = x.s.len /\ f.recvFull = x.s.recvFull
  BY <1>2, <1>4 DEF View, Fields
<1>6. y = [x EXCEPT !.s = f, !.box = b, !.us = x.us]
  BY <1>1, <1>4 DEF CancelIo, View, Fields
<1>7. y \in View /\ y.s = f /\ y.box = b /\ y.us = x.us
  <2>1. y \in View /\ y.s = f /\ y.box = b
    BY <1>2, <1>5, <1>6, NewFields DEF View
  <2>2. y.us = x.us
    BY <1>2, <1>5, <1>6 DEF View
  <2> QED
    BY <2>1, <2>2
<1> QED
  BY <1>1, <1>3, <1>5, <1>7

LEMMA DelayCloseIs ==
    ASSUME NEW x \in View, NEW y, y = DelayClose(x)
    PROVE  /\ y \in View
           /\ y.s.mask /\ y.s.toRemove
           /\ y.s.post = x.s.post /\ y.s.canceled = x.s.canceled /\ y.s.toPost = x.s.toPost
           /\ y.s.out = x.s.out /\ y.s.len = x.s.len /\ y.s.recvFull = x.s.recvFull
           /\ y.box = x.box /\ y.us
<1>1. PICK f : f = [x.s EXCEPT !.mask = TRUE, !.toRemove = TRUE]
  OBVIOUS
<1>2. /\ f \in Fields /\ f.post = x.s.post /\ f.mask /\ f.canceled = x.s.canceled
      /\ f.toPost = x.s.toPost /\ f.toRemove /\ f.out = x.s.out /\ f.len = x.s.len
      /\ f.recvFull = x.s.recvFull
  BY <1>1 DEF View, Fields
<1>3. y = [x EXCEPT !.s = f, !.box = x.box, !.us = TRUE]
  BY <1>1 DEF DelayClose, View, Fields
<1>4. y \in View /\ y.s = f /\ y.box = x.box /\ y.us
  <2>1. y \in View /\ y.s = f /\ y.box = x.box
    BY <1>2, <1>3, NewFields DEF View
  <2>2. y.us
    BY <1>2, <1>3 DEF View
  <2> QED
    BY <2>1, <2>2
<1> QED
  BY <1>2, <1>4

LEMMA SendDataIs ==
    ASSUME NEW x \in View, NEW y, y = SendData(x)
    PROVE  /\ y \in View
           /\ y.box = x.box /\ y.us = x.us
           /\ y.s.post = x.s.post /\ y.s.canceled = x.s.canceled /\ y.s.mask = x.s.mask
           /\ y.s.toRemove = x.s.toRemove /\ y.s.len = x.s.len /\ y.s.recvFull = x.s.recvFull
           /\ y.s.toPost["recv"] = x.s.toPost["recv"]
           /\ x.s.mask => y = x
           /\ ~x.s.mask => /\ y.s.out = x.s.out + 1
                           /\ y.s.toPost["send"] \/ y.s.post["send"]
<1>1. CASE x.s.mask
  BY <1>1 DEF SendData
<1>2. CASE ~x.s.mask
  <2>1. PICK v \in BOOLEAN : v <=> (x.s.toPost["send"] \/ ~x.s.post["send"])
    OBVIOUS
  <2>2. PICK p : p = [x.s.toPost EXCEPT !["send"] = v]
    OBVIOUS
  <2>3. p \in [Dirs -> BOOLEAN] /\ p["send"] = v /\ p["recv"] = x.s.toPost["recv"]
    BY <2>2 DEF View, Fields, Dirs
  <2>0. PICK n : n = x.s.out + 1 /\ n \in Int
    BY DEF View, Fields
  <2>4. PICK f : f = [x.s EXCEPT !.out = n, !.toPost = p]
    OBVIOUS
  <2>5. /\ f \in Fields /\ f.post = x.s.post /\ f.mask = x.s.mask
        /\ f.canceled = x.s.canceled /\ f.toPost = p /\ f.toRemove = x.s.toRemove
        /\ f.out = n /\ f.len = x.s.len /\ f.recvFull = x.s.recvFull
    BY <2>0, <2>3, <2>4 DEF View, Fields
  <2>6. y = [x EXCEPT !.s = f, !.box = x.box, !.us = x.us]
    BY <1>2, <2>0, <2>1, <2>2, <2>4 DEF SendData, View, Fields
  <2>7. y \in View /\ y.s = f /\ y.box = x.box /\ y.us = x.us
    <3>1. y \in View /\ y.s = f /\ y.box = x.box
      BY <2>5, <2>6, NewFields DEF View
    <3>2. y.us = x.us
      BY <2>5, <2>6 DEF View
    <3> QED
      BY <3>1, <3>2
  <2> QED
    BY <1>2, <2>0, <2>1, <2>3, <2>5, <2>7
<1> QED
  BY <1>1, <1>2

(* What a call of the logic may do to the fields: it may send, close the   *)
(* session, both, or nothing.                                              *)
Served(f, g) ==
    /\ g.post = f.post /\ g.canceled = f.canceled /\ g.len = f.len /\ g.recvFull = f.recvFull
    /\ g.toPost["recv"] = f.toPost["recv"]
    /\ f.mask => g.mask
    /\ f.toRemove => g.toRemove
    /\ g.toPost["send"] => f.toPost["send"] \/ ~f.mask
    /\ g.out >= f.out
    /\ f.out <= MaxOut => g.out <= MaxOut
    /\ \/ g.toPost["send"] \/ g.post["send"]
       \/ g.out = f.out /\ g.toPost = f.toPost

(* ... and a session only it, or somebody before it, began to close.       *)
ShutBy(f, u, g, v) ==
    /\ u => v
    /\ g.mask => f.mask \/ g.toRemove
    /\ g.mask \/ g.toRemove => f.mask \/ f.toRemove \/ v

LEMMA AfterLogicIs ==
    ASSUME NEW x \in View, NEW y \in AfterLogic(x)
    PROVE  y \in View /\ y.box = x.box /\ Served(x.s, y.s) /\ ShutBy(x.s, x.us, y.s, y.us)
<1>1. PICK z : /\ z = x \/ (z = SendData(x) /\ x.s.out < MaxOut)
               /\ y = z \/ y = DelayClose(z)
  BY DEF AfterLogic
<1>2. x.s.out \in Int /\ MaxOut \in Int
  BY SessionAssumption DEF View, Fields
<1>3. /\ z \in View /\ z.box = x.box /\ Served(x.s, z.s)
      /\ z.us = x.us /\ (z.s.mask => x.s.mask) /\ (z.s.toRemove => x.s.toRemove)
  <2>1. CASE z = x
    BY <1>2, <2>1 DEF Served
  <2>2. CASE z = SendData(x) /\ x.s.out < MaxOut
    <3>1. /\ z \in View
          /\ z.box = x.box /\ z.us = x.us
          /\ z.s.post = x.s.post /\ z.s.canceled = x.s.canceled /\ z.s.mask = x.s.mask
          /\ z.s.toRemove = x.s.toRemove /\ z.s.len = x.s.len
          /\ z.s.recvFull = x.s.recvFull
          /\ z.s.toPost["recv"] = x.s.toPost["recv"]
          /\ x.s.mask => z = x
          /\ ~x.s.mask => /\ z.s.out = x.s.out + 1
                          /\ z.s.toPost["send"] \/ z.s.post["send"]
      BY <2>2, SendDataIs
    <3> QED
      BY <1>2, <2>2, <3>1 DEF Served
  <2> QED
    BY <1>1, <2>1, <2>2
<1>4. CASE y = z
  BY <1>3, <1>4 DEF ShutBy
<1>5. CASE y = DelayClose(z)
  <2>1. /\ y \in View
        /\ y.s.mask /\ y.s.toRemove
        /\ y.s.post = z.s.post /\ y.s.canceled = z.s.canceled /\ y.s.toPost = z.s.toPost
        /\ y.s.out = z.s.out /\ y.s.len = z.s.len /\ y.s.recvFull = z.s.recvFull
        /\ y.box = z.box /\ y.us
    BY <1>3, <1>5, DelayCloseIs
  <2> QED
    BY <1>3, <2>1 DEF Served, ShutBy
<1> QED
  BY <1>1, <1>4, <1>5

-----------------------------------------------------------------------------
(* Types: all of TypeOK but how large the numbers are.                     *)
LEMMA MessageIs ==
    ASSUME NEW m \in Message
    PROVE  /\ m.kind \in Dirs \cup {"connected"}
           /\ m.kind # "connected" => m.kind \in Dirs /\ m.bytes \in Nat /\ m.inMonitor \in BOOLEAN
BY DEF Message, Dirs

LEMMA ReportIs ==
    ASSUME NEW d \in Dirs
    PROVE  /\ End(d) \in Message
           /\ \A n \in Nat : Data(d, n) \in Message
BY DEF End, Data, Message

LEMMA InitShape == Init => Shape
<1> SUFFICES ASSUME Init PROVE Shape
  OBVIOUS
<1>1. NewSession \in Fields
  BY DEF NewSession, Fields, Both
<1>2. box \in [Dirs -> Seq(Word)]
  BY DEF Init, Both
<1>3. inbox \in Seq(Message) /\ batch \in Seq(Message)
  BY DEF Init
<1>4. /\ status \in [Dirs -> {"none", "idle", "ready"}]
      /\ io \in [Dirs -> {"none", "null", "posted"}]
      /\ failing \in [Dirs -> BOOLEAN]
  BY DEF Init, Both
<1> QED
  BY <1>1, <1>2, <1>3, <1>4 DEF Init, Shape

LEMMA PairShape ==
    ASSUME NEW S, NEW p \in S, NEW q \in S
    PROVE  [recv |-> p, send |-> q] \in [Dirs -> S]
<1> DEFINE r == [recv |-> p, send |-> q]
<1>1. DOMAIN r = Dirs /\ r["recv"] = p /\ r["send"] = q
  BY DEF Dirs
<1>2. r = [d \in Dirs |-> r[d]]
  BY <1>1
<1>3. \A d \in Dirs : r[d] \in S
  BY <1>1 DEF Dirs
<1> HIDE DEF r
<1>4. r \in [Dirs -> S]
  BY <1>2, <1>3
<1> QED
  BY <1>4 DEF r

LEMMA PeerShape ==
    ASSUME Shape, PeerNext \/ WillConnect \/ Distribute \/ ClosePool \/ LastFrame
                    \/ WaitForPoping \/ WaitForTransferIoFinish
    PROVE  Shape'
<1>1. CASE PeerNext
  <2>1. /\ arrived' \in Nat /\ avail' \in Nat
        /\ fin' \in BOOLEAN /\ broken' \in BOOLEAN /\ full' \in BOOLEAN
    <3>1. CASE PeerSends
      BY <3>1 DEF Shape, PeerSends
    <3>2. CASE PeerCloses
      BY <3>2 DEF Shape, PeerCloses
    <3>3. CASE PeerResets
      BY <3>3 DEF Shape, PeerResets
    <3>4. CASE PeerReads
      BY <3>4 DEF Shape, PeerReads
    <3> QED
      BY <1>1, <3>1, <3>2, <3>3, <3>4 DEF PeerNext
  <2>2. edges' \subseteq {"in", "out", "hup", "hupSend"} /\ registered' \in BOOLEAN
    BY <1>1 DEF Shape, PeerNext, PeerSends, PeerCloses, PeerResets, PeerReads, Edge
  <2>3. UNCHANGED <<transferVars, inbox, frameVars, sessionVars>>
    BY <1>1 DEF PeerNext, PeerSends, PeerCloses, PeerResets, PeerReads
  <2> QED
    BY <2>1, <2>2, <2>3 DEF Shape, transferVars, frameVars, sessionVars
<1>2. CASE WillConnect
  <2>1. [kind |-> "connected"] \in Message
    BY DEF Message
  <2>2. inbox' \in Seq(Message)
    BY <1>2, <2>1 DEF Shape, WillConnect
  <2> QED
    BY <1>2, <2>2 DEF Shape, WillConnect, Both, peerVars, epollVars, frameVars
<1>3. CASE Distribute
  <2>1. \A e, w : w \in Word => If(e, w) \in Seq(Word)
    BY DEF If
  <2>2. box' \in [Dirs -> Seq(Word)]
    <3>1. CASE box' = [box EXCEPT !["recv"] = Append(@, "cancel")]
      BY <3>1, NewBox DEF Shape, Dirs, Word
    <3>2. CASE box' = [recv |-> box["recv"] \o If("in", "ready"),
                       send |-> box["send"] \o If("hupSend", "cancel") \o If("out", "ready")]
      <4>1. If("in", "ready") \in Seq(Word) /\ If("hupSend", "cancel") \in Seq(Word)
            /\ If("out", "ready") \in Seq(Word)
        BY <2>1 DEF Word
      <4>2. box["recv"] \in Seq(Word) /\ box["send"] \in Seq(Word)
        BY DEF Shape, Dirs
      <4>3. box["recv"] \o If("in", "ready") \in Seq(Word)
            /\ box["send"] \o If("hupSend", "cancel") \o If("out", "ready") \in Seq(Word)
        BY <4>1, <4>2
      <4> QED
        BY <3>2, <4>3, PairShape
    <3> QED
      BY <1>3, <3>1, <3>2 DEF Distribute
  <2> QED
    BY <1>3, <2>2 DEF Shape, Distribute, peerVars, frameVars, sessionVars
<1>4. CASE ClosePool \/ WaitForTransferIoFinish
  <2>1. /\ UNCHANGED <<peerVars, epollVars, transferVars, inbox, batch, has, last, s, handled, byUs>>
        /\ dpc' = dpc \/ dpc' = "end"
        /\ poolWorking' = poolWorking \/ poolWorking' = FALSE
        /\ life' = life \/ life' = "freed"
    BY <1>4 DEF ClosePool, WaitForTransferIoFinish, sessionVars
  <2>2. /\ dpc' \in {"wait", "timers", "handle", "post", "remove", "last", "cancel", "finish", "end"}
        /\ poolWorking' \in BOOLEAN
        /\ life' \in {"none", "coming", "alive", "closed", "freed"}
    BY <2>1 DEF Shape
  <2> QED
    BY <2>1, <2>2 DEF Shape, peerVars, epollVars, transferVars
<1>5. CASE LastFrame \/ WaitForPoping
  <2>1. /\ UNCHANGED <<peerVars, epollVars, transferVars, poolWorking, sessionVars>>
        /\ dpc' = "timers" /\ batch' = inbox /\ inbox' = <<>>
        /\ last' = last \/ last' = TRUE
    BY <1>5 DEF LastFrame, WaitForPoping
  <2>2. has' \in BOOLEAN
    BY <1>5 DEF LastFrame, WaitForPoping
  <2>3. inbox' \in Seq(Message) /\ batch' \in Seq(Message)
    BY <2>1 DEF Shape
  <2> QED
    BY <2>1, <2>2, <2>3 DEF Shape, peerVars, epollVars, transferVars, sessionVars
<1> QED
  BY <1>1, <1>2, <1>3, <1>4, <1>5

LEMMA PollerShape ==
    ASSUME Shape, NEW d \in Dirs, Poller(d)
    PROVE  Shape'
<1>1. CASE Fail(d)
  <2>1. inbox' \in Seq(Message)
    BY <1>1, ReportIs DEF Shape, Fail
  <2> QED
    BY <1>1, <2>1 DEF Shape, Fail, peerVars, epollVars, frameVars, sessionVars
<1>2. ASSUME NEW w, Take(d, w) PROVE box' \in [Dirs -> Seq(Word)] /\ UNCHANGED <<epollVars, frameVars, sessionVars>>
  <2>1. Tail(box[d]) \in Seq(Word)
    BY <1>2 DEF Take, Shape
  <2> QED
    BY <1>2, <2>1 DEF Take, Shape
<1>3. ASSUME DoIo(d)
      PROVE  /\ status' \in [Dirs -> {"none", "idle", "ready"}]
             /\ io' \in [Dirs -> {"none", "null", "posted"}]
             /\ failing' \in [Dirs -> BOOLEAN]
             /\ inbox' \in Seq(Message) /\ avail' \in Nat /\ full' \in BOOLEAN
             /\ UNCHANGED <<arrived, fin, broken>>
  <2>1. PICK o \in Outcomes(d) :
        /\ inbox' = inbox \o FirstReport(d, o)
        /\ failing' = [failing EXCEPT ![d] = o.bytes > 0 /\ o.end = "closed"]
        /\ io' = [io EXCEPT ![d] = IF o.bytes > 0 \/ o.end = "closed" THEN "none" ELSE "posted"]
        /\ status' = [status EXCEPT ![d] = CASE o.end = "again" -> "idle"
                                             [] o.end = "closed" /\ o.bytes = 0 -> "none"
                                             [] OTHER -> "ready"]
        /\ IF d = "recv"
           THEN avail' = avail - o.bytes /\ UNCHANGED full
           ELSE full' = (full \/ o.end = "again") /\ UNCHANGED avail
        /\ UNCHANGED <<arrived, fin, broken>>
    BY <1>3 DEF DoIo
  <2>2. o.bytes \in Nat /\ (d = "recv" => o.bytes <= avail)
    <3>1. CASE d = "recv"
      BY <3>1 DEF Outcomes, Shape
    <3>2. CASE d = "send"
      BY <3>2 DEF Outcomes, Shape, Fields
    <3> QED
      BY <3>1, <3>2 DEF Dirs
  <2>3. FirstReport(d, o) \in Seq(Message)
    BY <2>2, ReportIs DEF FirstReport
  <2>4. avail' \in Nat /\ full' \in BOOLEAN
    <3>1. CASE d = "recv"
      BY <2>1, <2>2, <3>1 DEF Shape
    <3>2. CASE d # "recv"
      <4>1. (full \/ o.end = "again") \in BOOLEAN
        OBVIOUS
      <4> QED
        BY <2>1, <3>2, <4>1 DEF Shape
    <3> QED
      BY <3>1, <3>2
  <2>5. (o.bytes > 0 /\ o.end = "closed") \in BOOLEAN
    OBVIOUS
  <2>6. failing' \in [Dirs -> BOOLEAN]
    BY <2>1, <2>5, NewFlag DEF Shape
  <2> QED
    BY <2>1, <2>3, <2>4, <2>6 DEF Shape
<1>4. ASSUME OnReady(d) \/ OnBePosted(d) \/ OnCancel(d, "cancel") \/ OnCancel(d, "quiet")
      PROVE  Shape'
  <2>1. box' \in [Dirs -> Seq(Word)] /\ UNCHANGED <<epollVars, frameVars, sessionVars>>
    BY <1>2, <1>4 DEF OnReady, OnBePosted, OnCancel
  <2>2. /\ status' \in [Dirs -> {"none", "idle", "ready"}]
        /\ io' \in [Dirs -> {"none", "null", "posted"}]
        /\ failing' \in [Dirs -> BOOLEAN]
        /\ inbox' \in Seq(Message) /\ avail' \in Nat /\ full' \in BOOLEAN
        /\ UNCHANGED <<arrived, fin, broken>>
    <3>1. CASE DoIo(d)
      BY <1>3, <3>1
    <3>2. CASE OnReady(d) /\ ~DoIo(d)
      BY <3>2 DEF OnReady, Shape, peerVars
    <3>3. CASE OnBePosted(d) /\ ~DoIo(d)
      BY <3>3 DEF OnBePosted, Shape, peerVars
    <3>4. CASE OnCancel(d, "cancel") \/ OnCancel(d, "quiet")
      <4>1. inbox' \in Seq(Message)
        <5>1. End(d) \in Message /\ inbox \in Seq(Message)
          BY ReportIs DEF Shape
        <5>2. Append(inbox, End(d)) \in Seq(Message)
          BY <5>1
        <5> QED
          BY <3>4, <5>1, <5>2 DEF OnCancel
      <4> QED
        BY <3>4, <4>1 DEF OnCancel, Shape, peerVars
    <3> QED
      BY <1>4, <3>1, <3>2, <3>3, <3>4
  <2> QED
    BY <2>1, <2>2 DEF Shape, epollVars, frameVars, sessionVars
<1> QED
  BY <1>1, <1>4 DEF Poller

-----------------------------------------------------------------------------
(* What each of the dispatcher's steps does to the session and to the      *)
(* mailboxes.                                                              *)
Typed == s' \in Fields /\ box' \in [Dirs -> Seq(Word)] /\ byUs' \in BOOLEAN

LEMMA HereIs == ASSUME Shape PROVE Here \in View /\ Here.s = s /\ Here.box = box /\ Here.us = byUs
BY DEF Shape, Here, View

LEMMA BecomesIs ==
    ASSUME NEW x \in View, Becomes(x)
    PROVE  Typed /\ s' = x.s /\ box' = x.box /\ byUs' = x.us
BY DEF Becomes, View, Typed

LEMMA TimersIs ==
    ASSUME Shape, Timers
    PROVE  /\ Typed /\ box' = box
           /\ life # "alive" => s' = s /\ byUs' = byUs
           /\ life = "alive" => Served(s, s') /\ ShutBy(s, byUs, s', byUs')
<1>1. CASE life # "alive"
  BY <1>1 DEF Shape, Timers, Typed
<1>2. CASE life = "alive"
  <2>1. PICK x \in AfterLogic(Here) : \/ Becomes(x)
                                     \/ Becomes([DelayClose(x) EXCEPT !.s.beat = FALSE])
    BY <1>2 DEF Timers
  <2>2. x \in View /\ x.box = box /\ Served(s, x.s) /\ ShutBy(s, byUs, x.s, x.us)
    <3>1. /\ x \in View /\ x.box = Here.box /\ Served(Here.s, x.s)
          /\ ShutBy(Here.s, Here.us, x.s, x.us)
      BY HereIs, AfterLogicIs
    <3> QED
      BY <3>1, HereIs
  <2>3. CASE Becomes(x)
    BY <1>2, <2>2, <2>3, BecomesIs
  <2>4. CASE Becomes([DelayClose(x) EXCEPT !.s.beat = FALSE])
    <3>1. PICK y : y = DelayClose(x)
      OBVIOUS
    <3>2. /\ y \in View
          /\ y.s.mask /\ y.s.toRemove
          /\ y.s.post = x.s.post /\ y.s.canceled = x.s.canceled /\ y.s.toPost = x.s.toPost
          /\ y.s.out = x.s.out /\ y.s.len = x.s.len /\ y.s.recvFull = x.s.recvFull
          /\ y.box = x.box /\ y.us
      BY <2>2, <3>1, DelayCloseIs
    <3>3. PICK f : f = [y.s EXCEPT !.beat = FALSE]
      OBVIOUS
    <3>4. /\ f \in Fields /\ f.post = y.s.post /\ f.mask = y.s.mask /\ f.canceled = y.s.canceled
          /\ f.toPost = y.s.toPost /\ f.toRemove = y.s.toRemove /\ f.out = y.s.out
          /\ f.len = y.s.len /\ f.recvFull = y.s.recvFull
      BY <3>2, <3>3 DEF View, Fields
    <3>5. [y EXCEPT !.s.beat = FALSE] = [y EXCEPT !.s = f, !.box = y.box, !.us = y.us]
      BY <3>2, <3>3 DEF View
    <3>6. PICK z : z = [y EXCEPT !.s.beat = FALSE]
      OBVIOUS
    <3>7. z \in View /\ z.s = f /\ z.box = y.box /\ z.us
      <4>1. z \in View /\ z.s = f /\ z.box = y.box
        BY <3>2, <3>4, <3>5, <3>6, NewFields DEF View
      <4>2. z.us
        BY <3>2, <3>4, <3>5, <3>6 DEF View
      <4> QED
        BY <4>1, <4>2
    <3>8. Typed /\ s' = f /\ box' = box /\ byUs'
      BY <2>2, <2>4, <3>1, <3>2, <3>6, <3>7, BecomesIs
    <3> QED
      BY <1>2, <2>2, <3>2, <3>4, <3>8 DEF Served, ShutBy
  <2> QED
    BY <2>1, <2>3, <2>4
<1> QED
  BY <1>1, <1>2

LEMMA ConnectedIs ==
    ASSUME Shape, OnSessionConnected
    PROVE  /\ Typed
           /\ s'.canceled = Both(FALSE) /\ ~s'.toPost["recv"] /\ ~s'.post["send"]
           /\ s'.out >= 0 /\ s'.out <= MaxOut /\ s'.len = 0
           /\ s'.out > 0 => s'.toPost["send"]
           /\ ~s'.recvFull
           /\ s'.mask \/ s'.toRemove => byUs'
           /\ s'.mask => s'.toRemove
           /\ s'.mask => box' = box /\ ~s'.post["recv"]
           /\ ~s'.mask => s'.post["recv"] /\ box' = [box EXCEPT !["recv"] = Append(@, "post")]
<1>1. PICK v : v = [s |-> NewSession, box |-> box, us |-> FALSE]
  OBVIOUS
<1>2. PICK x \in AfterLogic(v) : Becomes(IF x.s.mask THEN x ELSE PostRecv(x))
  BY <1>1 DEF OnSessionConnected
<1>3. v \in View /\ v.s = NewSession /\ v.box = box
  <2>1. NewSession \in Fields
    BY DEF NewSession, Fields, Both
  <2> QED
    BY <1>1, <2>1 DEF Shape, View
<1>4. /\ x \in View /\ x.box = box /\ Served(NewSession, x.s)
      /\ x.s.mask \/ x.s.toRemove => x.us
      /\ x.s.mask => x.s.toRemove
  <2>1. Served(v.s, x.s) /\ ShutBy(v.s, v.us, x.s, x.us) /\ x \in View /\ x.box = v.box
    BY <1>3, AfterLogicIs
  <2> QED
    BY <1>3, <2>1 DEF ShutBy, NewSession
<1>5. /\ x.s.canceled = Both(FALSE) /\ ~x.s.toPost["recv"] /\ x.s.post = Both(FALSE)
      /\ x.s.out >= 0 /\ x.s.out <= MaxOut /\ x.s.len = 0
      /\ x.s.out > 0 => x.s.toPost["send"]
      /\ ~x.s.recvFull
  BY <1>4, SessionAssumption DEF Served, NewSession, Both, Dirs
<1>6. CASE x.s.mask
  <2>1. Typed /\ s' = x.s /\ box' = x.box /\ byUs' = x.us
    BY <1>2, <1>4, <1>6, BecomesIs
  <2> QED
    BY <1>4, <1>5, <1>6, <2>1 DEF Both, Dirs
<1>7. CASE ~x.s.mask
  <2>1. PICK y : y = PostIo(x, "recv")
    OBVIOUS
  <2>4. PostRecv(x) = y
    BY <1>5, <2>1 DEF PostRecv
  <2>2. /\ y \in View
        /\ y.s.post = [x.s.post EXCEPT !["recv"] = TRUE]
        /\ y.s.mask = x.s.mask /\ y.s.canceled = x.s.canceled /\ y.s.toPost = x.s.toPost
        /\ y.s.out = x.s.out /\ y.s.len = x.s.len
        /\ y.box = [x.box EXCEPT !["recv"] = Append(@, "post")]
        /\ y.s.toRemove = x.s.toRemove /\ y.us = x.us /\ y.s.recvFull = x.s.recvFull
    <3>1. x \in View /\ "recv" \in Dirs
      BY <1>4 DEF Dirs
    <3>2. IoPosted(x, "recv", y)
      BY <2>1, <3>1, PostIoIs
    <3> QED
      BY <3>2 DEF IoPosted
  <2>3. Typed /\ s' = y.s /\ box' = y.box /\ byUs' = y.us
    BY <1>2, <1>7, <2>2, <2>4, BecomesIs
  <2> QED
    BY <1>4, <1>5, <1>7, <2>2, <2>3 DEF Both, Dirs
<1> QED
  BY <1>6, <1>7

LEMMA DisconnectedIs ==
    ASSUME Shape, NEW m \in Message, m.kind # "connected", Disconnected(m)
    PROVE  /\ Typed
           /\ s'.post = [s.post EXCEPT ![m.kind] = FALSE]
           /\ s'.canceled[m.kind] <=> (s.canceled[m.kind] \/ ~m.inMonitor)
           /\ \A d \in Dirs \ {m.kind} : s'.canceled[d] = s.canceled[d]
           /\ s'.toRemove /\ s'.toPost = s.toPost /\ s'.mask = s.mask /\ s'.out = s.out
           /\ s'.len = s.len /\ s'.recvFull = s.recvFull
           /\ box' = box
<1>1. m.kind \in Dirs /\ m.inMonitor \in BOOLEAN
  BY MessageIs
<1>2. PICK v \in BOOLEAN : v <=> (s.canceled[m.kind] \/ ~m.inMonitor)
  OBVIOUS
<1>3. PICK p, c : /\ p = [s.post EXCEPT ![m.kind] = FALSE]
                  /\ c = [s.canceled EXCEPT ![m.kind] = v]
  OBVIOUS
<1>4. p \in [Dirs -> BOOLEAN] /\ c \in [Dirs -> BOOLEAN]
  BY <1>1, <1>3, NewFlag DEF Shape, Fields
<1>5. c[m.kind] = v /\ \A d \in Dirs \ {m.kind} : c[d] = s.canceled[d]
  BY <1>1, <1>3 DEF Shape, Fields
<1>6. (s.canceled[m.kind] \/ ~m.inMonitor) = v
  BY <1>1, <1>2 DEF Shape, Fields
<1>7. s' = [s EXCEPT !.post = p, !.canceled = c, !.toRemove = TRUE]
  BY <1>3, <1>6 DEF Disconnected, Shape, Fields
<1>8. /\ s' \in Fields /\ s'.post = p /\ s'.canceled = c /\ s'.toRemove
      /\ s'.toPost = s.toPost /\ s'.mask = s.mask /\ s'.out = s.out /\ s'.len = s.len
      /\ s'.recvFull = s.recvFull
  BY <1>4, <1>7 DEF Shape, Fields
<1> QED
  BY <1>2, <1>3, <1>5, <1>8 DEF Typed, Disconnected, Shape

LEMMA SendSucIs ==
    ASSUME Shape, NEW m \in Message, m.kind # "connected", SendSuc(m)
    PROVE  /\ Typed
           /\ s'.post = [s.post EXCEPT !["send"] = FALSE]
           /\ s'.out = s.out - m.bytes /\ s'.len = 0
           /\ s'.toPost["recv"] = s.toPost["recv"]
           /\ s'.toPost["send"] => s.toPost["send"] \/ s'.out > 0
           /\ s'.out > 0 => s'.toPost["send"]
           /\ s'.recvFull = s.recvFull
           /\ s'.canceled = s.canceled /\ s'.mask = s.mask /\ s'.toRemove = s.toRemove
           /\ box' = box
<1>1. m.bytes \in Nat
  BY MessageIs
<1>2. PICK v \in BOOLEAN : v <=> (s.toPost["send"] \/ s.out > m.bytes)
  OBVIOUS
<1>3. PICK p, q, n : /\ p = [s.post EXCEPT !["send"] = FALSE]
                     /\ q = [s.toPost EXCEPT !["send"] = v]
                     /\ n = s.out - m.bytes
  OBVIOUS
<1>4. p \in [Dirs -> BOOLEAN] /\ q \in [Dirs -> BOOLEAN] /\ n \in Int
  BY <1>1, <1>3, NewFlag DEF Shape, Fields, Dirs
<1>5. q["send"] = v /\ q["recv"] = s.toPost["recv"]
  BY <1>3 DEF Shape, Fields, Dirs
<1>6. (s.toPost["send"] \/ s.out > m.bytes) = v
  BY <1>1, <1>2 DEF Shape, Fields, Dirs
<1>7. s' = [s EXCEPT !.post = p, !.out = n, !.len = 0, !.beat = TRUE, !.toPost = q]
  BY <1>3, <1>6 DEF SendSuc, Shape, Fields
<1>8. /\ s' \in Fields /\ s'.post = p /\ s'.toPost = q /\ s'.canceled = s.canceled
      /\ s'.toRemove = s.toRemove /\ s'.mask = s.mask /\ s'.out = n /\ s'.len = 0
      /\ s'.recvFull = s.recvFull
  <2>1. PICK k \in Int : k = 0
    OBVIOUS
  <2>5. PICK b \in BOOLEAN : b = TRUE
    OBVIOUS
  <2>2. PICK f : f = [s EXCEPT !.post = p, !.toPost = q]
    OBVIOUS
  <2>3. /\ f \in Fields /\ f.post = p /\ f.toPost = q
        /\ f.canceled = s.canceled /\ f.toRemove = s.toRemove /\ f.mask = s.mask
        /\ f.recvFull = s.recvFull
    BY <1>4, <2>2 DEF Shape, Fields
  <2>4. s' = [f EXCEPT !.out = n, !.len = k, !.beat = b]
    BY <1>7, <2>1, <2>2, <2>5 DEF Shape, Fields
  <2> QED
    BY <1>4, <2>1, <2>3, <2>4 DEF Fields
<1>9. s.out \in Int
  BY DEF Shape, Fields
<1> QED
  BY <1>1, <1>2, <1>3, <1>5, <1>8, <1>9 DEF Typed, SendSuc, Shape

(* After a receive the logic runs, what it sent is posted at once, and the *)
(* receive is to be posted again.                                          *)
LEMMA RecvSucIs ==
    ASSUME Shape, NEW m \in Message, m.kind # "connected", RecvSuc(m)
    PROVE  /\ Typed
           /\ ~s'.post["recv"] /\ s'.canceled = s.canceled
           /\ s.mask => s'.mask
           /\ s.toRemove => s'.toRemove
           /\ ShutBy(s, byUs, s', byUs')
           /\ ~s'.mask => s'.toPost["recv"]
           /\ s'.mask => s'.toPost["recv"] = s.toPost["recv"]
           /\ s'.toPost["send"] => s.toPost["send"] \/ ~s.mask
           /\ ~s'.mask /\ s'.out > 0 => s'.post["send"]
           /\ s'.out >= s.out
           /\ s.out <= MaxOut => s'.out <= MaxOut
           /\ \/ /\ s'.post["send"] = s.post["send"] /\ s'.len = s.len
                 /\ box' = box
              \/ /\ ~s.post["send"] /\ s'.post["send"] /\ ~s'.mask /\ s'.len = s'.out
                 /\ box' = [box EXCEPT !["send"] = Append(@, "post")]
<1> DEFINE After(x) == IF ~x.s.mask /\ ~x.s.post["send"] /\ x.s.out > 0 THEN PostIo(x, "send") ELSE x
           Final(y) == [y EXCEPT !.s.beat = TRUE, !.s.toPost["recv"] = @ \/ ~y.s.mask]
<1>0. PICK isFull \in LeftInBuffer :
         LET at == [Here EXCEPT !.s.post["recv"] = FALSE, !.s.recvFull = isFull]
         IN  \E v \in AfterLogic(at) : Becomes(Final(After(v)))
  BY DEF RecvSuc
<1>1. PICK done : done = [Here EXCEPT !.s.post["recv"] = FALSE, !.s.recvFull = isFull]
  OBVIOUS
<1>2. PICK x \in AfterLogic(done) : Becomes(Final(After(x)))
  BY <1>0, <1>1
<1>3. PICK y : y = After(x)
  OBVIOUS
<1>4. PICK z : z = Final(y)
  OBVIOUS
<1>5. Becomes(z)
  BY <1>2, <1>3, <1>4
<1>6. /\ done \in View /\ done.box = box /\ done.us = byUs
      /\ ~done.s.post["recv"] /\ done.s.post["send"] = s.post["send"]
      /\ done.s.canceled = s.canceled /\ done.s.len = s.len /\ done.s.toPost = s.toPost
      /\ done.s.mask = s.mask /\ done.s.toRemove = s.toRemove /\ done.s.out = s.out
  <2>1. PICK p : p = [s.post EXCEPT !["recv"] = FALSE]
    OBVIOUS
  <2>2. p \in [Dirs -> BOOLEAN] /\ ~p["recv"] /\ p["send"] = s.post["send"]
    BY <2>1, NewFlag DEF Shape, Fields, Dirs
  <2>0. isFull \in BOOLEAN
    BY DEF LeftInBuffer
  <2>3. PICK f : f = [s EXCEPT !.post = p, !.recvFull = isFull]
    OBVIOUS
  <2>4. /\ f \in Fields /\ f.post = p /\ f.canceled = s.canceled /\ f.len = s.len
        /\ f.toPost = s.toPost /\ f.mask = s.mask /\ f.toRemove = s.toRemove /\ f.out = s.out
    BY <2>0, <2>2, <2>3 DEF Shape, Fields
  <2>5. done = [Here EXCEPT !.s = f, !.box = Here.box, !.us = Here.us]
    BY <1>1, <2>1, <2>3 DEF Here
  <2>6. done \in View /\ done.s = f /\ done.box = Here.box /\ done.us = Here.us
    <3>1. done \in View /\ done.s = f /\ done.box = Here.box
      BY <2>4, <2>5, HereIs, NewFields DEF View
    <3>2. done.us = Here.us
      BY <2>4, <2>5, HereIs DEF View
    <3> QED
      BY <3>1, <3>2
  <2> QED
    BY <2>2, <2>4, <2>6, HereIs
<1>7. x \in View /\ x.box = box /\ Served(done.s, x.s) /\ ShutBy(done.s, done.us, x.s, x.us)
  BY <1>6, AfterLogicIs
<1>8. /\ y \in View /\ y.us = x.us
      /\ y.s.mask = x.s.mask /\ y.s.canceled = x.s.canceled /\ y.s.toPost = x.s.toPost
      /\ y.s.toRemove = x.s.toRemove /\ y.s.out = x.s.out
      /\ y.s.post["recv"] = x.s.post["recv"]
      /\ ~x.s.mask /\ x.s.out > 0 => y.s.post["send"]
      /\ \/ y.s.post["send"] = x.s.post["send"] /\ y.s.len = x.s.len /\ y.box = x.box
         \/ /\ ~x.s.post["send"] /\ y.s.post["send"] /\ ~x.s.mask /\ y.s.len = x.s.out
            /\ y.box = [x.box EXCEPT !["send"] = Append(@, "post")]
  <2>1. CASE ~x.s.mask /\ ~x.s.post["send"] /\ x.s.out > 0
    <3>1. y = PostIo(x, "send") /\ "send" \in Dirs
      BY <1>3, <2>1 DEF Dirs
    <3>2. /\ y \in View /\ y.us = x.us
          /\ y.s.post = [x.s.post EXCEPT !["send"] = TRUE]
          /\ y.s.mask = x.s.mask /\ y.s.canceled = x.s.canceled /\ y.s.toPost = x.s.toPost
          /\ y.s.toRemove = x.s.toRemove /\ y.s.out = x.s.out
          /\ y.s.len = x.s.out
          /\ y.box = [x.box EXCEPT !["send"] = Append(@, "post")]
      <4>1. IoPosted(x, "send", y)
        BY <1>7, <3>1, PostIoIs
      <4> QED
        BY <4>1 DEF IoPosted
    <3>3. y.s.post["send"] /\ y.s.post["recv"] = x.s.post["recv"]
      BY <1>7, <3>2 DEF View, Fields, Dirs
    <3> QED
      BY <2>1, <3>2, <3>3
  <2>2. CASE ~(~x.s.mask /\ ~x.s.post["send"] /\ x.s.out > 0)
    <3>1. y = x
      BY <1>3, <2>2
    <3> QED
      BY <1>7, <2>2, <3>1
  <2> QED
    BY <2>1, <2>2
<1>9. /\ z \in View /\ z.box = y.box /\ z.us = y.us
      /\ z.s.mask = y.s.mask /\ z.s.canceled = y.s.canceled /\ z.s.post = y.s.post
      /\ z.s.toRemove = y.s.toRemove /\ z.s.out = y.s.out /\ z.s.len = y.s.len
      /\ z.s.toPost["send"] = y.s.toPost["send"]
      /\ z.s.toPost["recv"] <=> (y.s.toPost["recv"] \/ ~y.s.mask)
  <2>1. PICK v \in BOOLEAN : v <=> (y.s.toPost["recv"] \/ ~y.s.mask)
    OBVIOUS
  <2>2. (y.s.toPost["recv"] \/ ~y.s.mask) = v
    BY <1>8, <2>1 DEF View, Fields, Dirs
  <2>3. PICK q : q = [y.s.toPost EXCEPT !["recv"] = v]
    OBVIOUS
  <2>4. q \in [Dirs -> BOOLEAN] /\ q["recv"] = v /\ q["send"] = y.s.toPost["send"]
    BY <1>8, <2>3, NewFlag DEF View, Fields, Dirs
  <2>5. PICK f : f = [y.s EXCEPT !.beat = TRUE, !.toPost = q]
    OBVIOUS
  <2>6. /\ f \in Fields /\ f.post = y.s.post /\ f.canceled = y.s.canceled /\ f.len = y.s.len
        /\ f.toPost = q /\ f.mask = y.s.mask /\ f.toRemove = y.s.toRemove /\ f.out = y.s.out
    BY <1>8, <2>4, <2>5 DEF View, Fields
  <2>7. z = [y EXCEPT !.s = f, !.box = y.box, !.us = y.us]
    BY <1>4, <1>8, <2>2, <2>3, <2>5 DEF View, Fields
  <2>8. z \in View /\ z.s = f /\ z.box = y.box /\ z.us = y.us
    <3>1. z \in View /\ z.s = f /\ z.box = y.box
      BY <1>8, <2>6, <2>7, NewFields DEF View
    <3>2. z.us = y.us
      BY <1>8, <2>6, <2>7 DEF View
    <3> QED
      BY <3>1, <3>2
  <2> QED
    BY <2>1, <2>4, <2>6, <2>8
<1>10. Typed /\ s' = z.s /\ box' = z.box /\ byUs' = z.us
  BY <1>5, <1>9, BecomesIs
<1> HIDE DEF After, Final
<1>11. /\ x.s.post = done.s.post /\ x.s.canceled = done.s.canceled /\ x.s.len = done.s.len
       /\ x.s.toPost["recv"] = done.s.toPost["recv"]
       /\ done.s.mask => x.s.mask
       /\ done.s.toRemove => x.s.toRemove
       /\ x.s.toPost["send"] => done.s.toPost["send"] \/ ~done.s.mask
       /\ x.s.out >= done.s.out
       /\ done.s.out <= MaxOut => x.s.out <= MaxOut
  BY <1>7 DEF Served
<1>12. x.s.out \in Int /\ s.out \in Int
  BY <1>7 DEF View, Fields, Shape
<1>13. /\ Typed
       /\ ~s'.post["recv"] /\ s'.canceled = s.canceled
       /\ s.mask => s'.mask
       /\ s.toRemove => s'.toRemove
       /\ ~s'.mask => s'.toPost["recv"]
       /\ s'.toPost["send"] => s.toPost["send"] \/ ~s.mask
       /\ ~s'.mask /\ s'.out > 0 => s'.post["send"]
  BY <1>6, <1>8, <1>9, <1>10, <1>11
<1>14. s'.mask => s'.toPost["recv"] = s.toPost["recv"]
  <2>1. y.s.toPost["recv"] = s.toPost["recv"]
    BY <1>6, <1>8, <1>11
  <2>2. y.s.toPost["recv"] \in BOOLEAN /\ z.s.toPost["recv"] \in BOOLEAN
    BY <1>8, <1>9 DEF View, Fields, Dirs
  <2> QED
    BY <1>9, <1>10, <2>1, <2>2
<1>15. s'.out >= s.out /\ (s.out <= MaxOut => s'.out <= MaxOut)
  BY <1>6, <1>8, <1>9, <1>10, <1>11
<1>16. \/ s'.post["send"] = s.post["send"] /\ s'.len = s.len /\ box' = box
       \/ /\ ~s.post["send"] /\ s'.post["send"] /\ ~s'.mask /\ s'.len = s'.out
          /\ box' = [box EXCEPT !["send"] = Append(@, "post")]
  <2>1. x.s.post["send"] = s.post["send"] /\ x.s.len = s.len /\ x.box = box
    BY <1>6, <1>7, <1>11
  <2> QED
    BY <1>8, <1>9, <1>10, <2>1
<1>17. ShutBy(s, byUs, s', byUs')
  BY <1>6, <1>7, <1>8, <1>9, <1>10 DEF ShutBy
<1> QED
  BY <1>13, <1>14, <1>15, <1>16, <1>17

LEMMA PostEventsIs ==
    ASSUME Shape, PostEvents
    PROVE  /\ Typed /\ byUs' = byUs
           /\ s'.mask = s.mask /\ s'.canceled = s.canceled /\ s'.toRemove = s.toRemove
           /\ s'.out = s.out /\ s'.toPost = Both(FALSE) /\ s'.recvFull = s.recvFull
           /\ \A d \in Dirs :
                 \/ /\ s.toPost[d] /\ ~s.post[d] /\ s'.post[d]
                    /\ box'[d] = Append(box[d], "post")
                    /\ IF d = "recv" THEN ~s.mask /\ ~s.recvFull ELSE s.out > 0
                 \/ /\ s'.post[d] = s.post[d] /\ box'[d] = box[d]
                    /\ ~s.toPost[d] \/ s.post[d] \/ (IF d = "recv" THEN s.mask \/ s.recvFull ELSE s.out <= 0)
           /\ s'.len = s.len \/ (~s.post["send"] /\ s'.post["send"] /\ s'.len = s.out)
<1> DEFINE X == IF s.toPost["recv"] /\ ~s.mask /\ ~s.post["recv"] THEN PostRecv(Here) ELSE Here
           Y(x) == IF s.toPost["send"] /\ ~s.post["send"] /\ s.out > 0 THEN PostIo(x, "send") ELSE x
<1>1. PICK x, y : x = X /\ y = Y(x)
  OBVIOUS
<1>2. PICK z : z = [y EXCEPT !.s.toPost = Both(FALSE)]
  OBVIOUS
<1>3. Becomes(z)
  BY <1>1, <1>2 DEF PostEvents
<1>4. /\ x \in View /\ x.us = byUs
      /\ x.s.mask = s.mask /\ x.s.canceled = s.canceled /\ x.s.toPost = s.toPost
      /\ x.s.toRemove = s.toRemove /\ x.s.out = s.out /\ x.s.len = s.len
      /\ x.s.recvFull = s.recvFull
      /\ x.s.post["send"] = s.post["send"] /\ x.box["send"] = box["send"]
      /\ \/ /\ s.toPost["recv"] /\ ~s.mask /\ ~s.recvFull /\ ~s.post["recv"] /\ x.s.post["recv"]
            /\ x.box["recv"] = Append(box["recv"], "post")
         \/ /\ x.s.post["recv"] = s.post["recv"] /\ x.box["recv"] = box["recv"]
            /\ ~s.toPost["recv"] \/ s.post["recv"] \/ s.mask \/ s.recvFull
  <2>1. CASE s.toPost["recv"] /\ ~s.mask /\ ~s.post["recv"] /\ ~s.recvFull
    <3>1. x = PostIo(Here, "recv") /\ "recv" \in Dirs
      BY <1>1, <2>1, HereIs DEF Dirs, PostRecv
    <3>2. /\ x \in View /\ x.us = byUs
          /\ x.s.post = [s.post EXCEPT !["recv"] = TRUE]
          /\ x.s.mask = s.mask /\ x.s.canceled = s.canceled /\ x.s.toPost = s.toPost
          /\ x.s.toRemove = s.toRemove /\ x.s.out = s.out
          /\ x.s.recvFull = s.recvFull
          /\ x.s.len = IF "recv" = "send" THEN s.out ELSE s.len
          /\ x.box = [box EXCEPT !["recv"] = Append(@, "post")]
      <4>1. Here \in View /\ Here.s = s /\ Here.box = box /\ Here.us = byUs
        BY HereIs
      <4>2. IoPosted(Here, "recv", x)
        BY <3>1, <4>1, PostIoIs
      <4> QED
        BY <4>1, <4>2 DEF IoPosted
    <3>3. x.s.post["recv"] /\ x.s.post["send"] = s.post["send"]
      BY <3>2 DEF Shape, Fields, Dirs
    <3>4. x.box["recv"] = Append(box["recv"], "post") /\ x.box["send"] = box["send"]
      BY <3>2 DEF Shape, Dirs
    <3> QED
      BY <2>1, <3>2, <3>3, <3>4
  <2>2. CASE ~(s.toPost["recv"] /\ ~s.mask /\ ~s.post["recv"] /\ ~s.recvFull)
    <3>1. x = Here
      BY <1>1, <2>2, HereIs DEF PostRecv
    <3> QED
      BY <2>2, <3>1, HereIs
  <2> QED
    BY <2>1, <2>2
<1>5. /\ y \in View /\ y.us = x.us
      /\ y.s.mask = x.s.mask /\ y.s.canceled = x.s.canceled /\ y.s.toPost = x.s.toPost
      /\ y.s.toRemove = x.s.toRemove /\ y.s.out = x.s.out /\ y.s.recvFull = x.s.recvFull
      /\ y.s.post["recv"] = x.s.post["recv"] /\ y.box["recv"] = x.box["recv"]
      /\ \/ /\ s.toPost["send"] /\ ~s.post["send"] /\ s.out > 0 /\ y.s.post["send"]
            /\ y.box["send"] = Append(x.box["send"], "post") /\ y.s.len = x.s.out
         \/ /\ y.s.post["send"] = x.s.post["send"] /\ y.box["send"] = x.box["send"]
            /\ y.s.len = x.s.len
            /\ ~s.toPost["send"] \/ s.post["send"] \/ s.out <= 0
  <2>1. CASE s.toPost["send"] /\ ~s.post["send"] /\ s.out > 0
    <3>1. y = PostIo(x, "send") /\ "send" \in Dirs
      BY <1>1, <2>1 DEF Dirs
    <3>2. /\ y \in View /\ y.us = x.us
          /\ y.s.post = [x.s.post EXCEPT !["send"] = TRUE]
          /\ y.s.mask = x.s.mask /\ y.s.canceled = x.s.canceled /\ y.s.toPost = x.s.toPost
          /\ y.s.toRemove = x.s.toRemove /\ y.s.out = x.s.out
          /\ y.s.len = x.s.out /\ y.s.recvFull = x.s.recvFull
          /\ y.box = [x.box EXCEPT !["send"] = Append(@, "post")]
      <4>1. PICK k : k = "send"
        OBVIOUS
      <4>2. x \in View /\ k \in Dirs /\ y = PostIo(x, k)
        BY <1>4, <3>1, <4>1
      <4>3. IoPosted(x, k, y)
        BY <4>2, PostIoIs
      <4> QED
        BY <4>1, <4>3 DEF IoPosted
    <3>3. y.s.post["send"] /\ y.s.post["recv"] = x.s.post["recv"]
      BY <1>4, <3>2 DEF View, Fields, Dirs
    <3>4. y.box["send"] = Append(x.box["send"], "post") /\ y.box["recv"] = x.box["recv"]
      BY <1>4, <3>2 DEF View, Dirs
    <3> QED
      BY <2>1, <3>2, <3>3, <3>4
  <2>2. CASE ~(s.toPost["send"] /\ ~s.post["send"] /\ s.out > 0)
    <3>1. y = x
      BY <1>1, <2>2
    <3>2. s.out \in Int
      BY DEF Shape, Fields
    <3> QED
      BY <1>4, <2>2, <3>1, <3>2
  <2> QED
    BY <2>1, <2>2
<1> HIDE DEF X, Y
<1>6. /\ z \in View /\ z.box = y.box /\ z.us = y.us
      /\ z.s.mask = y.s.mask /\ z.s.canceled = y.s.canceled /\ z.s.post = y.s.post
      /\ z.s.toRemove = y.s.toRemove /\ z.s.out = y.s.out /\ z.s.len = y.s.len
      /\ z.s.toPost = Both(FALSE) /\ z.s.recvFull = y.s.recvFull
  <2>1. PICK q : q = Both(FALSE)
    OBVIOUS
  <2>2. q \in [Dirs -> BOOLEAN]
    BY <2>1 DEF Both
  <2>3. PICK f : f = [y.s EXCEPT !.toPost = q]
    OBVIOUS
  <2>4. /\ f \in Fields /\ f.post = y.s.post /\ f.canceled = y.s.canceled /\ f.len = y.s.len
        /\ f.toPost = q /\ f.mask = y.s.mask /\ f.toRemove = y.s.toRemove /\ f.out = y.s.out
        /\ f.recvFull = y.s.recvFull
    BY <1>5, <2>2, <2>3 DEF View, Fields
  <2>5. z = [y EXCEPT !.s = f, !.box = y.box, !.us = y.us]
    BY <1>2, <1>5, <2>1, <2>3 DEF View
  <2>6. z \in View /\ z.s = f /\ z.box = y.box /\ z.us = y.us
    <3>1. z \in View /\ z.s = f /\ z.box = y.box
      BY <1>5, <2>4, <2>5, NewFields DEF View
    <3>2. z.us = y.us
      BY <1>5, <2>4, <2>5 DEF View
    <3> QED
      BY <3>1, <3>2
  <2> QED
    BY <2>1, <2>4, <2>6
<1>7. Typed /\ s' = z.s /\ box' = z.box /\ byUs' = z.us
  BY <1>3, <1>6, BecomesIs
<1>8. /\ s'.mask = s.mask /\ s'.canceled = s.canceled /\ s'.toRemove = s.toRemove
      /\ s'.out = s.out /\ s'.toPost = Both(FALSE) /\ byUs' = byUs
      /\ s'.recvFull = s.recvFull
  BY <1>4, <1>5, <1>6, <1>7
<1>9. \/ /\ s.toPost["recv"] /\ ~s.mask /\ ~s.recvFull /\ ~s.post["recv"] /\ s'.post["recv"]
         /\ box'["recv"] = Append(box["recv"], "post")
      \/ /\ s'.post["recv"] = s.post["recv"] /\ box'["recv"] = box["recv"]
         /\ ~s.toPost["recv"] \/ s.post["recv"] \/ s.mask \/ s.recvFull
  BY <1>4, <1>5, <1>6, <1>7
<1>10. \/ /\ s.toPost["send"] /\ ~s.post["send"] /\ s.out > 0 /\ s'.post["send"]
          /\ box'["send"] = Append(box["send"], "post") /\ s'.len = s.out
       \/ /\ s'.post["send"] = s.post["send"] /\ box'["send"] = box["send"]
          /\ s'.len = s.len
          /\ ~s.toPost["send"] \/ s.post["send"] \/ s.out <= 0
  BY <1>4, <1>5, <1>6, <1>7
<1> QED
  BY <1>7, <1>8, <1>9, <1>10 DEF Dirs

LEMMA CancelBothIs ==
    ASSUME NEW x \in View, NEW w \in Word, NEW y, y = CancelBoth(x, w)
    PROVE  /\ y \in View /\ y.us = x.us
           /\ y.s.mask /\ (\A d \in Dirs : y.s.canceled[d])
           /\ y.s.post = x.s.post /\ y.s.toPost = x.s.toPost /\ y.s.toRemove = x.s.toRemove
           /\ y.s.out = x.s.out /\ y.s.len = x.s.len /\ y.s.recvFull = x.s.recvFull
           /\ \A d \in Dirs : y.box[d] = IF x.s.canceled[d] THEN x.box[d] ELSE Append(x.box[d], w)
<1>0. "recv" \in Dirs /\ "send" \in Dirs /\ \A d \in Dirs : d = "recv" \/ d = "send"
  BY DEF Dirs
<1>1. PICK z : z = CancelIo(x, "recv", w)
  OBVIOUS
<1>2. /\ z \in View /\ z.us = x.us
      /\ z.s.mask /\ z.s.canceled["recv"]
      /\ \A e \in Dirs \ {"recv"} : z.s.canceled[e] = x.s.canceled[e]
      /\ z.s.post = x.s.post /\ z.s.toPost = x.s.toPost /\ z.s.toRemove = x.s.toRemove
      /\ z.s.out = x.s.out /\ z.s.len = x.s.len /\ z.s.recvFull = x.s.recvFull
      /\ z.box = IF x.s.canceled["recv"] THEN x.box ELSE [x.box EXCEPT !["recv"] = Append(@, w)]
  BY <1>0, <1>1, CancelIoIs
<1>3. y = CancelIo(z, "send", w)
  BY <1>1 DEF CancelBoth
<1>4. /\ y \in View /\ y.us = z.us
      /\ y.s.mask /\ y.s.canceled["send"]
      /\ \A e \in Dirs \ {"send"} : y.s.canceled[e] = z.s.canceled[e]
      /\ y.s.post = z.s.post /\ y.s.toPost = z.s.toPost /\ y.s.toRemove = z.s.toRemove
      /\ y.s.out = z.s.out /\ y.s.len = z.s.len /\ y.s.recvFull = z.s.recvFull
      /\ y.box = IF z.s.canceled["send"] THEN z.box ELSE [z.box EXCEPT !["send"] = Append(@, w)]
  <2>1. z \in View /\ "send" \in Dirs
    BY <1>0, <1>2
  <2> QED
    BY <1>3, <2>1, CancelIoIs
<1>5. "recv" \in Dirs \ {"send"} /\ "send" \in Dirs \ {"recv"}
  BY DEF Dirs
<1>6. y.s.canceled["recv"] /\ z.s.canceled["send"] = x.s.canceled["send"]
  BY <1>2, <1>4, <1>5
<1>7. z.box["send"] = x.box["send"]
      /\ z.box["recv"] = IF x.s.canceled["recv"] THEN x.box["recv"] ELSE Append(x.box["recv"], w)
  BY <1>0, <1>2 DEF View, Dirs
<1>8. y.box["recv"] = z.box["recv"]
      /\ y.box["send"] = IF z.s.canceled["send"] THEN z.box["send"] ELSE Append(z.box["send"], w)
  BY <1>0, <1>2, <1>4 DEF View, Dirs
<1>9. \A d \in Dirs : y.s.canceled[d]
  BY <1>0, <1>4, <1>6
<1>10. \A d \in Dirs : y.box[d] = IF x.s.canceled[d] THEN x.box[d] ELSE Append(x.box[d], w)
  <2>1. y.box["recv"] = IF x.s.canceled["recv"] THEN x.box["recv"] ELSE Append(x.box["recv"], w)
    BY <1>7, <1>8
  <2>2. y.box["send"] = IF x.s.canceled["send"] THEN x.box["send"] ELSE Append(x.box["send"], w)
    BY <1>6, <1>7, <1>8
  <2> QED
    BY <1>0, <2>1, <2>2
<1>11. /\ y \in View /\ y.us = x.us /\ y.s.mask
       /\ y.s.post = x.s.post /\ y.s.toPost = x.s.toPost /\ y.s.toRemove = x.s.toRemove
       /\ y.s.out = x.s.out /\ y.s.len = x.s.len /\ y.s.recvFull = x.s.recvFull
  BY <1>2, <1>4
<1> QED
  BY <1>9, <1>10, <1>11

LEMMA RemoveIs ==
    ASSUME Shape, WillRemoveSessions
    PROVE  /\ Typed /\ byUs' = byUs
           /\ \/ ~s.toRemove /\ s' = s /\ box' = box /\ life' = life
              \/ /\ s.toRemove /\ s'.mask /\ ~s'.toRemove /\ (\A d \in Dirs : s'.canceled[d])
                 /\ s'.post = s.post /\ s'.toPost = s.toPost /\ s'.out = s.out /\ s'.len = s.len
                 /\ s'.recvFull = s.recvFull
                 /\ \/ /\ ~CanDisconnect /\ life' = life
                       /\ \A d \in Dirs : box'[d] = IF s.canceled[d] THEN box[d] ELSE Append(box[d], "cancel")
                    \/ /\ CanDisconnect /\ life' = "freed"
                       /\ \A d \in Dirs : box'[d] = IF s.canceled[d] THEN box[d] ELSE Append(box[d], "quiet")
<1>1. PICK x : x = [Here EXCEPT !.s.mask = TRUE, !.s.toRemove = FALSE]
  OBVIOUS
<1>2. /\ x \in View /\ x.box = box /\ x.us = byUs
      /\ ~x.s.toRemove /\ x.s.canceled = s.canceled
      /\ x.s.post = s.post /\ x.s.toPost = s.toPost /\ x.s.out = s.out /\ x.s.len = s.len
      /\ x.s.recvFull = s.recvFull
  <2>1. PICK f : f = [s EXCEPT !.mask = TRUE, !.toRemove = FALSE]
    OBVIOUS
  <2>2. /\ f \in Fields /\ f.post = s.post /\ f.canceled = s.canceled /\ f.len = s.len
        /\ f.toPost = s.toPost /\ ~f.toRemove /\ f.out = s.out
        /\ f.recvFull = s.recvFull
    BY <2>1 DEF Shape, Fields
  <2>3. x = [Here EXCEPT !.s = f, !.box = Here.box, !.us = Here.us]
    BY <1>1, <2>1 DEF Here
  <2>4. x \in View /\ x.s = f /\ x.box = Here.box /\ x.us = Here.us
    <3>1. x \in View /\ x.s = f /\ x.box = Here.box
      BY <2>2, <2>3, HereIs, NewFields DEF View
    <3>2. x.us = Here.us
      BY <2>2, <2>3, HereIs DEF View
    <3> QED
      BY <3>1, <3>2
  <2> QED
    BY <2>2, <2>4, HereIs
<1>3. CASE ~s.toRemove
  BY <1>3 DEF WillRemoveSessions, Shape, Typed
<1>4. CASE s.toRemove /\ ~CanDisconnect
  <2>1. PICK y : y = CancelBoth(x, "cancel")
    OBVIOUS
  <2>2. /\ y \in View /\ y.us = x.us
        /\ y.s.mask /\ (\A d \in Dirs : y.s.canceled[d])
        /\ y.s.post = x.s.post /\ y.s.toPost = x.s.toPost /\ y.s.toRemove = x.s.toRemove
        /\ y.s.out = x.s.out /\ y.s.len = x.s.len /\ y.s.recvFull = x.s.recvFull
        /\ \A d \in Dirs : y.box[d] = IF x.s.canceled[d] THEN x.box[d] ELSE Append(x.box[d], "cancel")
    BY <1>2, <2>1, CancelBothIs DEF Word
  <2>3. Becomes(y) /\ life' = life
    BY <1>1, <1>4, <2>1 DEF WillRemoveSessions
  <2>4. Typed /\ s' = y.s /\ box' = y.box /\ byUs' = y.us
    BY <2>2, <2>3, BecomesIs
  <2> QED
    BY <1>2, <1>4, <2>2, <2>3, <2>4
<1>5. CASE s.toRemove /\ CanDisconnect
  <2>1. PICK y : y = CancelBoth(x, "quiet")
    OBVIOUS
  <2>2. /\ y \in View /\ y.us = x.us
        /\ y.s.mask /\ (\A d \in Dirs : y.s.canceled[d])
        /\ y.s.post = x.s.post /\ y.s.toPost = x.s.toPost /\ y.s.toRemove = x.s.toRemove
        /\ y.s.out = x.s.out /\ y.s.len = x.s.len /\ y.s.recvFull = x.s.recvFull
        /\ \A d \in Dirs : y.box[d] = IF x.s.canceled[d] THEN x.box[d] ELSE Append(x.box[d], "quiet")
    BY <1>2, <2>1, CancelBothIs DEF Word
  <2>3. Becomes(y) /\ life' = "freed"
    BY <1>1, <1>5, <2>1 DEF WillRemoveSessions
  <2>4. Typed /\ s' = y.s /\ box' = y.box /\ byUs' = y.us
    BY <2>2, <2>3, BecomesIs
  <2> QED
    BY <1>2, <1>5, <2>2, <2>3, <2>4
<1> QED
  BY <1>3, <1>4, <1>5

LEMMA CancelAllIs ==
    ASSUME Shape, CancelAllSessionIos
    PROVE  /\ Typed
           /\ IF life = "alive"
              THEN /\ life' = "closed" /\ byUs' /\ s'.toPost = s.toPost
                   /\ s'.out = s.out /\ s'.len = s.len
                   /\ \A d \in Dirs :
                         box'[d] = IF s.canceled[d] THEN box[d] ELSE Append(box[d], "quiet")
              ELSE life' = life /\ s' = s /\ box' = box /\ byUs' = byUs
<1>1. CASE life # "alive"
  BY <1>1 DEF CancelAllSessionIos, Shape, Typed
<1>2. CASE life = "alive"
  <2>1. PICK x, y, z : /\ x = [Here EXCEPT !.s.post = Both(FALSE)]
                       /\ y = CancelBoth(x, "quiet")
                       /\ z = [y EXCEPT !.us = TRUE]
    OBVIOUS
  <2>2. /\ x \in View /\ x.s.toPost = s.toPost /\ x.s.canceled = s.canceled /\ x.box = box
        /\ x.s.out = s.out /\ x.s.len = s.len
    <3>1. PICK p : p = Both(FALSE)
      OBVIOUS
    <3>2. p \in [Dirs -> BOOLEAN]
      BY <3>1 DEF Both
    <3>3. PICK f : f = [s EXCEPT !.post = p]
      OBVIOUS
    <3>4. /\ f \in Fields /\ f.toPost = s.toPost /\ f.canceled = s.canceled
          /\ f.out = s.out /\ f.len = s.len
      BY <3>2, <3>3 DEF Shape, Fields
    <3>5. x = [Here EXCEPT !.s = f, !.box = Here.box, !.us = Here.us]
      BY <2>1, <3>1, <3>3 DEF Here
    <3>6. x \in View /\ x.s = f /\ x.box = Here.box
      BY <3>4, <3>5, HereIs, NewFields DEF View
    <3> QED
      BY <3>4, <3>6, HereIs
  <2>3. /\ y \in View /\ y.us = x.us
        /\ y.s.mask /\ (\A d \in Dirs : y.s.canceled[d])
        /\ y.s.post = x.s.post /\ y.s.toPost = x.s.toPost /\ y.s.toRemove = x.s.toRemove
        /\ y.s.out = x.s.out /\ y.s.len = x.s.len
        /\ \A d \in Dirs : y.box[d] = IF x.s.canceled[d] THEN x.box[d] ELSE Append(x.box[d], "quiet")
    <3>1. x \in View /\ "quiet" \in Word /\ y = CancelBoth(x, "quiet")
      BY <2>1, <2>2 DEF Word
    <3> QED
      BY <3>1, CancelBothIs
  <2>4. z = [y EXCEPT !.s = y.s, !.box = y.box, !.us = TRUE]
    BY <2>1, <2>3 DEF View
  <2>5. z \in View /\ z.s = y.s /\ z.box = y.box /\ z.us
    <3>1. z \in View /\ z.s = y.s /\ z.box = y.box
      BY <2>3, <2>4, NewFields DEF View
    <3>2. z.us
      BY <2>3, <2>4 DEF View
    <3> QED
      BY <3>1, <3>2
  <2>6. Becomes(z) /\ life' = "closed"
    BY <1>2, <2>1 DEF CancelAllSessionIos
  <2>7. Typed /\ s' = z.s /\ box' = z.box /\ byUs' = z.us
    BY <2>5, <2>6, BecomesIs
  <2> QED
    BY <1>2, <2>2, <2>3, <2>5, <2>6, <2>7
<1> QED
  BY <1>1, <1>2

(* The variables the dispatcher's steps touch beyond what the lemmas above *)
(* speak of.                                                               *)
LEMMA FrameIs ==
    ASSUME Shape, Timers \/ PostEvents \/ WillRemoveSessions \/ CancelAllSessionIos
    PROVE  /\ UNCHANGED <<peerVars, status, io, failing, inbox, batch, has, last, poolWorking, handled>>
           /\ dpc' \in {"wait", "handle", "remove", "last", "cancel", "finish"}
           /\ edges' \subseteq {"in", "out", "hup", "hupSend"} /\ registered' \in BOOLEAN
           /\ life' \in {"none", "coming", "alive", "closed", "freed"}
<1>1. CASE Timers \/ PostEvents
  BY <1>1 DEF Timers, PostEvents, Shape, epollVars
<1>2. CASE WillRemoveSessions
  <2>1. dpc' \in {"wait", "handle", "remove", "last", "cancel", "finish"}
    BY <1>2 DEF WillRemoveSessions, FrameEnds
  <2> QED
    BY <1>2, <2>1 DEF WillRemoveSessions, Shape, epollVars
<1>3. CASE CancelAllSessionIos
  BY <1>3 DEF CancelAllSessionIos, Shape, epollVars
<1> QED
  BY <1>1, <1>2, <1>3

(* The four ways a message is handled.                                     *)
LEMMA HandleIs ==
    ASSUME Shape, HandleMessage, NEW m, m = Head(batch)
    PROVE  /\ m \in Message /\ batch # <<>> /\ batch' = Tail(batch) /\ batch' \in Seq(Message)
           /\ dpc = "handle"
           /\ UNCHANGED <<peerVars, status, io, failing, inbox, dpc, has, last, poolWorking>>
           /\ \/ m.kind = "connected" /\ OnSessionConnected
              \/ /\ m.kind # "connected" /\ life # "alive"
                 /\ UNCHANGED <<epollVars, sessionVars, box>>
              \/ /\ m.kind # "connected" /\ life = "alive" /\ (s.mask \/ m.bytes = 0)
                 /\ Disconnected(m) /\ UNCHANGED <<epollVars, life>>
              \/ /\ m.kind = "recv" /\ life = "alive" /\ ~s.mask /\ m.bytes > 0
                 /\ RecvSuc(m) /\ UNCHANGED <<epollVars, life>>
              \/ /\ m.kind = "send" /\ life = "alive" /\ ~s.mask /\ m.bytes > 0
                 /\ SendSuc(m) /\ UNCHANGED <<epollVars, life>>
<1>1. batch # <<>> /\ batch \in Seq(Message)
  BY DEF HandleMessage, Shape
<1>2. m \in Message /\ Tail(batch) \in Seq(Message)
  BY <1>1
<1>3. m.kind \in Dirs \cup {"connected"}
  BY <1>2, MessageIs
<1>4. m.kind # "connected" /\ m.kind # "recv" => m.kind = "send"
  BY <1>3 DEF Dirs
<1> QED
  BY <1>1, <1>2, <1>4 DEF HandleMessage

LEMMA HandleShape ==
    ASSUME Shape, HandleMessage
    PROVE  Shape'
<1>1. PICK m : m = Head(batch)
  OBVIOUS
<1>2. /\ m \in Message /\ batch' \in Seq(Message)
      /\ UNCHANGED <<peerVars, status, io, failing, inbox, dpc, has, last, poolWorking>>
      /\ \/ m.kind = "connected" /\ OnSessionConnected
         \/ /\ m.kind # "connected" /\ life # "alive"
            /\ UNCHANGED <<epollVars, sessionVars, box>>
         \/ /\ m.kind # "connected" /\ life = "alive" /\ (s.mask \/ m.bytes = 0)
            /\ Disconnected(m) /\ UNCHANGED <<epollVars, life>>
         \/ /\ m.kind = "recv" /\ life = "alive" /\ ~s.mask /\ m.bytes > 0
            /\ RecvSuc(m) /\ UNCHANGED <<epollVars, life>>
         \/ /\ m.kind = "send" /\ life = "alive" /\ ~s.mask /\ m.bytes > 0
            /\ SendSuc(m) /\ UNCHANGED <<epollVars, life>>
  BY <1>1, HandleIs
<1>3. /\ Typed
      /\ edges' \subseteq {"in", "out", "hup", "hupSend"} /\ registered' \in BOOLEAN
      /\ life' \in {"none", "coming", "alive", "closed", "freed"} /\ handled' \in Nat
  <2>1. CASE m.kind = "connected" /\ OnSessionConnected
    <3>1. Typed
      BY <2>1, ConnectedIs
    <3>2. edges' \subseteq {"in", "out", "hup", "hupSend"}
      BY <2>1 DEF OnSessionConnected
    <3>3. registered' \in BOOLEAN /\ life' = "alive" /\ handled' = handled
      BY <2>1 DEF OnSessionConnected
    <3> QED
      BY <3>1, <3>2, <3>3 DEF Shape
  <2>2. CASE m.kind # "connected" /\ life # "alive" /\ UNCHANGED <<epollVars, sessionVars, box>>
    BY <2>2 DEF Shape, Typed, epollVars, sessionVars
  <2>3. CASE m.kind # "connected" /\ Disconnected(m) /\ UNCHANGED <<epollVars, life>>
    <3>1. Typed
      BY <1>2, <2>3, DisconnectedIs
    <3> QED
      BY <2>3, <3>1 DEF Shape, epollVars, Disconnected
  <2>4. CASE m.kind = "recv" /\ RecvSuc(m) /\ UNCHANGED <<epollVars, life>>
    <3>1. Typed
      BY <1>2, <2>4, RecvSucIs
    <3>2. m.bytes \in Nat
      BY <1>2, <2>4, MessageIs
    <3>3. handled' = handled + m.bytes
      BY <2>4 DEF RecvSuc
    <3> QED
      BY <2>4, <3>1, <3>2, <3>3 DEF Shape, epollVars
  <2>5. CASE m.kind = "send" /\ SendSuc(m) /\ UNCHANGED <<epollVars, life>>
    <3>1. Typed
      BY <1>2, <2>5, SendSucIs
    <3> QED
      BY <2>5, <3>1 DEF Shape, epollVars, SendSuc
  <2> QED
    BY <1>2, <2>1, <2>2, <2>3, <2>4, <2>5
<1> QED
  BY <1>2, <1>3 DEF Shape, peerVars, Typed

LEMMA NextShape == ASSUME Shape, Next PROVE Shape'
<1>1. CASE Timers \/ PostEvents \/ WillRemoveSessions \/ CancelAllSessionIos
  <2>1. Typed
    BY <1>1, TimersIs, PostEventsIs, RemoveIs, CancelAllIs
  <2>2. /\ UNCHANGED <<peerVars, status, io, failing, inbox, batch, has, last, poolWorking, handled>>
        /\ dpc' \in {"wait", "handle", "remove", "last", "cancel", "finish"}
        /\ edges' \subseteq {"in", "out", "hup", "hupSend"} /\ registered' \in BOOLEAN
        /\ life' \in {"none", "coming", "alive", "closed", "freed"}
    BY <1>1, FrameIs
  <2> QED
    BY <2>1, <2>2 DEF Shape, peerVars, Typed
<1> QED
  BY <1>1, PeerShape, PollerShape, HandleShape DEF Next, DispatcherNext

-----------------------------------------------------------------------------
(* A session that is not being closed keeps a receive, unless its receive  *)
(* buffer is full, and a send while it has something to send, posted or to *)
(* be posted in this frame; it may lack them only in the frame that begins *)
(* to close it.  No receive is posted into a full buffer.                  *)
Flow ==
    /\ \A d \in Dirs : s.toPost[d] => dpc = "handle"
    /\ life = "alive" /\ s.post["recv"] => ~s.recvFull
    /\ life = "alive" /\ ~s.mask /\ ~(dpc \in {"handle", "remove"} /\ s.toRemove) =>
           /\ s.post["recv"] \/ s.toPost["recv"] \/ s.recvFull
           /\ s.out > 0 => s.post["send"] \/ s.toPost["send"]

LEMMA InitFlow == Init => Flow
BY DEF Init, Flow, NewSession, Both

LEMMA OthersFlow ==
    ASSUME Shape, Flow, UNCHANGED <<s, dpc>>, life' # "alive" \/ life' = life
    PROVE  Flow'
BY DEF Flow

LEMMA HandleFlow ==
    ASSUME Shape, Flow, HandleMessage
    PROVE  Flow'
<1>1. PICK m : m = Head(batch)
  OBVIOUS
<1>2. /\ m \in Message /\ dpc = "handle" /\ dpc' = dpc
      /\ \/ m.kind = "connected" /\ OnSessionConnected
         \/ /\ m.kind # "connected" /\ life # "alive"
            /\ UNCHANGED <<epollVars, sessionVars, box>>
         \/ /\ m.kind # "connected" /\ life = "alive" /\ (s.mask \/ m.bytes = 0)
            /\ Disconnected(m) /\ UNCHANGED <<epollVars, life>>
         \/ /\ m.kind = "recv" /\ life = "alive" /\ ~s.mask /\ m.bytes > 0
            /\ RecvSuc(m) /\ UNCHANGED <<epollVars, life>>
         \/ /\ m.kind = "send" /\ life = "alive" /\ ~s.mask /\ m.bytes > 0
            /\ SendSuc(m) /\ UNCHANGED <<epollVars, life>>
  BY <1>1, HandleIs
<1>3. s.out \in Int
  BY DEF Shape, Fields
<1>4. CASE OnSessionConnected
  <2>1. /\ s'.out > 0 => s'.toPost["send"]
        /\ ~s'.mask => s'.post["recv"]
        /\ ~s'.recvFull
    <3>1. /\ ~s'.mask => s'.post["recv"] /\ box' = [box EXCEPT !["recv"] = Append(@, "post")]
          /\ s'.out > 0 => s'.toPost["send"]
          /\ ~s'.recvFull
      BY <1>4, ConnectedIs
    <3> QED
      BY <3>1
  <2> QED
    BY <1>2, <2>1 DEF Flow
<1>5. CASE m.kind # "connected" /\ life # "alive" /\ UNCHANGED <<epollVars, sessionVars, box>>
  BY <1>2, <1>5 DEF Flow, sessionVars
<1>6. CASE m.kind # "connected" /\ life = "alive" /\ Disconnected(m)
  <2>1. /\ s'.toRemove /\ s'.recvFull = s.recvFull /\ s'.toPost = s.toPost
        /\ s'.post = [s.post EXCEPT ![m.kind] = FALSE]
    BY <1>2, <1>6, DisconnectedIs
  <2>2. s'.post["recv"] => s.post["recv"]
    <3>1. "recv" \in Dirs /\ s.post \in [Dirs -> BOOLEAN]
      BY DEF Shape, Fields, Dirs
    <3> QED
      BY <2>1, <3>1
  <2>3. dpc' = "handle" /\ life = "alive"
    BY <1>2, <1>6
  <2> QED
    BY <2>1, <2>2, <2>3 DEF Flow
<1>7. CASE m.kind = "recv" /\ RecvSuc(m)
  <2>1. /\ ~s'.mask => s'.toPost["recv"]
        /\ ~s'.mask /\ s'.out > 0 => s'.post["send"]
        /\ ~s'.post["recv"]
    BY <1>2, <1>7, RecvSucIs
  <2> QED
    BY <1>2, <2>1 DEF Flow
<1>8. CASE m.kind = "send" /\ life = "alive" /\ ~s.mask /\ SendSuc(m)
  <2>1. /\ s'.post = [s.post EXCEPT !["send"] = FALSE]
        /\ s'.toPost["recv"] = s.toPost["recv"]
        /\ s'.out > 0 => s'.toPost["send"]
        /\ s'.toRemove = s.toRemove /\ s'.mask = s.mask /\ s'.recvFull = s.recvFull
    BY <1>2, <1>8, SendSucIs
  <2>2. s'.post["recv"] = s.post["recv"]
    BY <2>1 DEF Shape, Fields, Dirs
  <2> QED
    BY <1>2, <1>8, <2>1, <2>2 DEF Flow
<1> QED
  BY <1>2, <1>4, <1>5, <1>6, <1>7, <1>8

LEMMA FrameFlow ==
    ASSUME Shape, Flow, Timers \/ PostEvents \/ WillRemoveSessions \/ CancelAllSessionIos
    PROVE  Flow'
<1>1. s.out \in Int /\ "recv" \in Dirs /\ "send" \in Dirs
  BY DEF Shape, Fields, Dirs
<1>2. CASE Timers
  <2>1. dpc = "timers" /\ dpc' = "handle" /\ life' = life
    BY <1>2 DEF Timers
  <2>2. CASE life # "alive"
    BY <2>1, <2>2 DEF Flow
  <2>3. CASE life = "alive"
    <3>1. Served(s, s')
      BY <1>2, <2>3, TimersIs
    <3>2. /\ ~s.mask => (s.post["recv"] \/ s.recvFull) /\ (s.out > 0 => s.post["send"])
          /\ s.post["recv"] => ~s.recvFull
      BY <1>1, <2>1, <2>3 DEF Flow
    <3>3. /\ s'.post = s.post /\ s'.recvFull = s.recvFull /\ (s.mask => s'.mask)
          /\ s'.toPost["send"] \/ s'.post["send"] \/ s'.out = s.out
      BY <3>1 DEF Served
    <3> QED
      BY <2>1, <3>2, <3>3 DEF Flow
  <2> QED
    BY <2>2, <2>3
<1>3. CASE PostEvents
  <2>1. dpc = "handle" /\ dpc' = "remove" /\ life' = life
    BY <1>3 DEF PostEvents
  <2>2. /\ s'.mask = s.mask /\ s'.toRemove = s.toRemove
        /\ s'.out = s.out /\ s'.toPost = Both(FALSE) /\ s'.recvFull = s.recvFull
        /\ \A d \in Dirs :
              \/ s.toPost[d] /\ s'.post[d] /\ (d = "recv" => ~s.recvFull)
              \/ /\ s'.post[d] = s.post[d]
                 /\ ~s.toPost[d] \/ s.post[d] \/ (IF d = "recv" THEN s.mask \/ s.recvFull ELSE s.out <= 0)
    <3>1. /\ s'.mask = s.mask /\ s'.canceled = s.canceled /\ s'.toRemove = s.toRemove
          /\ s'.out = s.out /\ s'.toPost = Both(FALSE) /\ s'.recvFull = s.recvFull
          /\ \A d \in Dirs :
                \/ /\ s.toPost[d] /\ ~s.post[d] /\ s'.post[d]
                   /\ box'[d] = Append(box[d], "post")
                   /\ IF d = "recv" THEN ~s.mask /\ ~s.recvFull ELSE s.out > 0
                \/ /\ s'.post[d] = s.post[d] /\ box'[d] = box[d]
                   /\ ~s.toPost[d] \/ s.post[d] \/ (IF d = "recv" THEN s.mask \/ s.recvFull ELSE s.out <= 0)
      BY <1>3, PostEventsIs
    <3> QED
      BY <3>1
  <2>3. \A d \in Dirs : ~s'.toPost[d]
    BY <2>2 DEF Both
  <2>4. ~s.mask /\ (s.post["recv"] \/ s.toPost["recv"]) => s'.post["recv"] \/ s.recvFull
    BY <1>1, <2>2
  <2>7. (s.post["recv"] => ~s.recvFull) => (s'.post["recv"] => ~s.recvFull)
    BY <1>1, <2>2
  <2>5. s.out > 0 /\ (s.post["send"] \/ s.toPost["send"]) => s'.post["send"]
    <3>1. s.out > 0 => ~(s.out <= 0)
      BY <1>1
    <3> QED
      BY <1>1, <2>2, <3>1
  <2>6. life = "alive" /\ ~s.mask /\ ~s.toRemove =>
           (s'.post["recv"] \/ s.recvFull) /\ (s.out > 0 => s'.post["send"])
    BY <2>1, <2>4, <2>5 DEF Flow
  <2> QED
    BY <2>1, <2>2, <2>3, <2>6, <2>7 DEF Flow
<1>4. CASE WillRemoveSessions
  <2>1. dpc = "remove" /\ dpc' \in {"wait", "last", "cancel"}
    BY <1>4 DEF WillRemoveSessions, FrameEnds
  <2>2. \/ ~s.toRemove /\ s' = s /\ life' = life
        \/ /\ s.toRemove /\ s'.mask /\ s'.toPost = s.toPost
           /\ s'.post = s.post /\ s'.recvFull = s.recvFull /\ life' \in {life, "freed"}
    BY <1>4, RemoveIs
  <2> QED
    BY <2>1, <2>2 DEF Flow
<1>5. CASE CancelAllSessionIos
  <2>1. dpc = "cancel" /\ dpc' = "finish"
    BY <1>5 DEF CancelAllSessionIos
  <2>2. \/ life' = "closed" /\ s'.toPost = s.toPost
        \/ life # "alive" /\ life' = life /\ s' = s
    BY <1>5, CancelAllIs
  <2> QED
    BY <2>1, <2>2 DEF Flow
<1> QED
  BY <1>2, <1>3, <1>4, <1>5

LEMMA NextFlow == ASSUME Shape, Flow, Next PROVE Flow'
<1>1. CASE WaitForPoping \/ LastFrame \/ WaitForTransferIoFinish
  <2>1. /\ s' = s /\ dpc \notin {"handle", "remove"} /\ dpc' \notin {"handle", "remove"}
        /\ life' = life \/ life' = "freed"
    BY <1>1 DEF WaitForPoping, LastFrame, WaitForTransferIoFinish, sessionVars
  <2> QED
    BY <2>1 DEF Flow
<1>2. CASE PeerNext \/ WillConnect \/ Distribute \/ ClosePool
  <2>1. UNCHANGED <<s, dpc>> /\ (life' # "alive" \/ life' = life)
    BY <1>2 DEF PeerNext, PeerSends, PeerCloses, PeerResets, PeerReads, WillConnect, Distribute,
       ClosePool, frameVars, sessionVars
  <2> QED
    BY <2>1, OthersFlow
<1>3. ASSUME NEW d \in Dirs, Poller(d) PROVE Flow'
  <2>1. UNCHANGED <<frameVars, sessionVars>>
    BY <1>3 DEF Poller, Fail, OnReady, OnBePosted, OnCancel, Take
  <2> QED
    BY <2>1, OthersFlow DEF frameVars, sessionVars
<1> QED
  BY <1>1, <1>2, <1>3, HandleFlow, FrameFlow DEF Next, DispatcherNext

LEMMA FlowInvariant == Spec => [](Shape /\ Flow)
<1>1. Shape /\ Flow /\ [Next]_vars => (Shape /\ Flow)'
  <2> SUFFICES ASSUME Shape, Flow, [Next]_vars PROVE (Shape /\ Flow)'
    OBVIOUS
  <2>1. CASE Next
    BY <2>1, NextShape, NextFlow
  <2>2. CASE UNCHANGED vars
    <3>1. UNCHANGED <<peerVars, epollVars, transferVars, inbox, frameVars, sessionVars>>
      BY <2>2 DEF vars
    <3>2. Shape'
      BY <3>1 DEF Shape, peerVars, epollVars, transferVars, frameVars, sessionVars
    <3>3. Flow'
      BY <3>1, OthersFlow DEF frameVars, sessionVars
    <3> QED
      BY <3>2, <3>3
  <2> QED
    BY <2>1, <2>2
<1> QED
  BY <1>1, InitShape, InitFlow, PTL DEF Spec

(* The server goes deaf in one case only, and there for a reason: whatever *)
(* ends a frame, when the dispatcher waits for messages a session that is  *)
(* not being closed has a receive posted if and only if its receive buffer *)
(* has room, for every number of chunks, every behaviour of the peer and   *)
(* every choice of what the message handler leaves in the buffer.          *)
THEOREM ServerHears == Spec => []DeafWhenFullOnly
<1>1. Shape /\ Flow => DeafWhenFullOnly
  <2> SUFFICES ASSUME Shape, Flow, dpc = "wait", Alive, ~s.mask
               PROVE  s.post["recv"] = ~s.recvFull
    BY DEF DeafWhenFullOnly
  <2>1. s.post["recv"] \in BOOLEAN /\ s.recvFull \in BOOLEAN
    BY DEF Shape, Fields, Dirs
  <2>2. s.post["recv"] => ~s.recvFull
    BY DEF Flow, Alive
  <2>3. s.post["recv"] \/ s.recvFull
    BY DEF Flow, Alive, Dirs
  <2> QED
    BY <2>1, <2>2, <2>3
<1> QED
  BY <1>1, FlowInvariant, PTL

(* What the logic sent is posted when the dispatcher waits for messages:   *)
(* nothing is left in the send buffer without somebody to send it.         *)
THEOREM OutputIsPosted == Spec => []NoStrandedOutput
<1>1. Shape /\ Flow => NoStrandedOutput
  BY DEF Flow, NoStrandedOutput, Alive, Dirs
<1> QED
  BY <1>1, FlowInvariant, PTL
-----------------------------------------------------------------------------
(* Edge-triggered epoll tells an event once: a side that is idle while its *)
(* socket is not has the event before it, in the kernel or in its mailbox. *)
Ready(b) == \E i \in 1 .. Len(b) : b[i] = "ready"

Told ==
    /\ "hup" \in edges => broken
    /\ life = "none" => ~registered
    /\ registered /\ ~broken =>
           /\ status["recv"] = "idle" /\ (avail > 0 \/ fin) => "in" \in edges \/ Ready(box["recv"])
           /\ status["send"] = "idle" /\ ~full => "out" \in edges \/ Ready(box["send"])

LEMMA ReadyAppend ==
    ASSUME NEW b \in Seq(Word), NEW w \in Word
    PROVE  Ready(Append(b, w)) <=> Ready(b) \/ w = "ready"
<1>1. PICK a : a = Append(b, w)
  OBVIOUS
<1>2. /\ Len(a) = Len(b) + 1 /\ Len(b) \in Nat
      /\ a[Len(a)] = w /\ \A i \in 1 .. Len(b) : a[i] = b[i]
  BY <1>1
<1>3. Ready(a) => Ready(b) \/ w = "ready"
  BY <1>2 DEF Ready
<1>4. Ready(b) => Ready(a)
  <2>1. \A i \in 1 .. Len(b) : i \in 1 .. Len(a)
    BY <1>2
  <2> QED
    BY <1>2, <2>1 DEF Ready
<1>5. w = "ready" => Ready(a)
  <2>1. Len(a) \in 1 .. Len(a)
    BY <1>2
  <2> QED
    BY <1>2, <2>1 DEF Ready
<1> QED
  BY <1>1, <1>3, <1>4, <1>5

LEMMA ReadyTail ==
    ASSUME NEW b \in Seq(Word), b # <<>>, Head(b) # "ready"
    PROVE  Ready(b) => Ready(Tail(b))
<1>1. PICK t : t = Tail(b)
  OBVIOUS
<1>2. /\ Len(b) = Len(t) + 1 /\ Len(t) \in Nat /\ Head(b) = b[1]
      /\ \A i \in 1 .. Len(t) : t[i] = b[i + 1]
  BY <1>1
<1>3. ASSUME NEW i \in 1 .. Len(b), b[i] = "ready" PROVE Ready(t)
  <2>1. i # 1
    BY <1>2, <1>3
  <2>2. i - 1 \in 1 .. Len(t) /\ (i - 1) + 1 = i
    BY <1>2, <2>1
  <2>3. t[i - 1] = b[i]
    BY <1>2, <2>2
  <2> QED
    BY <1>3, <2>2, <2>3 DEF Ready
<1> QED
  BY <1>1, <1>3 DEF Ready

LEMMA InitTold == Init => Told
BY DEF Init, Told

(* The dispatcher only adds to the mailboxes, and takes a session out of   *)
(* epoll for good.                                                         *)
LEMMA KeptTold ==
    ASSUME Shape, Told, UNCHANGED <<peerVars, status>>,
           life' = "none" => life = "none",
           \/ ~registered' /\ edges' = {}
           \/ /\ UNCHANGED epollVars
              /\ \A d \in Dirs : Ready(box[d]) => Ready(box'[d])
    PROVE  Told'
<1>1. CASE ~registered' /\ edges' = {}
  BY <1>1 DEF Told
<1>2. CASE UNCHANGED epollVars /\ \A d \in Dirs : Ready(box[d]) => Ready(box'[d])
  <2>1. /\ Ready(box["recv"]) => Ready(box'["recv"])
        /\ Ready(box["send"]) => Ready(box'["send"])
    BY <1>2 DEF Dirs
  <2> QED
    BY <1>2, <2>1 DEF Told, peerVars, epollVars
<1> QED
  BY <1>1, <1>2

LEMMA PeerTold == ASSUME Shape, Told, PeerNext PROVE Told'
<1>1. UNCHANGED <<registered, status, box, life>>
  BY DEF PeerNext, PeerSends, PeerCloses, PeerResets, PeerReads, transferVars, sessionVars
<1>2. CASE PeerSends \/ PeerCloses
  BY <1>1, <1>2 DEF PeerSends, PeerCloses, Edge, Told
<1>3. CASE PeerReads
  BY <1>1, <1>3 DEF PeerReads, Edge, Told
<1>4. CASE PeerResets
  BY <1>1, <1>4 DEF PeerResets, Edge, Told
<1> QED
  BY <1>2, <1>3, <1>4 DEF PeerNext

LEMMA DistributeTold == ASSUME Shape, Told, Distribute PROVE Told'
<1>1. UNCHANGED <<peerVars, registered, status, life>>
  BY DEF Distribute, sessionVars
<1>2. CASE "hup" \in edges
  <2>1. broken' /\ "hup" \notin edges'
    BY <1>1, <1>2 DEF Distribute, Told, peerVars
  <2> QED
    BY <1>1, <2>1 DEF Told
<1>3. CASE "hup" \notin edges
  <2>1. /\ edges' = {}
        /\ box'["recv"] = box["recv"] \o If("in", "ready")
        /\ box'["send"] = (box["send"] \o If("hupSend", "cancel")) \o If("out", "ready")
    BY <1>3 DEF Distribute
  <2>2. box["recv"] \in Seq(Word) /\ box["send"] \in Seq(Word)
    BY DEF Shape, Dirs
  <2>3. ASSUME NEW b \in Seq(Word), NEW e, NEW w \in Word
        PROVE  /\ b \o If(e, w) \in Seq(Word)
               /\ Ready(b) \/ (e \in edges /\ w = "ready") => Ready(b \o If(e, w))
    <3>1. CASE e \in edges
      <4>1. b \o If(e, w) = Append(b, w) /\ Append(b, w) \in Seq(Word)
        BY <3>1 DEF If
      <4> QED
        BY <4>1, ReadyAppend
    <3>2. CASE e \notin edges
      <4>1. b \o If(e, w) = b
        BY <3>2 DEF If
      <4> QED
        BY <3>2, <4>1
    <3> QED
      BY <3>1, <3>2
  <2>4. "ready" \in Word /\ "cancel" \in Word
    BY DEF Word
  <2>5. Ready(box["recv"]) \/ "in" \in edges => Ready(box'["recv"])
    BY <2>1, <2>2, <2>3, <2>4
  <2>6. Ready(box["send"]) \/ "out" \in edges => Ready(box'["send"])
    <3>1. PICK b : b = box["send"] \o If("hupSend", "cancel")
      OBVIOUS
    <3>2. b \in Seq(Word) /\ (Ready(box["send"]) => Ready(b))
      BY <2>2, <2>3, <2>4, <3>1
    <3> QED
      BY <2>1, <2>3, <2>4, <3>1, <3>2
  <2> QED
    BY <1>1, <2>1, <2>5, <2>6 DEF Told, peerVars
<1> QED
  BY <1>2, <1>3

(* What an io leaves: an idle side has met the end of what the socket had. *)
LEMMA IoTold ==
    ASSUME Shape, NEW d \in Dirs, DoIo(d)
    PROVE  /\ UNCHANGED <<arrived, fin, broken>> /\ avail' \in Nat
           /\ avail' > 0 => avail > 0
           /\ ~full' => ~full
           /\ \A e \in Dirs \ {d} : status'[e] = status[e]
           /\ d = "recv" /\ status'[d] = "idle" => avail' = 0 /\ ~fin
           /\ d = "send" /\ status'[d] = "idle" => full'
<1>1. PICK o \in Outcomes(d) :
        /\ status' = [status EXCEPT ![d] = CASE o.end = "again" -> "idle"
                                             [] o.end = "closed" /\ o.bytes = 0 -> "none"
                                             [] OTHER -> "ready"]
        /\ IF d = "recv"
           THEN avail' = avail - o.bytes /\ UNCHANGED full
           ELSE full' = (full \/ o.end = "again") /\ UNCHANGED avail
        /\ UNCHANGED <<arrived, fin, broken>>
  BY DEF DoIo
<1>2. /\ status'[d] = "idle" => o.end = "again"
      /\ \A e \in Dirs \ {d} : status'[e] = status[e]
  BY <1>1 DEF Shape
<1>3. avail \in Nat
  BY DEF Shape
<1>4. CASE d = "recv"
  <2>1. o.bytes \in Nat /\ o.bytes <= avail
    BY <1>3, <1>4 DEF Outcomes
  <2>2. ASSUME o.end = "again" PROVE o.bytes = avail /\ ~fin
    <3>1. (CASE o.end = "again" -> o.bytes = avail /\ ~fin /\ ~broken
             [] o.end = "stop" -> o.bytes > 0
             [] o.end = "closed" -> broken \/ (fin /\ o.bytes = avail))
      BY <1>4, Zenon DEF Outcomes
    <3> QED
      BY <2>2, <3>1
  <2> QED
    BY <1>1, <1>2, <1>3, <1>4, <2>1, <2>2
<1>5. CASE d = "send"
  BY <1>1, <1>2, <1>3, <1>5
<1> QED
  BY <1>4, <1>5 DEF Dirs

LEMMA PollerTold == ASSUME Shape, Told, NEW d \in Dirs, Poller(d) PROVE Told'
<1>1. UNCHANGED <<epollVars, life>> /\ UNCHANGED <<arrived, fin, broken>>
  BY DEF Poller, Fail, OnReady, OnBePosted, OnCancel, Take, DoIo, peerVars, sessionVars
<1>2. \A e \in Dirs \ {d} : status'[e] = status[e] /\ box'[e] = box[e]
  <2>1. \A e \in Dirs \ {d} : box'[e] = box[e]
    BY DEF Poller, Fail, OnReady, OnBePosted, OnCancel, Take, Shape
  <2>2. CASE DoIo(d)
    BY <2>1, <2>2, IoTold
  <2>3. CASE ~DoIo(d)
    <3>1. \/ status' = status
          \/ status' = [status EXCEPT ![d] = "none"]
          \/ status' = [status EXCEPT ![d] = "ready"]
      BY <2>3 DEF Poller, Fail, OnReady, OnBePosted, OnCancel
    <3> QED
      BY <2>1, <3>1 DEF Shape
  <2> QED
    BY <2>2, <2>3
<1>3. (avail' > 0 => avail > 0) /\ (~full' => ~full)
  <2>1. CASE DoIo(d)
    BY <2>1, IoTold
  <2>2. CASE ~DoIo(d)
    BY <2>2 DEF Poller, Fail, OnReady, OnBePosted, OnCancel, peerVars
  <2> QED
    BY <2>1, <2>2
<1>4. \/ status'[d] # "idle"
      \/ IF d = "recv" THEN ~(avail' > 0) /\ ~fin ELSE full'
      \/ status[d] = "idle" /\ (Ready(box[d]) => Ready(box'[d]))
  <2>1. CASE DoIo(d)
    BY <2>1, IoTold DEF Dirs
  <2>2. CASE ~DoIo(d) /\ (Fail(d) \/ OnReady(d) \/ OnCancel(d, "cancel") \/ OnCancel(d, "quiet"))
    BY <2>2 DEF Fail, OnReady, OnCancel, Shape
  <2>3. CASE ~DoIo(d) /\ OnBePosted(d)
    <3>1. box'[d] = Tail(box[d]) /\ box[d] # <<>> /\ Head(box[d]) # "ready"
      BY <2>3 DEF OnBePosted, Take, Shape
    <3>2. box[d] \in Seq(Word)
      BY DEF Shape
    <3>3. status' = status /\ status[d] \in {"none", "idle"}
      BY <2>3 DEF OnBePosted
    <3> QED
      BY <3>1, <3>2, <3>3, ReadyTail
  <2> QED
    BY <2>1, <2>2, <2>3 DEF Poller
<1>5. CASE d = "recv"
  <2>1. status'["send"] = status["send"] /\ box'["send"] = box["send"]
    BY <1>2, <1>5 DEF Dirs
  <2> QED
    BY <1>1, <1>3, <1>4, <1>5, <2>1 DEF Told, epollVars
<1>6. CASE d = "send"
  <2>1. status'["recv"] = status["recv"] /\ box'["recv"] = box["recv"]
    BY <1>2, <1>6 DEF Dirs
  <2> QED
    BY <1>1, <1>3, <1>4, <1>6, <2>1 DEF Told, epollVars
<1> QED
  BY <1>5, <1>6 DEF Dirs

LEMMA HandleTold == ASSUME Shape, Told, HandleMessage PROVE Told'
<1>1. PICK m : m = Head(batch)
  OBVIOUS
<1>2. /\ m \in Message /\ UNCHANGED <<peerVars, status>>
      /\ \/ m.kind = "connected" /\ OnSessionConnected
         \/ /\ m.kind # "connected" /\ life # "alive"
            /\ UNCHANGED <<epollVars, sessionVars, box>>
         \/ /\ m.kind # "connected" /\ life = "alive" /\ (s.mask \/ m.bytes = 0)
            /\ Disconnected(m) /\ UNCHANGED <<epollVars, life>>
         \/ /\ m.kind = "recv" /\ life = "alive" /\ ~s.mask /\ m.bytes > 0
            /\ RecvSuc(m) /\ UNCHANGED <<epollVars, life>>
         \/ /\ m.kind = "send" /\ life = "alive" /\ ~s.mask /\ m.bytes > 0
            /\ SendSuc(m) /\ UNCHANGED <<epollVars, life>>
  BY <1>1, HandleIs
<1>3. CASE OnSessionConnected
  <2>1. /\ life' = "alive" /\ "out" \in edges' /\ "hup" \notin edges'
        /\ avail > 0 \/ fin => "in" \in edges'
    BY <1>3 DEF OnSessionConnected
  <2> QED
    BY <1>2, <2>1 DEF Told, peerVars
<1>4. CASE m.kind # "connected" /\ life # "alive" /\ UNCHANGED <<epollVars, sessionVars, box>>
  BY <1>2, <1>4, KeptTold DEF sessionVars
<1>5. CASE m.kind # "connected" /\ Disconnected(m) /\ UNCHANGED <<epollVars, life>>
  <2>1. box' = box
    BY <1>2, <1>5, DisconnectedIs
  <2> QED
    BY <1>2, <1>5, <2>1, KeptTold
<1>6. CASE m.kind = "recv" /\ RecvSuc(m) /\ UNCHANGED <<epollVars, life>>
  <2>1. box' = box \/ box' = [box EXCEPT !["send"] = Append(@, "post")]
    BY <1>2, <1>6, RecvSucIs
  <2>2. ASSUME NEW d \in Dirs PROVE Ready(box[d]) => Ready(box'[d])
    <3>1. box'[d] = box[d] \/ box'[d] = Append(box[d], "post")
      BY <2>1 DEF Shape
    <3>2. PICK b, c : b = box[d] /\ c = box'[d]
      OBVIOUS
    <3>3. b \in Seq(Word) /\ "post" \in Word /\ (c = b \/ c = Append(b, "post"))
      BY <3>1, <3>2 DEF Shape, Word
    <3>4. Ready(Append(b, "post")) <=> Ready(b) \/ "post" = "ready"
      BY <3>3, ReadyAppend
    <3> QED
      BY <3>2, <3>3, <3>4
  <2> QED
    BY <1>2, <1>6, <2>2, KeptTold
<1>7. CASE m.kind = "send" /\ SendSuc(m) /\ UNCHANGED <<epollVars, life>>
  <2>1. box' = box
    BY <1>2, <1>7, SendSucIs
  <2> QED
    BY <1>2, <1>7, <2>1, KeptTold
<1> QED
  BY <1>2, <1>3, <1>4, <1>5, <1>6, <1>7

LEMMA FrameTold ==
    ASSUME Shape, Told, Timers \/ PostEvents \/ WillRemoveSessions \/ CancelAllSessionIos
    PROVE  Told'
<1>1. UNCHANGED <<peerVars, status>>
  BY FrameIs
<1>2. \A d \in Dirs : box[d] \in Seq(Word)
  BY DEF Shape
<1>3. CASE Timers
  <2>1. box' = box /\ UNCHANGED <<epollVars, life>>
    BY <1>3, TimersIs DEF Timers
  <2> QED
    BY <1>1, <2>1, KeptTold
<1>4. CASE PostEvents
  <2>1. \A d \in Dirs : box'[d] = box[d] \/ box'[d] = Append(box[d], "post")
    <3>1. \A d \in Dirs :
             \/ /\ s.toPost[d] /\ ~s.post[d] /\ s'.post[d]
                /\ box'[d] = Append(box[d], "post")
                /\ IF d = "recv" THEN ~s.mask /\ ~s.recvFull ELSE s.out > 0
             \/ /\ s'.post[d] = s.post[d] /\ box'[d] = box[d]
                /\ ~s.toPost[d] \/ s.post[d] \/ (IF d = "recv" THEN s.mask \/ s.recvFull ELSE s.out <= 0)
      BY <1>4, PostEventsIs
    <3> QED
      BY <3>1
  <2>2. ASSUME NEW d \in Dirs PROVE Ready(box[d]) => Ready(box'[d])
    <3>1. box[d] \in Seq(Word) /\ "post" \in Word
      BY <1>2 DEF Word
    <3>2. box'[d] = box[d] \/ box'[d] = Append(box[d], "post")
      BY <2>1
    <3>3. Ready(box[d]) => Ready(Append(box[d], "post"))
      BY <3>1, ReadyAppend
    <3> QED
      BY <3>2, <3>3
  <2>3. UNCHANGED <<epollVars, life>>
    BY <1>4 DEF PostEvents
  <2> QED
    BY <1>1, <2>2, <2>3, KeptTold
<1>5. CASE WillRemoveSessions
  <2>1. life' = "none" => life = "none"
    BY <1>5 DEF WillRemoveSessions
  <2>2. CASE ~registered' /\ edges' = {}
    BY <1>1, <2>1, <2>2, KeptTold
  <2>3. CASE ~(~registered' /\ edges' = {})
    <3>1. UNCHANGED epollVars /\ ~(s.toRemove /\ CanDisconnect)
      BY <1>5, <2>3 DEF WillRemoveSessions
    <3>2. \/ box' = box
          \/ \A d \in Dirs : box'[d] = IF s.canceled[d] THEN box[d] ELSE Append(box[d], "cancel")
      <4>1. \/ ~s.toRemove /\ s' = s /\ box' = box /\ life' = life
            \/ /\ s.toRemove /\ s'.mask /\ ~s'.toRemove /\ (\A d \in Dirs : s'.canceled[d])
               /\ s'.post = s.post /\ s'.toPost = s.toPost /\ s'.out = s.out /\ s'.len = s.len
               /\ \/ /\ ~CanDisconnect /\ life' = life
                     /\ \A d \in Dirs : box'[d] = IF s.canceled[d] THEN box[d] ELSE Append(box[d], "cancel")
                  \/ /\ CanDisconnect /\ life' = "freed"
                     /\ \A d \in Dirs : box'[d] = IF s.canceled[d] THEN box[d] ELSE Append(box[d], "quiet")
        BY <1>5, RemoveIs
      <4> QED
        BY <3>1, <4>1
    <3>3. ASSUME NEW d \in Dirs PROVE Ready(box[d]) => Ready(box'[d])
      <4>1. box[d] \in Seq(Word) /\ "cancel" \in Word
        BY <1>2 DEF Word
      <4> QED
        BY <3>2, <4>1, ReadyAppend
    <3> QED
      BY <1>1, <2>1, <3>1, <3>3, KeptTold
  <2> QED
    BY <2>2, <2>3
<1>6. CASE CancelAllSessionIos
  <2>1. \/ life' = "closed" /\ ~registered' /\ edges' = {}
        \/ life' = life /\ UNCHANGED epollVars /\ box' = box
    BY <1>6 DEF CancelAllSessionIos
  <2> QED
    BY <1>1, <2>1, KeptTold
<1> QED
  BY <1>3, <1>4, <1>5, <1>6

LEMMA NextTold == ASSUME Shape, Told, Next PROVE Told'
<1>1. CASE WillConnect
  <2>1. ~registered /\ UNCHANGED <<peerVars, epollVars>> /\ life' = "coming"
    BY <1>1 DEF WillConnect, Told
  <2> QED
    BY <2>1 DEF Told, peerVars, epollVars
<1>2. CASE ClosePool \/ WaitForPoping \/ LastFrame \/ WaitForTransferIoFinish
  <2>1. UNCHANGED <<peerVars, status, epollVars, box>> /\ (life' = "none" => life = "none")
    BY <1>2 DEF ClosePool, WaitForPoping, LastFrame, WaitForTransferIoFinish, transferVars, sessionVars
  <2> QED
    BY <2>1, KeptTold
<1> QED
  BY <1>1, <1>2, PeerTold, DistributeTold, PollerTold, HandleTold, FrameTold
  DEF Next, DispatcherNext

(* Edge-triggered epoll costs no session its data: what is in the socket   *)
(* of an idle side is remembered or its event is on the way, for any       *)
(* amount of data and every behaviour of the peer.                         *)
THEOREM NoEdgeIsMissed == Spec => []ReadinessRemembered
<1>1. Shape /\ Told /\ [Next]_vars => Told'
  <2> SUFFICES ASSUME Shape, Told, [Next]_vars PROVE Told'
    OBVIOUS
  <2>1. CASE Next
    BY <2>1, NextTold
  <2>2. CASE UNCHANGED vars
    BY <2>2 DEF vars, Told, peerVars, epollVars, transferVars, sessionVars
  <2> QED
    BY <2>1, <2>2
<1>2. Told => ReadinessRemembered
  BY DEF Told, ReadinessRemembered, Ready, Contains
<1>3. Spec => []Shape
  BY FlowInvariant, PTL
<1> QED
  BY <1>1, <1>2, <1>3, InitTold, PTL DEF Spec

-----------------------------------------------------------------------------
(* What is said of a queue of messages and of a mailbox.                   *)
Answered(q, d) == \E i \in 1 .. Len(q) : q[i].kind = d
Ended(q, d) == \E i \in 1 .. Len(q) : q[i].kind = d /\ ~q[i].inMonitor
OneAnswer(q, d) == \A i, j \in 1 .. Len(q) : q[i].kind = d /\ q[j].kind = d => i = j
OneDone(q, d) ==
    \A i, j \in 1 .. Len(q) :
        q[i].kind = d /\ q[i].bytes > 0 /\ q[j].kind = d /\ q[j].bytes > 0 => i = j

Holds(b, w) == \E i \in 1 .. Len(b) : b[i] = w
OnePost(b) == \A i, j \in 1 .. Len(b) : b[i] = "post" /\ b[j] = "post" => i = j
CancelIsLast(b) == \A i, j \in 1 .. Len(b) : i < j /\ b[i] = "cancel" => b[j] # "post"

LEMMA AppendAt ==
    ASSUME NEW S, NEW q \in Seq(S), NEW e \in S, NEW r, r = Append(q, e)
    PROVE  /\ r \in Seq(S) /\ Len(r) \in Nat /\ Len(q) \in Nat /\ Len(r) = Len(q) + 1
           /\ r[Len(r)] = e /\ \A i \in 1 .. Len(q) : r[i] = q[i]
OBVIOUS

LEMMA TailAt ==
    ASSUME NEW S, NEW q \in Seq(S), q # <<>>, NEW r, r = Tail(q)
    PROVE  /\ r \in Seq(S) /\ Len(r) \in Nat /\ Len(q) \in Nat /\ Len(q) = Len(r) + 1
           /\ Head(q) = q[1] /\ \A i \in 1 .. Len(r) : r[i] = q[i + 1]
OBVIOUS

LEMMA AppendOther ==
    ASSUME NEW q \in Seq(Message), NEW m \in Message, NEW d, m.kind # d, NEW r, r = Append(q, m)
    PROVE  /\ Answered(r, d) <=> Answered(q, d)
           /\ Ended(r, d) <=> Ended(q, d)
           /\ OneAnswer(q, d) => OneAnswer(r, d)
           /\ OneDone(q, d) => OneDone(r, d)
<1>1. /\ Len(r) \in Nat /\ Len(q) \in Nat /\ Len(r) = Len(q) + 1
      /\ r[Len(r)] = m /\ \A i \in 1 .. Len(q) : r[i] = q[i]
  BY AppendAt
<1>2. \A i \in 1 .. Len(r) : r[i].kind = d => i \in 1 .. Len(q) /\ r[i] = q[i]
  BY <1>1
<1>3. \A i \in 1 .. Len(q) : i \in 1 .. Len(r) /\ r[i] = q[i]
  BY <1>1
<1> QED
  BY <1>2, <1>3 DEF Answered, Ended, OneAnswer, OneDone

LEMMA AppendMine ==
    ASSUME NEW q \in Seq(Message), NEW m \in Message, NEW d, m.kind = d, NEW r, r = Append(q, m)
    PROVE  /\ Answered(r, d)
           /\ Ended(r, d) <=> (Ended(q, d) \/ ~m.inMonitor)
           /\ ~Answered(q, d) => OneAnswer(r, d) /\ OneDone(r, d)
           /\ ~(m.bytes > 0) /\ OneDone(q, d) => OneDone(r, d)
<1>1. /\ Len(r) \in Nat /\ Len(q) \in Nat /\ Len(r) = Len(q) + 1
      /\ r[Len(r)] = m /\ \A i \in 1 .. Len(q) : r[i] = q[i]
  BY AppendAt
<1>2. \A i \in 1 .. Len(r) : (i \in 1 .. Len(q) /\ r[i] = q[i]) \/ (i = Len(r) /\ r[i] = m)
  BY <1>1
<1>3. \A i \in 1 .. Len(q) : i \in 1 .. Len(r) /\ r[i] = q[i]
  BY <1>1
<1>4. Len(r) \in 1 .. Len(r)
  BY <1>1
<1>5. Answered(r, d) /\ (Ended(r, d) <=> (Ended(q, d) \/ ~m.inMonitor))
  BY <1>1, <1>2, <1>3, <1>4 DEF Answered, Ended
<1>6. ~Answered(q, d) => OneAnswer(r, d) /\ OneDone(r, d)
  BY <1>2 DEF Answered, OneAnswer, OneDone
<1>7. ~(m.bytes > 0) /\ OneDone(q, d) => OneDone(r, d)
  BY <1>2 DEF OneDone
<1> QED
  BY <1>5, <1>6, <1>7

LEMMA TailOther ==
    ASSUME NEW q \in Seq(Message), q # <<>>, NEW d, Head(q).kind # d, NEW r, r = Tail(q)
    PROVE  /\ Answered(r, d) <=> Answered(q, d)
           /\ Ended(r, d) <=> Ended(q, d)
           /\ OneAnswer(q, d) => OneAnswer(r, d)
           /\ OneDone(q, d) => OneDone(r, d)
<1>1. /\ Len(r) \in Nat /\ Len(q) \in Nat /\ Len(q) = Len(r) + 1
      /\ Head(q) = q[1] /\ \A i \in 1 .. Len(r) : r[i] = q[i + 1]
  BY TailAt
<1>2. \A i \in 1 .. Len(r) : i + 1 \in 1 .. Len(q) /\ r[i] = q[i + 1]
  BY <1>1
<1>3. \A i \in 1 .. Len(q) : q[i].kind = d => i - 1 \in 1 .. Len(r) /\ r[i - 1] = q[i]
  <2> SUFFICES ASSUME NEW i \in 1 .. Len(q), q[i].kind = d
               PROVE  i - 1 \in 1 .. Len(r) /\ r[i - 1] = q[i]
    OBVIOUS
  <2>1. i # 1
    BY <1>1
  <2>2. i - 1 \in 1 .. Len(r) /\ (i - 1) + 1 = i
    BY <1>1, <2>1
  <2> QED
    BY <1>1, <2>2
<1>4. (Answered(r, d) <=> Answered(q, d)) /\ (Ended(r, d) <=> Ended(q, d))
  <2>1. Answered(r, d) => Answered(q, d)
    BY <1>2 DEF Answered
  <2>2. Answered(q, d) => Answered(r, d)
    BY <1>3 DEF Answered
  <2>3. Ended(r, d) => Ended(q, d)
    BY <1>2 DEF Ended
  <2>4. Ended(q, d) => Ended(r, d)
    BY <1>3 DEF Ended
  <2> QED
    BY <2>1, <2>2, <2>3, <2>4
<1>5. \A i, j \in 1 .. Len(r) : i + 1 = j + 1 => i = j
  BY <1>1
<1>6. (OneAnswer(q, d) => OneAnswer(r, d)) /\ (OneDone(q, d) => OneDone(r, d))
  BY <1>2, <1>5 DEF OneAnswer, OneDone
<1> QED
  BY <1>4, <1>6

LEMMA TailMine ==
    ASSUME NEW q \in Seq(Message), q # <<>>, NEW d, Head(q).kind = d, NEW r, r = Tail(q)
    PROVE  /\ Answered(q, d)
           /\ ~Head(q).inMonitor => Ended(q, d)
           /\ OneAnswer(q, d) => /\ ~Answered(r, d) /\ OneAnswer(r, d) /\ ~Ended(r, d)
                                 /\ Ended(q, d) => ~Head(q).inMonitor
           /\ OneDone(q, d) => OneDone(r, d)
           /\ Ended(r, d) => Ended(q, d)
           /\ Answered(r, d) => Answered(q, d)
<1>1. /\ Len(r) \in Nat /\ Len(q) \in Nat /\ Len(q) = Len(r) + 1
      /\ Head(q) = q[1] /\ \A i \in 1 .. Len(r) : r[i] = q[i + 1]
  BY TailAt
<1>2. 1 \in 1 .. Len(q) /\ \A i \in 1 .. Len(r) : i + 1 \in 1 .. Len(q) /\ r[i] = q[i + 1] /\ i + 1 # 1
  BY <1>1
<1>3. \A i, j \in 1 .. Len(r) : i + 1 = j + 1 => i = j
  BY <1>1
<1>4. Answered(q, d) /\ (~Head(q).inMonitor => Ended(q, d))
  BY <1>1, <1>2 DEF Answered, Ended
<1>5. OneAnswer(q, d) => ~Answered(r, d) /\ ~Ended(r, d) /\ OneAnswer(r, d)
  BY <1>1, <1>2 DEF Answered, Ended, OneAnswer
<1>6. OneAnswer(q, d) /\ Ended(q, d) => ~Head(q).inMonitor
  BY <1>1, <1>2 DEF Ended, OneAnswer
<1>7. OneDone(q, d) => OneDone(r, d)
  BY <1>2, <1>3 DEF OneDone
<1>8. (Ended(r, d) => Ended(q, d)) /\ (Answered(r, d) => Answered(q, d))
  BY <1>2 DEF Ended, Answered
<1> QED
  BY <1>4, <1>5, <1>6, <1>7, <1>8

LEMMA AppendWord ==
    ASSUME NEW b \in Seq(Word), NEW w \in Word, NEW r, r = Append(b, w)
    PROVE  /\ \A v \in Word : Holds(r, v) <=> (Holds(b, v) \/ v = w)
           /\ w # "post" /\ OnePost(b) => OnePost(r)
           /\ ~Holds(b, "post") => OnePost(r)
           /\ w # "post" /\ CancelIsLast(b) => CancelIsLast(r)
           /\ ~Holds(b, "cancel") => CancelIsLast(r)
<1>1. /\ Len(r) \in Nat /\ Len(b) \in Nat /\ Len(r) = Len(b) + 1
      /\ r[Len(r)] = w /\ \A i \in 1 .. Len(b) : r[i] = b[i]
  BY AppendAt
<1>2. \A i \in 1 .. Len(r) : (i \in 1 .. Len(b) /\ r[i] = b[i]) \/ (i = Len(r) /\ r[i] = w)
  BY <1>1
<1>3. \A i \in 1 .. Len(b) : i \in 1 .. Len(r) /\ r[i] = b[i]
  BY <1>1
<1>4. Len(r) \in 1 .. Len(r)
  BY <1>1
<1>5. \A v \in Word : Holds(r, v) <=> (Holds(b, v) \/ v = w)
  BY <1>1, <1>2, <1>3, <1>4 DEF Holds
<1>6. (w # "post" /\ OnePost(b) => OnePost(r)) /\ (~Holds(b, "post") => OnePost(r))
  BY <1>2 DEF OnePost, Holds
<1>7. \A i, j \in 1 .. Len(r) : i < j => i \in 1 .. Len(b) /\ r[i] = b[i]
  BY <1>1
<1>8. w # "post" /\ CancelIsLast(b) => CancelIsLast(r)
  <2> SUFFICES ASSUME w # "post", CancelIsLast(b), NEW i \in 1 .. Len(r), NEW j \in 1 .. Len(r),
                      i < j, r[i] = "cancel"
               PROVE  r[j] # "post"
    BY DEF CancelIsLast
  <2>1. i \in 1 .. Len(b) /\ b[i] = "cancel"
    BY <1>7
  <2>2. (j \in 1 .. Len(b) /\ r[j] = b[j]) \/ r[j] = w
    BY <1>2
  <2> QED
    BY <2>1, <2>2 DEF CancelIsLast
<1>9. ~Holds(b, "cancel") => CancelIsLast(r)
  BY <1>7 DEF Holds, CancelIsLast
<1> QED
  BY <1>5, <1>6, <1>8, <1>9

LEMMA TailWord ==
    ASSUME NEW b \in Seq(Word), b # <<>>, NEW r, r = Tail(b)
    PROVE  /\ Holds(b, Head(b))
           /\ \A v \in Word : Holds(r, v) => Holds(b, v)
           /\ \A v \in Word : Holds(b, v) /\ Head(b) # v => Holds(r, v)
           /\ OnePost(b) => OnePost(r) /\ (Head(b) = "post" => ~Holds(r, "post"))
           /\ CancelIsLast(b) => CancelIsLast(r) /\ (Head(b) = "cancel" => ~Holds(r, "post"))
<1>1. /\ Len(r) \in Nat /\ Len(b) \in Nat /\ Len(b) = Len(r) + 1
      /\ Head(b) = b[1] /\ \A i \in 1 .. Len(r) : r[i] = b[i + 1]
  BY TailAt
<1>2. 1 \in 1 .. Len(b) /\ \A i \in 1 .. Len(r) : i + 1 \in 1 .. Len(b) /\ r[i] = b[i + 1] /\ 1 < i + 1 /\ i + 1 # 1
  BY <1>1
<1>3. \A i, j \in 1 .. Len(r) : (i + 1 = j + 1 => i = j) /\ (i < j => i + 1 < j + 1)
  BY <1>1
<1>4. \A i \in 1 .. Len(b) : i = 1 \/ (i - 1 \in 1 .. Len(r) /\ r[i - 1] = b[i])
  <2> SUFFICES ASSUME NEW i \in 1 .. Len(b), i # 1
               PROVE  i - 1 \in 1 .. Len(r) /\ r[i - 1] = b[i]
    OBVIOUS
  <2>1. i - 1 \in 1 .. Len(r) /\ (i - 1) + 1 = i
    BY <1>1
  <2> QED
    BY <1>1, <2>1
<1>5. Holds(b, Head(b)) /\ \A v \in Word : Holds(r, v) => Holds(b, v)
  BY <1>1, <1>2 DEF Holds
<1>6. \A v \in Word : Holds(b, v) /\ Head(b) # v => Holds(r, v)
  BY <1>1, <1>4 DEF Holds
<1>7. OnePost(b) => OnePost(r) /\ (Head(b) = "post" => ~Holds(r, "post"))
  BY <1>1, <1>2, <1>3 DEF OnePost, Holds
<1>8. CancelIsLast(b) => CancelIsLast(r) /\ (Head(b) = "cancel" => ~Holds(r, "post"))
  BY <1>1, <1>2, <1>3 DEF CancelIsLast, Holds
<1> QED
  BY <1>5, <1>6, <1>7, <1>8

-----------------------------------------------------------------------------
(* One direction of a live session: the io posted is in the mailbox or     *)
(* with the transfer, or its answer waits, never two of these; and what an *)
(* end of the stream or a cancel leaves of that.                           *)
Side(d, st, i, b, q, p, c, mk) ==
    /\ Holds(b, "post") \/ i = "posted" => p /\ ~Answered(q, d) /\ st # "none"
    /\ OnePost(b) /\ CancelIsLast(b) /\ ~(Holds(b, "post") /\ i = "posted")
    /\ p => Holds(b, "post") \/ i = "posted" \/ Answered(q, d)
    /\ ~Holds(b, "quiet") /\ (Holds(b, "cancel") => c /\ mk)
    /\ st = "none" /\ ~c => Ended(q, d)
    /\ ~c => OneAnswer(q, d) /\ (Answered(q, d) => p)
    /\ OneDone(q, d)
    /\ c /\ (p \/ Answered(q, d)) => mk
    /\ d = "send" => (c => mk) /\ (Ended(q, d) => c)

LEMMA SideNew ==
    ASSUME NEW d, NEW st, st # "none", NEW i, i # "posted", NEW mk
    PROVE  Side(d, st, i, <<>>, <<>>, FALSE, FALSE, mk)
<1>1. Len(<<>>) = 0 /\ 1 .. 0 = {}
  OBVIOUS
<1>2. /\ \A w : ~Holds(<<>>, w)
      /\ OnePost(<<>>) /\ CancelIsLast(<<>>)
      /\ ~Answered(<<>>, d) /\ ~Ended(<<>>, d) /\ OneAnswer(<<>>, d) /\ OneDone(<<>>, d)
  BY <1>1 DEF Holds, OnePost, CancelIsLast, Answered, Ended, OneAnswer, OneDone
<1> QED
  BY <1>2 DEF Side

(* Nothing the direction knows of changes, but the session may be closed.  *)
LEMMA SideStays ==
    ASSUME NEW d, NEW st, NEW i, NEW b, NEW q, NEW p, NEW c, NEW mk,
           Side(d, st, i, b, q, p, c, mk),
           NEW r, NEW mk2, mk => mk2,
           Answered(r, d) <=> Answered(q, d), Ended(r, d) <=> Ended(q, d),
           OneAnswer(q, d) => OneAnswer(r, d), OneDone(q, d) => OneDone(r, d)
    PROVE  Side(d, st, i, b, r, p, c, mk2)
BY DEF Side

LEMMA SideReady ==
    ASSUME NEW d, NEW st, NEW i, NEW b \in Seq(Word), NEW q, NEW p, NEW c, NEW mk,
           Side(d, st, i, b, q, p, c, mk), NEW r, r = Append(b, "ready")
    PROVE  Side(d, st, i, r, q, p, c, mk)
<1>1. "ready" \in Word /\ "post" \in Word /\ "cancel" \in Word /\ "quiet" \in Word
  BY DEF Word
<1>2. /\ \A v \in Word : Holds(r, v) <=> (Holds(b, v) \/ v = "ready")
      /\ OnePost(b) => OnePost(r)
      /\ CancelIsLast(b) => CancelIsLast(r)
  BY <1>1, AppendWord
<1>3. /\ Holds(r, "post") <=> Holds(b, "post")
      /\ Holds(r, "cancel") <=> Holds(b, "cancel")
      /\ Holds(r, "quiet") <=> Holds(b, "quiet")
  BY <1>1, <1>2
<1> QED
  BY <1>2, <1>3 DEF Side

LEMMA SidePost ==
    ASSUME NEW d, NEW st, NEW i, NEW b \in Seq(Word), NEW q, NEW p, NEW c, NEW mk,
           Side(d, st, i, b, q, p, c, mk), ~p, ~c, NEW r, r = Append(b, "post")
    PROVE  Side(d, st, i, r, q, TRUE, c, mk)
<1>1. "post" \in Word /\ "cancel" \in Word /\ "quiet" \in Word
  BY DEF Word
<1>2. /\ \A v \in Word : Holds(r, v) <=> (Holds(b, v) \/ v = "post")
      /\ ~Holds(b, "post") => OnePost(r)
      /\ ~Holds(b, "cancel") => CancelIsLast(r)
  BY <1>1, AppendWord
<1>3. /\ Holds(r, "post")
      /\ Holds(r, "cancel") <=> Holds(b, "cancel")
      /\ Holds(r, "quiet") <=> Holds(b, "quiet")
  BY <1>1, <1>2
<1>4. /\ ~Holds(b, "post") /\ i # "posted" /\ ~Holds(b, "cancel")
      /\ ~Answered(q, d) /\ ~Ended(q, d)
  BY DEF Side, Answered, Ended
<1> QED
  BY <1>2, <1>3, <1>4 DEF Side

LEMMA SideCancel ==
    ASSUME NEW d, NEW st, NEW i, NEW b \in Seq(Word), NEW q, NEW p, NEW c, NEW mk,
           Side(d, st, i, b, q, p, c, mk), NEW r, r = IF c THEN b ELSE Append(b, "cancel")
    PROVE  Side(d, st, i, r, q, p, TRUE, TRUE)
<1>1. CASE c
  BY <1>1 DEF Side
<1>2. CASE ~c
  <2>1. "post" \in Word /\ "cancel" \in Word /\ "quiet" \in Word /\ r = Append(b, "cancel")
    BY <1>2 DEF Word
  <2>2. /\ \A v \in Word : Holds(r, v) <=> (Holds(b, v) \/ v = "cancel")
        /\ OnePost(b) => OnePost(r)
        /\ CancelIsLast(b) => CancelIsLast(r)
    BY <2>1, AppendWord
  <2>3. /\ Holds(r, "post") <=> Holds(b, "post")
        /\ Holds(r, "quiet") <=> Holds(b, "quiet")
    BY <2>1, <2>2
  <2> QED
    BY <1>2, <2>2, <2>3 DEF Side
<1> QED
  BY <1>1, <1>2

(* The dispatcher handles an answer whose io succeeded.                    *)
LEMMA SideSucceeded ==
    ASSUME NEW d, NEW st, NEW i, NEW b, NEW q \in Seq(Message), NEW p, NEW c,
           Side(d, st, i, b, q, p, c, FALSE),
           q # <<>>, NEW m, m = Head(q), m.kind = d, m.inMonitor <=> m.bytes > 0,
           m.bytes > 0,
           NEW r, r = Tail(q)
    PROVE  ~c /\ Side(d, st, i, b, r, FALSE, c, FALSE)
<1>1. /\ Answered(q, d)
      /\ OneAnswer(q, d) => /\ ~Answered(r, d) /\ OneAnswer(r, d) /\ ~Ended(r, d)
                            /\ Ended(q, d) => ~m.inMonitor
      /\ OneDone(q, d) => OneDone(r, d)
  BY TailMine
<1>2. ~c /\ OneAnswer(q, d)
  BY <1>1 DEF Side
<1> QED
  BY <1>1, <1>2 DEF Side

(* The transfer takes an event or an io from the mailbox.                  *)
LEMMA SideEvent ==
    ASSUME NEW d, NEW st, NEW i, NEW b \in Seq(Word), NEW q, NEW p, NEW c, NEW mk,
           Side(d, st, i, b, q, p, c, mk),
           b # <<>>, Head(b) = "ready", NEW r, r = Tail(b),
           NEW st2, st2 = "none" <=> st = "none"
    PROVE  Side(d, st2, i, r, q, p, c, mk)
<1>1. "post" \in Word /\ "cancel" \in Word /\ "quiet" \in Word
  BY DEF Word
<1>2. /\ \A v \in Word : Holds(r, v) => Holds(b, v)
      /\ \A v \in Word : Holds(b, v) /\ Head(b) # v => Holds(r, v)
      /\ OnePost(b) => OnePost(r)
      /\ CancelIsLast(b) => CancelIsLast(r)
  BY TailWord
<1>3. /\ Holds(r, "post") <=> Holds(b, "post")
      /\ Holds(r, "cancel") => Holds(b, "cancel")
      /\ Holds(r, "quiet") => Holds(b, "quiet")
  BY <1>1, <1>2
<1> QED
  BY <1>2, <1>3 DEF Side

LEMMA SideTaken ==
    ASSUME NEW d, NEW st, NEW i, NEW b \in Seq(Word), NEW q, NEW p, NEW c, NEW mk,
           Side(d, st, i, b, q, p, c, mk),
           b # <<>>, Head(b) = "post", NEW r, r = Tail(b), NEW st2, st2 # "none"
    PROVE  st # "none" /\ Side(d, st2, "posted", r, q, p, c, mk)
<1>1. "post" \in Word /\ "cancel" \in Word /\ "quiet" \in Word
  BY DEF Word
<1>2. /\ Holds(b, "post")
      /\ \A v \in Word : Holds(r, v) => Holds(b, v)
      /\ OnePost(b) => OnePost(r) /\ ~Holds(r, "post")
      /\ CancelIsLast(b) => CancelIsLast(r)
  BY TailWord
<1>3. /\ Holds(r, "cancel") => Holds(b, "cancel")
      /\ Holds(r, "quiet") => Holds(b, "quiet")
  BY <1>1, <1>2
<1> QED
  BY <1>2, <1>3 DEF Side

(* What the transfer may answer when the peer ends in order.               *)
Reply(d, m) ==
    /\ m \in Message /\ m.kind = d
    /\ m.inMonitor <=> m.bytes > 0
    /\ d = "send" => m.inMonitor

LEMMA SideDone ==
    ASSUME NEW d, NEW st, NEW i, NEW b \in Seq(Word), NEW q \in Seq(Message), NEW p, NEW c, NEW mk,
           Side(d, st, i, b, q, p, c, mk),
           b # <<>>, NEW r, r = Tail(b), Head(b) = "post" \/ (Head(b) = "ready" /\ i = "posted"),
           NEW m, Reply(d, m), NEW a, a = Append(q, m), NEW st2, m.inMonitor => st2 # "none"
    PROVE  Side(d, st2, "none", r, a, p, c, mk)
<1>1. "post" \in Word /\ "cancel" \in Word /\ "quiet" \in Word
  BY DEF Word
<1>2. /\ Holds(b, Head(b))
      /\ \A v \in Word : Holds(r, v) => Holds(b, v)
      /\ OnePost(b) => OnePost(r) /\ (Head(b) = "post" => ~Holds(r, "post"))
      /\ CancelIsLast(b) => CancelIsLast(r)
  BY TailWord
<1>3. /\ Holds(r, "cancel") => Holds(b, "cancel")
      /\ Holds(r, "quiet") => Holds(b, "quiet")
      /\ Holds(r, "post") => Holds(b, "post")
  BY <1>1, <1>2
<1>4. /\ Answered(a, d)
      /\ Ended(a, d) <=> (Ended(q, d) \/ ~m.inMonitor)
      /\ ~Answered(q, d) => OneAnswer(a, d) /\ OneDone(a, d)
  BY AppendMine DEF Reply
<1>5. p /\ ~Answered(q, d) /\ ~Holds(r, "post") /\ ~Ended(q, d)
  BY <1>2, <1>3 DEF Side, Answered, Ended
<1> QED
  BY <1>2, <1>3, <1>4, <1>5 DEF Side, Reply

LEMMA SideCanceled ==
    ASSUME NEW d \in Dirs, NEW st, NEW i, NEW b \in Seq(Word), NEW q \in Seq(Message),
           NEW p, NEW c, NEW mk,
           Side(d, st, i, b, q, p, c, mk),
           b # <<>>, NEW r, r = Tail(b), Head(b) = "cancel",
           NEW i2, i2 = IF st = "none" THEN i ELSE "none",
           NEW a, a = IF st # "none" THEN Append(q, End(d)) ELSE q
    PROVE  Side(d, "none", i2, r, a, p, c, mk)
<1>1. "post" \in Word /\ "cancel" \in Word /\ "quiet" \in Word
  BY DEF Word
<1>2. /\ Holds(b, "cancel")
      /\ \A v \in Word : Holds(r, v) => Holds(b, v)
      /\ OnePost(b) => OnePost(r)
      /\ CancelIsLast(b) => CancelIsLast(r) /\ ~Holds(r, "post")
  BY TailWord
<1>3. /\ Holds(r, "quiet") => Holds(b, "quiet")
  BY <1>1, <1>2
<1>4. c /\ mk /\ ~Holds(r, "post") /\ i2 # "posted"
  BY <1>2 DEF Side
<1>5. CASE st = "none"
  BY <1>2, <1>3, <1>4, <1>5 DEF Side
<1>6. CASE st # "none"
  <2>1. End(d) \in Message /\ End(d).kind = d /\ ~End(d).inMonitor /\ ~(End(d).bytes > 0)
    BY ReportIs DEF End
  <2>2. /\ Answered(a, d)
        /\ Ended(a, d) <=> (Ended(q, d) \/ ~End(d).inMonitor)
        /\ OneDone(q, d) => OneDone(a, d)
    BY <1>6, <2>1, AppendMine
  <2> QED
    BY <1>2, <1>3, <1>4, <2>2 DEF Side
<1> QED
  BY <1>5, <1>6

-----------------------------------------------------------------------------
(* A peer that ends its sessions in order: without a reset, and not while  *)
(* the socket holds data.  (A thread of the transfer that meets both has   *)
(* two messages for one io.)                                               *)
Orderly == "burst" \notin Env /\ "reset" \notin Env

(* Then neither errors nor second messages come up.                        *)
Calm ==
    /\ ~broken /\ edges \subseteq {"in", "out"} /\ failing = Both(FALSE)
    /\ fin => avail = 0

(* Messages of an io, which say the end of the stream by having no bytes.  *)
OfIos(q) ==
    \A i \in 1 .. Len(q) : q[i].kind # "connected" /\ (q[i].inMonitor <=> q[i].bytes > 0)

(* Where messages, places and the shutdown are in the life of the session. *)
Course ==
    /\ dpc \notin {"timers", "handle"} => batch = <<>>
    /\ life = "none" => Messages = <<>>
    /\ life = "coming" => Messages = <<[kind |-> "connected"]>> /\ \A d \in Dirs : status[d] = "idle"
    /\ life \in {"none", "coming"} =>
           /\ ~registered /\ edges = {} /\ ~s.toRemove
           /\ \A d \in Dirs : box[d] = <<>> /\ io[d] # "posted"
    /\ life \notin {"none", "coming"} => OfIos(Messages)
    /\ life = "closed" => ~poolWorking
    /\ last \/ dpc \in {"last", "cancel", "finish", "end"} => ~poolWorking
    /\ \A d \in Dirs : s.toPost[d] => ~s.canceled[d] /\ life = "alive"
    /\ s.toPost["recv"] => ~s.post["recv"]

Held ==
    /\ life = "alive" =>
           \A d \in Dirs :
               Side(d, status[d], io[d], box[d], Messages, s.post[d], s.canceled[d], s.mask)
    /\ life = "freed" /\ poolWorking =>
           \A d \in Dirs : ~Holds(box[d], "post") /\ io[d] # "posted"

Ordered == Calm /\ Course /\ Held

LEMMA MessagesTyped == ASSUME Shape PROVE Messages \in Seq(Message)
BY DEF Shape, Messages

LEMMA MessagesAppend ==
    ASSUME Shape, NEW m \in Message, inbox' = Append(inbox, m), batch' = batch
    PROVE  Messages' = Append(Messages, m)
BY DEF Shape, Messages

LEMMA MessagesTail ==
    ASSUME Shape, batch # <<>>, batch' = Tail(batch), inbox' = inbox
    PROVE  Messages # <<>> /\ Head(Messages) = Head(batch) /\ Messages' = Tail(Messages)
BY DEF Shape, Messages

LEMMA MessagesSwap ==
    ASSUME Shape, batch = <<>>, batch' = inbox, inbox' = <<>>
    PROVE  Messages' = Messages
BY DEF Shape, Messages

LEMMA NoneHeld == \A w : ~Holds(<<>>, w)
BY DEF Holds

LEMMA InitOrdered == Init => Ordered
<1> SUFFICES ASSUME Init PROVE Ordered
  OBVIOUS
<1>1. Messages = <<>>
  BY DEF Init, Messages
<1>2. Calm
  BY DEF Init, Calm
<1>3. Course
  <2>1. /\ \A d \in Dirs : box[d] = <<>> /\ io[d] # "posted"
        /\ \A d \in Dirs : ~s.toPost[d]
        /\ ~s.toRemove
    BY DEF Init, NewSession, Both
  <2>2. /\ life = "none" /\ dpc = "wait" /\ batch = <<>> /\ ~registered /\ edges = {} /\ ~last
        /\ "recv" \in Dirs
    BY DEF Init, Dirs
  <2> QED
    BY <1>1, <2>1, <2>2 DEF Course
<1>4. Held
  BY DEF Init, Held
<1> QED
  BY <1>2, <1>3, <1>4 DEF Ordered

(* What one turn of a thread of the transfer does when all is calm.        *)
Turn(d) ==
    \/ /\ Head(box[d]) = "ready" /\ inbox' = inbox /\ io'[d] = io[d]
       /\ status'[d] = "none" <=> status[d] = "none"
    \/ /\ Head(box[d]) = "post" /\ inbox' = inbox
       /\ \/ status[d] = "none" /\ status'[d] = "none" /\ io'[d] = io[d]
          \/ status[d] # "none" /\ status'[d] # "none" /\ io'[d] = "posted"
    \/ \E m : /\ Reply(d, m) /\ inbox' = Append(inbox, m)
              /\ Head(box[d]) = "post" \/ (Head(box[d]) = "ready" /\ io[d] = "posted")
              /\ io'[d] = "none" /\ (m.inMonitor => status'[d] # "none")
    \/ /\ Head(box[d]) = "cancel" /\ status'[d] = "none"
       /\ io'[d] = IF status[d] = "none" THEN io[d] ELSE "none"
       /\ inbox' = IF status[d] # "none" THEN Append(inbox, End(d)) ELSE inbox
    \/ /\ Head(box[d]) = "quiet" /\ inbox' = inbox
       /\ io'[d] = io[d] \/ io'[d] = "none"

LEMMA IoIs ==
    ASSUME Shape, Calm, NEW d \in Dirs, DoIo(d)
    PROVE  /\ failing' = failing /\ (fin => avail' = 0) /\ UNCHANGED <<arrived, fin, broken>>
           /\ \A e \in Dirs \ {d} : status'[e] = status[e] /\ io'[e] = io[e]
           /\ \/ inbox' = inbox /\ io'[d] = "posted" /\ status'[d] # "none"
              \/ \E m : /\ Reply(d, m) /\ inbox' = Append(inbox, m)
                        /\ io'[d] = "none" /\ (m.inMonitor => status'[d] # "none")
<1>1. PICK o \in Outcomes(d) :
        /\ inbox' = inbox \o FirstReport(d, o)
        /\ failing' = [failing EXCEPT ![d] = o.bytes > 0 /\ o.end = "closed"]
        /\ io' = [io EXCEPT ![d] = IF o.bytes > 0 \/ o.end = "closed" THEN "none" ELSE "posted"]
        /\ status' = [status EXCEPT ![d] = CASE o.end = "again" -> "idle"
                                             [] o.end = "closed" /\ o.bytes = 0 -> "none"
                                             [] OTHER -> "ready"]
        /\ IF d = "recv"
           THEN avail' = avail - o.bytes /\ UNCHANGED full
           ELSE full' = (full \/ o.end = "again") /\ UNCHANGED avail
        /\ UNCHANGED <<arrived, fin, broken>>
  BY DEF DoIo
<1>2. /\ o.bytes \in Nat /\ o.end \in {"again", "stop", "closed"}
      /\ d = "recv" => o.bytes <= avail /\ (o.end = "closed" => fin /\ o.bytes = avail)
      /\ d = "send" => o.end # "closed"
  <2>1. CASE d = "recv"
    <3>1. /\ o \in [bytes : 0 .. avail, end : {"again", "stop", "closed"}]
          /\ CASE o.end = "again" -> o.bytes = avail /\ ~fin /\ ~broken
               [] o.end = "stop" -> o.bytes > 0
               [] o.end = "closed" -> broken \/ (fin /\ o.bytes = avail)
      BY <2>1 DEF Outcomes
    <3>2. o.bytes \in 0 .. avail /\ o.end \in {"again", "stop", "closed"} /\ avail \in Nat
      BY <3>1 DEF Shape
    <3>3. o.end = "closed" => fin /\ o.bytes = avail
      BY <3>1 DEF Calm
    <3> QED
      BY <2>1, <3>2, <3>3
  <2>2. CASE d = "send"
    <3>1. /\ o \in [bytes : 0 .. s.len, end : {"again", "stop", "closed"}]
          /\ CASE o.end = "again" -> ~broken /\ o.bytes < s.len /\ (full => o.bytes = 0)
               [] o.end = "stop" -> ~broken /\ ~full /\ o.bytes = s.len
               [] o.end = "closed" -> broken /\ o.bytes < s.len
      BY <2>2 DEF Outcomes
    <3>2. o.bytes \in 0 .. s.len /\ o.end \in {"again", "stop", "closed"} /\ s.len \in Int
      BY <3>1 DEF Shape, Fields
    <3>3. o.end # "closed"
      BY <3>1 DEF Calm
    <3> QED
      BY <2>2, <3>2, <3>3
  <2> QED
    BY <2>1, <2>2 DEF Dirs
<1>3. o.end = "closed" => o.bytes = 0 /\ d = "recv"
  BY <1>2 DEF Calm, Dirs
<1>4. failing' = failing
  <2>1. (o.bytes > 0 /\ o.end = "closed") = FALSE
    BY <1>2, <1>3
  <2> QED
    BY <1>1, <2>1 DEF Calm, Both
<1>5. fin => avail' = 0
  BY <1>1, <1>2 DEF Calm, Shape
<1>6. /\ \A e \in Dirs \ {d} : status'[e] = status[e] /\ io'[e] = io[e]
      /\ io'[d] = IF o.bytes > 0 \/ o.end = "closed" THEN "none" ELSE "posted"
      /\ status'[d] = CASE o.end = "again" -> "idle"
                        [] o.end = "closed" /\ o.bytes = 0 -> "none"
                        [] OTHER -> "ready"
  BY <1>1 DEF Shape
<1>7. inbox \in Seq(Message)
  BY DEF Shape
<1>8. CASE o.bytes > 0
  <2>1. PICK m : m = Data(d, o.bytes)
    OBVIOUS
  <2>2. m \in Message /\ m.kind = d /\ m.inMonitor /\ m.bytes > 0
    BY <1>2, <1>8, <2>1, ReportIs DEF Data
  <2>3. FirstReport(d, o) = <<m>>
    BY <1>2, <1>3, <1>8, <2>1 DEF FirstReport
  <2>4. inbox' = Append(inbox, m)
    BY <1>1, <1>7, <2>2, <2>3
  <2>5. io'[d] = "none" /\ status'[d] # "none"
    BY <1>2, <1>3, <1>6, <1>8
  <2> QED
    BY <1>1, <1>4, <1>5, <1>6, <2>2, <2>4, <2>5 DEF Reply
<1>9. CASE o.bytes = 0 /\ o.end = "closed"
  <2>1. PICK m : m = End(d)
    OBVIOUS
  <2>2. m \in Message /\ m.kind = d /\ ~m.inMonitor /\ ~(m.bytes > 0)
    BY <2>1, ReportIs DEF End
  <2>3. FirstReport(d, o) = <<m>>
    BY <1>2, <1>9, <2>1 DEF FirstReport
  <2>4. inbox' = Append(inbox, m)
    BY <1>1, <1>7, <2>2, <2>3
  <2>5. io'[d] = "none"
    BY <1>6, <1>9
  <2>6. d # "send"
    BY <1>3, <1>9
  <2> QED
    BY <1>1, <1>4, <1>5, <1>6, <2>2, <2>4, <2>5, <2>6 DEF Reply
<1>10. CASE o.bytes = 0 /\ o.end # "closed"
  <2>1. FirstReport(d, o) = <<>>
    BY <1>10 DEF FirstReport
  <2>2. inbox' = inbox
    BY <1>1, <1>7, <2>1
  <2>3. io'[d] = "posted" /\ status'[d] # "none"
    BY <1>6, <1>10
  <2> QED
    BY <1>1, <1>4, <1>5, <1>6, <2>2, <2>3
<1> QED
  BY <1>2, <1>8, <1>9, <1>10

LEMMA PollerIs ==
    ASSUME Shape, Calm, NEW d \in Dirs, Poller(d)
    PROVE  /\ box[d] # <<>> /\ box' = [box EXCEPT ![d] = Tail(@)]
           /\ UNCHANGED <<epollVars, frameVars, sessionVars, failing, arrived, fin, broken>>
           /\ fin => avail' = 0
           /\ \A e \in Dirs \ {d} : status'[e] = status[e] /\ io'[e] = io[e]
           /\ Turn(d)
<1>0. ~failing[d]
  BY DEF Calm, Both
<1>1. OnReady(d) \/ OnBePosted(d) \/ OnCancel(d, "cancel") \/ OnCancel(d, "quiet")
  BY <1>0 DEF Poller, Fail
<1>2. /\ box[d] # <<>> /\ box' = [box EXCEPT ![d] = Tail(@)]
      /\ UNCHANGED <<epollVars, frameVars, sessionVars>>
  BY <1>1 DEF OnReady, OnBePosted, OnCancel, Take
<1>3. CASE OnReady(d)
  <2>1. Head(box[d]) = "ready"
    BY <1>3 DEF OnReady, Take
  <2>2. CASE status[d] = "none" /\ UNCHANGED <<status, io, failing, inbox, peerVars>>
    BY <1>2, <2>1, <2>2 DEF Turn, Calm, peerVars
  <2>3. CASE status[d] # "none" /\ io[d] = "posted" /\ DoIo(d)
    <3>1. /\ failing' = failing /\ (fin => avail' = 0) /\ UNCHANGED <<arrived, fin, broken>>
          /\ \A e \in Dirs \ {d} : status'[e] = status[e] /\ io'[e] = io[e]
          /\ \/ inbox' = inbox /\ io'[d] = "posted" /\ status'[d] # "none"
             \/ \E m : /\ Reply(d, m) /\ inbox' = Append(inbox, m)
                       /\ io'[d] = "none" /\ (m.inMonitor => status'[d] # "none")
      BY <2>3, IoIs
    <3> QED
      BY <1>2, <2>1, <2>3, <3>1 DEF Turn
  <2>4. CASE /\ status[d] # "none" /\ io[d] # "posted"
             /\ status' = [status EXCEPT ![d] = "ready"]
             /\ UNCHANGED <<io, failing, inbox, peerVars>>
    <3>1. status'[d] = "ready" /\ \A e \in Dirs \ {d} : status'[e] = status[e]
      BY <2>4 DEF Shape
    <3> QED
      BY <1>2, <2>1, <2>4, <3>1 DEF Turn, Calm, peerVars
  <2> QED
    BY <1>3, <2>2, <2>3, <2>4 DEF OnReady
<1>4. CASE OnBePosted(d)
  <2>1. Head(box[d]) = "post"
    BY <1>4 DEF OnBePosted, Take
  <2>2. CASE status[d] = "none" /\ UNCHANGED <<status, io, failing, inbox, peerVars>>
    BY <1>2, <2>1, <2>2 DEF Turn, Calm, peerVars
  <2>3. CASE status[d] = "ready" /\ DoIo(d)
    <3>1. /\ failing' = failing /\ (fin => avail' = 0) /\ UNCHANGED <<arrived, fin, broken>>
          /\ \A e \in Dirs \ {d} : status'[e] = status[e] /\ io'[e] = io[e]
          /\ \/ inbox' = inbox /\ io'[d] = "posted" /\ status'[d] # "none"
             \/ \E m : /\ Reply(d, m) /\ inbox' = Append(inbox, m)
                       /\ io'[d] = "none" /\ (m.inMonitor => status'[d] # "none")
      BY <2>3, IoIs
    <3> QED
      BY <1>2, <2>1, <2>3, <3>1 DEF Turn
  <2>4. CASE /\ status[d] = "idle" /\ io' = [io EXCEPT ![d] = "posted"]
             /\ UNCHANGED <<status, failing, inbox, peerVars>>
    <3>1. io'[d] = "posted" /\ \A e \in Dirs \ {d} : io'[e] = io[e]
      BY <2>4 DEF Shape
    <3> QED
      BY <1>2, <2>1, <2>4, <3>1 DEF Turn, Calm, peerVars
  <2> QED
    BY <1>4, <2>2, <2>3, <2>4 DEF OnBePosted
<1>5. ASSUME NEW w \in {"cancel", "quiet"}, OnCancel(d, w)
      PROVE  /\ UNCHANGED <<failing, arrived, fin, broken>> /\ (fin => avail' = 0)
             /\ \A e \in Dirs \ {d} : status'[e] = status[e] /\ io'[e] = io[e]
             /\ Turn(d)
  <2>1. /\ Head(box[d]) = w /\ UNCHANGED <<failing, peerVars>>
        /\ status' = [status EXCEPT ![d] = "none"]
        /\ io' = [io EXCEPT ![d] = IF status[d] = "none" THEN @ ELSE "none"]
        /\ inbox' = IF status[d] # "none" /\ w = "cancel" THEN Append(inbox, End(d)) ELSE inbox
    BY <1>5 DEF OnCancel, Take
  <2>2. /\ status'[d] = "none" /\ io'[d] = IF status[d] = "none" THEN io[d] ELSE "none"
        /\ \A e \in Dirs \ {d} : status'[e] = status[e] /\ io'[e] = io[e]
    BY <2>1 DEF Shape
  <2>3. Turn(d)
    BY <1>5, <2>1, <2>2 DEF Turn
  <2> QED
    BY <2>1, <2>2, <2>3 DEF peerVars, Calm
<1> QED
  BY <1>1, <1>2, <1>3, <1>4, <1>5

LEMMA OfIosAppend ==
    ASSUME NEW q \in Seq(Message), OfIos(q), NEW m \in Message, m.kind # "connected",
           m.inMonitor <=> m.bytes > 0, NEW r, r = Append(q, m)
    PROVE  OfIos(r)
<1>1. \A i \in 1 .. Len(r) : (i \in 1 .. Len(q) /\ r[i] = q[i]) \/ r[i] = m
  <2>1. /\ Len(r) \in Nat /\ Len(q) \in Nat /\ Len(r) = Len(q) + 1
        /\ r[Len(r)] = m /\ \A i \in 1 .. Len(q) : r[i] = q[i]
    BY AppendAt
  <2> QED
    BY <2>1
<1> QED
  BY <1>1 DEF OfIos

LEMMA OfIosTail ==
    ASSUME NEW q \in Seq(Message), OfIos(q), q # <<>>, NEW r, r = Tail(q)
    PROVE  /\ OfIos(r)
           /\ Head(q).kind # "connected" /\ (Head(q).inMonitor <=> Head(q).bytes > 0)
<1>1. /\ Len(r) \in Nat /\ Len(q) \in Nat /\ Len(q) = Len(r) + 1
      /\ Head(q) = q[1] /\ \A i \in 1 .. Len(r) : r[i] = q[i + 1]
  BY TailAt
<1>2. 1 \in 1 .. Len(q) /\ \A i \in 1 .. Len(r) : i + 1 \in 1 .. Len(q) /\ r[i] = q[i + 1]
  BY <1>1
<1> QED
  BY <1>1, <1>2 DEF OfIos

LEMMA PollerOrdered ==
    ASSUME Shape, Ordered, NEW d \in Dirs, Poller(d)
    PROVE  Ordered'
<1>1. /\ box[d] # <<>> /\ box' = [box EXCEPT ![d] = Tail(@)]
      /\ UNCHANGED <<epollVars, frameVars, sessionVars, failing, arrived, fin, broken>>
      /\ fin => avail' = 0
      /\ \A e \in Dirs \ {d} : status'[e] = status[e] /\ io'[e] = io[e]
      /\ Turn(d)
  BY PollerIs DEF Ordered
<1>2. /\ box'[d] = Tail(box[d]) /\ (\A e \in Dirs \ {d} : box'[e] = box[e])
      /\ box[d] \in Seq(Word)
  BY <1>1 DEF Shape
<1>3. /\ dpc' = dpc /\ life' = life /\ s' = s /\ batch' = batch /\ last' = last
      /\ poolWorking' = poolWorking
  BY <1>1 DEF frameVars, sessionVars
<1>4. Calm'
  BY <1>1 DEF Ordered, Calm, epollVars
<1>5. life \notin {"none", "coming"} /\ OfIos(Messages) /\ Messages \in Seq(Message)
  BY <1>1, MessagesTyped DEF Ordered, Course
<1>6. \/ Messages' = Messages
      \/ \E m \in Message : /\ m.kind = d /\ (m.inMonitor <=> m.bytes > 0)
                            /\ Messages' = Append(Messages, m)
  <2>1. \/ inbox' = inbox
        \/ \E m \in Message : /\ m.kind = d /\ (m.inMonitor <=> m.bytes > 0)
                              /\ inbox' = Append(inbox, m)
    <3>1. End(d) \in Message /\ End(d).kind = d /\ (End(d).inMonitor <=> End(d).bytes > 0)
      BY ReportIs DEF End
    <3> QED
      BY <1>1, <3>1 DEF Turn, Reply
  <2>2. CASE inbox' = inbox
    BY <1>3, <2>2 DEF Messages
  <2> QED
    BY <1>3, <2>1, <2>2, MessagesAppend
<1>7. OfIos(Messages')
  BY <1>5, <1>6, OfIosAppend DEF Dirs
<1>8. Course'
  BY <1>1, <1>3, <1>5, <1>7 DEF Ordered, Course
<1>9. ASSUME life = "alive", NEW e \in Dirs
      PROVE  Side(e, status'[e], io'[e], box'[e], Messages', s.post[e], s.canceled[e], s.mask)
  <2>1. Side(e, status[e], io[e], box[e], Messages, s.post[e], s.canceled[e], s.mask)
    BY <1>9 DEF Ordered, Held
  <2>2. CASE e # d
    <3>1. Side(e, status[e], io[e], box[e], Messages', s.post[e], s.canceled[e], s.mask)
      <4>1. CASE Messages' = Messages
        BY <2>1, <4>1
      <4>2. ASSUME NEW m \in Message, m.kind = d, Messages' = Append(Messages, m)
            PROVE  Side(e, status[e], io[e], box[e], Messages', s.post[e], s.canceled[e], s.mask)
        <5>1. PICK q, a : q = Messages /\ a = Messages' /\ q \in Seq(Message) /\ a = Append(q, m)
          BY <1>5, <4>2
        <5>2. /\ Answered(a, e) <=> Answered(q, e)
              /\ Ended(a, e) <=> Ended(q, e)
              /\ OneAnswer(q, e) => OneAnswer(a, e)
              /\ OneDone(q, e) => OneDone(a, e)
          BY <2>2, <4>2, <5>1, AppendOther
        <5>3. Side(e, status[e], io[e], box[e], a, s.post[e], s.canceled[e], s.mask)
          BY <2>1, <5>1, <5>2, SideStays
        <5> QED
          BY <5>1, <5>3
      <4> QED
        BY <1>6, <4>1, <4>2
    <3> QED
      BY <1>1, <1>2, <2>2, <3>1
  <2>3. CASE e = d
    <3>1. PICK b, bt, q, a, st, st2, i, i2, p, c, mk :
             /\ b = box[d] /\ bt = box'[d] /\ q = Messages /\ a = Messages'
             /\ st = status[d] /\ st2 = status'[d] /\ i = io[d] /\ i2 = io'[d]
             /\ p = s.post[d] /\ c = s.canceled[d] /\ mk = s.mask
      OBVIOUS
    <3>2. /\ b \in Seq(Word) /\ b # <<>> /\ bt = Tail(b) /\ q \in Seq(Message)
          /\ Side(d, st, i, b, q, p, c, mk)
      BY <1>1, <1>2, <1>5, <2>1, <2>3, <3>1
    <3>3. inbox' = inbox => a = q
      BY <1>3, <3>1 DEF Messages
    <3>4. \A m \in Message : inbox' = Append(inbox, m) => a = Append(q, m)
      BY <1>3, <3>1, MessagesAppend
    <3>5. CASE /\ Head(b) = "ready" /\ inbox' = inbox /\ i2 = i /\ (st2 = "none" <=> st = "none")
      <4>1. Side(d, st2, i, bt, q, p, c, mk)
        BY <3>2, <3>5, SideEvent
      <4> QED
        BY <2>3, <3>1, <3>3, <3>5, <4>1
    <3>6. CASE /\ Head(b) = "post" /\ inbox' = inbox
               /\ \/ st = "none" /\ st2 = "none" /\ i2 = i
                  \/ st # "none" /\ st2 # "none" /\ i2 = "posted"
      <4>1. st # "none"
        <5>1. Holds(b, Head(b))
          BY <3>2, TailWord
        <5> QED
          BY <3>2, <3>6, <5>1 DEF Side
      <4>2. Side(d, st2, "posted", bt, q, p, c, mk)
        BY <3>2, <3>6, <4>1, SideTaken
      <4> QED
        BY <2>3, <3>1, <3>3, <3>6, <4>1, <4>2
    <3>7. ASSUME NEW m, Reply(d, m), inbox' = Append(inbox, m),
                 Head(b) = "post" \/ (Head(b) = "ready" /\ i = "posted"),
                 i2 = "none", m.inMonitor => st2 # "none"
          PROVE  Side(d, st2, i2, bt, a, p, c, mk)
      <4>1. a = Append(q, m)
        BY <3>4, <3>7 DEF Reply
      <4>2. Side(d, st2, "none", bt, a, p, c, mk)
        BY <3>2, <3>7, <4>1, SideDone
      <4> QED
        BY <3>7, <4>2
    <3>8. CASE /\ Head(b) = "cancel" /\ st2 = "none"
               /\ i2 = IF st = "none" THEN i ELSE "none"
               /\ inbox' = IF st # "none" THEN Append(inbox, End(d)) ELSE inbox
      <4>1. a = IF st # "none" THEN Append(q, End(d)) ELSE q
        BY <3>3, <3>4, <3>8, ReportIs
      <4>2. Side(d, "none", i2, bt, a, p, c, mk)
        BY <3>2, <3>8, <4>1, SideCanceled
      <4> QED
        BY <2>3, <3>1, <3>8, <4>2
    <3>9. Head(b) # "quiet"
      <4>1. Holds(b, Head(b))
        BY <3>2, TailWord
      <4> QED
        BY <3>2, <4>1 DEF Side
    <3>10. \/ Side(d, st2, i2, bt, a, p, c, mk)
           \/ /\ Head(b) = "ready" /\ inbox' = inbox /\ i2 = i /\ (st2 = "none" <=> st = "none")
           \/ /\ Head(b) = "post" /\ inbox' = inbox
              /\ \/ st = "none" /\ st2 = "none" /\ i2 = i
                 \/ st # "none" /\ st2 # "none" /\ i2 = "posted"
           \/ /\ Head(b) = "cancel" /\ st2 = "none"
              /\ i2 = IF st = "none" THEN i ELSE "none"
              /\ inbox' = IF st # "none" THEN Append(inbox, End(d)) ELSE inbox
      <4>1. Turn(d)
        BY <1>1
      <4> QED
        BY <3>1, <3>7, <3>9, <4>1 DEF Turn
    <3> QED
      BY <2>3, <3>1, <3>5, <3>6, <3>8, <3>10
  <2> QED
    BY <2>2, <2>3
<1>10. ASSUME life = "freed", poolWorking, NEW e \in Dirs
       PROVE  ~Holds(box'[e], "post") /\ io'[e] # "posted"
  <2>1. ~Holds(box[e], "post") /\ io[e] # "posted"
    BY <1>10 DEF Ordered, Held
  <2>2. CASE e # d
    BY <1>1, <1>2, <2>1, <2>2
  <2>3. CASE e = d
    <3>1. /\ Holds(box[d], Head(box[d]))
          /\ \A v \in Word : Holds(box'[d], v) => Holds(box[d], v)
      BY <1>1, <1>2, TailWord
    <3>2. Head(box[d]) # "post" /\ ~Holds(box'[d], "post")
      BY <2>1, <2>3, <3>1 DEF Word
    <3>3. io'[d] # "posted"
      BY <1>1, <2>1, <2>3, <3>2 DEF Turn
    <3> QED
      BY <2>3, <3>2, <3>3
  <2> QED
    BY <2>2, <2>3
<1>11. Held'
  BY <1>3, <1>9, <1>10 DEF Held
<1> QED
  BY <1>4, <1>8, <1>11 DEF Ordered

LEMMA PeerOrdered ==
    ASSUME Orderly, Shape, Ordered, PeerNext
    PROVE  Ordered'
<1>1. UNCHANGED <<registered, transferVars, inbox, frameVars, sessionVars>>
  BY DEF PeerNext, PeerSends, PeerCloses, PeerResets, PeerReads
<1>2. Messages' = Messages
  BY <1>1 DEF Messages, frameVars
<1>3. edges' = edges \/ (registered /\ edges' \subseteq edges \cup {"in", "out"})
  <2>1. PeerSends \/ PeerCloses \/ PeerReads
    BY DEF PeerNext, PeerResets, Orderly
  <2> QED
    BY <2>1 DEF PeerSends, PeerCloses, PeerReads, Edge
<1>4. ~broken' /\ (fin' => avail' = 0)
  <2>1. CASE PeerSends
    BY <2>1 DEF PeerSends, Ordered, Calm
  <2>2. CASE PeerCloses
    BY <2>2 DEF PeerCloses, Ordered, Calm, Orderly
  <2>3. CASE PeerReads
    BY <2>3 DEF PeerReads, Ordered, Calm
  <2> QED
    BY <2>1, <2>2, <2>3 DEF PeerNext, PeerResets, Orderly
<1>5. Calm'
  BY <1>1, <1>3, <1>4 DEF Ordered, Calm, transferVars
<1>6. Course'
  BY <1>1, <1>2, <1>3 DEF Ordered, Course, transferVars, frameVars, sessionVars
<1>7. Held'
  BY <1>1, <1>2 DEF Ordered, Held, transferVars, frameVars, sessionVars
<1> QED
  BY <1>5, <1>6, <1>7 DEF Ordered

LEMMA ConnectOrdered == ASSUME Shape, Ordered, WillConnect PROVE Ordered'
<1>1. /\ life = "none" /\ life' = "coming"
      /\ UNCHANGED <<peerVars, epollVars, failing, box, frameVars, s>>
      /\ inbox' = Append(inbox, [kind |-> "connected"])
      /\ status' = Both("idle") /\ io' = Both("null")
  BY DEF WillConnect
<1>2. Messages = <<>> /\ [kind |-> "connected"] \in Message
  BY <1>1 DEF Ordered, Course, Message
<1>3. Messages' = <<[kind |-> "connected"]>>
  <2>1. Messages' = Append(Messages, [kind |-> "connected"])
    BY <1>1, <1>2, MessagesAppend DEF frameVars
  <2> QED
    BY <1>2, <2>1
<1>4. Calm'
  BY <1>1 DEF Ordered, Calm, peerVars, epollVars
<1>5. \A d \in Dirs : status'[d] = "idle" /\ io'[d] # "posted"
  BY <1>1 DEF Both
<1>6. Course'
  BY <1>1, <1>3, <1>5 DEF Ordered, Course, epollVars, frameVars
<1>7. Held'
  BY <1>1 DEF Held
<1> QED
  BY <1>4, <1>6, <1>7 DEF Ordered

LEMMA DistributeOrdered == ASSUME Shape, Ordered, Distribute PROVE Ordered'
<1>1. /\ registered /\ edges' = {}
      /\ box' = [recv |-> box["recv"] \o If("in", "ready"),
                 send |-> box["send"] \o If("hupSend", "cancel") \o If("out", "ready")]
      /\ UNCHANGED <<peerVars, registered, status, io, failing, inbox, frameVars, sessionVars>>
  BY DEF Distribute, Ordered, Calm
<1>2. box["recv"] \in Seq(Word) /\ box["send"] \in Seq(Word)
  BY DEF Shape, Dirs
<1>3. /\ box'["recv"] = box["recv"] \/ box'["recv"] = Append(box["recv"], "ready")
      /\ box'["send"] = box["send"] \/ box'["send"] = Append(box["send"], "ready")
  <2>1. "ready" \in Word
    BY DEF Word
  <2>2. \A b \in Seq(Word) : b \o <<"ready">> = Append(b, "ready") /\ b \o <<>> = b
    BY <2>1
  <2>3. If("hupSend", "cancel") = <<>>
    BY DEF If, Ordered, Calm
  <2>4. /\ box'["recv"] = box["recv"] \o If("in", "ready")
        /\ box'["send"] = box["send"] \o If("hupSend", "cancel") \o If("out", "ready")
    BY <1>1
  <2>5. box'["send"] = box["send"] \o If("out", "ready")
    BY <1>2, <2>2, <2>3, <2>4
  <2> QED
    BY <1>2, <2>2, <2>4, <2>5 DEF If
<1>4. \A d \in Dirs : box[d] \in Seq(Word) /\ (box'[d] = box[d] \/ box'[d] = Append(box[d], "ready"))
  BY <1>2, <1>3 DEF Dirs
<1>5. Messages' = Messages
  BY <1>1 DEF Messages, frameVars
<1>6. Calm'
  BY <1>1 DEF Ordered, Calm, peerVars
<1>7. Course'
  BY <1>1, <1>5 DEF Ordered, Course, frameVars, sessionVars
<1>8. ASSUME NEW d \in Dirs, life = "alive"
      PROVE  Side(d, status[d], io[d], box'[d], Messages, s.post[d], s.canceled[d], s.mask)
  <2>1. Side(d, status[d], io[d], box[d], Messages, s.post[d], s.canceled[d], s.mask)
    BY <1>8 DEF Ordered, Held
  <2>2. CASE box'[d] = box[d]
    BY <2>1, <2>2
  <2>3. CASE box'[d] = Append(box[d], "ready")
    BY <1>4, <2>1, <2>3, SideReady
  <2> QED
    BY <1>4, <2>2, <2>3
<1>9. ASSUME NEW d \in Dirs, ~Holds(box[d], "post")
      PROVE  ~Holds(box'[d], "post")
  <2>1. "ready" \in Word /\ "post" \in Word
    BY DEF Word
  <2>2. CASE box'[d] = Append(box[d], "ready")
    <3>1. PICK b, c : b = box[d] /\ c = box'[d] /\ b \in Seq(Word) /\ c = Append(b, "ready")
      BY <1>4, <2>2
    <3>2. Holds(c, "post") <=> (Holds(b, "post") \/ "post" = "ready")
      BY <2>1, <3>1, AppendWord
    <3> QED
      BY <1>9, <3>1, <3>2
  <2> QED
    BY <1>4, <1>9, <2>2
<1>10. Held'
  BY <1>1, <1>5, <1>8, <1>9 DEF Ordered, Held, frameVars, sessionVars
<1> QED
  BY <1>6, <1>7, <1>10 DEF Ordered

LEMMA LoopOrdered ==
    ASSUME Shape, Ordered, ClosePool \/ WaitForPoping \/ LastFrame \/ WaitForTransferIoFinish
    PROVE  Ordered'
<1>1. UNCHANGED <<peerVars, epollVars, transferVars, s>>
  BY DEF ClosePool, WaitForPoping, LastFrame, WaitForTransferIoFinish, sessionVars
<1>2. Calm'
  BY <1>1 DEF Ordered, Calm, peerVars, epollVars, transferVars
<1>3. CASE ClosePool
  <2>1. /\ UNCHANGED <<inbox, batch, dpc, last, life>> /\ ~poolWorking'
    BY <1>3 DEF ClosePool, sessionVars
  <2>2. Messages' = Messages
    BY <2>1 DEF Messages
  <2>3. Course'
    BY <1>1, <2>1, <2>2 DEF Ordered, Course, epollVars, transferVars
  <2>4. Held'
    BY <1>1, <2>1, <2>2 DEF Ordered, Held, transferVars
  <2> QED
    BY <1>2, <2>3, <2>4 DEF Ordered
<1>4. CASE WaitForPoping \/ LastFrame
  <2>1. /\ batch' = inbox /\ inbox' = <<>> /\ dpc \in {"wait", "last"} /\ dpc' = "timers"
        /\ UNCHANGED <<poolWorking, life>>
        /\ last' = last \/ dpc = "last"
    BY <1>4 DEF WaitForPoping, LastFrame, sessionVars
  <2>2. Messages' = Messages
    <3>1. batch = <<>>
      BY <2>1 DEF Ordered, Course
    <3> QED
      BY <2>1, <3>1, MessagesSwap
  <2>3. last' => ~poolWorking
    BY <2>1 DEF Ordered, Course
  <2>4. Course'
    BY <1>1, <2>1, <2>2, <2>3 DEF Ordered, Course, epollVars, transferVars
  <2>5. Held'
    BY <1>1, <2>1, <2>2 DEF Ordered, Held, transferVars
  <2> QED
    BY <1>2, <2>4, <2>5 DEF Ordered
<1>5. CASE WaitForTransferIoFinish
  <2>1. /\ UNCHANGED <<inbox, batch, last, poolWorking>> /\ dpc = "finish" /\ dpc' = "end"
        /\ life' = IF life = "closed" THEN "freed" ELSE life
    BY <1>5 DEF WaitForTransferIoFinish
  <2>2. Messages' = Messages
    BY <2>1 DEF Messages
  <2>3. ~poolWorking
    BY <2>1 DEF Ordered, Course
  <2>4. Course'
    BY <1>1, <2>1, <2>2, <2>3 DEF Ordered, Course, epollVars, transferVars
  <2>5. Held'
    BY <1>1, <2>1, <2>2, <2>3 DEF Ordered, Held, transferVars
  <2> QED
    BY <1>2, <2>4, <2>5 DEF Ordered
<1> QED
  BY <1>3, <1>4, <1>5

LEMMA FlagsTyped ==
    ASSUME NEW f \in Fields, NEW d \in Dirs
    PROVE  f.post[d] \in BOOLEAN /\ f.canceled[d] \in BOOLEAN /\ f.mask \in BOOLEAN
BY DEF Fields

LEMMA SidesClosing ==
    ASSUME Held, life = "alive", NEW d \in Dirs, NEW mk, s.mask => mk
    PROVE  /\ Side(d, status[d], io[d], box[d], Messages, s.post[d], s.canceled[d], mk)
           /\ ~s.mask => ~s.canceled["send"]
<1>1. Side(d, status[d], io[d], box[d], Messages, s.post[d], s.canceled[d], s.mask)
  BY DEF Held
<1>2. Side(d, status[d], io[d], box[d], Messages, s.post[d], s.canceled[d], mk)
  BY <1>1, SideStays
<1>3. Side("send", status["send"], io["send"], box["send"], Messages, s.post["send"],
           s.canceled["send"], s.mask)
  BY DEF Held, Dirs
<1>4. ~s.mask => ~s.canceled["send"]
  BY <1>3 DEF Side
<1> QED
  BY <1>2, <1>4

LEMMA TimersOrdered == ASSUME Shape, Ordered, Timers PROVE Ordered'
<1>1. /\ UNCHANGED <<peerVars, epollVars, status, io, failing, inbox, batch, last, poolWorking, life>>
      /\ dpc = "timers" /\ dpc' = "handle"
  BY DEF Timers
<1>2. box' = box /\ (life # "alive" => s' = s) /\ (life = "alive" => Served(s, s'))
  BY TimersIs
<1>3. Messages' = Messages
  BY <1>1 DEF Messages
<1>4. Calm'
  BY <1>1 DEF Ordered, Calm, peerVars, epollVars
<1>5. CASE life # "alive"
  <2>1. Course'
    BY <1>1, <1>2, <1>3, <1>5 DEF Ordered, Course, epollVars
  <2>2. Held'
    BY <1>1, <1>2, <1>5 DEF Ordered, Held
  <2> QED
    BY <1>4, <2>1, <2>2 DEF Ordered
<1>6. CASE life = "alive"
  <2>1. /\ s'.post = s.post /\ s'.canceled = s.canceled
        /\ s'.toPost["recv"] = s.toPost["recv"]
        /\ s.mask => s'.mask
        /\ s'.toPost["send"] => s.toPost["send"] \/ ~s.mask
    BY <1>2, <1>6 DEF Served
  <2>2. ~s.mask => ~s.canceled["send"]
    BY <1>6, SidesClosing DEF Ordered, Dirs
  <2>3. \A d \in Dirs : s'.toPost[d] => ~s'.canceled[d]
    <3>1. \A d \in Dirs : s.toPost[d] => ~s.canceled[d]
      BY DEF Ordered, Course
    <3> QED
      BY <2>1, <2>2, <3>1 DEF Dirs
  <2>4. s'.toPost["recv"] => ~s'.post["recv"]
    BY <2>1 DEF Ordered, Course
  <2>5. Course'
    BY <1>1, <1>3, <1>6, <2>3, <2>4 DEF Ordered, Course
  <2>6. \A d \in Dirs : Side(d, status[d], io[d], box[d], Messages, s.post[d], s.canceled[d], s'.mask)
    BY <1>6, <2>1, SidesClosing DEF Ordered
  <2>7. Held'
    BY <1>1, <1>2, <1>3, <1>6, <2>1, <2>6 DEF Held
  <2> QED
    BY <1>4, <2>5, <2>7 DEF Ordered
<1> QED
  BY <1>5, <1>6

LEMMA PostEventsOrdered == ASSUME Shape, Flow, Ordered, PostEvents PROVE Ordered'
<1>1. /\ UNCHANGED <<peerVars, epollVars, status, io, failing, inbox, batch, last, poolWorking, life>>
      /\ dpc = "handle" /\ dpc' = "remove" /\ batch = <<>>
  BY DEF PostEvents
<1>2. /\ s'.mask = s.mask /\ s'.canceled = s.canceled /\ s'.toRemove = s.toRemove
      /\ s'.toPost = Both(FALSE)
      /\ \A d \in Dirs :
            \/ /\ s.toPost[d] /\ ~s.post[d] /\ s'.post[d]
               /\ box'[d] = Append(box[d], "post")
            \/ s'.post[d] = s.post[d] /\ box'[d] = box[d]
  <2>1. /\ s'.mask = s.mask /\ s'.canceled = s.canceled /\ s'.toRemove = s.toRemove
        /\ s'.out = s.out /\ s'.toPost = Both(FALSE)
        /\ \A d \in Dirs :
              \/ /\ s.toPost[d] /\ ~s.post[d] /\ s'.post[d]
                 /\ box'[d] = Append(box[d], "post")
                 /\ IF d = "recv" THEN ~s.mask /\ ~s.recvFull ELSE s.out > 0
              \/ /\ s'.post[d] = s.post[d] /\ box'[d] = box[d]
                 /\ ~s.toPost[d] \/ s.post[d] \/ (IF d = "recv" THEN s.mask \/ s.recvFull ELSE s.out <= 0)
    BY PostEventsIs
  <2> QED
    BY <2>1
<1>3. Messages' = Messages
  BY <1>1 DEF Messages
<1>4. Calm'
  BY <1>1 DEF Ordered, Calm, peerVars, epollVars
<1>5. \A d \in Dirs : s.toPost[d] => ~s.canceled[d] /\ life = "alive"
  BY DEF Ordered, Course
<1>6. /\ \A d \in Dirs : ~s'.toPost[d]
      /\ "recv" \in Dirs
  BY <1>2 DEF Both, Dirs
<1>7. life # "alive" => \A d \in Dirs : box'[d] = box[d]
  BY <1>2, <1>5
<1>8. Course'
  BY <1>1, <1>2, <1>3, <1>6, <1>7 DEF Ordered, Course, epollVars
<1>9. ASSUME life = "alive", NEW d \in Dirs
      PROVE  Side(d, status[d], io[d], box'[d], Messages, s'.post[d], s.canceled[d], s.mask)
  <2>1. Side(d, status[d], io[d], box[d], Messages, s.post[d], s.canceled[d], s.mask)
    BY <1>9 DEF Ordered, Held
  <2>2. CASE s'.post[d] = s.post[d] /\ box'[d] = box[d]
    BY <2>1, <2>2
  <2>3. CASE s.toPost[d] /\ ~s.post[d] /\ s'.post[d] /\ box'[d] = Append(box[d], "post")
    <3>1. ~s.canceled[d] /\ box[d] \in Seq(Word)
      BY <1>5, <2>3 DEF Shape
    <3>2. Side(d, status[d], io[d], box'[d], Messages, TRUE, s.canceled[d], s.mask)
      <4>1. PICK st, i, b, q, p, c, mk, a :
               /\ st = status[d] /\ i = io[d] /\ b = box[d] /\ q = Messages /\ p = s.post[d]
               /\ c = s.canceled[d] /\ mk = s.mask /\ a = box'[d]
        OBVIOUS
      <4>2. Side(d, st, i, b, q, p, c, mk) /\ ~p /\ ~c /\ b \in Seq(Word) /\ a = Append(b, "post")
        BY <2>1, <2>3, <3>1, <4>1
      <4>9. p \in BOOLEAN /\ c \in BOOLEAN /\ mk \in BOOLEAN
        BY <4>1, FlagsTyped DEF Shape
      <4>3. Side(d, st, i, a, q, TRUE, c, mk)
        BY <4>2, <4>9, SidePost
      <4> QED
        BY <4>1, <4>3
    <3>3. s'.post[d] = TRUE
      <4>1. s'.post[d] \in BOOLEAN
        BY PostEventsIs DEF Typed, Fields
      <4> QED
        BY <2>3, <4>1
    <3> QED
      BY <3>2, <3>3
  <2> QED
    BY <1>2, <2>2, <2>3
<1>10. Held'
  BY <1>1, <1>2, <1>3, <1>7, <1>9 DEF Ordered, Held
<1> QED
  BY <1>4, <1>8, <1>10 DEF Ordered

LEMMA RemoveOrdered == ASSUME Shape, Flow, Ordered, WillRemoveSessions PROVE Ordered'
<1>1. /\ UNCHANGED <<peerVars, status, io, failing, inbox, batch, last, poolWorking>>
      /\ dpc = "remove" /\ FrameEnds
  BY DEF WillRemoveSessions
<1>2. \/ ~s.toRemove /\ s' = s /\ box' = box /\ life' = life
      \/ /\ s.toRemove /\ s'.mask /\ ~s'.toRemove /\ (\A d \in Dirs : s'.canceled[d])
         /\ s'.post = s.post /\ s'.toPost = s.toPost
         /\ \/ /\ ~CanDisconnect /\ life' = life
               /\ \A d \in Dirs : box'[d] = IF s.canceled[d] THEN box[d] ELSE Append(box[d], "cancel")
            \/ /\ CanDisconnect /\ life' = "freed"
               /\ \A d \in Dirs : box'[d] = IF s.canceled[d] THEN box[d] ELSE Append(box[d], "quiet")
  BY RemoveIs
<1>3. UNCHANGED epollVars \/ (s.toRemove /\ registered' = FALSE /\ edges' = {})
  BY DEF WillRemoveSessions
<1>4. Messages' = Messages
  BY <1>1 DEF Messages
<1>5. Calm'
  BY <1>1, <1>3 DEF Ordered, Calm, peerVars, epollVars
<1>6. \A d \in Dirs : ~s'.toPost[d]
  BY <1>1, <1>2 DEF Flow
<1>7. /\ dpc' \in {"wait", "last", "cancel"} /\ batch = <<>>
      /\ (last' \/ dpc' \in {"last", "cancel", "finish", "end"}) => ~poolWorking
  BY <1>1 DEF FrameEnds, Ordered, Course
<1>8. s.toRemove => life \notin {"none", "coming"}
  BY DEF Ordered, Course
<1>9. Course'
  <2>1. CASE ~s.toRemove
    BY <1>1, <1>2, <1>3, <1>4, <1>6, <1>7, <2>1 DEF Ordered, Course, epollVars, Dirs
  <2>2. CASE s.toRemove
    <3>1. life' \notin {"none", "coming"} /\ (life' = "closed" => life = "closed")
      BY <1>2, <1>8, <2>2
    <3>2. OfIos(Messages) /\ (life = "closed" => ~poolWorking)
      BY <1>8, <2>2 DEF Ordered, Course
    <3>3. "recv" \in Dirs
      BY DEF Dirs
    <3> QED
      BY <1>1, <1>4, <1>6, <1>7, <3>1, <3>2, <3>3 DEF Course
  <2> QED
    BY <2>1, <2>2
<1>10. \A d \in Dirs : box[d] \in Seq(Word)
  BY DEF Shape
<1>11. Held'
  <2>1. CASE ~s.toRemove
    BY <1>1, <1>2, <1>4, <2>1 DEF Ordered, Held
  <2>2. CASE s.toRemove /\ life # "freed" /\ life' = life
    <3>1. life = "alive" => ~CanDisconnect
      BY <1>2, <2>2
    <3>2. ASSUME life = "alive", NEW d \in Dirs
          PROVE  Side(d, status[d], io[d], box'[d], Messages, s'.post[d], s'.canceled[d], s'.mask)
      <4>1. Side(d, status[d], io[d], box[d], Messages, s.post[d], s.canceled[d], s.mask)
        BY <3>2 DEF Ordered, Held
      <4>2. box'[d] = IF s.canceled[d] THEN box[d] ELSE Append(box[d], "cancel")
        BY <1>2, <2>2, <3>1, <3>2
      <4>3. Side(d, status[d], io[d], box'[d], Messages, s.post[d], TRUE, TRUE)
        <5>1. PICK st, i, b, q, p, c, mk, a :
                 /\ st = status[d] /\ i = io[d] /\ b = box[d] /\ q = Messages /\ p = s.post[d]
                 /\ c = s.canceled[d] /\ mk = s.mask /\ a = box'[d]
          OBVIOUS
        <5>2. /\ Side(d, st, i, b, q, p, c, mk) /\ b \in Seq(Word)
              /\ a = IF c THEN b ELSE Append(b, "cancel")
          BY <1>10, <4>1, <4>2, <5>1
        <5>9. p \in BOOLEAN /\ c \in BOOLEAN /\ mk \in BOOLEAN
          BY <5>1, FlagsTyped DEF Shape
        <5>3. Side(d, st, i, a, q, p, TRUE, TRUE)
          BY <5>2, <5>9, SideCancel
        <5> QED
          BY <5>1, <5>3
      <4>4. s'.canceled[d] = TRUE /\ s'.mask = TRUE
        <5>1. s'.canceled[d] \in BOOLEAN /\ s'.mask \in BOOLEAN
          BY RemoveIs DEF Typed, Fields
        <5> QED
          BY <1>2, <2>2, <5>1
      <4>5. s'.post = s.post
        BY <1>2, <2>2
      <4> QED
        BY <4>3, <4>4, <4>5
    <3> QED
      BY <1>1, <1>4, <2>2, <3>2 DEF Held
  <2>3. CASE s.toRemove /\ life' = "freed"
    <3>1. ASSUME poolWorking, NEW d \in Dirs
          PROVE  ~Holds(box'[d], "post") /\ io[d] # "posted"
      <4>1. ~Holds(box[d], "post") /\ io[d] # "posted"
        <5>1. CASE life = "freed"
          BY <3>1, <5>1 DEF Ordered, Held
        <5>2. CASE life = "alive"
          <6>1. CanDisconnect
            BY <1>2, <2>3, <5>2
          <6>2. Side(d, status[d], io[d], box[d], Messages, s.post[d], s.canceled[d], s.mask)
            BY <5>2 DEF Ordered, Held
          <6> QED
            BY <6>1, <6>2 DEF Side, CanDisconnect
        <5> QED
          BY <1>8, <2>3, <3>1, <5>1, <5>2 DEF Ordered, Course, Shape
      <4>2. \/ box'[d] = box[d]
            \/ \E w \in {"cancel", "quiet"} : box'[d] = Append(box[d], w)
        BY <1>2, <2>3
      <4>3. ~Holds(box'[d], "post")
        <5>1. "post" \in Word /\ "cancel" \in Word /\ "quiet" \in Word
          BY DEF Word
        <5>2. ASSUME NEW w \in {"cancel", "quiet"}, box'[d] = Append(box[d], w)
              PROVE  ~Holds(box'[d], "post")
          <6>1. PICK b, c : b = box[d] /\ c = box'[d] /\ b \in Seq(Word) /\ c = Append(b, w)
            BY <1>10, <5>2
          <6>2. w \in Word
            BY <5>1
          <6>3. Holds(c, "post") <=> (Holds(b, "post") \/ "post" = w)
            BY <5>1, <6>1, <6>2, AppendWord
          <6> QED
            BY <4>1, <6>1, <6>3
        <5> QED
          BY <4>1, <4>2, <5>2
      <4> QED
        BY <4>1, <4>3
    <3> QED
      BY <1>1, <2>3, <3>1 DEF Held
  <2> QED
    BY <1>2, <2>1, <2>2, <2>3
<1> QED
  BY <1>5, <1>9, <1>11 DEF Ordered

LEMMA CancelAllOrdered == ASSUME Shape, Flow, Ordered, CancelAllSessionIos PROVE Ordered'
<1>1. /\ UNCHANGED <<peerVars, status, io, failing, inbox, batch, last, poolWorking>>
      /\ dpc = "cancel" /\ dpc' = "finish"
  BY DEF CancelAllSessionIos
<1>2. IF life = "alive" THEN life' = "closed" /\ s'.toPost = s.toPost
                        ELSE life' = life /\ s' = s /\ box' = box
  BY CancelAllIs
<1>3. Messages' = Messages
  BY <1>1 DEF Messages
<1>4. ~poolWorking /\ batch = <<>>
  BY <1>1 DEF Ordered, Course
<1>5. \A d \in Dirs : ~s'.toPost[d]
  BY <1>1, <1>2 DEF Flow
<1>6. "recv" \in Dirs
  BY DEF Dirs
<1>7. CASE life = "alive"
  <2>1. registered' = FALSE /\ edges' = {}
    BY <1>7 DEF CancelAllSessionIos
  <2>2. Calm'
    BY <1>1, <2>1 DEF Ordered, Calm, peerVars
  <2>3. Course'
    BY <1>1, <1>2, <1>3, <1>4, <1>5, <1>6, <1>7 DEF Ordered, Course
  <2>4. Held'
    BY <1>2, <1>7 DEF Held
  <2> QED
    BY <2>2, <2>3, <2>4 DEF Ordered
<1>8. CASE life # "alive"
  <2>1. UNCHANGED epollVars
    BY <1>8 DEF CancelAllSessionIos
  <2>2. Calm'
    BY <1>1, <2>1 DEF Ordered, Calm, peerVars, epollVars
  <2>3. Course'
    BY <1>1, <1>2, <1>3, <1>4, <1>5, <1>6, <1>8, <2>1 DEF Ordered, Course, epollVars
  <2>4. Held'
    BY <1>1, <1>2, <1>4, <1>8 DEF Held
  <2> QED
    BY <2>2, <2>3, <2>4 DEF Ordered
<1> QED
  BY <1>7, <1>8

(* The message a session being closed, or one whose peer ended, gets back. *)
LEMMA HandleOrdered == ASSUME Shape, Ordered, HandleMessage PROVE Ordered'
<1>1. PICK m : m = Head(batch)
  OBVIOUS
<1>2. /\ m \in Message /\ batch # <<>> /\ batch' = Tail(batch) /\ dpc = "handle"
      /\ UNCHANGED <<peerVars, status, io, failing, inbox, dpc, last, poolWorking>>
      /\ \/ m.kind = "connected" /\ OnSessionConnected
         \/ /\ m.kind # "connected" /\ life # "alive"
            /\ UNCHANGED <<epollVars, sessionVars, box>>
         \/ /\ m.kind # "connected" /\ life = "alive" /\ (s.mask \/ m.bytes = 0)
            /\ Disconnected(m) /\ UNCHANGED <<epollVars, life>>
         \/ /\ m.kind = "recv" /\ life = "alive" /\ ~s.mask /\ m.bytes > 0
            /\ RecvSuc(m) /\ UNCHANGED <<epollVars, life>>
         \/ /\ m.kind = "send" /\ life = "alive" /\ ~s.mask /\ m.bytes > 0
            /\ SendSuc(m) /\ UNCHANGED <<epollVars, life>>
  BY <1>1, HandleIs
<1>3. PICK q, a : /\ q = Messages /\ a = Messages' /\ q \in Seq(Message)
                  /\ q # <<>> /\ m = Head(q) /\ a = Tail(q)
  BY <1>1, <1>2, MessagesTyped, MessagesTail
<1>4. life \notin {"none", "coming"} =>
         /\ OfIos(a) /\ m.kind # "connected" /\ (m.inMonitor <=> m.bytes > 0)
  BY <1>3, OfIosTail DEF Ordered, Course
<1>5. ASSUME life \in {"none", "coming"}
      PROVE  life = "coming" /\ m.kind = "connected" /\ a = <<>> /\ OnSessionConnected
  <2>1. life = "coming"
    BY <1>3, <1>5 DEF Ordered, Course
  <2>2. q = <<[kind |-> "connected"]>>
    BY <1>3, <2>1 DEF Ordered, Course
  <2>3. m.kind = "connected" /\ a = <<>>
    BY <1>3, <2>2
  <2> QED
    BY <1>2, <2>1, <2>3
<1>6. "recv" \in Dirs /\ "send" \in Dirs
  BY DEF Dirs
<1>7. CASE life \in {"none", "coming"}
  <2>1. /\ life = "coming" /\ a = <<>> /\ OnSessionConnected
    BY <1>5, <1>7
  <2>2. /\ life' = "alive" /\ edges' \subseteq {"in", "out"}
    BY <2>1 DEF OnSessionConnected
  <2>3. /\ s'.canceled = Both(FALSE) /\ ~s'.toPost["recv"] /\ ~s'.post["send"]
        /\ s'.mask => box' = box /\ ~s'.post["recv"]
        /\ ~s'.mask => s'.post["recv"] /\ box' = [box EXCEPT !["recv"] = Append(@, "post")]
    BY <2>1, ConnectedIs
  <2>4. /\ \A d \in Dirs : status[d] = "idle" /\ io[d] # "posted" /\ box[d] = <<>>
        /\ batch = batch
    BY <2>1 DEF Ordered, Course
  <2>5. Calm'
    BY <1>2, <2>2 DEF Ordered, Calm, peerVars
  <2>6. OfIos(a)
    BY <2>1 DEF OfIos
  <2>7. \A d \in Dirs : ~s'.canceled[d]
    BY <2>3 DEF Both
  <2>8. Course'
    BY <1>2, <1>3, <2>2, <2>3, <2>6, <2>7 DEF Ordered, Course
  <2>9. ASSUME NEW d \in Dirs
        PROVE  Side(d, status[d], io[d], box'[d], a, s'.post[d], s'.canceled[d], s'.mask)
    <3>1. s'.canceled[d] = FALSE /\ s'.post[d] \in BOOLEAN
      <4>1. s' \in Fields
        BY <2>1, ConnectedIs DEF Typed
      <4> QED
        BY <2>7, <4>1 DEF Fields
    <3>2. Side(d, status[d], io[d], <<>>, <<>>, FALSE, FALSE, s'.mask)
      <4>1. status[d] # "none" /\ io[d] # "posted"
        BY <2>4
      <4> QED
        BY <4>1, SideNew
    <3>3. CASE ~s'.post[d]
      <4>1. s'.mask \/ d # "recv"
        BY <2>3, <3>3
      <4>2. box'[d] = <<>>
        BY <2>3, <2>4, <4>1 DEF Shape
      <4>3. s'.post[d] = FALSE
        BY <3>1, <3>3
      <4> QED
        BY <2>1, <3>1, <3>2, <4>2, <4>3
    <3>4. CASE s'.post[d]
      <4>1. d = "recv" /\ ~s'.mask
        BY <2>3, <3>4 DEF Dirs
      <4>2. box'[d] = Append(<<>>, "post")
        BY <1>6, <2>3, <2>4, <4>1 DEF Shape
      <4>3. PICK b, r : b = <<>> /\ r = box'[d]
        OBVIOUS
      <4>8. PICK mk \in BOOLEAN : mk = s'.mask
        BY <2>1, ConnectedIs, FlagsTyped DEF Typed
      <4>9. PICK p, c \in BOOLEAN : p = FALSE /\ c = FALSE
        OBVIOUS
      <4>4. b \in Seq(Word) /\ r = Append(b, "post") /\ ~p /\ ~c
        BY <4>2, <4>3, <4>9
      <4>5. Side(d, status[d], io[d], b, <<>>, p, c, mk)
        BY <3>2, <4>3, <4>8, <4>9
      <4>6. Side(d, status[d], io[d], r, <<>>, TRUE, c, mk)
        BY <4>4, <4>5, SidePost
      <4>7. s'.post[d] = TRUE
        BY <3>1, <3>4
      <4> QED
        BY <2>1, <3>1, <4>3, <4>6, <4>7, <4>8, <4>9
    <3> QED
      BY <3>3, <3>4
  <2>10. Held'
    BY <1>2, <1>3, <2>2, <2>9 DEF Held
  <2> QED
    BY <2>5, <2>8, <2>10 DEF Ordered
<1>8. CASE life \notin {"none", "coming"} /\ life # "alive"
  <2>1. UNCHANGED <<epollVars, sessionVars, box>>
    BY <1>2, <1>4, <1>8
  <2>2. Calm'
    BY <1>2, <2>1 DEF Ordered, Calm, peerVars, epollVars
  <2>3. Course'
    BY <1>2, <1>3, <1>4, <1>8, <2>1 DEF Ordered, Course, epollVars, sessionVars
  <2>4. Held'
    BY <1>2, <1>8, <2>1 DEF Ordered, Held, sessionVars
  <2> QED
    BY <2>2, <2>3, <2>4 DEF Ordered
<1>9. CASE life = "alive"
  <2>1. /\ m.kind \in Dirs /\ OfIos(a) /\ (m.inMonitor <=> m.bytes > 0) /\ m.bytes \in Nat
    BY <1>2, <1>4, <1>9, MessageIs
  <2>0. m.kind # "connected"
    BY <2>1 DEF Dirs
  <2>2. UNCHANGED <<epollVars, life>>
    BY <1>2, <1>4, <1>9
  <2>3. Calm'
    BY <1>2, <2>2 DEF Ordered, Calm, peerVars, epollVars
  <2>4. \A d \in Dirs : Side(d, status[d], io[d], box[d], q, s.post[d], s.canceled[d], s.mask)
    BY <1>3, <1>9 DEF Ordered, Held
  <2>5. ASSUME NEW d \in Dirs, d # m.kind, NEW mk, s.mask => mk
        PROVE  Side(d, status[d], io[d], box[d], a, s.post[d], s.canceled[d], mk)
    <3>1. /\ Answered(a, d) <=> Answered(q, d)
          /\ Ended(a, d) <=> Ended(q, d)
          /\ OneAnswer(q, d) => OneAnswer(a, d)
          /\ OneDone(q, d) => OneDone(a, d)
      BY <1>3, <2>5, TailOther
    <3> QED
      BY <2>4, <2>5, <3>1, SideStays
  <2>6. /\ \A d \in Dirs : s.toPost[d] => ~s.canceled[d]
        /\ s.toPost["recv"] => ~s.post["recv"]
    BY DEF Ordered, Course
  <2>7. /\ (\A d \in Dirs : s'.toPost[d] => ~s'.canceled[d]) /\ (s'.toPost["recv"] => ~s'.post["recv"])
           => Course'
    BY <1>2, <1>3, <1>9, <2>1, <2>2 DEF Ordered, Course, epollVars
  <2>8. (\A d \in Dirs : Side(d, status[d], io[d], box'[d], a, s'.post[d], s'.canceled[d], s'.mask))
           => Held'
    BY <1>2, <1>3, <1>9, <2>2 DEF Held
  <2>9. CASE (s.mask \/ m.bytes = 0) /\ Disconnected(m)
    <3>0. s' \in Fields
      BY <1>2, <2>0, <2>9, DisconnectedIs DEF Typed
    <3>1. /\ s'.post = [s.post EXCEPT ![m.kind] = FALSE]
          /\ s'.canceled[m.kind] <=> (s.canceled[m.kind] \/ ~m.inMonitor)
          /\ \A d \in Dirs \ {m.kind} : s'.canceled[d] = s.canceled[d]
          /\ s'.toPost = s.toPost /\ s'.mask = s.mask
          /\ box' = box
      <4>1. /\ Typed
            /\ s'.post = [s.post EXCEPT ![m.kind] = FALSE]
            /\ \A d \in Dirs \ {m.kind} : s'.canceled[d] = s.canceled[d]
            /\ s'.toRemove /\ s'.toPost = s.toPost /\ s'.mask = s.mask /\ s'.out = s.out
            /\ s'.len = s.len
            /\ box' = box
        <5>1. m \in Message /\ Disconnected(m)
          BY <1>2, <2>9
        <5> QED
          BY <2>0, <5>1, DisconnectedIs
      <4>2. s'.canceled[m.kind] <=> (s.canceled[m.kind] \/ ~m.inMonitor)
        BY <1>2, <2>0, <2>9, DisconnectedIs
      <4> QED
        BY <4>1, <4>2
    <3>2. s'.post[m.kind] = FALSE /\ \A d \in Dirs \ {m.kind} : s'.post[d] = s.post[d]
      <4>1. s.post \in [Dirs -> BOOLEAN] /\ m.kind \in Dirs
        BY <2>1 DEF Shape, Fields
      <4>2. s'.post = [s.post EXCEPT ![m.kind] = FALSE]
        BY <3>1
      <4> QED
        BY <4>1, <4>2
    <3>3. ASSUME NEW d \in Dirs
          PROVE  Side(d, status[d], io[d], box'[d], a, s'.post[d], s'.canceled[d], s'.mask)
      <4>1. CASE d # m.kind
        <5>1. Side(d, status[d], io[d], box[d], a, s.post[d], s.canceled[d], s.mask)
          BY <2>5, <4>1
        <5>2. box'[d] = box[d] /\ s'.post[d] = s.post[d] /\ s'.canceled[d] = s.canceled[d]
              /\ s'.mask = s.mask
          BY <3>1, <3>2, <4>1
        <5> QED
          BY <5>1, <5>2
      <4>2. CASE d = m.kind
        <5>1. PICK st, i, b, p, c, c2, mk :
                 /\ st = status[d] /\ i = io[d] /\ b = box[d] /\ p = s.post[d]
                 /\ c = s.canceled[d] /\ mk = s.mask /\ c2 = s'.canceled[d]
          OBVIOUS
        <5>2. Side(d, st, i, b, q, p, c, mk)
          BY <2>4, <5>1
        <5>3. (c2 <=> (c \/ ~m.inMonitor)) /\ (mk \/ ~(m.bytes > 0)) /\ m.kind = d
          BY <2>1, <2>9, <3>1, <4>2, <5>1
        <5>9. /\ p \in BOOLEAN /\ c \in BOOLEAN /\ mk \in BOOLEAN /\ c2 \in BOOLEAN
              /\ m.inMonitor \in BOOLEAN
          <6>1. m.inMonitor \in BOOLEAN
            BY <1>2, <2>0, MessageIs
          <6>2. s \in Fields
            BY DEF Shape
          <6>3. p \in BOOLEAN /\ c \in BOOLEAN /\ mk \in BOOLEAN
            BY <5>1, <6>2, FlagsTyped
          <6>4. c2 \in BOOLEAN
            BY <3>0, <5>1, FlagsTyped
          <6> QED
            BY <6>1, <6>3, <6>4
        <5>4. Side(d, st, i, b, a, FALSE, c2, mk)
          <6>1. /\ q \in Seq(Message) /\ q # <<>> /\ m = Head(q) /\ m.kind = d
                /\ (m.inMonitor <=> m.bytes > 0) /\ (mk \/ ~(m.bytes > 0))
                /\ a = Tail(q) /\ (c2 <=> (c \/ ~m.inMonitor))
            BY <1>3, <2>1, <5>3
          <6>2. /\ Answered(q, d)
                /\ ~m.inMonitor => Ended(q, d)
                /\ OneAnswer(q, d) => /\ ~Answered(a, d) /\ OneAnswer(a, d) /\ ~Ended(a, d)
                                      /\ Ended(q, d) => ~m.inMonitor
                /\ OneDone(q, d) => OneDone(a, d)
                /\ Ended(a, d) => Ended(q, d)
                /\ Answered(a, d) => Answered(q, d)
            BY <6>1, TailMine
          <6>3. c2 <=> (c \/ ~m.inMonitor)
            BY <5>3
          <6> QED
            BY <5>2, <5>9, <6>1, <6>2, <6>3 DEF Side
        <5> QED
          BY <3>1, <3>2, <4>2, <5>1, <5>4
      <4> QED
        BY <4>1, <4>2
    <3>4. \A d \in Dirs : s'.toPost[d] => ~s'.canceled[d]
      <4>1. ASSUME s.toPost[m.kind] PROVE m.inMonitor
        <5>1. ~s.canceled[m.kind] /\ (m.kind = "recv" => ~s.post["recv"])
          BY <2>1, <2>6, <4>1
        <5>2. Side(m.kind, status[m.kind], io[m.kind], box[m.kind], q, s.post[m.kind],
                   s.canceled[m.kind], s.mask)
          BY <2>1, <2>4
        <5>3. Answered(q, m.kind) /\ (~m.inMonitor => Ended(q, m.kind))
          BY <1>3, TailMine
        <5> QED
          BY <2>1, <5>1, <5>2, <5>3 DEF Side, Dirs
      <4> QED
        BY <2>1, <2>6, <3>1, <4>1
    <3>5. s'.toPost["recv"] => ~s'.post["recv"]
      <4>1. s'.post["recv"] => s.post["recv"]
        BY <1>6, <3>2
      <4> QED
        BY <2>6, <3>1, <4>1
    <3> QED
      BY <2>3, <2>7, <2>8, <3>3, <3>4, <3>5 DEF Ordered
  <2>10. ASSUME ~s.mask, m.bytes > 0, NEW mk \in BOOLEAN
         PROVE  /\ ~s.canceled[m.kind] /\ ~s.canceled["send"]
                /\ Side(m.kind, status[m.kind], io[m.kind], box[m.kind], a, FALSE,
                        s.canceled[m.kind], mk)
    <3>1. PICK d, st, i, b, p, c, k :
             /\ d = m.kind /\ st = status[d] /\ i = io[d] /\ b = box[d] /\ p = s.post[d]
             /\ c = s.canceled[d] /\ k = s.mask
      OBVIOUS
    <3>2. Side(d, st, i, b, q, p, c, k) /\ ~k /\ m.kind = d
      BY <2>1, <2>4, <2>10, <3>1
    <3>3. /\ p \in BOOLEAN /\ c \in BOOLEAN /\ k \in BOOLEAN /\ m.inMonitor \in BOOLEAN
      BY <1>2, <2>0, <2>1, <3>1, MessageIs, FlagsTyped DEF Shape
    <3>5. /\ q # <<>> /\ m = Head(q) /\ (m.inMonitor <=> m.bytes > 0)
          /\ m.bytes > 0 /\ a = Tail(q) /\ q \in Seq(Message)
      BY <1>3, <2>1, <2>10
    <3>6. k = FALSE
      BY <3>2, <3>3
    <3>7. Side(d, st, i, b, q, p, c, FALSE)
      BY <3>2, <3>6
    <3>8. ~c /\ Side(d, st, i, b, a, FALSE, c, FALSE)
      BY <3>2, <3>3, <3>5, <3>7, SideSucceeded
    <3>9. Side(d, st, i, b, a, FALSE, c, mk)
      BY <3>8, SideStays
    <3>4. ~s.canceled["send"]
      BY <1>6, <1>9, <2>10, SidesClosing DEF Ordered
    <3> QED
      BY <3>1, <3>4, <3>8, <3>9
  <2>11. CASE m.kind = "recv" /\ ~s.mask /\ m.bytes > 0 /\ RecvSuc(m)
    <3>1. /\ s' \in Fields
          /\ ~s'.post["recv"] /\ s'.canceled = s.canceled
          /\ s'.mask => s'.toPost["recv"] = s.toPost["recv"]
          /\ s'.toPost["send"] => s.toPost["send"] \/ ~s.mask
          /\ \/ s'.post["send"] = s.post["send"] /\ box' = box
             \/ /\ ~s.post["send"] /\ s'.post["send"] /\ ~s'.mask
                /\ box' = [box EXCEPT !["send"] = Append(@, "post")]
      BY <1>2, <1>4, <1>9, <2>11, RecvSucIs DEF Typed
    <3>2. /\ ~s.canceled["recv"] /\ ~s.canceled["send"]
          /\ Side("recv", status["recv"], io["recv"], box["recv"], a, FALSE,
                  s.canceled["recv"], s'.mask)
      BY <2>10, <2>11, <3>1, FlagsTyped DEF Dirs
    <3>3. s'.post["recv"] = FALSE
      BY <1>6, <3>1 DEF Fields
    <3>4. box'["recv"] = box["recv"]
      BY <1>6, <3>1 DEF Shape, Dirs
    <3>5. Side("recv", status["recv"], io["recv"], box'["recv"], a, s'.post["recv"],
               s'.canceled["recv"], s'.mask)
      BY <3>1, <3>2, <3>3, <3>4
    <3>6. Side("send", status["send"], io["send"], box'["send"], a, s'.post["send"],
               s'.canceled["send"], s'.mask)
      <4>1. PICK st, i, b, p, c, mk :
               /\ st = status["send"] /\ i = io["send"] /\ b = box["send"] /\ p = s.post["send"]
               /\ c = s.canceled["send"] /\ mk = s'.mask
        OBVIOUS
      <4>2. Side("send", st, i, b, a, p, c, mk)
        BY <1>6, <2>5, <2>11, <4>1
      <4>9. p \in BOOLEAN /\ c \in BOOLEAN /\ mk \in BOOLEAN
        BY <1>6, <3>1, <4>1, FlagsTyped DEF Shape
      <4>3. CASE s'.post["send"] = s.post["send"] /\ box' = box
        BY <3>1, <4>1, <4>2, <4>3
      <4>4. CASE /\ ~s.post["send"] /\ s'.post["send"]
                 /\ box' = [box EXCEPT !["send"] = Append(@, "post")]
        <5>1. PICK r : r = box'["send"]
          OBVIOUS
        <5>2. r = Append(b, "post") /\ b \in Seq(Word) /\ ~p /\ ~c
          BY <1>6, <3>2, <4>1, <4>4, <5>1 DEF Shape
        <5>3. Side("send", st, i, r, a, TRUE, c, mk)
          BY <4>2, <4>9, <5>2, SidePost
        <5>4. s'.post["send"] = TRUE
          BY <1>6, <3>1, <4>4 DEF Fields
        <5> QED
          BY <3>1, <4>1, <5>1, <5>3, <5>4
      <4> QED
        BY <3>1, <4>3, <4>4
    <3>7. \A d \in Dirs : ~s'.canceled[d]
      BY <3>1, <3>2 DEF Dirs
    <3> QED
      BY <2>3, <2>7, <2>8, <3>1, <3>5, <3>6, <3>7 DEF Ordered, Dirs
  <2>12. CASE m.kind = "send" /\ ~s.mask /\ m.bytes > 0 /\ SendSuc(m)
    <3>1. /\ s'.post = [s.post EXCEPT !["send"] = FALSE]
          /\ s'.toPost["recv"] = s.toPost["recv"]
          /\ s'.canceled = s.canceled /\ s'.mask = s.mask
          /\ box' = box
      BY <1>2, <1>4, <1>9, <2>12, SendSucIs
    <3>2. s'.post["send"] = FALSE /\ s'.post["recv"] = s.post["recv"]
      BY <1>6, <3>1 DEF Shape, Fields, Dirs
    <3>3. /\ ~s.canceled["send"]
          /\ Side("send", status["send"], io["send"], box["send"], a, FALSE,
                  s.canceled["send"], s.mask)
      BY <2>10, <2>12, FlagsTyped DEF Dirs, Shape
    <3>4. Side("recv", status["recv"], io["recv"], box["recv"], a, s.post["recv"],
               s.canceled["recv"], s.mask)
      BY <1>6, <2>5, <2>12
    <3>5. \A d \in Dirs : Side(d, status[d], io[d], box'[d], a, s'.post[d], s'.canceled[d], s'.mask)
      BY <3>1, <3>2, <3>3, <3>4 DEF Dirs
    <3>6. \A d \in Dirs : s'.toPost[d] => ~s'.canceled[d]
      BY <1>6, <2>6, <3>1, <3>3 DEF Dirs
    <3>7. s'.toPost["recv"] => ~s'.post["recv"]
      BY <2>6, <3>1, <3>2
    <3> QED
      BY <2>3, <2>7, <2>8, <3>5, <3>6, <3>7 DEF Ordered
  <2> QED
    BY <1>2, <1>4, <1>9, <2>9, <2>11, <2>12
<1> QED
  BY <1>7, <1>8, <1>9

LEMMA NextOrdered == ASSUME Orderly, Shape, Flow, Ordered, Next PROVE Ordered'
BY PeerOrdered, ConnectOrdered, DistributeOrdered, LoopOrdered, PollerOrdered, TimersOrdered,
   HandleOrdered, PostEventsOrdered, RemoveOrdered, CancelAllOrdered DEF Next, DispatcherNext

LEMMA OrderedInvariant == ASSUME Orderly PROVE Spec => []Ordered
<1>1. Shape /\ Flow /\ Ordered /\ [Next]_vars => Ordered'
  <2> SUFFICES ASSUME Shape, Flow, Ordered, [Next]_vars PROVE Ordered'
    OBVIOUS
  <2>1. CASE Next
    BY <2>1, NextOrdered
  <2>2. CASE UNCHANGED vars
    <3>1. UNCHANGED <<peerVars, epollVars, transferVars, inbox, frameVars, sessionVars>>
      BY <2>2 DEF vars
    <3>2. Messages' = Messages
      BY <3>1 DEF Messages, frameVars
    <3>3. Calm'
      BY <3>1 DEF Ordered, Calm, peerVars, epollVars, transferVars
    <3>4. Course'
      BY <3>1, <3>2 DEF Ordered, Course, epollVars, transferVars, frameVars, sessionVars
    <3>5. Held'
      BY <3>1, <3>2 DEF Ordered, Held, transferVars, frameVars, sessionVars
    <3> QED
      BY <3>3, <3>4, <3>5 DEF Ordered
  <2> QED
    BY <2>1, <2>2
<1> QED
  BY <1>1, InitOrdered, FlowInvariant, PTL DEF Spec

LEMMA SidesHeld ==
    ASSUME Ordered, Alive, NEW d \in Dirs
    PROVE  /\ Holds(box[d], "post") <=> Posts(d) # {}
           /\ Answered(Messages, d) <=> Answers(d) # {}
           /\ Side(d, status[d], io[d], box[d], Messages, s.post[d], s.canceled[d], s.mask)
BY DEF Ordered, Held, Alive, Holds, Posts, Answered, Answers

(* With a peer that ends in order, a buffer is never handed out twice: in  *)
(* each direction at most one io is in the mailbox, with the transfer, or  *)
(* done and not handled.                                                   *)
THEOREM OneBufferOneIo == ASSUME Orderly PROVE Spec => []OneIoPerDirection
<1>1. Ordered => OneIoPerDirection
  <2> SUFFICES ASSUME Ordered, Alive, NEW d \in Dirs
               PROVE  LET places == Posts(d) \X {"mailbox"} \cup Done(d) \X {"answer"}
                                        \cup (IF io[d] = "posted" THEN {<<0, "transfer">>} ELSE {})
                      IN  \A p, q \in places : p = q
    BY DEF OneIoPerDirection
  <2>1. /\ Posts(d) # {} \/ io[d] = "posted" => Answers(d) = {}
        /\ OnePost(box[d]) /\ ~(Posts(d) # {} /\ io[d] = "posted")
        /\ OneDone(Messages, d)
    BY SidesHeld DEF Side
  <2>2. \A i, j \in Posts(d) : i = j
    BY <2>1 DEF OnePost, Posts
  <2>3. \A i, j \in Done(d) : i = j
    BY <2>1 DEF OneDone, Done, Answers
  <2>4. Answers(d) = {} => Done(d) = {}
    BY DEF Done
  <2>5. CASE io[d] = "posted"
    <3>1. Posts(d) = {} /\ Done(d) = {}
      BY <2>1, <2>4, <2>5
    <3> QED
      BY <3>1
  <2>6. CASE io[d] # "posted"
    <3>1. Posts(d) = {} \/ Done(d) = {}
      BY <2>1, <2>4
    <3> QED
      BY <2>2, <2>3, <2>6, <3>1
  <2> QED
    BY <2>5, <2>6
<1> QED
  BY <1>1, OrderedInvariant, PTL

(* ... an io the dispatcher counts as posted is with somebody who will     *)
(* answer it, or its answer is there.                                      *)
THEOREM PostedIsAnswered == ASSUME Orderly PROVE Spec => []PostedIoIsAnswered
<1>1. Ordered => PostedIoIsAnswered
  <2> SUFFICES ASSUME Ordered, Alive, NEW d \in Dirs, s.post[d]
               PROVE  (status[d] # "none" /\ Lent(d)) \/ Answers(d) # {}
    BY DEF PostedIoIsAnswered
  <2> QED
    BY SidesHeld DEF Side, Lent
<1> QED
  BY <1>1, OrderedInvariant, PTL

(* ... and while the server works, no session is freed while one of its    *)
(* buffers is with the transfer or in a mailbox.                           *)
THEOREM FreedIsUnused == ASSUME Orderly PROVE Spec => []NoIoOutlivesRemoval
<1>1. Ordered => NoIoOutlivesRemoval
  BY DEF Ordered, Held, NoIoOutlivesRemoval, NoIoOutlivesSession, Lent, Posts, Holds
<1> QED
  BY <1>1, OrderedInvariant, PTL

-----------------------------------------------------------------------------
(* The books of a session, whatever its peer does: where the chunks are    *)
(* that the peer sent, how much an answer may claim, and who is the first  *)
(* to end the session.  First, what is said of a queue of messages: the    *)
(* sizes of a direction's reports of data, the ends of the stream in it,   *)
(* and data that waits behind such an end.                                 *)
IsData(m, d) == m.kind = d /\ m.bytes > 0
IsEnd(m, K) == m.kind \in K /\ ~(m.bytes > 0)

Sizes(q, d) == {q[i].bytes : i \in {j \in 1 .. Len(q) : IsData(q[j], d)}}
Ends(q, K) == \E i \in 1 .. Len(q) : IsEnd(q[i], K)
Behind(q, K, d) == \E i, j \in 1 .. Len(q) : i < j /\ IsEnd(q[i], K) /\ IsData(q[j], d)

LEMMA SizesEmpty == \A d, K : Sizes(<<>>, d) = {} /\ ~Ends(<<>>, K) /\ ~Behind(<<>>, K, d) /\ OneDone(<<>>, d)
<1>1. Len(<<>>) = 0 /\ 1 .. 0 = {}
  OBVIOUS
<1> QED
  BY <1>1 DEF Sizes, Ends, Behind, OneDone

LEMMA SizesHas ==
    \A q, d, v : v \in Sizes(q, d) <=> \E i \in 1 .. Len(q) : IsData(q[i], d) /\ v = q[i].bytes
BY DEF Sizes

LEMMA SizesAre ==
    ASSUME NEW q \in Seq(Message), NEW d \in Dirs
    PROVE  /\ \A n \in Sizes(q, d) : n \in Nat /\ n > 0
           /\ Sizes(q, d) # {} <=> \E i \in 1 .. Len(q) : IsData(q[i], d)
<1>1. \A i \in 1 .. Len(q) : q[i] \in Message
  OBVIOUS
<1>2. \A i \in 1 .. Len(q) : IsData(q[i], d) => q[i].bytes \in Nat /\ q[i].bytes > 0
  BY <1>1, MessageIs DEF IsData, Dirs
<1> QED
  BY <1>2 DEF Sizes

LEMMA QueueAppend ==
    ASSUME NEW q \in Seq(Message), NEW m \in Message, NEW r, r = Append(q, m), NEW d, NEW K
    PROVE  /\ IsData(m, d) => Sizes(r, d) = Sizes(q, d) \cup {m.bytes}
           /\ ~IsData(m, d) => Sizes(r, d) = Sizes(q, d)
           /\ Ends(r, K) <=> (Ends(q, K) \/ IsEnd(m, K))
           /\ Behind(r, K, d) => Behind(q, K, d) \/ (Ends(q, K) /\ IsData(m, d))
           /\ OneDone(q, d) /\ (~IsData(m, d) \/ Sizes(q, d) = {}) => OneDone(r, d)
<1>1. /\ Len(r) \in Nat /\ Len(q) \in Nat /\ Len(r) = Len(q) + 1
      /\ r[Len(r)] = m /\ \A i \in 1 .. Len(q) : r[i] = q[i]
  BY AppendAt
<1>2. \A i \in 1 .. Len(r) : (i \in 1 .. Len(q) /\ r[i] = q[i]) \/ (i = Len(r) /\ r[i] = m)
  BY <1>1
<1>3. \A i \in 1 .. Len(q) : i \in 1 .. Len(r) /\ r[i] = q[i]
  BY <1>1
<1>4. Len(r) \in 1 .. Len(r)
  BY <1>1
<1>5. IsData(m, d) => Sizes(r, d) = Sizes(q, d) \cup {m.bytes}
  BY <1>1, <1>2, <1>3, <1>4 DEF Sizes
<1>6. ~IsData(m, d) => Sizes(r, d) = Sizes(q, d)
  BY <1>1, <1>2, <1>3, <1>4 DEF Sizes
<1>7. Ends(r, K) <=> (Ends(q, K) \/ IsEnd(m, K))
  BY <1>1, <1>2, <1>3, <1>4 DEF Ends
<1>8. Behind(r, K, d) => Behind(q, K, d) \/ (Ends(q, K) /\ IsData(m, d))
  <2> SUFFICES ASSUME NEW i \in 1 .. Len(r), NEW j \in 1 .. Len(r), i < j,
                      IsEnd(r[i], K), IsData(r[j], d)
               PROVE  Behind(q, K, d) \/ (Ends(q, K) /\ IsData(m, d))
    BY DEF Behind
  <2>1. i \in 1 .. Len(q) /\ r[i] = q[i]
    BY <1>1
  <2>2. (j \in 1 .. Len(q) /\ r[j] = q[j]) \/ r[j] = m
    BY <1>2
  <2> QED
    BY <2>1, <2>2 DEF Behind, Ends
<1>9. OneDone(q, d) /\ (~IsData(m, d) \/ Sizes(q, d) = {}) => OneDone(r, d)
  <2>1. Sizes(q, d) = {} => \A i \in 1 .. Len(q) : ~IsData(q[i], d)
    BY DEF Sizes
  <2> QED
    BY <1>2, <2>1 DEF OneDone, IsData
<1> QED
  BY <1>5, <1>6, <1>7, <1>8, <1>9

\* What a queue q whose head is m leaves in its rest r.
TailLeaves(q, m, r, d, K) ==
    /\ IsData(m, d) => Sizes(q, d) = Sizes(r, d) \cup {m.bytes}
    /\ ~IsData(m, d) => Sizes(q, d) = Sizes(r, d)
    /\ Ends(r, K) => Ends(q, K)
    /\ IsEnd(m, K) => Ends(q, K) /\ (Sizes(r, d) # {} => Behind(q, K, d))
    /\ Behind(r, K, d) => Behind(q, K, d)
    /\ OneDone(q, d) => OneDone(r, d) /\ (IsData(m, d) => Sizes(r, d) = {})

LEMMA QueueTail ==
    ASSUME NEW q \in Seq(Message), q # <<>>, NEW m, m = Head(q), NEW r, r = Tail(q), NEW d, NEW K
    PROVE  TailLeaves(q, m, r, d, K)
<1>1. /\ Len(r) \in Nat /\ Len(q) \in Nat /\ Len(q) = Len(r) + 1
      /\ m = q[1] /\ \A i \in 1 .. Len(r) : r[i] = q[i + 1]
  BY TailAt
<1>2. 1 \in 1 .. Len(q) /\ \A i \in 1 .. Len(r) : i + 1 \in 1 .. Len(q) /\ r[i] = q[i + 1] /\ 1 < i + 1 /\ i + 1 # 1
  BY <1>1
<1>3. \A i, j \in 1 .. Len(r) : (i + 1 = j + 1 => i = j) /\ (i < j => i + 1 < j + 1)
  BY <1>1
<1>4. \A i \in 1 .. Len(q) : i = 1 \/ (i - 1 \in 1 .. Len(r) /\ r[i - 1] = q[i])
  <2> SUFFICES ASSUME NEW i \in 1 .. Len(q), i # 1
               PROVE  i - 1 \in 1 .. Len(r) /\ r[i - 1] = q[i]
    OBVIOUS
  <2>1. i - 1 \in 1 .. Len(r) /\ (i - 1) + 1 = i
    BY <1>1
  <2> QED
    BY <1>1, <2>1
<1>0. /\ \A v : v \in Sizes(r, d) => v \in Sizes(q, d)
      /\ \A v \in Sizes(q, d) : v \in Sizes(r, d) \/ (IsData(m, d) /\ v = m.bytes)
      /\ IsData(m, d) => m.bytes \in Sizes(q, d)
  <2>1. \A v : v \in Sizes(r, d) => v \in Sizes(q, d)
    <3> SUFFICES ASSUME NEW v, v \in Sizes(r, d) PROVE v \in Sizes(q, d)
      OBVIOUS
    <3>1. PICK i \in 1 .. Len(r) : IsData(r[i], d) /\ v = r[i].bytes
      BY DEF Sizes
    <3>2. i + 1 \in 1 .. Len(q) /\ r[i] = q[i + 1]
      BY <1>2
    <3> QED
      BY <3>1, <3>2, SizesHas
  <2>2. \A v \in Sizes(q, d) : v \in Sizes(r, d) \/ (IsData(m, d) /\ v = m.bytes)
    <3> SUFFICES ASSUME NEW i \in 1 .. Len(q), IsData(q[i], d)
                 PROVE  q[i].bytes \in Sizes(r, d) \/ (IsData(m, d) /\ q[i].bytes = m.bytes)
      BY SizesHas
    <3> QED
      BY <1>1, <1>4, SizesHas
  <2>3. IsData(m, d) => m.bytes \in Sizes(q, d)
    BY <1>1, <1>2, SizesHas
  <2> QED
    BY <2>1, <2>2, <2>3
<1>5. IsData(m, d) => Sizes(q, d) = Sizes(r, d) \cup {m.bytes}
  BY <1>0
<1>6. ~IsData(m, d) => Sizes(q, d) = Sizes(r, d)
  BY <1>0
<1>7. (Ends(r, K) => Ends(q, K)) /\ (IsEnd(m, K) => Ends(q, K))
  BY <1>1, <1>2 DEF Ends
<1>8. IsEnd(m, K) /\ Sizes(r, d) # {} => Behind(q, K, d)
  <2>1. Sizes(r, d) # {} => \E i \in 1 .. Len(r) : IsData(r[i], d)
    BY DEF Sizes
  <2> QED
    BY <1>1, <1>2, <2>1 DEF Behind
<1>9. Behind(r, K, d) => Behind(q, K, d)
  BY <1>2, <1>3 DEF Behind
<1>10. OneDone(q, d) => OneDone(r, d)
  BY <1>2, <1>3 DEF OneDone
<1>11. OneDone(q, d) /\ IsData(m, d) => Sizes(r, d) = {}
  BY <1>1, <1>2 DEF OneDone, IsData, Sizes
<1> QED
  BY <1>5, <1>6, <1>7, <1>8, <1>9, <1>10, <1>11 DEF TailLeaves

(* One direction of a live session: what is posted is in the mailbox of a  *)
(* thread that knows the session, or with it, or reported, never two of    *)
(* these, and only while the session says it is posted.                    *)
Way(d, st, i, b, q, p) ==
    /\ OneDone(q, d) /\ ~Behind(q, {d}, d)
    /\ i = "posted" => st # "none" /\ Sizes(q, d) = {}
    /\ st # "none" => /\ OnePost(b) /\ ~Ends(q, {d})
                      /\ Holds(b, "post") => i # "posted" /\ Sizes(q, d) = {}
    /\ Sizes(q, d) # {} \/ i = "posted" \/ (st # "none" /\ Holds(b, "post")) => p

LEMMA WayNew ==
    ASSUME NEW d, NEW st, NEW i, i # "posted"
    PROVE  Way(d, st, i, <<>>, <<>>, FALSE)
<1>1. OnePost(<<>>) /\ ~Holds(<<>>, "post")
  <2>1. Len(<<>>) = 0 /\ 1 .. 0 = {}
    OBVIOUS
  <2> QED
    BY <2>1 DEF OnePost, Holds
<1> QED
  BY <1>1, SizesEmpty DEF Way

LEMMA WayWord ==
    ASSUME NEW d, NEW st, NEW i, NEW b \in Seq(Word), NEW q, NEW p, Way(d, st, i, b, q, p),
           NEW w \in Word, w # "post", NEW c, c = Append(b, w)
    PROVE  Way(d, st, i, c, q, p)
<1>1. "post" \in Word
  BY DEF Word
<1>2. (Holds(c, "post") <=> Holds(b, "post")) /\ (OnePost(b) => OnePost(c))
  BY <1>1, AppendWord
<1> QED
  BY <1>2 DEF Way

LEMMA WayPost ==
    ASSUME NEW d, NEW st, NEW i, NEW b \in Seq(Word), NEW q, Way(d, st, i, b, q, FALSE),
           NEW c, c = Append(b, "post")
    PROVE  Way(d, st, i, c, q, TRUE)
<1>1. "post" \in Word
  BY DEF Word
<1>2. ~Holds(b, "post") => OnePost(c)
  BY <1>1, AppendWord
<1> QED
  BY <1>2 DEF Way

(* The dispatcher takes a message, of this direction or another.           *)
LEMMA WayTail ==
    ASSUME NEW d \in Dirs, NEW st, NEW i, NEW b, NEW q \in Seq(Message), NEW p,
           Way(d, st, i, b, q, p),
           q # <<>>, NEW m, m = Head(q), m.kind # "connected", NEW r, r = Tail(q)
    PROVE  /\ Way(d, st, i, b, r, p)
           /\ m.kind = d => Way(d, st, i, b, r, FALSE)
<1>1. /\ IsData(m, d) => Sizes(q, d) = Sizes(r, d) \cup {m.bytes}
      /\ ~IsData(m, d) => Sizes(q, d) = Sizes(r, d)
      /\ Ends(r, {d}) => Ends(q, {d})
      /\ IsEnd(m, {d}) => Ends(q, {d}) /\ (Sizes(r, d) # {} => Behind(q, {d}, d))
      /\ Behind(r, {d}, d) => Behind(q, {d}, d)
      /\ OneDone(q, d) => OneDone(r, d) /\ (IsData(m, d) => Sizes(r, d) = {})
  <2>1. TailLeaves(q, m, r, d, {d})
    BY QueueTail
  <2> QED
    BY <2>1 DEF TailLeaves
<1>2. Way(d, st, i, b, r, p)
  BY <1>1 DEF Way
<1>3. CASE IsData(m, d)
  BY <1>1, <1>3 DEF Way
<1>4. CASE m.kind = d /\ ~IsData(m, d)
  <2>1. IsEnd(m, {d})
    BY <1>4 DEF IsEnd, IsData
  <2>2. st = "none" /\ i # "posted" /\ Sizes(r, d) = {}
    BY <1>1, <2>1 DEF Way
  <2> QED
    BY <1>2, <2>2 DEF Way
<1> QED
  BY <1>2, <1>3, <1>4

(* A thread of the transfer reports something of the other direction.      *)
LEMMA WayOther ==
    ASSUME NEW d, NEW st, NEW i, NEW b, NEW q \in Seq(Message), NEW p, Way(d, st, i, b, q, p),
           NEW m \in Message, m.kind # d, NEW r, r = Append(q, m)
    PROVE  Way(d, st, i, b, r, p)
<1>1. ~IsData(m, d) /\ ~IsEnd(m, {d})
  BY DEF IsData, IsEnd
<1>2. /\ ~IsData(m, d) => Sizes(r, d) = Sizes(q, d)
      /\ Ends(r, {d}) <=> (Ends(q, {d}) \/ IsEnd(m, {d}))
      /\ Behind(r, {d}, d) => Behind(q, {d}, d) \/ (Ends(q, {d}) /\ IsData(m, d))
      /\ OneDone(q, d) /\ (~IsData(m, d) \/ Sizes(q, d) = {}) => OneDone(r, d)
  BY QueueAppend
<1> QED
  BY <1>1, <1>2 DEF Way

(* A turn of the thread without a report: it may take the io.              *)
Silent(st, i, b, st2, i2) ==
    \/ st2 = "none" /\ (i2 = "none" \/ (i2 = i /\ st = "none"))
    \/ st # "none" /\ st2 # "none" /\ i2 = i
    \/ st # "none" /\ st2 # "none" /\ i2 = "posted" /\ (Head(b) = "post" \/ i = "posted")

LEMMA WaySilent ==
    ASSUME NEW d, NEW st, NEW i, NEW b \in Seq(Word), b # <<>>, NEW q, NEW p, Way(d, st, i, b, q, p),
           NEW st2, NEW i2, Silent(st, i, b, st2, i2), NEW c, c = Tail(b)
    PROVE  Way(d, st2, i2, c, q, p)
<1>1. /\ "post" \in Word
      /\ Holds(b, Head(b)) /\ (Holds(c, "post") => Holds(b, "post"))
      /\ OnePost(b) => OnePost(c) /\ (Head(b) = "post" => ~Holds(c, "post"))
  <2>1. "post" \in Word
    BY DEF Word
  <2> QED
    BY <2>1, TailWord
<1> QED
  BY <1>1 DEF Way, Silent

(* ... with data, and at the end of the stream.                            *)
LEMMA WayData ==
    ASSUME NEW d, NEW st, NEW i, NEW b \in Seq(Word), b # <<>>, NEW q \in Seq(Message), NEW p,
           Way(d, st, i, b, q, p),
           st # "none", Head(b) = "post" \/ i = "posted",
           NEW m \in Message, IsData(m, d), NEW r, r = Append(q, m),
           NEW st2, NEW c, c = Tail(b)
    PROVE  Way(d, st2, "none", c, r, p)
<1>1. /\ "post" \in Word
      /\ Holds(b, Head(b)) /\ (Holds(c, "post") => Holds(b, "post"))
      /\ OnePost(b) => OnePost(c) /\ (Head(b) = "post" => ~Holds(c, "post"))
  <2>1. "post" \in Word
    BY DEF Word
  <2> QED
    BY <2>1, TailWord
<1>2. ~IsEnd(m, {d})
  BY DEF IsEnd, IsData
<1>3. /\ Ends(r, {d}) <=> (Ends(q, {d}) \/ IsEnd(m, {d}))
      /\ Behind(r, {d}, d) => Behind(q, {d}, d) \/ (Ends(q, {d}) /\ IsData(m, d))
      /\ OneDone(q, d) /\ (~IsData(m, d) \/ Sizes(q, d) = {}) => OneDone(r, d)
  BY QueueAppend
<1>4. Sizes(q, d) = {} /\ ~Holds(c, "post") /\ ~Ends(q, {d}) /\ p
  BY <1>1 DEF Way
<1> QED
  BY <1>1, <1>2, <1>3, <1>4 DEF Way

LEMMA WayEnd ==
    ASSUME NEW d \in Dirs, NEW st, NEW i, NEW b, NEW q \in Seq(Message), NEW p, Way(d, st, i, b, q, p),
           NEW r, r = Append(q, End(d)), NEW c
    PROVE  Way(d, "none", "none", c, r, p)
<1>1. End(d) \in Message /\ ~IsData(End(d), d)
  BY ReportIs DEF End, IsData
<1>2. /\ ~IsData(End(d), d) => Sizes(r, d) = Sizes(q, d)
      /\ Behind(r, {d}, d) => Behind(q, {d}, d) \/ (Ends(q, {d}) /\ IsData(End(d), d))
      /\ OneDone(q, d) /\ (~IsData(End(d), d) \/ Sizes(q, d) = {}) => OneDone(r, d)
  BY <1>1, QueueAppend
<1> QED
  BY <1>1, <1>2 DEF Way

(* Before the session, and where the queue of the dispatcher is empty.     *)
NoConnects(q) == \A i \in 1 .. Len(q) : q[i].kind # "connected"

Birth ==
    /\ dpc \notin {"timers", "handle"} => batch = <<>>
    /\ life = "none" => Messages = <<>>
    /\ life = "coming" => Messages = <<[kind |-> "connected"]>>
    /\ life \in {"none", "coming"} =>
           /\ ~registered /\ edges = {} /\ ~s.toRemove /\ ~byUs /\ handled + avail = arrived
           /\ \A d \in Dirs : box[d] = <<>> /\ io[d] # "posted" /\ ~failing[d] /\ ~s.toPost[d]
    /\ life \notin {"none", "coming"} => NoConnects(Messages)

Bounds ==
    /\ arrived <= MaxData /\ handled + avail <= arrived
    /\ 0 <= s.len /\ s.len <= s.out /\ s.out <= MaxOut

Ways == \A d \in Dirs : Way(d, status[d], io[d], box[d], Messages, s.post[d])

(* A report claims no more than the peer sent, or the logic; and without   *)
(* an error it is exactly what is neither handled nor in the socket.       *)
Claims ==
    /\ \A n \in Sizes(Messages, "recv") : handled + avail + n <= arrived
    /\ \A n \in Sizes(Messages, "send") : n <= s.out

Exact ==
    ~byUs /\ ~broken =>
        /\ Sizes(Messages, "recv") = {} => handled + avail = arrived
        /\ \A n \in Sizes(Messages, "recv") : handled + avail + n = arrived

(* Who ends the session has a reason: the server side closed it, the       *)
(* connection broke, or the peer closed and all it sent is handled.        *)
Over == byUs \/ broken \/ (fin /\ avail = 0 /\ Sizes(Messages, "recv") = {})

Ending ==
    /\ s.mask \/ s.toRemove => Over
    /\ \A d \in Dirs : Holds(box[d], "cancel") => Over
    /\ edges \cap {"hup", "hupSend"} # {} => broken
    /\ failing["send"] => broken
    /\ failing["recv"] => broken \/ (fin /\ avail = 0)
    /\ Ends(Messages, Dirs) =>
           byUs \/ broken \/ (fin /\ avail = 0 /\ ~Behind(Messages, Dirs, "recv"))

Gone == life \in {"closed", "freed"} => byUs \/ broken \/ (fin /\ handled = arrived)

Books == Birth /\ Bounds /\ Gone /\ (life = "alive" => Ways /\ Claims /\ Exact /\ Ending)

LEMMA InitBooks == Init => Books
<1> SUFFICES ASSUME Init PROVE Books
  OBVIOUS
<1>1. Messages = <<>>
  BY DEF Init, Messages
<1>2. /\ \A d \in Dirs : box[d] = <<>> /\ io[d] # "posted" /\ ~failing[d] /\ ~s.toPost[d]
      /\ ~s.toRemove /\ s.out = 0 /\ s.len = 0
  BY DEF Init, NewSession, Both
<1>3. MaxData \in Nat /\ MaxOut \in Nat
  BY SessionAssumption
<1>4. /\ life = "none" /\ batch = <<>> /\ ~registered /\ edges = {} /\ ~byUs
      /\ arrived = 0 /\ avail = 0 /\ handled = 0
  BY DEF Init
<1>5. Birth
  BY <1>1, <1>2, <1>4 DEF Birth
<1>6. Bounds
  BY <1>2, <1>3, <1>4 DEF Bounds
<1> QED
  BY <1>4, <1>5, <1>6 DEF Books, Gone

(* The numbers, for arithmetic.                                            *)
LEMMA Numbers ==
    ASSUME Shape
    PROVE  /\ arrived \in Nat /\ avail \in Nat /\ handled \in Nat
           /\ s.out \in Int /\ s.len \in Int /\ MaxOut \in Nat /\ MaxData \in Nat
           /\ Messages \in Seq(Message)
           /\ \A d \in Dirs : \A n \in Sizes(Messages, d) : n \in Nat /\ n > 0
           /\ "recv" \in Dirs /\ "send" \in Dirs
<1>1. s.out \in Int /\ s.len \in Int
  BY DEF Shape, Fields
<1>2. "recv" \in Dirs /\ "send" \in Dirs
  BY DEF Dirs
<1> QED
  BY <1>1, <1>2, SessionAssumption, MessagesTyped, SizesAre DEF Shape

LEMMA EndingKept ==
    ASSUME Ending, UNCHANGED <<fin, avail, broken, failing>>, byUs => byUs',
           edges' \cap {"hup", "hupSend"} # {} => broken,
           s'.mask \/ s'.toRemove => Over',
           \A d \in Dirs : Holds(box'[d], "cancel") => Holds(box[d], "cancel") \/ broken \/ Over',
           Sizes(Messages', "recv") \subseteq Sizes(Messages, "recv"),
           Ends(Messages', Dirs) => Ends(Messages, Dirs),
           Behind(Messages', Dirs, "recv") => Behind(Messages, Dirs, "recv")
    PROVE  Ending'
<1>1. Over => Over'
  BY DEF Over
<1>2. broken => Over'
  BY DEF Over
<1>3. \A d \in Dirs : Holds(box'[d], "cancel") => Over'
  BY <1>1, <1>2 DEF Ending
<1>4. Ends(Messages', Dirs) =>
         byUs' \/ broken' \/ (fin' /\ avail' = 0 /\ ~Behind(Messages', Dirs, "recv"))
  BY DEF Ending
<1> QED
  BY <1>3, <1>4 DEF Ending

LEMMA PeerBooks == ASSUME Shape, Books, PeerNext PROVE Books'
<1>0. /\ arrived \in Nat /\ avail \in Nat /\ handled \in Nat
      /\ \A d \in Dirs : \A n \in Sizes(Messages, d) : n \in Nat /\ n > 0
      /\ "recv" \in Dirs
  BY Numbers
<1>1. UNCHANGED <<registered, transferVars, inbox, frameVars, sessionVars>>
  BY DEF PeerNext, PeerSends, PeerCloses, PeerResets, PeerReads
<1>2. Messages' = Messages
  BY <1>1 DEF Messages, frameVars
<1>3. /\ edges' = edges \/ (registered /\ edges' = edges \cup {"in"})
         \/ (registered /\ edges' = edges \cup {"out"}) \/ (registered /\ broken')
      /\ broken => broken'
      /\ fin => fin' /\ avail' = avail
      /\ fin /\ ~broken => arrived' = arrived
      /\ \/ arrived' = arrived /\ avail' = avail
         \/ ~fin /\ ~broken /\ arrived' = arrived + 1 /\ avail' = avail + 1 /\ arrived < MaxData
  <2>1. CASE PeerSends
    BY <2>1 DEF PeerSends, Edge
  <2>2. CASE PeerCloses
    BY <2>2 DEF PeerCloses, Edge
  <2>3. CASE PeerResets
    BY <2>3 DEF PeerResets, Edge
  <2>4. CASE PeerReads
    BY <2>4 DEF PeerReads, Edge
  <2> QED
    BY <2>1, <2>2, <2>3, <2>4 DEF PeerNext
<1>4. /\ dpc' = dpc /\ batch' = batch /\ life' = life /\ s' = s /\ handled' = handled
      /\ byUs' = byUs /\ box' = box /\ io' = io /\ failing' = failing /\ status' = status
      /\ registered' = registered
  BY <1>1 DEF transferVars, frameVars, sessionVars
<1>5. Birth'
  BY <1>0, <1>2, <1>3, <1>4 DEF Books, Birth
<1>6. Bounds'
  <2>1. arrived' <= MaxData /\ handled' + avail' <= arrived'
    BY <1>0, <1>3, <1>4, Numbers DEF Books, Bounds
  <2> QED
    BY <1>4, <2>1 DEF Books, Bounds
<1>7. Gone'
  BY <1>3, <1>4 DEF Books, Gone
<1>8. ASSUME life = "alive" PROVE (Ways /\ Claims /\ Exact /\ Ending)'
  <2>1. Ways /\ Claims /\ Exact /\ Ending
    BY <1>8 DEF Books
  <2>2. Ways'
    BY <1>2, <1>4, <2>1 DEF Ways
  <2>3. Claims'
    BY <1>0, <1>2, <1>3, <1>4, <2>1 DEF Claims
  <2>4. Exact'
    BY <1>0, <1>2, <1>3, <1>4, <2>1 DEF Exact
  <2>5. Over => Over'
    BY <1>2, <1>3, <1>4 DEF Over
  <2>6. edges' \cap {"hup", "hupSend"} # {} => broken'
    BY <1>3, <2>1 DEF Ending
  <2>7. Ending'
    BY <1>2, <1>3, <1>4, <2>1, <2>5, <2>6 DEF Ending
  <2> QED
    BY <2>2, <2>3, <2>4, <2>7
<1> QED
  BY <1>4, <1>5, <1>6, <1>7, <1>8 DEF Books

LEMMA ConnectBooks == ASSUME Shape, Books, WillConnect PROVE Books'
<1>1. /\ life = "none" /\ life' = "coming"
      /\ UNCHANGED <<peerVars, epollVars, failing, box, frameVars, s, handled, byUs>>
      /\ inbox' = Append(inbox, [kind |-> "connected"])
      /\ io' = Both("null")
  BY DEF WillConnect
<1>2. Messages = <<>> /\ [kind |-> "connected"] \in Message
  BY <1>1 DEF Books, Birth, Message
<1>3. Messages' = <<[kind |-> "connected"]>>
  <2>1. Messages' = Append(Messages, [kind |-> "connected"])
    BY <1>1, <1>2, MessagesAppend DEF frameVars
  <2> QED
    BY <1>2, <2>1
<1>4. \A d \in Dirs : io'[d] # "posted"
  BY <1>1 DEF Both
<1>5. Birth'
  BY <1>1, <1>3, <1>4 DEF Books, Birth, epollVars, frameVars, peerVars
<1> QED
  BY <1>1, <1>5 DEF Books, Bounds, Gone, peerVars

LEMMA DistributeBooks == ASSUME Shape, Books, Distribute PROVE Books'
<1>1. /\ registered /\ UNCHANGED <<peerVars, registered, status, io, failing, inbox, frameVars, sessionVars>>
      /\ \/ "hup" \in edges /\ edges' = {"hupSend"} /\ box' = [box EXCEPT !["recv"] = Append(@, "cancel")]
         \/ /\ edges' = {}
            /\ box' = [recv |-> box["recv"] \o If("in", "ready"),
                       send |-> box["send"] \o If("hupSend", "cancel") \o If("out", "ready")]
  BY DEF Distribute
<1>2. /\ Messages' = Messages /\ dpc' = dpc /\ batch' = batch /\ life' = life /\ s' = s
      /\ handled' = handled /\ byUs' = byUs
  BY <1>1 DEF Messages, frameVars, sessionVars
<1>3. /\ box["recv"] \in Seq(Word) /\ box["send"] \in Seq(Word)
      /\ "ready" \in Word /\ "cancel" \in Word
      /\ \A d \in Dirs : d = "recv" \/ d = "send"
  BY DEF Shape, Dirs, Word
<1>4. ASSUME NEW d \in Dirs
      PROVE  \E v \in {<<>>, <<"cancel">>}, w \in {<<>>, <<"ready">>} :
                 /\ box'[d] = box[d] \o v \o w
                 /\ v # <<>> => "hup" \in edges \/ "hupSend" \in edges
  <2>1. box[d] \in Seq(Word) /\ box[d] \o <<>> \o <<>> = box[d]
    BY <1>3
  <2>2. CASE "hup" \in edges /\ box' = [box EXCEPT !["recv"] = Append(@, "cancel")]
    <3>1. CASE d = "recv"
      <4>1. box'[d] = Append(box[d], "cancel")
        BY <2>2, <3>1 DEF Shape, Dirs
      <4>2. Append(box[d], "cancel") = box[d] \o <<"cancel">> \o <<>>
        BY <1>3, <2>1
      <4> QED
        BY <2>2, <4>1, <4>2
    <3>2. CASE d # "recv"
      <4>1. box'[d] = box[d]
        BY <2>2, <3>2 DEF Shape
      <4> QED
        BY <2>1, <4>1
    <3> QED
      BY <3>1, <3>2
  <2>3. CASE box' = [recv |-> box["recv"] \o If("in", "ready"),
                     send |-> box["send"] \o If("hupSend", "cancel") \o If("out", "ready")]
    <3>1. CASE d = "recv"
      <4>1. box'[d] = box[d] \o If("in", "ready") /\ box[d] \o <<>> = box[d]
        BY <1>3, <2>3, <3>1
      <4>2. If("in", "ready") \in {<<>>, <<"ready">>}
        BY DEF If
      <4> QED
        BY <4>1, <4>2
    <3>2. CASE d = "send"
      <4>1. box'[d] = box[d] \o If("hupSend", "cancel") \o If("out", "ready")
        BY <2>3, <3>2
      <4>2. If("out", "ready") \in {<<>>, <<"ready">>} /\ If("hupSend", "cancel") \in {<<>>, <<"cancel">>}
        BY DEF If
      <4>3. If("hupSend", "cancel") # <<>> => "hupSend" \in edges
        BY DEF If
      <4> QED
        BY <4>1, <4>2, <4>3
    <3> QED
      BY <1>3, <3>1, <3>2
  <2> QED
    BY <1>1, <2>2, <2>3
<1>5. life \notin {"none", "coming"}
  BY <1>1 DEF Books, Birth
<1>6. Birth'
  BY <1>2, <1>5 DEF Books, Birth
<1>7. Bounds' /\ Gone'
  BY <1>1, <1>2 DEF Books, Bounds, Gone, peerVars
<1>8. ASSUME life = "alive" PROVE (Ways /\ Claims /\ Exact /\ Ending)'
  <2>1. Ways /\ Claims /\ Exact /\ Ending
    BY <1>8 DEF Books
  <2>2. "hup" \in edges \/ "hupSend" \in edges => broken
    BY <2>1 DEF Ending
  <2>3. ASSUME NEW d \in Dirs
        PROVE  /\ Way(d, status[d], io[d], box'[d], Messages, s.post[d])
               /\ Holds(box'[d], "cancel") => Holds(box[d], "cancel") \/ broken
    <3>1. PICK v \in {<<>>, <<"cancel">>}, w \in {<<>>, <<"ready">>} :
                 /\ box'[d] = box[d] \o v \o w
                 /\ v # <<>> => "hup" \in edges \/ "hupSend" \in edges
      BY <1>4
    <3>2. PICK b, c, e : b = box[d] /\ c = b \o v /\ e = c \o w /\ e = box'[d]
      BY <3>1
    <3>3. b \in Seq(Word)
      BY <1>3, <3>2
    <3>0. \A f \in Seq(Word), x \in Word :
              f \o <<>> = f /\ f \o <<x>> = Append(f, x) /\ Append(f, x) \in Seq(Word)
      OBVIOUS
    <3>4. /\ c = b \/ (c = Append(b, "cancel") /\ broken)
          /\ c \in Seq(Word)
      <4>1. CASE v = <<>>
        <5>1. b \o <<>> = b
          BY <3>3
        <5> QED
          BY <3>2, <3>3, <4>1, <5>1
      <4>2. CASE v = <<"cancel">>
        <5>0. c = b \o <<"cancel">>
          BY <3>2, <4>2
        <5>1. c = Append(b, "cancel") /\ c \in Seq(Word)
          BY <1>3, <3>0, <3>3, <5>0
        <5>2. v # <<>>
          BY <4>2
        <5> QED
          BY <2>2, <3>1, <5>1, <5>2
      <4> QED
        BY <4>1, <4>2
    <3>5. e = c \/ e = Append(c, "ready")
      <4>1. CASE w = <<>>
        <5>1. e = c \o <<>>
          BY <3>2, <4>1
        <5> QED
          BY <3>0, <3>4, <5>1
      <4>2. CASE w = <<"ready">>
        <5>1. e = c \o <<"ready">>
          BY <3>2, <4>2
        <5> QED
          BY <1>3, <3>0, <3>4, <5>1
      <4> QED
        BY <4>1, <4>2
    <3>6. Way(d, status[d], io[d], b, Messages, s.post[d])
      BY <2>1, <3>2 DEF Ways
    <3>7. Way(d, status[d], io[d], c, Messages, s.post[d])
      BY <1>3, <3>3, <3>4, <3>6, WayWord
    <3>8. Way(d, status[d], io[d], e, Messages, s.post[d])
      BY <1>3, <3>4, <3>5, <3>7, WayWord
    <3>9. Holds(e, "cancel") => Holds(c, "cancel")
      BY <1>3, <3>4, <3>5, AppendWord
    <3>10. Holds(c, "cancel") => Holds(b, "cancel") \/ broken
      BY <3>4
    <3> QED
      BY <3>2, <3>8, <3>9, <3>10
  <2>4. Ways'
    BY <1>1, <1>2, <2>3 DEF Ways
  <2>5. Claims' /\ Exact'
    BY <1>1, <1>2, <2>1 DEF Claims, Exact, peerVars
  <2>6. Over => Over'
    BY <1>1, <1>2 DEF Over, peerVars
  <2>7. edges' \cap {"hup", "hupSend"} # {} => broken
    BY <1>1, <2>2
  <2>8. UNCHANGED <<fin, avail, broken, failing>>
    BY <1>1 DEF peerVars
  <2>9. s'.mask \/ s'.toRemove => Over'
    BY <1>2, <2>1, <2>6 DEF Ending
  <2>10. Ending'
    BY <1>2, <2>1, <2>3, <2>7, <2>8, <2>9, EndingKept
  <2> QED
    BY <2>4, <2>5, <2>10
<1> QED
  BY <1>2, <1>6, <1>7, <1>8 DEF Books

LEMMA LoopBooks ==
    ASSUME Shape, Books, ClosePool \/ WaitForPoping \/ LastFrame \/ WaitForTransferIoFinish
    PROVE  Books'
<1>1. /\ UNCHANGED <<peerVars, epollVars, transferVars, s, handled, byUs>>
      /\ life' = life \/ (life = "closed" /\ life' = "freed")
  BY DEF ClosePool, WaitForPoping, LastFrame, WaitForTransferIoFinish, sessionVars
<1>2. /\ Messages' = Messages
      /\ dpc' \notin {"timers", "handle"} => batch' = <<>>
  <2>1. CASE ClosePool
    BY <2>1 DEF ClosePool, Messages, Books, Birth
  <2>2. CASE WaitForTransferIoFinish
    BY <2>2 DEF WaitForTransferIoFinish, Messages, Books, Birth
  <2>3. CASE WaitForPoping \/ LastFrame
    <3>1. batch' = inbox /\ inbox' = <<>> /\ dpc \in {"wait", "last"} /\ dpc' = "timers"
      BY <2>3 DEF WaitForPoping, LastFrame
    <3>2. batch = <<>>
      BY <3>1 DEF Books, Birth
    <3> QED
      BY <3>1, <3>2, MessagesSwap
  <2> QED
    BY <2>1, <2>2, <2>3
<1>3. Birth'
  BY <1>1, <1>2 DEF Books, Birth, peerVars, epollVars, transferVars
<1>4. Bounds' /\ Gone'
  BY <1>1 DEF Books, Bounds, Gone, peerVars
<1>5. ASSUME life = "alive" PROVE (Ways /\ Claims /\ Exact /\ Ending)'
  <2>1. Ways /\ Claims /\ Exact /\ Ending
    BY <1>5 DEF Books
  <2>2. Ways' /\ Claims' /\ Exact'
    BY <1>1, <1>2, <2>1 DEF Ways, Claims, Exact, peerVars, transferVars
  <2>3. Over' = Over
    BY <1>1, <1>2 DEF Over, peerVars
  <2>4. Ending'
    BY <1>1, <1>2, <2>1, <2>3 DEF Ending, peerVars, epollVars, transferVars
  <2> QED
    BY <2>2, <2>4
<1> QED
  BY <1>1, <1>3, <1>4, <1>5 DEF Books

(* What a turn of a thread of the transfer comes to: it reports nothing,   *)
(* or data, or the end of the stream, for which it has a reason.           *)
ReportsNothing(d) ==
    /\ box[d] # <<>> /\ box'[d] = Tail(box[d])
    /\ Silent(status[d], io[d], box[d], status'[d], io'[d])
    /\ inbox' = inbox /\ avail' = avail /\ ~failing'[d]

ReportsData(d, n) ==
    /\ box[d] # <<>> /\ box'[d] = Tail(box[d])
    /\ status[d] # "none" /\ (Head(box[d]) = "post" \/ io[d] = "posted")
    /\ io'[d] = "none"
    /\ inbox' = Append(inbox, Data(d, n))
    /\ IF d = "recv" THEN n <= avail /\ avail' = avail - n ELSE n <= s.len /\ avail' = avail
    /\ failing'[d] => broken \/ (d = "recv" /\ fin /\ avail' = 0)

ReportsEnd(d) ==
    /\ box'[d] = box[d] \/ (box[d] # <<>> /\ box'[d] = Tail(box[d]))
    /\ box[d] # <<>> \/ failing[d]
    /\ status'[d] = "none" /\ io'[d] = "none"
    /\ inbox' = Append(inbox, End(d)) /\ avail' = avail /\ ~failing'[d]
    /\ \/ failing[d] \/ Holds(box[d], "cancel") \/ broken
       \/ d = "recv" /\ fin /\ avail = 0

Reports(d) ==
    \/ ReportsNothing(d)
    \/ \E n \in Nat : n > 0 /\ ReportsData(d, n)
    \/ ReportsEnd(d)

LEMMA IoReports ==
    ASSUME Shape, NEW d \in Dirs, DoIo(d), ~failing[d],
           box[d] # <<>>, box'[d] = Tail(box[d]),
           status[d] # "none", Head(box[d]) = "post" \/ io[d] = "posted"
    PROVE  /\ Reports(d) /\ UNCHANGED <<arrived, fin, broken>>
           /\ \A e \in Dirs \ {d} : status'[e] = status[e] /\ io'[e] = io[e] /\ failing'[e] = failing[e]
<1>1. PICK o \in Outcomes(d) :
        /\ inbox' = inbox \o FirstReport(d, o)
        /\ failing' = [failing EXCEPT ![d] = o.bytes > 0 /\ o.end = "closed"]
        /\ io' = [io EXCEPT ![d] = IF o.bytes > 0 \/ o.end = "closed" THEN "none" ELSE "posted"]
        /\ status' = [status EXCEPT ![d] = CASE o.end = "again" -> "idle"
                                             [] o.end = "closed" /\ o.bytes = 0 -> "none"
                                             [] OTHER -> "ready"]
        /\ IF d = "recv"
           THEN avail' = avail - o.bytes /\ UNCHANGED full
           ELSE full' = (full \/ o.end = "again") /\ UNCHANGED avail
        /\ UNCHANGED <<arrived, fin, broken>>
  BY DEF DoIo
<1>2. /\ o.bytes \in Nat /\ o.end \in {"again", "stop", "closed"}
      /\ d = "recv" => o.bytes <= avail /\ (o.end = "closed" => broken \/ (fin /\ o.bytes = avail))
      /\ d # "recv" => o.bytes <= s.len /\ (o.end = "closed" => broken)
  <2>1. CASE d = "recv"
    <3>1. /\ o \in [bytes : 0 .. avail, end : {"again", "stop", "closed"}]
          /\ CASE o.end = "again" -> o.bytes = avail /\ ~fin /\ ~broken
               [] o.end = "stop" -> o.bytes > 0
               [] o.end = "closed" -> broken \/ (fin /\ o.bytes = avail)
      BY <2>1 DEF Outcomes
    <3>2. o.bytes \in 0 .. avail /\ o.end \in {"again", "stop", "closed"} /\ avail \in Nat
      BY <3>1 DEF Shape
    <3>3. o.end = "closed" => broken \/ (fin /\ o.bytes = avail)
      BY <3>1
    <3> QED
      BY <2>1, <3>2, <3>3
  <2>2. CASE d # "recv"
    <3>1. /\ o \in [bytes : 0 .. s.len, end : {"again", "stop", "closed"}]
          /\ CASE o.end = "again" -> ~broken /\ o.bytes < s.len /\ (full => o.bytes = 0)
               [] o.end = "stop" -> ~broken /\ ~full /\ o.bytes = s.len
               [] o.end = "closed" -> broken /\ o.bytes < s.len
      BY <2>2 DEF Outcomes
    <3>2. o.bytes \in 0 .. s.len /\ o.end \in {"again", "stop", "closed"} /\ s.len \in Int
      BY <3>1 DEF Shape, Fields
    <3>3. o.end = "closed" => broken
      BY <3>1
    <3> QED
      BY <2>2, <3>2, <3>3
  <2> QED
    BY <2>1, <2>2
<1>3. /\ \A e \in Dirs \ {d} : status'[e] = status[e] /\ io'[e] = io[e] /\ failing'[e] = failing[e]
      /\ io'[d] = IF o.bytes > 0 \/ o.end = "closed" THEN "none" ELSE "posted"
      /\ status'[d] = CASE o.end = "again" -> "idle"
                        [] o.end = "closed" /\ o.bytes = 0 -> "none"
                        [] OTHER -> "ready"
  BY <1>1 DEF Shape
<1>4. failing'[d] => o.bytes > 0 /\ o.end = "closed"
  BY <1>1 DEF Shape
<1>5. inbox \in Seq(Message) /\ avail \in Nat
  BY DEF Shape
<1>6. CASE o.bytes > 0
  <2>1. FirstReport(d, o) = <<Data(d, o.bytes)>>
    BY <1>2, <1>6 DEF FirstReport
  <2>2. Data(d, o.bytes) \in Message
    BY <1>2, ReportIs
  <2>3. inbox' = Append(inbox, Data(d, o.bytes))
    BY <1>1, <1>5, <2>1, <2>2
  <2>4. failing'[d] => broken \/ (d = "recv" /\ fin /\ avail' = 0)
    BY <1>1, <1>2, <1>4, <1>5
  <2>5. ReportsData(d, o.bytes)
    BY <1>1, <1>2, <1>3, <1>6, <2>3, <2>4 DEF ReportsData
  <2> QED
    BY <1>1, <1>2, <1>3, <1>6, <2>5 DEF Reports
<1>7. CASE o.bytes = 0 /\ o.end = "closed"
  <2>1. FirstReport(d, o) = <<End(d)>>
    BY <1>2, <1>7 DEF FirstReport
  <2>2. End(d) \in Message
    BY ReportIs
  <2>3. inbox' = Append(inbox, End(d))
    BY <1>1, <1>5, <2>1, <2>2
  <2>4. avail' = avail
    BY <1>1, <1>5, <1>7
  <2>5. status'[d] = "none" /\ io'[d] = "none"
    BY <1>3, <1>7
  <2>6. broken \/ (d = "recv" /\ fin /\ avail = 0)
    BY <1>2, <1>7
  <2>7. ~failing'[d]
    BY <1>4, <1>7
  <2>8. ReportsEnd(d)
    BY <2>3, <2>4, <2>5, <2>6, <2>7 DEF ReportsEnd
  <2> QED
    BY <1>1, <1>3, <2>8 DEF Reports
<1>8. CASE o.bytes = 0 /\ o.end # "closed"
  <2>1. FirstReport(d, o) = <<>>
    BY <1>8 DEF FirstReport
  <2>2. inbox' = inbox
    BY <1>1, <1>5, <2>1
  <2>3. avail' = avail
    BY <1>1, <1>5, <1>8
  <2>4. io'[d] = "posted" /\ status'[d] # "none"
    BY <1>3, <1>8
  <2>5. ~failing'[d]
    BY <1>4, <1>8
  <2>6. ReportsNothing(d)
    BY <2>2, <2>3, <2>4, <2>5 DEF ReportsNothing, Silent
  <2> QED
    BY <1>1, <1>3, <2>6 DEF Reports
<1> QED
  BY <1>2, <1>6, <1>7, <1>8

LEMMA PollerReports ==
    ASSUME Shape, NEW d \in Dirs, Poller(d)
    PROVE  /\ Reports(d) /\ UNCHANGED <<epollVars, frameVars, sessionVars, arrived, fin, broken>>
           /\ \A e \in Dirs \ {d} :
                 /\ status'[e] = status[e] /\ io'[e] = io[e]
                 /\ failing'[e] = failing[e] /\ box'[e] = box[e]
<1>1. CASE Fail(d)
  <2>1. /\ failing[d] /\ ~failing'[d] /\ io'[d] = "none" /\ status'[d] = "none"
        /\ \A e \in Dirs \ {d} : status'[e] = status[e] /\ io'[e] = io[e] /\ failing'[e] = failing[e]
    BY <1>1 DEF Fail, Shape
  <2>2. inbox' = Append(inbox, End(d)) /\ UNCHANGED <<peerVars, epollVars, box, frameVars, sessionVars>>
    BY <1>1 DEF Fail
  <2>3. ReportsEnd(d)
    BY <2>1, <2>2 DEF ReportsEnd, peerVars
  <2> QED
    BY <2>1, <2>2, <2>3 DEF Reports, peerVars
<1>2. ASSUME NEW w, Take(d, w)
      PROVE  /\ ~failing[d] /\ box[d] # <<>> /\ Head(box[d]) = w /\ box'[d] = Tail(box[d])
             /\ \A e \in Dirs \ {d} : box'[e] = box[e]
             /\ UNCHANGED <<epollVars, frameVars, sessionVars>>
  BY <1>2 DEF Take, Shape
<1>3. CASE OnReady(d)
  <2>1. /\ ~failing[d] /\ box[d] # <<>> /\ Head(box[d]) = "ready" /\ box'[d] = Tail(box[d])
        /\ \A e \in Dirs \ {d} : box'[e] = box[e]
        /\ UNCHANGED <<epollVars, frameVars, sessionVars>>
    BY <1>2, <1>3 DEF OnReady
  <2>2. CASE status[d] = "none" /\ UNCHANGED <<status, io, failing, inbox, peerVars>>
    <3>1. ReportsNothing(d)
      BY <2>1, <2>2 DEF ReportsNothing, Silent, peerVars
    <3> QED
      BY <2>1, <2>2, <3>1 DEF Reports, peerVars
  <2>3. CASE status[d] # "none" /\ io[d] = "posted" /\ DoIo(d)
    BY <2>1, <2>3, IoReports
  <2>4. CASE /\ status[d] # "none" /\ io[d] # "posted"
             /\ status' = [status EXCEPT ![d] = "ready"]
             /\ UNCHANGED <<io, failing, inbox, peerVars>>
    <3>1. status'[d] = "ready" /\ \A e \in Dirs \ {d} : status'[e] = status[e]
      BY <2>4 DEF Shape
    <3>2. ReportsNothing(d)
      BY <2>1, <2>4, <3>1 DEF ReportsNothing, Silent, peerVars
    <3> QED
      BY <2>1, <2>4, <3>1, <3>2 DEF Reports, peerVars
  <2> QED
    BY <1>3, <2>2, <2>3, <2>4 DEF OnReady
<1>4. CASE OnBePosted(d)
  <2>1. /\ ~failing[d] /\ box[d] # <<>> /\ Head(box[d]) = "post" /\ box'[d] = Tail(box[d])
        /\ \A e \in Dirs \ {d} : box'[e] = box[e]
        /\ UNCHANGED <<epollVars, frameVars, sessionVars>>
    BY <1>2, <1>4 DEF OnBePosted
  <2>2. CASE status[d] = "none" /\ UNCHANGED <<status, io, failing, inbox, peerVars>>
    <3>1. ReportsNothing(d)
      BY <2>1, <2>2 DEF ReportsNothing, Silent, peerVars
    <3> QED
      BY <2>1, <2>2, <3>1 DEF Reports, peerVars
  <2>3. CASE status[d] = "ready" /\ DoIo(d)
    BY <2>1, <2>3, IoReports
  <2>4. CASE /\ status[d] = "idle" /\ io' = [io EXCEPT ![d] = "posted"]
             /\ UNCHANGED <<status, failing, inbox, peerVars>>
    <3>1. io'[d] = "posted" /\ \A e \in Dirs \ {d} : io'[e] = io[e]
      BY <2>4 DEF Shape
    <3>2. ReportsNothing(d)
      BY <2>1, <2>4, <3>1 DEF ReportsNothing, Silent, peerVars
    <3> QED
      BY <2>1, <2>4, <3>1, <3>2 DEF Reports, peerVars
  <2> QED
    BY <1>4, <2>2, <2>3, <2>4 DEF OnBePosted
<1>5. ASSUME NEW w \in {"cancel", "quiet"}, OnCancel(d, w)
      PROVE  /\ Reports(d) /\ UNCHANGED <<epollVars, frameVars, sessionVars, arrived, fin, broken>>
             /\ \A e \in Dirs \ {d} :
                   /\ status'[e] = status[e] /\ io'[e] = io[e]
                   /\ failing'[e] = failing[e] /\ box'[e] = box[e]
  <2>1. /\ ~failing[d] /\ box[d] # <<>> /\ Head(box[d]) = w /\ box'[d] = Tail(box[d])
        /\ \A e \in Dirs \ {d} : box'[e] = box[e]
        /\ UNCHANGED <<epollVars, frameVars, sessionVars>>
    BY <1>2, <1>5 DEF OnCancel
  <2>2. /\ status' = [status EXCEPT ![d] = "none"]
        /\ io' = [io EXCEPT ![d] = IF status[d] = "none" THEN @ ELSE "none"]
        /\ inbox' = IF status[d] # "none" /\ w = "cancel" THEN Append(inbox, End(d)) ELSE inbox
        /\ UNCHANGED <<failing, peerVars>>
    BY <1>5 DEF OnCancel
  <2>3. /\ status'[d] = "none" /\ io'[d] = IF status[d] = "none" THEN io[d] ELSE "none"
        /\ \A e \in Dirs \ {d} : status'[e] = status[e] /\ io'[e] = io[e]
    BY <2>2 DEF Shape
  <2>4. CASE status[d] # "none" /\ w = "cancel"
    <3>1. Holds(box[d], "cancel")
      <4>1. box[d] \in Seq(Word)
        BY DEF Shape
      <4>2. Holds(box[d], Head(box[d]))
        BY <2>1, <4>1, TailWord
      <4> QED
        BY <2>1, <2>4, <4>2
    <3>2. ReportsEnd(d)
      BY <2>1, <2>2, <2>3, <2>4, <3>1 DEF ReportsEnd, peerVars
    <3> QED
      BY <2>1, <2>2, <2>3, <3>2 DEF Reports, peerVars
  <2>5. CASE ~(status[d] # "none" /\ w = "cancel")
    <3>1. ReportsNothing(d)
      BY <2>1, <2>2, <2>3, <2>5 DEF ReportsNothing, Silent, peerVars
    <3> QED
      BY <2>1, <2>2, <2>3, <3>1 DEF Reports, peerVars
  <2> QED
    BY <2>4, <2>5
<1> QED
  BY <1>1, <1>3, <1>4, <1>5 DEF Poller

LEMMA NoConnectsAppend ==
    ASSUME NEW q \in Seq(Message), NoConnects(q), NEW m \in Message, m.kind # "connected",
           NEW r, r = Append(q, m)
    PROVE  NoConnects(r)
<1>1. \A i \in 1 .. Len(r) : (i \in 1 .. Len(q) /\ r[i] = q[i]) \/ r[i] = m
  <2>1. /\ Len(r) \in Nat /\ Len(q) \in Nat /\ Len(r) = Len(q) + 1
        /\ r[Len(r)] = m /\ \A i \in 1 .. Len(q) : r[i] = q[i]
    BY AppendAt
  <2> QED
    BY <2>1
<1> QED
  BY <1>1 DEF NoConnects

LEMMA NoConnectsTail ==
    ASSUME NEW q \in Seq(Message), NoConnects(q), q # <<>>, NEW r, r = Tail(q)
    PROVE  NoConnects(r) /\ Head(q).kind # "connected"
<1>1. /\ Len(r) \in Nat /\ Len(q) \in Nat /\ Len(q) = Len(r) + 1
      /\ Head(q) = q[1] /\ \A i \in 1 .. Len(r) : r[i] = q[i + 1]
  BY TailAt
<1>2. 1 \in 1 .. Len(q) /\ \A i \in 1 .. Len(r) : i + 1 \in 1 .. Len(q) /\ r[i] = q[i + 1]
  BY <1>1
<1> QED
  BY <1>1, <1>2 DEF NoConnects

(* What a report leaves of the books, case by case.                        *)
LEMMA NothingBooks ==
    ASSUME Shape, Ways, Claims, Exact, Ending, NEW d \in Dirs, ReportsNothing(d),
           UNCHANGED <<edges, batch, s, handled, byUs, arrived, fin, broken>>,
           \A e \in Dirs \ {d} : /\ status'[e] = status[e] /\ io'[e] = io[e]
                                 /\ failing'[e] = failing[e] /\ box'[e] = box[e]
    PROVE  (Ways /\ Claims /\ Exact /\ Ending)'
<1>1. Messages' = Messages /\ avail' = avail
  BY DEF ReportsNothing, Messages
<1>2. ASSUME NEW e \in Dirs
      PROVE  Way(e, status'[e], io'[e], box'[e], Messages, s.post[e])
  <2>1. Way(e, status[e], io[e], box[e], Messages, s.post[e])
    BY DEF Ways
  <2>2. CASE e = d
    <3>1. box[d] \in Seq(Word)
      BY DEF Shape
    <3>2. /\ box[d] # <<>> /\ box'[d] = Tail(box[d])
          /\ Silent(status[d], io[d], box[d], status'[d], io'[d])
      BY DEF ReportsNothing
    <3>3. Way(d, status'[d], io'[d], box'[d], Messages, s.post[d])
      BY <2>1, <2>2, <3>1, <3>2, WaySilent
    <3> QED
      BY <2>2, <3>3
  <2> QED
    BY <2>1, <2>2
<1>3. Ways'
  BY <1>1, <1>2 DEF Ways
<1>4. Claims' /\ Exact'
  BY <1>1 DEF Claims, Exact
<1>5. Over' = Over
  BY <1>1 DEF Over
<1>6. \A e \in Dirs : Holds(box'[e], "cancel") => Holds(box[e], "cancel")
  <2>1. box[d] \in Seq(Word) /\ "cancel" \in Word
    BY DEF Shape, Word
  <2>2. Holds(box'[d], "cancel") => Holds(box[d], "cancel")
    BY <2>1, TailWord DEF ReportsNothing
  <2> QED
    BY <2>2
<1>7. \A e \in Dirs : failing'[e] => failing[e]
  BY DEF ReportsNothing
<1>8. Ending'
  BY <1>1, <1>5, <1>6, <1>7 DEF Ending, Dirs
<1> QED
  BY <1>3, <1>4, <1>8

LEMMA DataBooks ==
    ASSUME Shape, Bounds, Ways, Claims, Exact, Ending, NEW d \in Dirs, NEW n \in Nat, n > 0,
           ReportsData(d, n),
           UNCHANGED <<edges, batch, s, handled, byUs, arrived, fin, broken>>,
           \A e \in Dirs \ {d} : /\ status'[e] = status[e] /\ io'[e] = io[e]
                                 /\ failing'[e] = failing[e] /\ box'[e] = box[e]
    PROVE  (Ways /\ Claims /\ Exact /\ Ending)'
<1>0. /\ arrived \in Nat /\ avail \in Nat /\ handled \in Nat /\ s.len \in Int /\ s.out \in Int
      /\ Messages \in Seq(Message)
      /\ \A e \in Dirs : \A k \in Sizes(Messages, e) : k \in Nat /\ k > 0
      /\ "recv" \in Dirs /\ "send" \in Dirs
  BY Numbers
<1>1. PICK m : m = Data(d, n)
  OBVIOUS
<1>2. /\ m \in Message /\ m.bytes = n /\ m.kind = d /\ IsData(m, d)
      /\ \A e \in Dirs \ {d} : ~IsData(m, e)
      /\ ~IsEnd(m, Dirs)
  BY <1>1, ReportIs DEF Data, IsData, IsEnd
<1>3. Messages' = Append(Messages, m)
  BY <1>1, <1>2, MessagesAppend DEF ReportsData
<1>4. Way(d, status[d], io[d], box[d], Messages, s.post[d]) /\ box[d] \in Seq(Word)
  BY DEF Ways, Shape
<1>5. /\ box[d] # <<>> /\ box'[d] = Tail(box[d]) /\ io'[d] = "none"
      /\ status[d] # "none" /\ (Head(box[d]) = "post" \/ io[d] = "posted")
  BY DEF ReportsData
<1>6. ASSUME NEW e \in Dirs
      PROVE  Way(e, status'[e], io'[e], box'[e], Messages', s.post[e])
  <2>1. CASE e = d
    <3>1. PICK st, st2, i, b, c, q, r, p :
              /\ st = status[d] /\ st2 = status'[d] /\ i = io[d] /\ b = box[d] /\ c = box'[d]
              /\ q = Messages /\ r = Messages' /\ p = s.post[d]
      OBVIOUS
    <3>2. Way(d, st, i, b, q, p) /\ b \in Seq(Word) /\ q \in Seq(Message)
      BY <1>0, <1>4, <3>1
    <3>3. b # <<>> /\ c = Tail(b) /\ st # "none" /\ (Head(b) = "post" \/ i = "posted")
      BY <1>5, <3>1
    <3>4. r = Append(q, m)
      BY <1>3, <3>1
    <3>5. Way(d, st2, "none", c, r, p)
      BY <1>2, <3>2, <3>3, <3>4, WayData
    <3> QED
      BY <1>5, <2>1, <3>1, <3>5
  <2>2. CASE e # d
    <3>1. Way(e, status[e], io[e], box[e], Messages, s.post[e])
      BY DEF Ways
    <3>2. Way(e, status[e], io[e], box[e], Messages', s.post[e])
      BY <1>0, <1>2, <1>3, <2>2, <3>1, WayOther
    <3> QED
      BY <2>2, <3>2
  <2> QED
    BY <2>1, <2>2
<1>7. Ways'
  BY <1>6 DEF Ways
<1>8. Sizes(Messages, d) = {}
  <2>1. Holds(box[d], Head(box[d]))
    BY <1>4, <1>5, TailWord
  <2> QED
    BY <1>4, <1>5, <2>1 DEF Way
<1>9. ASSUME NEW e \in Dirs
      PROVE  /\ IsData(m, e) => Sizes(Messages', e) = Sizes(Messages, e) \cup {m.bytes}
             /\ ~IsData(m, e) => Sizes(Messages', e) = Sizes(Messages, e)
             /\ Ends(Messages', Dirs) <=> (Ends(Messages, Dirs) \/ IsEnd(m, Dirs))
             /\ Behind(Messages', Dirs, e) =>
                   Behind(Messages, Dirs, e) \/ (Ends(Messages, Dirs) /\ IsData(m, e))
  BY <1>0, <1>2, <1>3, QueueAppend
<1>12. /\ Sizes(Messages', d) = {n}
       /\ \A e \in Dirs \ {d} : Sizes(Messages', e) = Sizes(Messages, e)
  <2>1. Sizes(Messages', d) = {n}
    BY <1>2, <1>8, <1>9
  <2>2. ASSUME NEW e \in Dirs \ {d} PROVE Sizes(Messages', e) = Sizes(Messages, e)
    BY <1>2, <1>9
  <2> QED
    BY <2>1, <2>2
<1>13. Ends(Messages', Dirs) => Ends(Messages, Dirs)
  BY <1>2, <1>9
<1>14. \A e \in Dirs : Behind(Messages', Dirs, e) =>
                          Behind(Messages, Dirs, e) \/ (Ends(Messages, Dirs) /\ e = d)
  BY <1>2, <1>9
<1>10. CASE d = "recv"
  <2>1. n <= avail /\ avail' = avail - n /\ (failing'[d] => broken \/ (fin /\ avail' = 0))
    BY <1>10 DEF ReportsData
  <2>2. /\ Sizes(Messages', "recv") = {n} /\ Sizes(Messages, "recv") = {}
        /\ Sizes(Messages', "send") = Sizes(Messages, "send")
    BY <1>0, <1>8, <1>10, <1>12
  <2>3. handled + avail <= arrived
    BY DEF Bounds
  <2>4. Claims'
    <3>1. handled' = handled /\ arrived' = arrived /\ s' = s
      OBVIOUS
    <3>2. handled + avail' + n <= arrived
      BY <1>0, <2>1, <2>3
    <3>3. \A k \in Sizes(Messages, "send") : k <= s.out
      BY DEF Claims
    <3> QED
      BY <2>2, <3>1, <3>2, <3>3 DEF Claims
  <2>5. Exact'
    <3>1. handled' = handled /\ arrived' = arrived /\ byUs' = byUs /\ broken' = broken
      OBVIOUS
    <3>2. handled + avail' + n = handled + avail
      BY <1>0, <2>1
    <3>3. ~byUs /\ ~broken => handled + avail' + n = arrived
      BY <2>2, <3>2 DEF Exact
    <3> QED
      BY <2>2, <3>1, <3>3 DEF Exact
  <2>6. avail # 0
    BY <1>0, <2>1
  <2>7. Over => byUs \/ broken
    BY <2>6 DEF Over
  <2>8. \A e \in Dirs : Holds(box'[e], "cancel") => byUs \/ broken
    <3>1. "cancel" \in Word
      BY DEF Word
    <3>2. Holds(box'[d], "cancel") => Holds(box[d], "cancel")
      BY <1>4, <1>5, <3>1, TailWord
    <3> QED
      BY <2>7, <3>2 DEF Ending
  <2>9. failing'["send"] => broken
    BY <1>0, <1>10 DEF Ending
  <2>10. Ends(Messages', Dirs) => byUs \/ broken
    BY <1>13, <2>6 DEF Ending
  <2>11. byUs \/ broken => Over'
    BY DEF Over
  <2>12. Ending'
    BY <1>10, <2>1, <2>7, <2>8, <2>9, <2>10, <2>11 DEF Ending
  <2> QED
    BY <1>7, <2>4, <2>5, <2>12
<1>11. CASE d = "send"
  <2>1. n <= s.len /\ avail' = avail /\ (failing'[d] => broken)
    BY <1>11 DEF ReportsData
  <2>2. Sizes(Messages', "send") = {n} /\ Sizes(Messages', "recv") = Sizes(Messages, "recv")
    BY <1>0, <1>11, <1>12
  <2>3. n <= s.out
    BY <1>0, <2>1 DEF Bounds
  <2>4. Claims'
    BY <2>1, <2>2, <2>3 DEF Claims
  <2>5. Exact'
    BY <2>1, <2>2 DEF Exact
  <2>6. Over' = Over
    BY <2>1, <2>2 DEF Over
  <2>7. \A e \in Dirs : Holds(box'[e], "cancel") => Holds(box[e], "cancel")
    <3>1. "cancel" \in Word
      BY DEF Word
    <3>2. Holds(box'[d], "cancel") => Holds(box[d], "cancel")
      BY <1>4, <1>5, <3>1, TailWord
    <3> QED
      BY <3>2
  <2>8. failing'["send"] => broken
    BY <1>11, <2>1
  <2>9. failing'["recv"] => broken \/ (fin /\ avail = 0)
    BY <1>0, <1>11 DEF Ending
  <2>10. Behind(Messages', Dirs, "recv") => Behind(Messages, Dirs, "recv")
    BY <1>0, <1>11, <1>14
  <2>11. Ending'
    BY <1>13, <2>1, <2>6, <2>7, <2>8, <2>9, <2>10 DEF Ending
  <2> QED
    BY <1>7, <2>4, <2>5, <2>11
<1> QED
  BY <1>10, <1>11 DEF Dirs

LEMMA EndBooks ==
    ASSUME Shape, Ways, Claims, Exact, Ending, NEW d \in Dirs, ReportsEnd(d),
           UNCHANGED <<edges, batch, s, handled, byUs, arrived, fin, broken>>,
           \A e \in Dirs \ {d} : /\ status'[e] = status[e] /\ io'[e] = io[e]
                                 /\ failing'[e] = failing[e] /\ box'[e] = box[e]
    PROVE  (Ways /\ Claims /\ Exact /\ Ending)'
<1>0. Messages \in Seq(Message) /\ "recv" \in Dirs /\ "send" \in Dirs
  BY Numbers
<1>1. PICK m : m = End(d)
  OBVIOUS
<1>2. /\ m \in Message /\ m.kind = d
      /\ \A e : ~IsData(m, e)
  BY <1>1, ReportIs DEF End, IsData
<1>3. Messages' = Append(Messages, m) /\ avail' = avail
  BY <1>1, <1>2, MessagesAppend DEF ReportsEnd
<1>4. ASSUME NEW e \in Dirs
      PROVE  Way(e, status'[e], io'[e], box'[e], Messages', s.post[e])
  <2>1. Way(e, status[e], io[e], box[e], Messages, s.post[e])
    BY DEF Ways
  <2>2. CASE e = d
    <3>1. status'[d] = "none" /\ io'[d] = "none"
      BY DEF ReportsEnd
    <3>2. Way(d, "none", "none", box'[d], Messages', s.post[d])
      BY <1>0, <1>1, <1>3, <2>1, <2>2, WayEnd
    <3> QED
      BY <2>2, <3>1, <3>2
  <2>3. CASE e # d
    <3>1. Way(e, status[e], io[e], box[e], Messages', s.post[e])
      BY <1>0, <1>2, <1>3, <2>1, <2>3, WayOther
    <3> QED
      BY <2>3, <3>1
  <2> QED
    BY <2>2, <2>3
<1>5. Ways'
  BY <1>4 DEF Ways
<1>6. \A e : Sizes(Messages', e) = Sizes(Messages, e)
             /\ (Behind(Messages', Dirs, e) => Behind(Messages, Dirs, e))
  <2> SUFFICES ASSUME NEW e
               PROVE  Sizes(Messages', e) = Sizes(Messages, e)
                      /\ (Behind(Messages', Dirs, e) => Behind(Messages, Dirs, e))
    OBVIOUS
  <2>1. /\ ~IsData(m, e) => Sizes(Messages', e) = Sizes(Messages, e)
        /\ Behind(Messages', Dirs, e) =>
              Behind(Messages, Dirs, e) \/ (Ends(Messages, Dirs) /\ IsData(m, e))
    BY <1>0, <1>2, <1>3, QueueAppend
  <2> QED
    BY <1>2, <2>1
<1>7. Claims' /\ Exact'
  BY <1>3, <1>6 DEF Claims, Exact
<1>8. Over' = Over
  BY <1>3, <1>6 DEF Over
<1>9. Over => byUs \/ broken \/ (fin /\ avail = 0)
  BY DEF Over
<1>10. byUs \/ broken \/ (fin /\ avail = 0)
  <2>1. \/ failing[d] \/ Holds(box[d], "cancel") \/ broken
        \/ fin /\ avail = 0
    BY DEF ReportsEnd
  <2>2. failing[d] => broken \/ (fin /\ avail = 0)
    BY DEF Ending, Dirs
  <2>3. Holds(box[d], "cancel") => Over
    BY DEF Ending
  <2> QED
    BY <1>9, <2>1, <2>2, <2>3
<1>11. Behind(Messages, Dirs, "recv") => Ends(Messages, Dirs)
  BY DEF Behind, Ends
<1>12. byUs \/ broken \/ (fin /\ avail = 0 /\ ~Behind(Messages', Dirs, "recv"))
  BY <1>6, <1>10, <1>11 DEF Ending
<1>13. \A e \in Dirs : Holds(box'[e], "cancel") => Holds(box[e], "cancel")
  <2>1. box[d] \in Seq(Word) /\ "cancel" \in Word
    BY DEF Shape, Word
  <2>2. box[d] # <<>> => (Holds(Tail(box[d]), "cancel") => Holds(box[d], "cancel"))
    BY <2>1, TailWord
  <2>3. Holds(box'[d], "cancel") => Holds(box[d], "cancel")
    BY <2>2 DEF ReportsEnd
  <2> QED
    BY <2>3
<1>14. \A e \in Dirs : failing'[e] => failing[e]
  BY DEF ReportsEnd
<1>15. Ending'
  BY <1>0, <1>3, <1>8, <1>12, <1>13, <1>14 DEF Ending
<1> QED
  BY <1>5, <1>7, <1>15

LEMMA PollerBooks == ASSUME Shape, Books, NEW d \in Dirs, Poller(d) PROVE Books'
<1>1. /\ Reports(d) /\ UNCHANGED <<epollVars, frameVars, sessionVars, arrived, fin, broken>>
      /\ \A e \in Dirs \ {d} :
            /\ status'[e] = status[e] /\ io'[e] = io[e]
            /\ failing'[e] = failing[e] /\ box'[e] = box[e]
  BY PollerReports
<1>2. /\ UNCHANGED <<edges, registered, batch, dpc, life, s, handled, byUs, arrived, fin, broken>>
  BY <1>1 DEF epollVars, frameVars, sessionVars
<1>3. life \notin {"none", "coming"}
  <2>1. box[d] # <<>> \/ failing[d]
    BY <1>1 DEF Reports, ReportsNothing, ReportsData, ReportsEnd
  <2> QED
    BY <2>1 DEF Books, Birth
<1>4. avail' <= avail /\ avail' \in Nat
  <2>1. avail \in Nat
    BY DEF Shape
  <2>2. ASSUME NEW n \in Nat, ReportsData(d, n) PROVE avail' <= avail /\ avail' \in Nat
    BY <2>1, <2>2 DEF ReportsData
  <2> QED
    BY <1>1, <2>1, <2>2 DEF Reports, ReportsNothing, ReportsEnd
<1>5. \/ Messages' = Messages
      \/ \E m \in Message : m.kind = d /\ Messages' = Append(Messages, m)
  <2>1. inbox' = inbox \/ \E m \in Message : m.kind = d /\ inbox' = Append(inbox, m)
    <3>1. ASSUME NEW n \in Nat PROVE Data(d, n) \in Message /\ Data(d, n).kind = d
      BY ReportIs DEF Data
    <3>2. End(d) \in Message /\ End(d).kind = d
      BY ReportIs DEF End
    <3> QED
      BY <1>1, <3>1, <3>2 DEF Reports, ReportsNothing, ReportsData, ReportsEnd
  <2>2. CASE inbox' = inbox
    BY <1>2, <2>2 DEF Messages
  <2> QED
    BY <1>2, <2>1, <2>2, MessagesAppend
<1>6. NoConnects(Messages')
  <2>1. NoConnects(Messages) /\ Messages \in Seq(Message) /\ d # "connected"
    BY <1>3, MessagesTyped DEF Books, Birth, Dirs
  <2> QED
    BY <1>5, <2>1, NoConnectsAppend
<1>7. Birth'
  BY <1>2, <1>3, <1>6 DEF Books, Birth
<1>8. Bounds'
  <2>1. handled + avail' <= arrived
    BY <1>4, Numbers DEF Books, Bounds
  <2> QED
    BY <1>2, <2>1 DEF Books, Bounds
<1>9. Gone'
  BY <1>2 DEF Books, Gone
<1>10. ASSUME life = "alive" PROVE (Ways /\ Claims /\ Exact /\ Ending)'
  <2>1. Bounds /\ Ways /\ Claims /\ Exact /\ Ending
    BY <1>10 DEF Books
  <2>2. UNCHANGED <<edges, batch, s, handled, byUs, arrived, fin, broken>>
    BY <1>2
  <2>3. CASE ReportsNothing(d)
    BY <1>1, <2>1, <2>2, <2>3, NothingBooks
  <2>4. CASE \E n \in Nat : n > 0 /\ ReportsData(d, n)
    BY <1>1, <2>1, <2>2, <2>4, DataBooks
  <2>5. CASE ReportsEnd(d)
    BY <1>1, <2>1, <2>2, <2>5, EndBooks
  <2> QED
    BY <1>1, <2>3, <2>4, <2>5 DEF Reports
<1> QED
  BY <1>2, <1>7, <1>8, <1>9, <1>10 DEF Books

(* The dispatcher takes a message from its batch.                          *)
LEMMA TakenIs ==
    ASSUME Shape, Books, HandleMessage, NEW m, m = Head(batch)
    PROVE  /\ Messages # <<>> /\ m = Head(Messages) /\ Messages' = Tail(Messages)
           /\ life # "none"
           /\ life = "coming" => m.kind = "connected" /\ Messages' = <<>>
           /\ life \notin {"none", "coming"} => m.kind # "connected" /\ NoConnects(Messages')
<1>1. /\ batch # <<>> /\ batch' = Tail(batch) /\ inbox' = inbox
  BY HandleIs
<1>2. Messages # <<>> /\ m = Head(Messages) /\ Messages' = Tail(Messages)
  BY <1>1, MessagesTail
<1>3. life # "none"
  BY <1>2 DEF Books, Birth
<1>4. ASSUME life = "coming" PROVE m.kind = "connected" /\ Messages' = <<>>
  <2>1. Messages = <<[kind |-> "connected"]>>
    BY <1>4 DEF Books, Birth
  <2> QED
    BY <1>2, <2>1
<1>5. ASSUME life \notin {"none", "coming"} PROVE m.kind # "connected" /\ NoConnects(Messages')
  <2>1. NoConnects(Messages) /\ Messages \in Seq(Message)
    BY <1>5, MessagesTyped DEF Books, Birth
  <2> QED
    BY <1>2, <2>1, NoConnectsTail
<1> QED
  BY <1>2, <1>3, <1>4, <1>5

(* ... of a live session: what it leaves in the queue, and of the ways.    *)
LEMMA TakenBooks ==
    ASSUME Shape, Books, life = "alive", HandleMessage, NEW m, m = Head(batch)
    PROVE  /\ m \in Message /\ m.kind \in Dirs /\ m.bytes \in Nat
           /\ \A d \in Dirs : /\ Sizes(Messages', d) \subseteq Sizes(Messages, d)
                              /\ m.kind # d \/ m.bytes = 0 => Sizes(Messages', d) = Sizes(Messages, d)
                              /\ m.kind = d /\ m.bytes > 0 => /\ Sizes(Messages', d) = {}
                                                              /\ m.bytes \in Sizes(Messages, d)
                              /\ Way(d, status[d], io[d], box[d], Messages', s.post[d])
                              /\ m.kind = d => Way(d, status[d], io[d], box[d], Messages', FALSE)
           /\ Ends(Messages', Dirs) => Ends(Messages, Dirs)
           /\ Behind(Messages', Dirs, "recv") => Behind(Messages, Dirs, "recv")
           /\ m.bytes = 0 => /\ Ends(Messages, Dirs)
                             /\ Sizes(Messages', "recv") # {} => Behind(Messages, Dirs, "recv")
<1>1. /\ Messages # <<>> /\ m = Head(Messages) /\ Messages' = Tail(Messages)
      /\ m.kind # "connected"
  BY TakenIs
<1>2. Messages \in Seq(Message) /\ m \in Message
  BY <1>1, MessagesTyped
<1>3. m.kind \in Dirs /\ m.bytes \in Nat
  BY <1>1, <1>2, MessageIs
<1>4. PICK q, r : q = Messages /\ r = Messages' /\ q \in Seq(Message) /\ q # <<>> /\ m = Head(q) /\ r = Tail(q)
  BY <1>1, <1>2
<1>5. ASSUME NEW d \in Dirs
      PROVE  /\ IsData(m, d) => Sizes(q, d) = Sizes(r, d) \cup {m.bytes}
             /\ ~IsData(m, d) => Sizes(q, d) = Sizes(r, d)
             /\ Ends(r, Dirs) => Ends(q, Dirs)
             /\ IsEnd(m, Dirs) => Ends(q, Dirs) /\ (Sizes(r, d) # {} => Behind(q, Dirs, d))
             /\ Behind(r, Dirs, d) => Behind(q, Dirs, d)
             /\ OneDone(q, d) => OneDone(r, d) /\ (IsData(m, d) => Sizes(r, d) = {})
  <2>1. PICK f : f = Dirs
    OBVIOUS
  <2>2. q \in Seq(Message) /\ q # <<>> /\ m = Head(q) /\ r = Tail(q)
    BY <1>4
  <2>3. TailLeaves(q, m, r, d, f)
    BY <2>2, QueueTail
  <2> QED
    BY <2>1, <2>3 DEF TailLeaves
<1>6. ASSUME NEW d \in Dirs
      PROVE  /\ Way(d, status[d], io[d], box[d], r, s.post[d])
             /\ m.kind = d => Way(d, status[d], io[d], box[d], r, FALSE)
             /\ OneDone(q, d)
  <2>1. Way(d, status[d], io[d], box[d], q, s.post[d])
    BY <1>4 DEF Books, Ways
  <2>2. OneDone(q, d)
    BY <2>1 DEF Way
  <2>3. PICK st, i, b, p : st = status[d] /\ i = io[d] /\ b = box[d] /\ p = s.post[d]
    OBVIOUS
  <2>4. Way(d, st, i, b, r, p) /\ (m.kind = d => Way(d, st, i, b, r, FALSE))
    BY <1>1, <1>4, <2>1, <2>3, WayTail
  <2> QED
    BY <2>2, <2>3, <2>4
<1>7. ASSUME NEW d \in Dirs
      PROVE  /\ Sizes(r, d) \subseteq Sizes(q, d)
             /\ m.kind # d \/ m.bytes = 0 => Sizes(r, d) = Sizes(q, d)
             /\ m.kind = d /\ m.bytes > 0 => Sizes(r, d) = {} /\ m.bytes \in Sizes(q, d)
  <2>1. m.kind # d \/ m.bytes = 0 => ~IsData(m, d)
    BY DEF IsData
  <2>2. m.kind = d /\ m.bytes > 0 => IsData(m, d)
    BY DEF IsData
  <2> QED
    BY <1>5, <1>6, <2>1, <2>2
<1>8. m.bytes = 0 => IsEnd(m, Dirs)
  BY <1>3 DEF IsEnd
<1>9. "recv" \in Dirs
  BY DEF Dirs
<1>10. /\ Ends(r, Dirs) => Ends(q, Dirs)
       /\ Behind(r, Dirs, "recv") => Behind(q, Dirs, "recv")
       /\ m.bytes = 0 => Ends(q, Dirs) /\ (Sizes(r, "recv") # {} => Behind(q, Dirs, "recv"))
  BY <1>5, <1>8, <1>9
<1> QED
  BY <1>2, <1>3, <1>4, <1>6, <1>7, <1>10

LEMMA ConnectedBooks ==
    ASSUME Shape, Books, HandleMessage, OnSessionConnected, Head(batch).kind = "connected"
    PROVE  Books'
<1>1. /\ life = "coming" /\ life' = "alive" /\ Messages' = <<>>
      /\ UNCHANGED <<peerVars, status, io, failing, dpc, handled>> /\ dpc = "handle"
      /\ edges' \cap {"hup", "hupSend"} = {}
  <2>1. life = "coming" /\ Messages' = <<>>
    BY TakenIs DEF Shape
  <2>2. UNCHANGED <<peerVars, status, io, failing, dpc>> /\ dpc = "handle"
    BY HandleIs
  <2>3. edges' \subseteq {"out", "in"} /\ life' = "alive" /\ handled' = handled
    BY DEF OnSessionConnected
  <2> QED
    BY <2>1, <2>2, <2>3
<1>2. /\ ~byUs /\ handled + avail = arrived
      /\ \A d \in Dirs : box[d] = <<>> /\ io[d] # "posted" /\ ~failing[d]
  BY <1>1 DEF Books, Birth
<1>3. /\ ~s'.post["send"]
      /\ s'.out >= 0 /\ s'.out <= MaxOut /\ s'.len = 0
      /\ s'.mask \/ s'.toRemove => byUs'
      /\ s'.mask => box' = box /\ ~s'.post["recv"]
      /\ ~s'.mask => s'.post["recv"] /\ box' = [box EXCEPT !["recv"] = Append(@, "post")]
      /\ s' \in Fields
  BY ConnectedIs DEF Typed
<1>4. \A d, K : Sizes(<<>>, d) = {} /\ ~Ends(<<>>, K) /\ ~Behind(<<>>, K, d)
  BY SizesEmpty
<1>5. Birth'
  <2>1. NoConnects(Messages')
    <3>1. Len(<<>>) = 0 /\ 1 .. 0 = {}
      OBVIOUS
    <3> QED
      BY <1>1, <3>1 DEF NoConnects
  <2> QED
    BY <1>1, <2>1 DEF Birth
<1>6. Bounds' /\ Gone'
  <2>1. arrived' <= MaxData /\ handled' + avail' <= arrived'
    BY <1>1 DEF Books, Bounds, peerVars
  <2>2. 0 <= s'.len /\ s'.len <= s'.out /\ s'.out <= MaxOut
    BY <1>3 DEF Fields
  <2> QED
    BY <1>1, <2>1, <2>2 DEF Bounds, Gone
<1>7. /\ "recv" \in Dirs /\ "send" \in Dirs /\ \A d \in Dirs : d = "recv" \/ d = "send"
      /\ <<>> \in Seq(Word) /\ "post" \in Word
      /\ s'.post["recv"] \in BOOLEAN /\ s'.post["send"] = FALSE
      /\ s'.mask => s'.post["recv"] = FALSE
      /\ ~s'.mask => s'.post["recv"] = TRUE
  <2>1. "recv" \in Dirs /\ "send" \in Dirs /\ \A d \in Dirs : d = "recv" \/ d = "send"
    BY DEF Dirs
  <2>2. s'.post["recv"] \in BOOLEAN /\ s'.post["send"] \in BOOLEAN
    BY <1>3, <2>1, FlagsTyped
  <2> QED
    BY <1>3, <2>1, <2>2 DEF Word
<1>8. \A d \in Dirs : \/ box'[d] = <<>> /\ s'.post[d] = FALSE
                      \/ d = "recv" /\ box'[d] = Append(<<>>, "post") /\ s'.post[d] = TRUE
  <2>1. CASE s'.mask
    BY <1>2, <1>3, <1>7, <2>1
  <2>2. CASE ~s'.mask
    <3>1. box'["recv"] = Append(box["recv"], "post") /\ box'["send"] = box["send"]
      BY <1>3, <1>7, <2>2 DEF Shape
    <3> QED
      BY <1>2, <1>3, <1>7, <2>2, <3>1
  <2> QED
    BY <2>1, <2>2
<1>9. \A d \in Dirs : Way(d, status[d], io[d], box'[d], <<>>, s'.post[d])
  <2> SUFFICES ASSUME NEW d \in Dirs PROVE Way(d, status[d], io[d], box'[d], <<>>, s'.post[d])
    OBVIOUS
  <2>1. Way(d, status[d], io[d], <<>>, <<>>, FALSE)
    BY <1>2, WayNew
  <2>2. Way(d, status[d], io[d], Append(<<>>, "post"), <<>>, TRUE)
    BY <1>7, <2>1, WayPost
  <2> QED
    BY <1>8, <2>1, <2>2
<1>10. Ways'
  BY <1>1, <1>9 DEF Ways
<1>11. Claims' /\ Exact'
  BY <1>1, <1>2, <1>4 DEF Claims, Exact, peerVars
<1>12. \A d \in Dirs : ~Holds(box'[d], "cancel")
  <2>1. "cancel" \in Word /\ "cancel" # "post" /\ ~Holds(<<>>, "cancel")
    BY NoneHeld DEF Word
  <2>2. ~Holds(Append(<<>>, "post"), "cancel")
    BY <1>7, <2>1, AppendWord
  <2> QED
    BY <1>8, <2>1, <2>2
<1>13. Ending'
  <2>1. s'.mask \/ s'.toRemove => Over'
    BY <1>3 DEF Over
  <2> QED
    BY <1>1, <1>2, <1>4, <1>7, <1>12, <2>1 DEF Ending
<1> QED
  BY <1>5, <1>6, <1>10, <1>11, <1>13 DEF Books

LEMMA DisconnectedBooks ==
    ASSUME Shape, Books, life = "alive", HandleMessage, NEW m, m = Head(batch),
           s.mask \/ m.bytes = 0, Disconnected(m), UNCHANGED <<epollVars, life>>
    PROVE  Books'
<1>1. /\ m \in Message /\ m.kind \in Dirs /\ m.bytes \in Nat /\ m.kind # "connected"
      /\ \A d \in Dirs : /\ Sizes(Messages', d) \subseteq Sizes(Messages, d)
                         /\ m.kind # d \/ m.bytes = 0 => Sizes(Messages', d) = Sizes(Messages, d)
                         /\ m.kind = d /\ m.bytes > 0 => /\ Sizes(Messages', d) = {}
                                                         /\ m.bytes \in Sizes(Messages, d)
                         /\ Way(d, status[d], io[d], box[d], Messages', s.post[d])
                         /\ m.kind = d => Way(d, status[d], io[d], box[d], Messages', FALSE)
      /\ Ends(Messages', Dirs) => Ends(Messages, Dirs)
      /\ Behind(Messages', Dirs, "recv") => Behind(Messages, Dirs, "recv")
      /\ m.bytes = 0 => /\ Ends(Messages, Dirs)
                        /\ Sizes(Messages', "recv") # {} => Behind(Messages, Dirs, "recv")
      /\ NoConnects(Messages')
  BY TakenBooks, TakenIs DEF Dirs
<1>2. /\ UNCHANGED <<peerVars, status, io, failing, dpc>> /\ dpc = "handle"
  BY HandleIs
<1>3. /\ s'.post = [s.post EXCEPT ![m.kind] = FALSE]
      /\ s'.toRemove /\ s'.mask = s.mask /\ s'.out = s.out /\ s'.len = s.len
      /\ box' = box /\ byUs' = byUs /\ handled' = handled
  BY <1>1, DisconnectedIs DEF Disconnected
<1>4. Bounds /\ Ways /\ Claims /\ Exact /\ Ending /\ "recv" \in Dirs /\ "send" \in Dirs
  BY DEF Books, Dirs
<1>5. Birth' /\ Gone'
  BY <1>1, <1>2 DEF Birth, Gone
<1>6. Bounds'
  BY <1>2, <1>3, <1>4 DEF Bounds, peerVars
<1>7. Ways'
  <2>1. ASSUME NEW d \in Dirs
        PROVE  Way(d, status[d], io[d], box[d], Messages', s'.post[d])
    <3>1. CASE d = m.kind
      <4>1. s'.post[d] = FALSE
        BY <1>3, <3>1 DEF Shape, Fields
      <4> QED
        BY <1>1, <3>1, <4>1
    <3>2. CASE d # m.kind
      <4>1. s'.post[d] = s.post[d]
        BY <1>3, <3>2 DEF Shape, Fields
      <4> QED
        BY <1>1, <4>1
    <3> QED
      BY <3>1, <3>2
  <2> QED
    BY <1>2, <1>3, <2>1 DEF Ways
<1>8. Claims'
  BY <1>1, <1>2, <1>3, <1>4 DEF Claims, peerVars
<1>9. byUs \/ broken \/ (fin /\ avail = 0 /\ Sizes(Messages', "recv") = {})
  <2>1. CASE s.mask
    <3>1. Over
      BY <1>4, <2>1 DEF Ending
    <3> QED
      BY <1>1, <1>4, <3>1 DEF Over
  <2>2. CASE m.bytes = 0
    BY <1>1, <1>4, <2>2 DEF Ending
  <2> QED
    BY <2>1, <2>2
<1>10. Exact'
  <2> SUFFICES ASSUME ~byUs, ~broken
               PROVE  /\ Sizes(Messages', "recv") = {} => handled + avail = arrived
                      /\ \A n \in Sizes(Messages', "recv") : handled + avail + n = arrived
    BY <1>2, <1>3 DEF Exact, peerVars
  <2>1. CASE m.kind # "recv" \/ m.bytes = 0
    BY <1>1, <1>4, <2>1 DEF Exact
  <2>2. CASE m.kind = "recv" /\ m.bytes > 0
    <3>1. Over
      BY <1>1, <1>4, <2>2 DEF Ending
    <3> QED
      BY <1>1, <1>4, <2>2, <3>1 DEF Over
  <2> QED
    BY <1>1, <2>1, <2>2
<1>11. Ending'
  <2>1. Over'
    BY <1>2, <1>3, <1>9 DEF Over, peerVars
  <2>2. UNCHANGED <<fin, avail, broken, failing>> /\ edges' = edges
    BY <1>2 DEF peerVars, epollVars
  <2>3. edges' \cap {"hup", "hupSend"} # {} => broken
    BY <1>4, <2>2 DEF Ending
  <2> QED
    BY <1>1, <1>3, <1>4, <2>1, <2>2, <2>3, EndingKept
<1> QED
  BY <1>5, <1>6, <1>7, <1>8, <1>10, <1>11 DEF Books

LEMMA SentBooks ==
    ASSUME Shape, Books, life = "alive", HandleMessage, NEW m, m = Head(batch),
           m.kind = "send", m.bytes > 0, SendSuc(m), UNCHANGED <<epollVars, life>>
    PROVE  Books'
<1>1. /\ m \in Message /\ m.kind \in Dirs /\ m.bytes \in Nat /\ m.kind # "connected"
      /\ \A d \in Dirs : /\ m.kind # d \/ m.bytes = 0 => Sizes(Messages', d) = Sizes(Messages, d)
                         /\ m.kind = d /\ m.bytes > 0 => /\ Sizes(Messages', d) = {}
                                                         /\ m.bytes \in Sizes(Messages, d)
                         /\ Way(d, status[d], io[d], box[d], Messages', s.post[d])
                         /\ m.kind = d => Way(d, status[d], io[d], box[d], Messages', FALSE)
      /\ Ends(Messages', Dirs) => Ends(Messages, Dirs)
      /\ Behind(Messages', Dirs, "recv") => Behind(Messages, Dirs, "recv")
      /\ NoConnects(Messages')
  BY TakenBooks, TakenIs DEF Dirs
<1>2. /\ UNCHANGED <<peerVars, status, io, failing, dpc>> /\ dpc = "handle"
  BY HandleIs
<1>3. /\ s'.post = [s.post EXCEPT !["send"] = FALSE]
      /\ s'.out = s.out - m.bytes /\ s'.len = 0
      /\ s'.mask = s.mask /\ s'.toRemove = s.toRemove
      /\ box' = box /\ byUs' = byUs /\ handled' = handled
  BY <1>1, SendSucIs DEF SendSuc
<1>4. Bounds /\ Ways /\ Claims /\ Exact /\ Ending /\ "recv" \in Dirs /\ "send" \in Dirs
  BY DEF Books, Dirs
<1>5. /\ Sizes(Messages', "send") = {} /\ m.bytes \in Sizes(Messages, "send")
      /\ Sizes(Messages', "recv") = Sizes(Messages, "recv")
  BY <1>1, <1>4
<1>6. Birth' /\ Gone'
  BY <1>1, <1>2 DEF Birth, Gone
<1>7. Bounds'
  <2>1. m.bytes <= s.out
    BY <1>4, <1>5 DEF Claims
  <2>2. 0 <= s'.len /\ s'.len <= s'.out /\ s'.out <= MaxOut
    BY <1>1, <1>3, <1>4, <2>1, Numbers DEF Bounds
  <2>3. arrived' <= MaxData /\ handled' + avail' <= arrived'
    BY <1>2, <1>3, <1>4 DEF Bounds, peerVars
  <2> QED
    BY <2>2, <2>3 DEF Bounds
<1>8. Ways'
  <2>1. ASSUME NEW d \in Dirs
        PROVE  Way(d, status[d], io[d], box[d], Messages', s'.post[d])
    <3>1. CASE d = "send"
      <4>1. s'.post[d] = FALSE
        BY <1>3, <3>1 DEF Shape, Fields
      <4> QED
        BY <1>1, <3>1, <4>1
    <3>2. CASE d # "send"
      <4>1. s'.post[d] = s.post[d]
        BY <1>3, <3>2 DEF Shape, Fields
      <4> QED
        BY <1>1, <4>1
    <3> QED
      BY <3>1, <3>2
  <2> QED
    BY <1>2, <1>3, <2>1 DEF Ways
<1>9. Claims' /\ Exact'
  BY <1>2, <1>3, <1>4, <1>5 DEF Claims, Exact, peerVars
<1>10. Over' = Over
  BY <1>2, <1>3, <1>5 DEF Over, peerVars
<1>11. Ending'
  <2>1. UNCHANGED <<fin, avail, broken, failing>> /\ edges' = edges
    BY <1>2 DEF peerVars, epollVars
  <2>2. edges' \cap {"hup", "hupSend"} # {} => broken
    BY <1>4, <2>1 DEF Ending
  <2>3. s'.mask \/ s'.toRemove => Over'
    BY <1>3, <1>4, <1>10 DEF Ending
  <2> QED
    BY <1>1, <1>3, <1>4, <1>5, <2>1, <2>2, <2>3, EndingKept
<1> QED
  BY <1>6, <1>7, <1>8, <1>9, <1>11 DEF Books

LEMMA ReceivedBooks ==
    ASSUME Shape, Books, life = "alive", HandleMessage, NEW m, m = Head(batch),
           m.kind = "recv", m.bytes > 0, RecvSuc(m), UNCHANGED <<epollVars, life>>
    PROVE  Books'
<1>1. /\ m \in Message /\ m.kind \in Dirs /\ m.bytes \in Nat /\ m.kind # "connected"
      /\ \A d \in Dirs : /\ m.kind # d \/ m.bytes = 0 => Sizes(Messages', d) = Sizes(Messages, d)
                         /\ m.kind = d /\ m.bytes > 0 => /\ Sizes(Messages', d) = {}
                                                         /\ m.bytes \in Sizes(Messages, d)
                         /\ Way(d, status[d], io[d], box[d], Messages', s.post[d])
                         /\ m.kind = d => Way(d, status[d], io[d], box[d], Messages', FALSE)
      /\ Ends(Messages', Dirs) => Ends(Messages, Dirs)
      /\ Behind(Messages', Dirs, "recv") => Behind(Messages, Dirs, "recv")
      /\ NoConnects(Messages')
  BY TakenBooks, TakenIs DEF Dirs
<1>2. /\ UNCHANGED <<peerVars, status, io, failing, dpc>> /\ dpc = "handle"
  BY HandleIs
<1>3. /\ ~s'.post["recv"] /\ s' \in Fields
      /\ ShutBy(s, byUs, s', byUs')
      /\ s'.out >= s.out
      /\ s.out <= MaxOut => s'.out <= MaxOut
      /\ \/ /\ s'.post["send"] = s.post["send"] /\ s'.len = s.len
            /\ box' = box
         \/ /\ ~s.post["send"] /\ s'.post["send"] /\ s'.len = s'.out
            /\ box' = [box EXCEPT !["send"] = Append(@, "post")]
      /\ handled' = handled + m.bytes
  BY <1>1, RecvSucIs DEF RecvSuc, Typed
<1>4. /\ Bounds /\ Ways /\ Claims /\ Exact /\ Ending /\ "recv" \in Dirs /\ "send" \in Dirs
      /\ \A d \in Dirs : d = "recv" \/ d = "send"
  BY DEF Books, Dirs
<1>5. /\ Sizes(Messages', "recv") = {} /\ m.bytes \in Sizes(Messages, "recv")
      /\ Sizes(Messages', "send") = Sizes(Messages, "send")
  BY <1>1, <1>4
<1>6. Birth' /\ Gone'
  BY <1>1, <1>2 DEF Birth, Gone
<1>7. handled + avail + m.bytes <= arrived
  BY <1>4, <1>5 DEF Claims
<1>8. handled' + avail' <= arrived'
  BY <1>1, <1>2, <1>3, <1>7, Numbers DEF peerVars
<1>9. Bounds'
  <2>1. s'.out \in Int /\ s'.len \in Int
    BY <1>3 DEF Fields
  <2>2. 0 <= s'.len /\ s'.len <= s'.out /\ s'.out <= MaxOut
    BY <1>3, <1>4, <2>1, Numbers DEF Bounds
  <2> QED
    BY <1>2, <1>4, <1>8, <2>2 DEF Bounds, peerVars
<1>10. /\ s'.post["recv"] = FALSE
       /\ box["send"] \in Seq(Word) /\ "post" \in Word
       /\ \/ s'.post["send"] = s.post["send"] /\ box' = box
          \/ /\ s.post["send"] = FALSE /\ s'.post["send"] = TRUE
             /\ box'["send"] = Append(box["send"], "post") /\ box'["recv"] = box["recv"]
  <2>1. s'.post["recv"] = FALSE
    BY <1>3, <1>4, FlagsTyped
  <2>2. ~s.post["send"] => s.post["send"] = FALSE
    BY <1>4, FlagsTyped DEF Shape
  <2>3. s'.post["send"] => s'.post["send"] = TRUE
    BY <1>3, <1>4, FlagsTyped
  <2>4. box["send"] \in Seq(Word) /\ "post" \in Word
    BY <1>4 DEF Shape, Word
  <2>5. box' = [box EXCEPT !["send"] = Append(@, "post")] =>
           box'["send"] = Append(box["send"], "post") /\ box'["recv"] = box["recv"]
    BY <1>4 DEF Shape
  <2> QED
    BY <1>3, <2>1, <2>2, <2>3, <2>4, <2>5
<1>11. Ways'
  <2>1. box'["recv"] = box["recv"]
    BY <1>10
  <2>2. Way("recv", status["recv"], io["recv"], box'["recv"], Messages', s'.post["recv"])
    BY <1>1, <1>4, <1>10, <2>1
  <2>3. Way("send", status["send"], io["send"], box["send"], Messages', s.post["send"])
    BY <1>1, <1>4
  <2>4. CASE s'.post["send"] = s.post["send"] /\ box' = box
    BY <1>2, <1>4, <2>2, <2>3, <2>4 DEF Ways
  <2>5. CASE /\ s.post["send"] = FALSE /\ s'.post["send"] = TRUE
             /\ box'["send"] = Append(box["send"], "post")
    <3>1. Way("send", status["send"], io["send"], box'["send"], Messages', TRUE)
      BY <1>10, <2>3, <2>5, WayPost
    <3>2. Way("send", status["send"], io["send"], box'["send"], Messages', s'.post["send"])
      BY <2>5, <3>1
    <3> QED
      BY <1>2, <1>4, <2>2, <3>2 DEF Ways
  <2> QED
    BY <1>10, <2>4, <2>5
<1>12. Claims'
  <2>1. \A n \in Sizes(Messages', "send") : n <= s'.out
    <3> SUFFICES ASSUME NEW n \in Sizes(Messages, "send") PROVE n <= s'.out
      BY <1>5
    <3>1. n <= s.out /\ n \in Nat /\ s.out \in Int /\ s'.out \in Int
      BY <1>3, <1>4, Numbers DEF Claims, Fields
    <3> QED
      BY <1>3, <3>1
  <2> QED
    BY <1>5, <2>1 DEF Claims
<1>13. Exact'
  <2>1. ASSUME ~byUs, ~broken PROVE handled' + avail' = arrived'
    <3>1. handled + avail + m.bytes = arrived
      BY <1>4, <1>5, <2>1 DEF Exact
    <3> QED
      BY <1>1, <1>2, <1>3, <3>1, Numbers DEF peerVars
  <2>2. byUs => byUs'
    BY <1>3 DEF ShutBy
  <2> QED
    BY <1>2, <1>5, <2>1, <2>2 DEF Exact, peerVars
<1>14. Ending'
  <2>1. UNCHANGED <<fin, avail, broken, failing>> /\ edges' = edges
    BY <1>2 DEF peerVars, epollVars
  <2>2. edges' \cap {"hup", "hupSend"} # {} => broken
    BY <1>4, <2>1 DEF Ending
  <2>3. byUs => byUs'
    BY <1>3 DEF ShutBy
  <2>4. Over => Over'
    BY <1>5, <2>1, <2>3 DEF Over
  <2>5. s'.mask \/ s'.toRemove => Over'
    <3>1. s'.mask \/ s'.toRemove => s.mask \/ s.toRemove \/ byUs'
      BY <1>3 DEF ShutBy
    <3>2. byUs' => Over'
      BY DEF Over
    <3> QED
      BY <1>4, <2>4, <3>1, <3>2 DEF Ending
  <2>6. \A d \in Dirs : Holds(box'[d], "cancel") => Holds(box[d], "cancel")
    <3>1. "cancel" \in Word /\ "cancel" # "post"
      BY DEF Word
    <3>2. ASSUME box'["send"] = Append(box["send"], "post")
          PROVE  Holds(box'["send"], "cancel") => Holds(box["send"], "cancel")
      <4>1. PICK b, r : b = box["send"] /\ r = box'["send"]
        OBVIOUS
      <4>2. b \in Seq(Word) /\ "post" \in Word /\ r = Append(b, "post")
        BY <1>10, <3>2, <4>1
      <4>3. \A v \in Word : Holds(r, v) <=> (Holds(b, v) \/ v = "post")
        BY <4>2, AppendWord
      <4> QED
        BY <3>1, <4>1, <4>3
    <3> QED
      BY <1>4, <1>10, <3>2
  <2> QED
    BY <1>1, <1>4, <1>5, <2>1, <2>2, <2>3, <2>5, <2>6, EndingKept
<1> QED
  BY <1>6, <1>9, <1>11, <1>12, <1>13, <1>14 DEF Books

LEMMA HandleBooks == ASSUME Shape, Books, HandleMessage PROVE Books'
<1>1. PICK m : m = Head(batch)
  OBVIOUS
<1>2. \/ m.kind = "connected" /\ OnSessionConnected
      \/ /\ m.kind # "connected" /\ life # "alive"
         /\ UNCHANGED <<epollVars, sessionVars, box>>
      \/ /\ m.kind # "connected" /\ life = "alive" /\ (s.mask \/ m.bytes = 0)
         /\ Disconnected(m) /\ UNCHANGED <<epollVars, life>>
      \/ /\ m.kind = "recv" /\ life = "alive" /\ ~s.mask /\ m.bytes > 0
         /\ RecvSuc(m) /\ UNCHANGED <<epollVars, life>>
      \/ /\ m.kind = "send" /\ life = "alive" /\ ~s.mask /\ m.bytes > 0
         /\ SendSuc(m) /\ UNCHANGED <<epollVars, life>>
  BY <1>1, HandleIs
<1>3. CASE m.kind = "connected" /\ OnSessionConnected
  BY <1>1, <1>3, ConnectedBooks
<1>4. CASE /\ m.kind # "connected" /\ life # "alive"
           /\ UNCHANGED <<epollVars, sessionVars, box>>
  <2>1. life \notin {"none", "coming"} /\ NoConnects(Messages')
    BY <1>1, <1>4, TakenIs
  <2>2. UNCHANGED <<peerVars, dpc>> /\ dpc = "handle"
    BY HandleIs
  <2>3. Birth'
    BY <1>4, <2>1, <2>2 DEF Birth, sessionVars
  <2>4. Bounds' /\ Gone'
    BY <1>4, <2>2 DEF Books, Bounds, Gone, peerVars, sessionVars
  <2> QED
    BY <1>4, <2>3, <2>4 DEF Books, sessionVars
<1>5. CASE /\ life = "alive" /\ (s.mask \/ m.bytes = 0)
           /\ Disconnected(m) /\ UNCHANGED <<epollVars, life>>
  BY <1>1, <1>5, DisconnectedBooks
<1>6. CASE m.kind = "recv" /\ life = "alive" /\ m.bytes > 0 /\ RecvSuc(m) /\ UNCHANGED <<epollVars, life>>
  BY <1>1, <1>6, ReceivedBooks
<1>7. CASE m.kind = "send" /\ life = "alive" /\ m.bytes > 0 /\ SendSuc(m) /\ UNCHANGED <<epollVars, life>>
  BY <1>1, <1>7, SentBooks
<1> QED
  BY <1>2, <1>3, <1>4, <1>5, <1>6, <1>7

LEMMA TimersBooks == ASSUME Shape, Books, Timers PROVE Books'
<1>1. /\ UNCHANGED <<peerVars, epollVars, status, io, failing, inbox, batch, life, handled>>
      /\ dpc' = "handle"
  BY DEF Timers
<1>2. /\ box' = box /\ s' \in Fields
      /\ life # "alive" => s' = s /\ byUs' = byUs
      /\ life = "alive" => Served(s, s') /\ ShutBy(s, byUs, s', byUs')
  BY TimersIs DEF Typed
<1>3. Messages' = Messages
  BY <1>1 DEF Messages
<1>4. Birth'
  BY <1>1, <1>2, <1>3 DEF Books, Birth, peerVars, epollVars
<1>5. byUs => byUs'
  BY <1>2 DEF ShutBy
<1>6. Gone'
  BY <1>1, <1>5 DEF Books, Gone, peerVars
<1>7. Bounds'
  <2>1. CASE life # "alive"
    BY <1>1, <1>2, <2>1 DEF Books, Bounds, peerVars
  <2>2. CASE life = "alive"
    <3>1. s'.len = s.len /\ s'.out >= s.out /\ (s.out <= MaxOut => s'.out <= MaxOut)
      BY <1>2, <2>2 DEF Served
    <3>2. s'.out \in Int
      BY <1>2 DEF Fields
    <3>3. 0 <= s'.len /\ s'.len <= s'.out /\ s'.out <= MaxOut
      BY <3>1, <3>2, Numbers DEF Books, Bounds
    <3> QED
      BY <1>1, <3>3 DEF Books, Bounds, peerVars
  <2> QED
    BY <2>1, <2>2
<1>8. ASSUME life = "alive" PROVE (Ways /\ Claims /\ Exact /\ Ending)'
  <2>1. Ways /\ Claims /\ Exact /\ Ending
    BY <1>8 DEF Books
  <2>2. /\ s'.post = s.post /\ s'.out >= s.out
        /\ s'.mask \/ s'.toRemove => s.mask \/ s.toRemove \/ byUs'
    BY <1>2, <1>8 DEF Served, ShutBy
  <2>3. Ways'
    BY <1>1, <1>2, <1>3, <2>1, <2>2 DEF Ways
  <2>4. Claims'
    <3>1. \A n \in Sizes(Messages, "send") : n <= s'.out
      <4> SUFFICES ASSUME NEW n \in Sizes(Messages, "send") PROVE n <= s'.out
        OBVIOUS
      <4>1. n <= s.out /\ n \in Nat /\ s.out \in Int /\ s'.out \in Int
        BY <1>2, <2>1, Numbers DEF Claims, Fields
      <4> QED
        BY <2>2, <4>1
    <3> QED
      BY <1>1, <1>3, <2>1, <3>1 DEF Claims, peerVars
  <2>5. Exact'
    BY <1>1, <1>3, <1>5, <2>1 DEF Exact, peerVars
  <2>6. s'.mask \/ s'.toRemove => Over'
    <3>1. Over => Over'
      BY <1>1, <1>3, <1>5 DEF Over, peerVars
    <3>2. byUs' => Over'
      BY DEF Over
    <3> QED
      BY <2>1, <2>2, <3>1, <3>2 DEF Ending
  <2>7. UNCHANGED <<fin, avail, broken, failing>> /\ edges' = edges
    BY <1>1 DEF peerVars, epollVars
  <2>8. edges' \cap {"hup", "hupSend"} # {} => broken
    BY <2>1, <2>7 DEF Ending
  <2>9. Ending'
    BY <1>2, <1>3, <1>5, <2>1, <2>6, <2>7, <2>8, EndingKept
  <2> QED
    BY <2>3, <2>4, <2>5, <2>9
<1> QED
  BY <1>1, <1>4, <1>6, <1>7, <1>8 DEF Books

LEMMA PostEventsBooks == ASSUME Shape, Books, PostEvents PROVE Books'
<1>1. /\ UNCHANGED <<peerVars, epollVars, status, io, failing, inbox, batch, life, handled>>
      /\ batch = <<>>
  BY DEF PostEvents
<1>2. /\ s' \in Fields /\ byUs' = byUs
      /\ s'.mask = s.mask /\ s'.toRemove = s.toRemove /\ s'.out = s.out /\ s'.toPost = Both(FALSE)
      /\ s'.len = s.len \/ s'.len = s.out
      /\ \A d \in Dirs :
            \/ /\ s.toPost[d] /\ ~s.post[d] /\ s'.post[d]
               /\ box'[d] = Append(box[d], "post")
            \/ s'.post[d] = s.post[d] /\ box'[d] = box[d]
  BY PostEventsIs DEF Typed
<1>3. Messages' = Messages
  BY <1>1 DEF Messages
<1>4. \A d \in Dirs : ~s'.toPost[d]
  BY <1>2 DEF Both
<1>5. Birth'
  BY <1>1, <1>2, <1>3, <1>4 DEF Books, Birth, peerVars, epollVars
<1>6. Gone'
  BY <1>1, <1>2 DEF Books, Gone, peerVars
<1>7. Bounds'
  <2>1. 0 <= s'.len /\ s'.len <= s'.out /\ s'.out <= MaxOut
    BY <1>2, Numbers DEF Books, Bounds
  <2> QED
    BY <1>1, <2>1 DEF Books, Bounds, peerVars
<1>8. ASSUME life = "alive" PROVE (Ways /\ Claims /\ Exact /\ Ending)'
  <2>1. Ways /\ Claims /\ Exact /\ Ending
    BY <1>8 DEF Books
  <2>2. ASSUME NEW d \in Dirs
        PROVE  /\ Way(d, status[d], io[d], box'[d], Messages, s'.post[d])
               /\ Holds(box'[d], "cancel") => Holds(box[d], "cancel")
    <3>1. Way(d, status[d], io[d], box[d], Messages, s.post[d])
      BY <2>1 DEF Ways
    <3>2. CASE s'.post[d] = s.post[d] /\ box'[d] = box[d]
      BY <3>1, <3>2
    <3>3. CASE ~s.post[d] /\ s'.post[d] /\ box'[d] = Append(box[d], "post")
      <4>1. s.post[d] = FALSE /\ s'.post[d] = TRUE
        <5>1. s \in Fields
          BY DEF Shape
        <5>2. s.post[d] \in BOOLEAN /\ s'.post[d] \in BOOLEAN
          BY <1>2, <5>1, FlagsTyped
        <5> QED
          BY <3>3, <5>2
      <4>2. box[d] \in Seq(Word) /\ "post" \in Word /\ "cancel" \in Word
        BY DEF Shape, Word
      <4>3. Way(d, status[d], io[d], box'[d], Messages, TRUE)
        BY <3>1, <3>3, <4>1, <4>2, WayPost
      <4>4. Holds(box'[d], "cancel") => Holds(box[d], "cancel")
        BY <3>3, <4>2, AppendWord
      <4> QED
        BY <4>1, <4>3, <4>4
    <3> QED
      BY <1>2, <3>2, <3>3
  <2>3. Ways'
    BY <1>1, <1>3, <2>2 DEF Ways
  <2>4. Claims' /\ Exact'
    BY <1>1, <1>2, <1>3, <2>1 DEF Claims, Exact, peerVars
  <2>5. Over' = Over
    BY <1>1, <1>2, <1>3 DEF Over, peerVars
  <2>6. UNCHANGED <<fin, avail, broken, failing>> /\ edges' = edges
    BY <1>1 DEF peerVars, epollVars
  <2>7. edges' \cap {"hup", "hupSend"} # {} => broken
    BY <2>1, <2>6 DEF Ending
  <2>8. s'.mask \/ s'.toRemove => Over'
    BY <1>2, <2>1, <2>5 DEF Ending
  <2>9. Ending'
    BY <1>2, <1>3, <2>1, <2>2, <2>6, <2>7, <2>8, EndingKept
  <2> QED
    BY <2>3, <2>4, <2>9
<1> QED
  BY <1>1, <1>5, <1>6, <1>7, <1>8 DEF Books

(* A session that ends has a reason, and so all is handled unless it broke *)
(* or the server side closed it.                                           *)
LEMMA OverIsGone ==
    ASSUME Shape, Exact, Over
    PROVE  byUs \/ broken \/ (fin /\ handled = arrived)
<1>1. ASSUME ~byUs, ~broken PROVE fin /\ handled = arrived
  <2>1. fin /\ avail = 0 /\ handled + avail = arrived
    BY <1>1 DEF Over, Exact
  <2> QED
    BY <2>1, Numbers
<1> QED
  BY <1>1

LEMMA RemoveBooks == ASSUME Shape, Books, WillRemoveSessions PROVE Books'
<1>1. /\ UNCHANGED <<peerVars, status, io, failing, inbox, batch, handled>>
      /\ dpc = "remove"
      /\ edges' = edges \/ edges' = {}
      /\ ~s.toRemove => UNCHANGED epollVars
  BY DEF WillRemoveSessions, epollVars
<1>2. /\ byUs' = byUs /\ s' \in Fields
      /\ \/ ~s.toRemove /\ s' = s /\ box' = box /\ life' = life
         \/ /\ s.toRemove
            /\ s'.post = s.post /\ s'.out = s.out /\ s'.len = s.len
            /\ \/ /\ life' = life
                  /\ \A d \in Dirs : box'[d] = IF s.canceled[d] THEN box[d] ELSE Append(box[d], "cancel")
               \/ life' = "freed"
  BY RemoveIs DEF Typed
<1>3. Messages' = Messages /\ batch' = <<>>
  BY <1>1 DEF Messages, Books, Birth
<1>4. Bounds'
  BY <1>1, <1>2 DEF Books, Bounds, peerVars
<1>5. CASE ~s.toRemove /\ s' = s /\ box' = box /\ life' = life
  <2>1. Birth' /\ Gone'
    BY <1>1, <1>2, <1>3, <1>5 DEF Books, Birth, Gone, peerVars, epollVars
  <2>2. ASSUME life = "alive" PROVE (Ways /\ Claims /\ Exact /\ Ending)'
    <3>1. Ways /\ Claims /\ Exact /\ Ending
      BY <2>2 DEF Books
    <3>2. Ways' /\ Claims' /\ Exact'
      BY <1>1, <1>2, <1>3, <1>5, <3>1 DEF Ways, Claims, Exact, peerVars
    <3>3. Over' = Over
      BY <1>1, <1>2, <1>3 DEF Over, peerVars
    <3>4. Ending'
      BY <1>1, <1>2, <1>3, <1>5, <3>1, <3>3 DEF Ending, peerVars, epollVars
    <3> QED
      BY <3>2, <3>4
  <2> QED
    BY <1>4, <1>5, <2>1, <2>2 DEF Books
<1>6. CASE s.toRemove
  <2>1. life \notin {"none", "coming"} /\ NoConnects(Messages)
    BY <1>6 DEF Books, Birth
  <2>2. Birth'
    BY <1>2, <1>3, <2>1 DEF Birth
  <2>3. ASSUME life = "alive" PROVE byUs \/ broken \/ (fin /\ handled = arrived)
    BY <1>6, <2>3, OverIsGone DEF Books, Ending
  <2>4. Gone'
    <3>1. life \in {"alive", "closed", "freed"}
      BY <2>1 DEF Shape
    <3> QED
      BY <1>1, <1>2, <2>3, <3>1 DEF Books, Gone, peerVars
  <2>5. ASSUME life' = "alive" PROVE (Ways /\ Claims /\ Exact /\ Ending)'
    <3>1. /\ life = "alive"
          /\ \A d \in Dirs : box'[d] = IF s.canceled[d] THEN box[d] ELSE Append(box[d], "cancel")
      BY <1>2, <1>6, <2>5
    <3>2. Ways /\ Claims /\ Exact /\ Ending
      BY <3>1 DEF Books
    <3>3. Over /\ Over'
      BY <1>1, <1>2, <1>3, <1>6, <3>2 DEF Ending, Over, peerVars
    <3>4. ASSUME NEW d \in Dirs
          PROVE  Way(d, status[d], io[d], box'[d], Messages, s.post[d])
      <4>1. Way(d, status[d], io[d], box[d], Messages, s.post[d])
        BY <3>2 DEF Ways
      <4>2. box[d] \in Seq(Word) /\ "cancel" \in Word
        BY DEF Shape, Word
      <4>3. Way(d, status[d], io[d], Append(box[d], "cancel"), Messages, s.post[d])
        BY <4>1, <4>2, WayWord
      <4> QED
        BY <3>1, <4>1, <4>3
    <3>5. Ways'
      BY <1>1, <1>2, <1>3, <1>6, <3>4 DEF Ways
    <3>6. Claims' /\ Exact'
      BY <1>1, <1>2, <1>3, <1>6, <3>2 DEF Claims, Exact, peerVars
    <3>7. UNCHANGED <<fin, avail, broken, failing>>
      BY <1>1 DEF peerVars
    <3>8. edges' \cap {"hup", "hupSend"} # {} => broken
      BY <1>1, <3>2 DEF Ending
    <3>9. Ending'
      BY <1>2, <1>3, <3>2, <3>3, <3>7, <3>8, EndingKept
    <3> QED
      BY <3>5, <3>6, <3>9
  <2> QED
    BY <1>4, <2>2, <2>4, <2>5 DEF Books
<1> QED
  BY <1>2, <1>5, <1>6

LEMMA CancelAllBooks == ASSUME Shape, Books, CancelAllSessionIos PROVE Books'
<1>1. /\ UNCHANGED <<peerVars, inbox, batch, handled>> /\ dpc = "cancel"
      /\ life # "alive" => UNCHANGED <<epollVars, io, failing>>
  BY DEF CancelAllSessionIos
<1>2. IF life = "alive"
      THEN life' = "closed" /\ byUs' /\ s'.out = s.out /\ s'.len = s.len
      ELSE life' = life /\ s' = s /\ box' = box /\ byUs' = byUs
  BY CancelAllIs
<1>3. Messages' = Messages /\ batch' = <<>>
  BY <1>1 DEF Messages, Books, Birth
<1>4. Bounds' /\ Gone'
  BY <1>1, <1>2 DEF Books, Bounds, Gone, peerVars
<1>5. Birth'
  BY <1>1, <1>2, <1>3 DEF Books, Birth, peerVars, epollVars
<1>6. life' # "alive"
  BY <1>2
<1> QED
  BY <1>4, <1>5, <1>6 DEF Books

LEMMA BooksInvariant == Spec => [](Shape /\ Books)
<1>1. Shape /\ Books /\ [Next]_vars => Books'
  <2> SUFFICES ASSUME Shape, Books, [Next]_vars PROVE Books'
    OBVIOUS
  <2>1. CASE UNCHANGED vars
    <3>1. UNCHANGED <<peerVars, epollVars, transferVars, inbox, frameVars, sessionVars>>
      BY <2>1 DEF vars
    <3>2. Messages' = Messages
      BY <3>1 DEF Messages, frameVars
    <3>3. Birth' /\ Bounds' /\ Gone' /\ Ways' = Ways /\ Claims' = Claims /\ Exact' = Exact
      BY <3>1, <3>2 DEF Books, Birth, Bounds, Gone, Ways, Claims, Exact, peerVars, epollVars,
         transferVars, frameVars, sessionVars
    <3>4. Ending' = Ending
      BY <3>1, <3>2 DEF Ending, Over, peerVars, epollVars, transferVars, sessionVars
    <3>5. life' = life
      BY <3>1 DEF sessionVars
    <3> QED
      BY <3>3, <3>4, <3>5 DEF Books
  <2>2. CASE Next
    BY <2>2, PeerBooks, ConnectBooks, DistributeBooks, LoopBooks, PollerBooks, HandleBooks,
       TimersBooks, PostEventsBooks, RemoveBooks, CancelAllBooks DEF Next, DispatcherNext
  <2> QED
    BY <2>1, <2>2
<1>2. Spec => []Shape
  BY FlowInvariant, PTL
<1> QED
  BY <1>1, <1>2, InitBooks, PTL DEF Spec

(* The variables of a session have the values they may have, whatever the  *)
(* peer does: what is taken from the socket and reported is never more     *)
(* than the peer sent, what is sent never more than the logic gave.        *)
THEOREM TypeCorrect == Spec => []TypeOK
<1>1. Shape /\ Books => TypeOK
  <2> SUFFICES ASSUME Shape, Books PROVE TypeOK
    OBVIOUS
  <2>1. /\ arrived \in Nat /\ avail \in Nat /\ handled \in Nat
        /\ s.out \in Int /\ s.len \in Int /\ MaxOut \in Nat /\ MaxData \in Nat
    BY Numbers
  <2>2. arrived \in 0 .. MaxData /\ avail \in 0 .. arrived /\ handled \in 0 .. arrived
    BY <2>1 DEF Books, Bounds
  <2>3. s.out \in 0 .. MaxOut /\ s.len \in 0 .. MaxOut
    BY <2>1 DEF Books, Bounds
  <2>4. s \in [mask : BOOLEAN, post : [Dirs -> BOOLEAN], canceled : [Dirs -> BOOLEAN],
               toPost : [Dirs -> BOOLEAN], toRemove : BOOLEAN, beat : BOOLEAN, recvFull : BOOLEAN,
               out : 0 .. MaxOut, len : 0 .. MaxOut]
    BY <2>3 DEF Shape, Fields
  <2> QED
    BY <2>2, <2>4 DEF Shape, TypeOK, Word
<1> QED
  BY <1>1, BooksInvariant, PTL

(* When the peer ends the conversation in order, at once behind its last   *)
(* data even, the logic has seen all of it before the session is freed;    *)
(* only an error or a close of the server side loses data.                 *)
THEOREM AllIsDelivered == Spec => []CleanCloseDeliversAll
<1>1. Books => CleanCloseDeliversAll
  BY DEF Books, Gone, CleanCloseDeliversAll
<1> QED
  BY <1>1, BooksInvariant, PTL

-----------------------------------------------------------------------------
(* The end of a session.  One that is being closed is to be removed by     *)
(* this frame, or waits for an io it has canceled; and a cancel stands in  *)
(* the mailbox until its transfer has forgotten the session.               *)
Leaving ==
    life = "alive" =>
        /\ s.toRemove => dpc \in {"handle", "remove"}
        /\ s.mask => s.toRemove \/ ((\A d \in Dirs : s.canceled[d]) /\ \E d \in Dirs : s.post[d])
        /\ \A d \in Dirs : s.canceled[d] /\ status[d] # "none" => Holds(box[d], "cancel")

(* No thread of the transfer takes a session up again that it has          *)
(* forgotten.                                                              *)
LEMMA PollerForgets ==
    ASSUME Shape, NEW d \in Dirs, ~failing[d], Poller(d)
    PROVE  /\ \A e \in Dirs : status'[e] # "none" => status[e] # "none"
           /\ box[d] # <<>> /\ box' = [box EXCEPT ![d] = Tail(@)]
           /\ Head(box[d]) = "cancel" => status'[d] = "none"
           /\ UNCHANGED <<frameVars, sessionVars>>
<1>1. OnReady(d) \/ OnBePosted(d) \/ OnCancel(d, "cancel") \/ OnCancel(d, "quiet")
  BY DEF Poller, Fail
<1>2. /\ box[d] # <<>> /\ box' = [box EXCEPT ![d] = Tail(@)]
      /\ UNCHANGED <<frameVars, sessionVars>>
  BY <1>1 DEF OnReady, OnBePosted, OnCancel, Take
<1>3. ASSUME DoIo(d) PROVE \A e \in Dirs \ {d} : status'[e] = status[e]
  BY <1>3 DEF DoIo, Shape
<1>4. CASE OnReady(d)
  <2>1. Head(box[d]) = "ready"
    BY <1>4 DEF OnReady, Take
  <2>2. \/ status' = status
        \/ status[d] # "none" /\ (DoIo(d) \/ status' = [status EXCEPT ![d] = "ready"])
    BY <1>4 DEF OnReady
  <2> QED
    BY <1>2, <1>3, <2>1, <2>2 DEF Shape
<1>5. CASE OnBePosted(d)
  <2>1. Head(box[d]) = "post"
    BY <1>5 DEF OnBePosted, Take
  <2>2. status' = status \/ (status[d] # "none" /\ DoIo(d))
    BY <1>5 DEF OnBePosted
  <2> QED
    BY <1>2, <1>3, <2>1, <2>2 DEF Shape
<1>6. CASE OnCancel(d, "cancel") \/ OnCancel(d, "quiet")
  <2>1. status' = [status EXCEPT ![d] = "none"]
    BY <1>6 DEF OnCancel
  <2> QED
    BY <1>2, <2>1 DEF Shape
<1> QED
  BY <1>1, <1>4, <1>5, <1>6

LEMMA InitLeaving == Init => Leaving
BY DEF Init, Leaving

(* Steps that leave the session's fields alone.                            *)
LEMMA OthersLeaving ==
    ASSUME Leaving, UNCHANGED s, life' = life \/ life' # "alive",
           dpc' = dpc \/ dpc \notin {"handle", "remove"},
           \A d \in Dirs : status'[d] # "none" => status[d] # "none",
           \A d \in Dirs : status'[d] # "none" /\ Holds(box[d], "cancel") => Holds(box'[d], "cancel")
    PROVE  Leaving'
BY DEF Leaving

LEMMA PollerLeaving == ASSUME Shape, Calm, Leaving, NEW d \in Dirs, Poller(d) PROVE Leaving'
<1>1. /\ \A e \in Dirs : status'[e] # "none" => status[e] # "none"
      /\ box[d] # <<>> /\ box' = [box EXCEPT ![d] = Tail(@)]
      /\ Head(box[d]) = "cancel" => status'[d] = "none"
      /\ UNCHANGED <<frameVars, sessionVars>>
  <2>1. ~failing[d]
    BY DEF Calm, Both
  <2> QED
    BY <2>1, PollerForgets
<1>2. ASSUME NEW e \in Dirs, status'[e] # "none", Holds(box[e], "cancel")
      PROVE  Holds(box'[e], "cancel")
  <2>1. CASE e # d
    BY <1>1, <1>2, <2>1 DEF Shape
  <2>2. CASE e = d
    <3>1. PICK b, r : b = box[d] /\ r = box'[d]
      OBVIOUS
    <3>2. b \in Seq(Word) /\ b # <<>> /\ r = Tail(b) /\ Head(b) # "cancel"
      BY <1>1, <1>2, <2>2, <3>1 DEF Shape
    <3>3. \A v \in Word : Holds(b, v) /\ Head(b) # v => Holds(r, v)
      BY <3>2, TailWord
    <3>4. "cancel" \in Word
      BY DEF Word
    <3> QED
      BY <1>2, <2>2, <3>1, <3>2, <3>3, <3>4
  <2> QED
    BY <2>1, <2>2
<1> QED
  BY <1>1, <1>2, OthersLeaving DEF frameVars, sessionVars

(* A mailbox that only grows keeps its cancel.                             *)
LEMMA CancelKept ==
    ASSUME NEW b \in Seq(Word), NEW w \in Word, NEW r, r = Append(b, w)
    PROVE  Holds(r, "cancel") <=> (Holds(b, "cancel") \/ w = "cancel")
<1>1. \A v \in Word : Holds(r, v) <=> (Holds(b, v) \/ v = w)
  BY AppendWord
<1>2. "cancel" \in Word
  BY DEF Word
<1> QED
  BY <1>1, <1>2

LEMMA DistributeLeaving == ASSUME Shape, Leaving, Distribute PROVE Leaving'
<1>1. UNCHANGED <<status, frameVars, sessionVars>>
  BY DEF Distribute
<1>2. \A b \in Seq(Word) : \A w \in Word : b \o <<w>> = Append(b, w) /\ b \o <<>> = b
  OBVIOUS
<1>3. {"ready", "cancel"} \subseteq Word /\ box["recv"] \in Seq(Word) /\ box["send"] \in Seq(Word)
  BY DEF Word, Shape, Dirs
<1>4. /\ \/ box'["recv"] = box["recv"]
         \/ \E w \in {"ready", "cancel"} : box'["recv"] = Append(box["recv"], w)
      /\ \E b \in Seq(Word) :
            /\ b = box["send"] \/ b = Append(box["send"], "cancel")
            /\ box'["send"] = b \/ box'["send"] = Append(b, "ready")
  <2>1. CASE box' = [box EXCEPT !["recv"] = Append(@, "cancel")]
    BY <1>3, <2>1 DEF Shape, Dirs
  <2>2. CASE box' = [recv |-> box["recv"] \o If("in", "ready"),
                     send |-> box["send"] \o If("hupSend", "cancel") \o If("out", "ready")]
    <3>1. PICK b : b = box["send"] \o If("hupSend", "cancel")
      OBVIOUS
    <3>2. b = box["send"] \/ b = Append(box["send"], "cancel")
      BY <1>2, <1>3, <3>1 DEF If
    <3>3. b \in Seq(Word)
      BY <1>3, <3>2
    <3>4. box'["send"] = b \o If("out", "ready") /\ box'["recv"] = box["recv"] \o If("in", "ready")
      BY <2>2, <3>1
    <3>5. box'["send"] = b \/ box'["send"] = Append(b, "ready")
      BY <1>2, <1>3, <3>3, <3>4 DEF If
    <3>6. box'["recv"] = box["recv"] \/ box'["recv"] = Append(box["recv"], "ready")
      BY <1>2, <1>3, <3>4 DEF If
    <3> QED
      BY <3>2, <3>3, <3>5, <3>6
  <2> QED
    BY <2>1, <2>2 DEF Distribute
<1>5. Holds(box["recv"], "cancel") => Holds(box'["recv"], "cancel")
  <2>1. PICK b, r : b = box["recv"] /\ r = box'["recv"]
    OBVIOUS
  <2>2. ASSUME NEW w \in Word, r = Append(b, w) PROVE Holds(b, "cancel") => Holds(r, "cancel")
    BY <1>3, <2>1, <2>2, CancelKept
  <2> QED
    BY <1>3, <1>4, <2>1, <2>2
<1>6. Holds(box["send"], "cancel") => Holds(box'["send"], "cancel")
  <2>1. PICK a, r : a = box["send"] /\ r = box'["send"]
    OBVIOUS
  <2>2. PICK b \in Seq(Word) : (b = a \/ b = Append(a, "cancel")) /\ (r = b \/ r = Append(b, "ready"))
    BY <1>4, <2>1
  <2>3. b = Append(a, "cancel") => (Holds(a, "cancel") => Holds(b, "cancel"))
    BY <1>3, <2>1, CancelKept
  <2>4. r = Append(b, "ready") => (Holds(b, "cancel") => Holds(r, "cancel"))
    BY <1>3, CancelKept
  <2> QED
    BY <2>1, <2>2, <2>3, <2>4
<1>7. \A d \in Dirs : Holds(box[d], "cancel") => Holds(box'[d], "cancel")
  BY <1>5, <1>6 DEF Dirs
<1> QED
  BY <1>1, <1>7, OthersLeaving DEF frameVars, sessionVars

LEMMA LoopLeaving ==
    ASSUME Leaving,
           \/ PeerNext \/ WillConnect \/ ClosePool
           \/ WaitForPoping \/ LastFrame \/ WaitForTransferIoFinish \/ UNCHANGED vars
    PROVE  Leaving'
<1>1. CASE WillConnect
  <2>1. life' = "coming"
    BY <1>1 DEF WillConnect
  <2> QED
    BY <2>1 DEF Leaving
<1>2. CASE PeerNext \/ ClosePool \/ UNCHANGED vars
  <2>1. UNCHANGED <<status, box, dpc, s, life>>
    BY <1>2 DEF PeerNext, PeerSends, PeerCloses, PeerResets, PeerReads, ClosePool,
       vars, transferVars, frameVars, sessionVars
  <2> QED
    BY <2>1, OthersLeaving
<1>3. CASE WaitForPoping \/ LastFrame \/ WaitForTransferIoFinish
  <2>1. /\ UNCHANGED <<status, box, s>> /\ dpc \in {"wait", "last", "finish"}
        /\ life' = life \/ life' = "freed"
    BY <1>3 DEF WaitForPoping, LastFrame, WaitForTransferIoFinish, transferVars, sessionVars
  <2> QED
    BY <2>1, OthersLeaving
<1> QED
  BY <1>1, <1>2, <1>3

LEMMA TimersLeaving == ASSUME Shape, Leaving, Timers PROVE Leaving'
<1>1. box' = box /\ (life # "alive" => s' = s)
      /\ (life = "alive" => Served(s, s') /\ ShutBy(s, byUs, s', byUs'))
  BY TimersIs
<1>2. dpc' = "handle" /\ UNCHANGED <<status, life>>
  BY DEF Timers
<1> QED
  BY <1>1, <1>2 DEF Leaving, Served, ShutBy

LEMMA PostEventsLeaving == ASSUME Shape, Leaving, PostEvents PROVE Leaving'
<1>1. /\ s'.mask = s.mask /\ s'.canceled = s.canceled /\ s'.toRemove = s.toRemove
      /\ \A d \in Dirs :
            \/ s'.post[d] /\ box'[d] = Append(box[d], "post")
            \/ s'.post[d] = s.post[d] /\ box'[d] = box[d]
  BY PostEventsIs
<1>2. dpc' = "remove" /\ UNCHANGED <<status, life>>
  BY DEF PostEvents
<1>3. ASSUME NEW d \in Dirs, Holds(box[d], "cancel") PROVE Holds(box'[d], "cancel")
  <2>1. PICK b, r : b = box[d] /\ r = box'[d]
    OBVIOUS
  <2>2. b \in Seq(Word) /\ "post" \in Word /\ (r = b \/ r = Append(b, "post"))
    BY <1>1, <2>1 DEF Shape, Word
  <2> QED
    BY <1>3, <2>1, <2>2, CancelKept
<1>4. dpc = "handle" /\ \A d \in Dirs : s.post[d] => s'.post[d]
  BY <1>1 DEF PostEvents
<1> QED
  BY <1>1, <1>2, <1>3, <1>4 DEF Leaving

LEMMA RemoveLeaving == ASSUME Shape, Leaving, WillRemoveSessions PROVE Leaving'
<1>1. \/ ~s.toRemove /\ s' = s /\ box' = box /\ life' = life
      \/ /\ s.toRemove /\ s'.mask /\ ~s'.toRemove /\ (\A d \in Dirs : s'.canceled[d])
         /\ s'.post = s.post
         /\ \/ /\ ~CanDisconnect /\ life' = life
               /\ \A d \in Dirs : box'[d] = IF s.canceled[d] THEN box[d] ELSE Append(box[d], "cancel")
            \/ life' = "freed"
  BY RemoveIs
<1>2. UNCHANGED status
  BY DEF WillRemoveSessions
<1>3. CASE ~s.toRemove /\ s' = s /\ box' = box /\ life' = life
  BY <1>2, <1>3 DEF Leaving
<1>4. CASE /\ s'.mask /\ ~s'.toRemove /\ (\A d \in Dirs : s'.canceled[d])
           /\ s'.post = s.post /\ ~CanDisconnect /\ life' = life
           /\ \A d \in Dirs : box'[d] = IF s.canceled[d] THEN box[d] ELSE Append(box[d], "cancel")
  <2>1. \E d \in Dirs : s'.post[d]
    BY <1>4 DEF CanDisconnect
  <2>2. ASSUME NEW d \in Dirs, life = "alive", status[d] # "none" PROVE Holds(box'[d], "cancel")
    <3>1. PICK b, r : b = box[d] /\ r = box'[d]
      OBVIOUS
    <3>2. b \in Seq(Word) /\ "cancel" \in Word
      BY <3>1 DEF Shape, Word
    <3>3. CASE s.canceled[d]
      BY <1>4, <2>2, <3>3 DEF Leaving
    <3>4. CASE ~s.canceled[d]
      <4>1. r = Append(b, "cancel")
        BY <1>4, <3>1, <3>4
      <4> QED
        BY <3>1, <3>2, <4>1, CancelKept
    <3> QED
      BY <3>3, <3>4
  <2> QED
    BY <1>2, <1>4, <2>1, <2>2 DEF Leaving
<1>5. CASE life' = "freed"
  BY <1>5 DEF Leaving
<1> QED
  BY <1>1, <1>3, <1>4, <1>5

LEMMA CancelAllLeaving == ASSUME Leaving, CancelAllSessionIos PROVE Leaving'
<1>1. life' # "alive"
  BY DEF CancelAllSessionIos
<1> QED
  BY <1>1 DEF Leaving

LEMMA HandleLeaving == ASSUME Shape, Ordered, Books, Leaving, HandleMessage PROVE Leaving'
<1>1. PICK m : m = Head(batch)
  OBVIOUS
<1>2. /\ m \in Message /\ batch # <<>> /\ batch' = Tail(batch)
      /\ dpc = "handle" /\ UNCHANGED <<status, inbox, dpc>>
      /\ \/ m.kind = "connected" /\ OnSessionConnected
         \/ /\ m.kind # "connected" /\ life # "alive"
            /\ UNCHANGED <<epollVars, sessionVars, box>>
         \/ /\ m.kind # "connected" /\ life = "alive" /\ (s.mask \/ m.bytes = 0)
            /\ Disconnected(m) /\ UNCHANGED <<epollVars, life>>
         \/ /\ m.kind = "recv" /\ life = "alive" /\ ~s.mask /\ m.bytes > 0
            /\ RecvSuc(m) /\ UNCHANGED <<epollVars, life>>
         \/ /\ m.kind = "send" /\ life = "alive" /\ ~s.mask /\ m.bytes > 0
            /\ SendSuc(m) /\ UNCHANGED <<epollVars, life>>
  BY <1>1, HandleIs
<1>3. CASE m.kind = "connected" /\ OnSessionConnected
  <2>1. s'.canceled = Both(FALSE) /\ (s'.mask => s'.toRemove)
    BY <1>3, ConnectedIs
  <2>2. \A d \in Dirs : ~s'.canceled[d]
    BY <2>1 DEF Both
  <2> QED
    BY <1>2, <2>1, <2>2 DEF Leaving
<1>4. CASE m.kind # "connected" /\ life # "alive" /\ UNCHANGED <<epollVars, sessionVars, box>>
  BY <1>4 DEF Leaving, sessionVars
<1>5. CASE m.kind # "connected" /\ life = "alive" /\ Disconnected(m) /\ UNCHANGED <<epollVars, life>>
  <2>1. /\ s'.toRemove /\ box' = box /\ m.kind \in Dirs
        /\ s'.canceled[m.kind] <=> (s.canceled[m.kind] \/ ~m.inMonitor)
        /\ \A d \in Dirs \ {m.kind} : s'.canceled[d] = s.canceled[d]
    BY <1>2, <1>5, DisconnectedIs, MessageIs
  <2>2. ~m.inMonitor => status[m.kind] = "none"
    <3>1. Messages # <<>> /\ m = Head(Messages) /\ Messages \in Seq(Message)
      BY <1>1, <1>2, MessagesTail, MessagesTyped
    <3>2. m.inMonitor <=> m.bytes > 0
      <4>1. OfIos(Messages) /\ m = Messages[1] /\ 1 \in 1 .. Len(Messages)
        BY <1>5, <3>1 DEF Ordered, Course
      <4> QED
        BY <4>1 DEF OfIos
    <3>3. PICK q : q = Messages
      OBVIOUS
    <3>4. IsEnd(m, {m.kind}) => Ends(q, {m.kind})
      <4>1. TailLeaves(q, m, Tail(q), m.kind, {m.kind})
        BY <3>1, <3>3, QueueTail
      <4> QED
        BY <4>1 DEF TailLeaves
    <3>5. status[m.kind] # "none" => ~Ends(q, {m.kind})
      BY <1>5, <2>1, <3>3 DEF Books, Ways, Way
    <3> QED
      BY <3>2, <3>4, <3>5 DEF IsEnd
  <2> QED
    BY <1>2, <1>5, <2>1, <2>2 DEF Leaving
<1>6. CASE m.kind = "recv" /\ life = "alive" /\ ~s.mask /\ RecvSuc(m) /\ UNCHANGED <<epollVars, life>>
  <2>1. /\ s'.canceled = s.canceled /\ ShutBy(s, byUs, s', byUs')
        /\ box' = box \/ box' = [box EXCEPT !["send"] = Append(@, "post")]
    BY <1>2, <1>6, RecvSucIs
  <2>2. s'.mask => s'.toRemove
    BY <1>6, <2>1 DEF ShutBy
  <2>3. ASSUME NEW d \in Dirs, Holds(box[d], "cancel") PROVE Holds(box'[d], "cancel")
    <3>1. PICK b, r : b = box[d] /\ r = box'[d]
      OBVIOUS
    <3>2. b \in Seq(Word) /\ "post" \in Word /\ (r = b \/ r = Append(b, "post"))
      BY <2>1, <3>1 DEF Shape, Word, Dirs
    <3> QED
      BY <2>3, <3>1, <3>2, CancelKept
  <2> QED
    BY <1>2, <1>6, <2>1, <2>2, <2>3 DEF Leaving
<1>7. CASE m.kind = "send" /\ life = "alive" /\ ~s.mask /\ SendSuc(m) /\ UNCHANGED <<epollVars, life>>
  <2>1. s'.canceled = s.canceled /\ s'.mask = s.mask /\ s'.toRemove = s.toRemove /\ box' = box
    BY <1>2, <1>7, SendSucIs
  <2> QED
    BY <1>2, <1>7, <2>1 DEF Leaving
<1> QED
  BY <1>2, <1>3, <1>4, <1>5, <1>6, <1>7

LEMMA LeavingInvariant == ASSUME Orderly PROVE Spec => []Leaving
<1>1. Shape /\ Ordered /\ Books /\ Leaving /\ [Next]_vars => Leaving'
  <2> SUFFICES ASSUME Shape, Ordered, Books, Leaving, [Next]_vars PROVE Leaving'
    OBVIOUS
  <2>1. Calm
    BY DEF Ordered
  <2>2. CASE UNCHANGED vars
    BY <2>2, LoopLeaving
  <2>3. CASE Next
    BY <2>1, <2>3, PollerLeaving, DistributeLeaving, LoopLeaving, TimersLeaving, HandleLeaving,
       PostEventsLeaving, RemoveLeaving, CancelAllLeaving DEF Next, DispatcherNext
  <2> QED
    BY <2>2, <2>3
<1> QED
  BY <1>1, InitLeaving, BooksInvariant, OrderedInvariant, PTL DEF Spec

(* With a peer that ends in order, nobody waits for nobody when a session  *)
(* is closed: while the dispatcher waits, one of the session's ios is      *)
(* posted and canceled, and its answer is in the queue or the cancel is    *)
(* before a thread of the transfer that knows the session, and so answers. *)
ClosingIsAnswered ==
    (dpc = "wait" /\ Alive /\ s.mask) =>
        \E d \in Dirs : /\ s.post[d] /\ s.canceled[d]
                        /\ \/ Answers(d) # {}
                           \/ status[d] # "none" /\ Holds(box[d], "cancel")

(* So it is at every wait of the dispatcher.                               *)
THEOREM NoCloseIsStuck == ASSUME Orderly PROVE Spec => []ClosingIsAnswered
<1>1. Shape /\ Ordered /\ Leaving => ClosingIsAnswered
  <2> SUFFICES ASSUME Shape, Ordered, Leaving, dpc = "wait", Alive, s.mask
               PROVE  \E d \in Dirs : /\ s.post[d] /\ s.canceled[d]
                                      /\ \/ Answers(d) # {}
                                         \/ status[d] # "none" /\ Holds(box[d], "cancel")
    BY DEF ClosingIsAnswered
  <2>1. PICK d \in Dirs : s.post[d] /\ s.canceled[d]
    BY DEF Leaving, Alive
  <2>2. status[d] # "none" => Holds(box[d], "cancel")
    BY <2>1 DEF Leaving, Alive
  <2>3. Answers(d) # {} \/ status[d] # "none"
    BY <2>1, SidesHeld DEF Side
  <2> QED
    BY <2>1, <2>2, <2>3
<1> QED
  BY <1>1, BooksInvariant, OrderedInvariant, LeavingInvariant, PTL
=============================================================================
