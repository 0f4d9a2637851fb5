--------------------- MODULE MessageQueueNoThreadProofs ---------------------
(***************************************************************************)
(* For any set of producers and any bounds: the variables keep their       *)
(* types, the poller never sleeps on messages, a producer never walks away *)
(* with messages of the queue, every accepted message is accounted for,    *)
(* once and in order, and the queue is the channel that MsgChannel states. *)
(***************************************************************************)
EXTENDS MessageQueueNoThread, ConditionLockerProofs, SequenceTheorems, FiniteSetTheorems,
        FunctionTheorems, WellFoundedInduction, TLAPS

(* Where the poller's own list is empty, so that an exchange of lists      *)
(* leaves an empty queue.                                                  *)
HandledBeforePop == cpc \in {"call", "locked", "waiting"} => local = <<>>

(* A producer holds messages exactly while it is in a push.                *)
HandFullInPush == \A p \in Producers : (ppc[p] = "idle") <=> (hand[p] = <<>>)

AsleepIsWaiting == Consumer \in guard.asleep => cpc = "waiting"

(* After BeforeClose no push begins, and Close finds everybody gone.       *)
NobodyAfterClose ==
    /\ closer # "open" => ~isWorking
    /\ closer = "closed" => cpc = "done" /\ \A p \in Producers : ppc[p] = "idle"

IInv ==
    /\ TypeOK
    /\ HandledBeforePop /\ HandFullInPush /\ AsleepIsWaiting /\ NobodyAfterClose
    /\ ChangeMeansMessages /\ NeverSleepsOnMessages

(* A batch is a list of messages, and there is one in it. *)
LEMMA BatchResult ==
    ASSUME NEW p \in Producers, NEW k \in Nat \ {0}, sent[p] \in Nat
    PROVE  Batch(p, k) \in Seq(Message) /\ Batch(p, k) # <<>>
<1>1. \A i \in 1 .. k : [from |-> p, num |-> sent[p] + i] \in Message
  BY DEF Message
<1>2. Batch(p, k) \in Seq(Message)
  BY <1>1 DEF Batch
<1>3. Len(Batch(p, k)) = k
  BY DEF Batch
<1> QED
  BY <1>2, <1>3

(* A signal wakes the only thread that ever sleeps here. *)
LEMMA SinalWakesConsumer ==
    ASSUME NEW l \in LockerType({Consumer}), NEW k \in Sinal(l)
    PROVE  k \in LockerType({Consumer}) /\ k.asleep = {}
<1>1. k \in LockerType({Consumer}) /\ k.asleep \subseteq l.asleep
  BY SinalResult
<1>2. CASE l.asleep = {}
  BY <1>1, <1>2
<1>3. CASE l.asleep # {}
  <2>1. PICK t \in l.asleep : k = [l EXCEPT !.isSinal = TRUE, !.asleep = @ \ {t}]
    BY <1>3 DEF Sinal
  <2>2. l.asleep \subseteq {Consumer}
    BY DEF LockerType
  <2>3. k.asleep = l.asleep \ {t}
    BY <2>1 DEF LockerType
  <2>4. k.asleep = {}
    BY <2>1, <2>2, <2>3
  <2> QED
    BY <1>1, <2>4
<1> QED
  BY <1>2, <1>3, <1>1

LEMMA InitIInv == Init => IInv
<1> SUFFICES ASSUME Init PROVE IInv
  OBVIOUS
<1>1. NewLocker \in LockerType({Consumer}) /\ NewLocker.asleep = {}
  BY DEF NewLocker, LockerType
<1>2. <<>> \in Seq(Message)
  OBVIOUS
<1>3. hand \in [Producers -> Seq(Message)]
  BY <1>2 DEF Init
<1>4. queue \in Seq(Message) /\ local \in Seq(Message) /\ got \in Seq(Message)
  BY <1>2 DEF Init
<1>5. ppc \in [Producers -> {"idle", "single", "list"}] /\ sent \in [Producers -> Nat]
  BY DEF Init
<1>6. TypeOK
  BY <1>1, <1>3, <1>4, <1>5 DEF Init, TypeOK
<1> QED
  BY <1>1, <1>6
  DEF Init, IInv, HandledBeforePop, HandFullInPush, AsleepIsWaiting, NobodyAfterClose,
      ChangeMeansMessages, NeverSleepsOnMessages

-----------------------------------------------------------------------------
LEMMA BeginPushKeeps ==
    ASSUME IInv, NEW p \in Producers, BeginPush(p)
    PROVE  IInv'
<1>1. PICK k \in Nat \ {0}, form \in {"single", "list"} :
          /\ hand' = [hand EXCEPT ![p] = Batch(p, k)]
          /\ ppc' = [ppc EXCEPT ![p] = form]
  <2>1. 1 .. MaxBatch \subseteq Nat \ {0}
    BY QueueAssumption
  <2> QED
    BY <2>1 DEF BeginPush
<1>2. Batch(p, k) \in Seq(Message) /\ Batch(p, k) # <<>>
  BY BatchResult DEF IInv, TypeOK
<1>3. TypeOK'
  BY <1>1, <1>2 DEF IInv, TypeOK, BeginPush, queueVars, consumerVars
<1>4. HandFullInPush'
  BY <1>1, <1>2 DEF IInv, TypeOK, HandFullInPush
<1>5. NobodyAfterClose'
  BY DEF IInv, NobodyAfterClose, BeginPush, queueVars
<1> QED
  BY <1>3, <1>4, <1>5
  DEF IInv, BeginPush, queueVars, consumerVars, HandledBeforePop, AsleepIsWaiting,
      ChangeMeansMessages, NeverSleepsOnMessages

(* The single push and the list push leave a queue with the messages in it *)
(* and an empty list with the caller: a list that is exchanged for the     *)
(* queue's is exchanged for an empty one, because change tells the truth.  *)
LEMMA PushResult ==
    ASSUME IInv, NEW p \in Producers, PushSingle(p) \/ PushList(p)
    PROVE  /\ queue' \in Seq(Message) /\ queue' # <<>>
           /\ hand' = [hand EXCEPT ![p] = <<>>]
           /\ ppc[p] # "idle" /\ cpc # "locked" /\ Accepted(p)
<1>1. ppc[p] # "idle" /\ cpc # "locked" /\ Accepted(p)
  BY DEF PushSingle, PushList, MutexFree
<1>2. hand[p] \in Seq(Message) /\ hand[p] # <<>> /\ queue \in Seq(Message)
  BY <1>1 DEF IInv, TypeOK, HandFullInPush
<1>3. queue \o hand[p] \in Seq(Message) /\ queue \o hand[p] # <<>>
  BY <1>2
<1>4. closer # "closed"
  BY <1>1 DEF IInv, NobodyAfterClose
<1>5. ~change => queue = <<>>
  BY <1>4 DEF IInv, ChangeMeansMessages
<1> QED
  BY <1>1, <1>2, <1>3, <1>5 DEF PushSingle, PushList

LEMMA PushKeeps ==
    ASSUME IInv, NEW p \in Producers, PushSingle(p) \/ PushList(p)
    PROVE  IInv'
<1>1. /\ queue' \in Seq(Message) /\ queue' # <<>>
      /\ hand' = [hand EXCEPT ![p] = <<>>]
      /\ ppc[p] # "idle" /\ cpc # "locked" /\ Accepted(p)
  BY PushResult
<1>2. guard' \in LockerType({Consumer}) /\ guard'.asleep = {}
  BY <1>1, SinalWakesConsumer DEF IInv, TypeOK, Accepted
<1>3. sent' \in [Producers -> Nat]
  BY <1>1 DEF IInv, TypeOK, Accepted
<1>4. TypeOK'
  BY <1>1, <1>2, <1>3 DEF IInv, TypeOK, Accepted, consumerVars
<1>5. HandFullInPush'
  BY <1>1 DEF IInv, TypeOK, HandFullInPush, Accepted
<1>6. NobodyAfterClose'
  BY <1>1 DEF IInv, NobodyAfterClose, Accepted
<1> QED
  BY <1>1, <1>2, <1>4, <1>5, <1>6
  DEF IInv, Accepted, consumerVars, HandledBeforePop, AsleepIsWaiting,
      ChangeMeansMessages, NeverSleepsOnMessages

LEMMA NotifyKeeps ==
    ASSUME IInv, NEW p \in Producers, Notify(p)
    PROVE  IInv'
<1>1. guard' \in LockerType({Consumer}) /\ guard'.asleep = {}
  BY SinalWakesConsumer DEF IInv, TypeOK, Notify
<1> QED
  BY <1>1
  DEF IInv, TypeOK, Notify, producerVars, consumerVars, HandledBeforePop, HandFullInPush,
      AsleepIsWaiting, NobodyAfterClose, ChangeMeansMessages, NeverSleepsOnMessages

-----------------------------------------------------------------------------
(* Popping with an empty list of one's own leaves the queue empty and its  *)
(* flag down.                                                              *)
LEMMA PopResult ==
    ASSUME IInv, cpc \in {"call", "waiting"}, PopImmediately
    PROVE  /\ local' \in Seq(Message) /\ queue' = <<>> /\ change' = FALSE
<1>1. local = <<>> /\ closer # "closed"
  BY DEF IInv, HandledBeforePop, NobodyAfterClose
<1>2. ~change => queue = <<>>
  BY <1>1 DEF IInv, ChangeMeansMessages
<1> QED
  BY <1>1, <1>2 DEF IInv, TypeOK, PopImmediately

LEMMA PollerKeeps ==
    ASSUME IInv, ConsumerNext
    PROVE  IInv'
<1>0. guard \in LockerType({Consumer})
  BY DEF IInv, TypeOK
<1>1. CASE WaitForPoping
  <2>1. CASE change /\ cpc' = "popped" /\ PopImmediately /\ UNCHANGED guard
    <3>1. local' \in Seq(Message) /\ queue' = <<>> /\ change' = FALSE
      BY <1>1, <2>1, PopResult DEF WaitForPoping
    <3>2. Consumer \notin guard.asleep
      BY <1>1 DEF IInv, AsleepIsWaiting, WaitForPoping
    <3> QED
      BY <1>1, <2>1, <3>1, <3>2
      DEF IInv, TypeOK, WaitForPoping, producerVars, HandledBeforePop, HandFullInPush,
          AsleepIsWaiting, NobodyAfterClose, ChangeMeansMessages, NeverSleepsOnMessages
  <2>2. CASE /\ cpc' = "popped" /\ guard' = LeaveDeadWait(guard, Consumer)
             /\ UNCHANGED <<local, queue, change>>
    <3>1. guard' \in LockerType({Consumer}) /\ guard'.asleep = guard.asleep
      BY <1>0, <2>2, LockerCalls DEF LeaveDeadWait, LockerType
    <3>2. Consumer \notin guard.asleep
      BY <1>1 DEF IInv, AsleepIsWaiting, WaitForPoping
    <3> QED
      BY <1>1, <2>2, <3>1, <3>2
      DEF IInv, TypeOK, WaitForPoping, producerVars, HandledBeforePop, HandFullInPush,
          AsleepIsWaiting, NobodyAfterClose, ChangeMeansMessages, NeverSleepsOnMessages
  <2>3. CASE ~change /\ cpc' = "locked" /\ UNCHANGED <<guard, local, queue, change>>
    <3>1. Consumer \notin guard.asleep
      BY <1>1 DEF IInv, AsleepIsWaiting, WaitForPoping
    <3> QED
      BY <1>1, <2>3, <3>1
      DEF IInv, TypeOK, WaitForPoping, producerVars, HandledBeforePop, HandFullInPush,
          AsleepIsWaiting, NobodyAfterClose, ChangeMeansMessages, NeverSleepsOnMessages
  <2> QED
    BY <1>1, <2>1, <2>2, <2>3 DEF WaitForPoping
<1>2. CASE GoToSleep
  <2>1. guard' \in LockerType({Consumer})
    BY <1>0, <1>2, LockerCalls DEF GoToSleep
  <2> QED
    BY <1>2, <2>1
    DEF IInv, TypeOK, GoToSleep, producerVars, HandledBeforePop, HandFullInPush,
        AsleepIsWaiting, NobodyAfterClose, ChangeMeansMessages, NeverSleepsOnMessages
<1>3. CASE ReturnFromWait
  <2>1. local' \in Seq(Message) /\ queue' = <<>> /\ change' = FALSE
    BY <1>3, PopResult DEF ReturnFromWait
  <2>2. guard' \in LockerType({Consumer}) /\ guard'.asleep = guard.asleep
    BY <1>0, <1>3, LockerCalls DEF ReturnFromWait, LeaveDeadWait, LockerType
  <2> QED
    BY <1>3, <2>1, <2>2
    DEF IInv, TypeOK, ReturnFromWait, producerVars, HandledBeforePop, HandFullInPush,
        AsleepIsWaiting, NobodyAfterClose, ChangeMeansMessages, NeverSleepsOnMessages
<1>4. CASE ReadIsWorking
  BY <1>4
  DEF IInv, TypeOK, ReadIsWorking, queueVars, producerVars, HandledBeforePop, HandFullInPush,
      AsleepIsWaiting, NobodyAfterClose, ChangeMeansMessages, NeverSleepsOnMessages
<1>5. CASE HandleMessages
  <2>0. /\ local \in Seq(Message) /\ got \in Seq(Message)
        /\ <<>> \in Seq(Message) /\ got \o local \in Seq(Message)
    BY DEF IInv, TypeOK
  <2>1. local' \in Seq(Message) /\ got' \in Seq(Message)
    BY <1>5, <2>0 DEF HandleMessages
  <2>2. cpc' \in {"call", "done"} /\ (cpc' = "call" => local' = <<>>) /\ cpc = "read"
    BY <1>5 DEF HandleMessages
  <2> QED
    BY <1>5, <2>1, <2>2
    DEF IInv, TypeOK, HandleMessages, queueVars, producerVars, HandledBeforePop, HandFullInPush,
        AsleepIsWaiting, NobodyAfterClose, ChangeMeansMessages, NeverSleepsOnMessages
<1> QED
  BY <1>1, <1>2, <1>3, <1>4, <1>5 DEF ConsumerNext

LEMMA WakeUpKeeps ==
    ASSUME IInv, SpuriousWakeUp
    PROVE  IInv'
<1>1. guard' \in LockerType({Consumer}) /\ guard'.asleep \subseteq guard.asleep
  BY LockerCalls DEF IInv, TypeOK, SpuriousWakeUp, WakeUp, LockerType
<1> QED
  BY <1>1
  DEF IInv, TypeOK, SpuriousWakeUp, producerVars, consumerVars, HandledBeforePop,
      HandFullInPush, AsleepIsWaiting, NobodyAfterClose, ChangeMeansMessages,
      NeverSleepsOnMessages

LEMMA CloserKeeps ==
    ASSUME IInv, CloserNext
    PROVE  IInv'
<1>1. CASE BroadcastConsumer
  <2>1. guard' \in LockerType({Consumer}) /\ guard'.asleep = {}
    BY <1>1, LockerCalls DEF IInv, TypeOK, BroadcastConsumer, Broadcast, LockerType
  <2> QED
    BY <1>1, <2>1
    DEF IInv, TypeOK, BroadcastConsumer, producerVars, consumerVars, HandledBeforePop,
        HandFullInPush, AsleepIsWaiting, NobodyAfterClose, ChangeMeansMessages,
        NeverSleepsOnMessages
<1>2. CASE ClearIsWorking
  BY <1>2
  DEF IInv, TypeOK, ClearIsWorking, producerVars, consumerVars, HandledBeforePop,
      HandFullInPush, AsleepIsWaiting, NobodyAfterClose, ChangeMeansMessages,
      NeverSleepsOnMessages
<1>3. CASE ClosePool
  BY <1>3
  DEF IInv, TypeOK, ClosePool, queueVars, producerVars, consumerVars, HandledBeforePop,
      HandFullInPush, AsleepIsWaiting, NobodyAfterClose, ChangeMeansMessages,
      NeverSleepsOnMessages
<1>4. CASE Close
  BY <1>4
  DEF IInv, TypeOK, Close, producerVars, consumerVars, HandledBeforePop, HandFullInPush,
      AsleepIsWaiting, NobodyAfterClose, ChangeMeansMessages, NeverSleepsOnMessages
<1> QED
  BY <1>1, <1>2, <1>3, <1>4 DEF CloserNext

LEMMA StepIInv == IInv /\ [Next]_vars => IInv'
<1> SUFFICES ASSUME IInv, [Next]_vars PROVE IInv'
  OBVIOUS
<1>1. ASSUME NEW p \in Producers, ProducerNext(p) PROVE IInv'
  BY <1>1, BeginPushKeeps, PushKeeps, NotifyKeeps DEF ProducerNext
<1>2. CASE UNCHANGED vars
  BY <1>2
  DEF IInv, TypeOK, vars, queueVars, producerVars, consumerVars, HandledBeforePop,
      HandFullInPush, AsleepIsWaiting, NobodyAfterClose, ChangeMeansMessages,
      NeverSleepsOnMessages
<1> QED
  BY <1>1, <1>2, PollerKeeps, WakeUpKeeps, CloserKeeps DEF Next

(* The invariant the theorems below follow from: the types, where the      *)
(* poller's list is empty, who holds messages, and the two properties.     *)
THEOREM Invariance == Spec => []IInv
<1>1. Init => IInv
  BY InitIInv
<1>2. IInv /\ [Next]_vars => IInv'
  BY StepIInv
<1> QED
  BY <1>1, <1>2, PTL DEF Spec

(* The variables keep their types. *)
THEOREM TypeCorrect == Spec => []TypeOK
<1>1. IInv => TypeOK
  BY DEF IInv
<1> QED
  BY <1>1, Invariance, PTL

(* A push never loses its wake-up: the poller is not asleep, nor on its    *)
(* way to sleep, while the queue holds messages.                           *)
THEOREM NoLostWakeUp == Spec => []NeverSleepsOnMessages
<1>1. IInv => NeverSleepsOnMessages
  BY DEF IInv
<1> QED
  BY <1>1, Invariance, PTL

(* _msgConsumerQueueChange tells whether the queue holds messages, which   *)
(* is what the swap of PushList and the sleep of the poller rely on.       *)
THEOREM ChangeIsTrue == Spec => []ChangeMeansMessages
<1>1. IInv => ChangeMeansMessages
  BY DEF IInv
<1> QED
  BY <1>1, Invariance, PTL

(* A producer gets an empty list back, never somebody's messages.          *)
THEOREM SwapGivesEmptyList == Spec => []ListComesBackEmpty
<1>1. IInv => ListComesBackEmpty
  BY DEF IInv, HandFullInPush, ListComesBackEmpty
<1> QED
  BY <1>1, Invariance, PTL

-----------------------------------------------------------------------------
(* Order.  A push adds the next messages of its producer behind all that   *)
(* were accepted.                                                          *)
LEMMA BatchBehind ==
    ASSUME NEW msgs \in Seq(Message), NEW p \in Producers, NEW k \in Nat, NEW n \in Nat,
           NEW batch \in Seq(Message), Len(batch) = k,
           \A i \in 1 .. k : batch[i] = [from |-> p, num |-> n + i],
           FirstInOrder(msgs, p, n)
    PROVE  FirstInOrder(msgs \o batch, p, n + k)
<1>0. PICK all, len : all = msgs \o batch /\ len = Len(msgs)
  OBVIOUS
<1>1. /\ len \in Nat /\ Len(all) = len + k /\ DOMAIN all = 1 .. len + k
      /\ DOMAIN msgs = 1 .. len
      /\ \A i \in 1 .. len + k : all[i] = IF i <= len THEN msgs[i] ELSE batch[i - len]
  <2>1. /\ all \in Seq(Message) /\ Len(all) = Len(msgs) + Len(batch)
        /\ \A i \in 1 .. Len(msgs) + Len(batch) :
              all[i] = IF i <= Len(msgs) THEN msgs[i] ELSE batch[i - Len(msgs)]
    BY <1>0, ConcatProperties
  <2> QED
    BY <1>0, <2>1, LenProperties
<1>2. \A i \in 1 .. len : all[i] = msgs[i] /\ i \in 1 .. len + k
  BY <1>1
<1>3. \A i \in 1 .. k : /\ all[len + i] = [from |-> p, num |-> n + i]
                        /\ len + i \in 1 .. len + k
  <2> SUFFICES ASSUME NEW i \in 1 .. k
               PROVE  /\ all[len + i] = [from |-> p, num |-> n + i]
                      /\ len + i \in 1 .. len + k
    OBVIOUS
  <2>1. len + i \in 1 .. len + k /\ ~(len + i <= len) /\ (len + i) - len = i
    BY <1>1
  <2> QED
    BY <1>1, <2>1
<1>4. \A i \in 1 .. len + k : i \in 1 .. len \/ \E j \in 1 .. k : i = len + j
  <2> SUFFICES ASSUME NEW i \in 1 .. len + k, i \notin 1 .. len
               PROVE  \E j \in 1 .. k : i = len + j
    OBVIOUS
  <2>1. i - len \in 1 .. k /\ i = len + (i - len)
    BY <1>1
  <2> QED
    BY <2>1
<1>5. ASSUME NEW i \in PlacesOf(all, p)
      PROVE  \/ i \in PlacesOf(msgs, p) /\ all[i].num = msgs[i].num /\ msgs[i].num \in 1 .. n
             \/ \E j \in 1 .. k : i = len + j /\ all[i].num = n + j
  <2>1. i \in 1 .. len + k /\ all[i].from = p
    BY <1>1 DEF PlacesOf
  <2>2. CASE i \in 1 .. len
    <3>1. i \in PlacesOf(msgs, p) /\ all[i] = msgs[i]
      BY <1>1, <1>2, <2>1, <2>2 DEF PlacesOf
    <3> QED
      BY <3>1 DEF FirstInOrder
  <2>3. CASE i \notin 1 .. len
    BY <1>3, <1>4, <2>1, <2>3
  <2> QED
    BY <2>2, <2>3
<1>6. {all[i].num : i \in PlacesOf(all, p)} = 1 .. n + k
  <2>1. ASSUME NEW i \in PlacesOf(all, p) PROVE all[i].num \in 1 .. n + k
    BY <1>5
  <2>2. ASSUME NEW x \in 1 .. n + k PROVE \E i \in PlacesOf(all, p) : all[i].num = x
    <3>1. CASE x <= n
      <4>1. PICK i \in PlacesOf(msgs, p) : msgs[i].num = x
        <5>1. x \in 1 .. n
          BY <3>1
        <5> QED
          BY <5>1 DEF FirstInOrder
      <4>2. i \in 1 .. len /\ msgs[i].from = p
        BY <1>1 DEF PlacesOf
      <4>3. i \in PlacesOf(all, p) /\ all[i].num = x
        BY <1>1, <1>2, <4>1, <4>2 DEF PlacesOf
      <4> QED
        BY <4>3
    <3>2. CASE ~(x <= n)
      <4>1. x - n \in 1 .. k /\ n + (x - n) = x
        BY <3>2
      <4>2. all[len + (x - n)] = [from |-> p, num |-> x] /\ len + (x - n) \in 1 .. len + k
        BY <1>3, <4>1
      <4>3. len + (x - n) \in PlacesOf(all, p) /\ all[len + (x - n)].num = x
        BY <1>1, <4>2 DEF PlacesOf
      <4> QED
        BY <4>3
    <3> QED
      BY <3>1, <3>2
  <2> QED
    BY <2>1, <2>2
<1>7. ASSUME NEW i \in PlacesOf(all, p), NEW j \in PlacesOf(all, p), i < j
      PROVE  all[i].num < all[j].num
  <2>1. i \in 1 .. len + k /\ j \in 1 .. len + k
    BY <1>1 DEF PlacesOf
  <2>2. CASE j \in PlacesOf(msgs, p)
    <3>1. j \in 1 .. len /\ i \in 1 .. len
      BY <1>1, <1>7, <2>1, <2>2 DEF PlacesOf
    <3>2. i \in PlacesOf(msgs, p) /\ all[i] = msgs[i] /\ all[j] = msgs[j]
      BY <1>1, <1>2, <3>1 DEF PlacesOf
    <3> QED
      BY <1>7, <2>2, <3>2 DEF FirstInOrder
  <2>3. CASE j \notin PlacesOf(msgs, p)
    <3>1. PICK a \in 1 .. k : j = len + a /\ all[j].num = n + a
      BY <1>5, <2>3
    <3>2. CASE i \in PlacesOf(msgs, p)
      <4>1. i \in 1 .. len /\ all[i] = msgs[i] /\ msgs[i].num \in 1 .. n
        BY <1>1, <1>2, <3>2 DEF PlacesOf, FirstInOrder
      <4> QED
        BY <3>1, <4>1
    <3>3. CASE i \notin PlacesOf(msgs, p)
      <4>1. PICK b \in 1 .. k : i = len + b /\ all[i].num = n + b
        BY <1>5, <3>3
      <4>2. b < a
        BY <1>1, <1>7, <3>1, <4>1
      <4> QED
        BY <3>1, <4>1, <4>2
    <3> QED
      BY <3>2, <3>3
  <2> QED
    BY <2>2, <2>3
<1> QED
  BY <1>0, <1>6, <1>7 DEF FirstInOrder

(* ... and leaves the order of the other producers' messages alone. *)
LEMMA OthersBehind ==
    ASSUME NEW msgs \in Seq(Message), NEW p, NEW q, q # p, NEW n,
           NEW batch \in Seq(Message), \A i \in 1 .. Len(batch) : batch[i].from = p,
           FirstInOrder(msgs, q, n)
    PROVE  FirstInOrder(msgs \o batch, q, n)
<1>0. PICK all, len, k : all = msgs \o batch /\ len = Len(msgs) /\ k = Len(batch)
  OBVIOUS
<1>1. /\ len \in Nat /\ k \in Nat /\ DOMAIN all = 1 .. len + k /\ DOMAIN msgs = 1 .. len
      /\ \A i \in 1 .. len + k : all[i] = IF i <= len THEN msgs[i] ELSE batch[i - len]
  <2>1. /\ all \in Seq(Message) /\ Len(all) = Len(msgs) + Len(batch)
        /\ \A i \in 1 .. Len(msgs) + Len(batch) :
              all[i] = IF i <= Len(msgs) THEN msgs[i] ELSE batch[i - Len(msgs)]
    BY <1>0, ConcatProperties
  <2> QED
    BY <1>0, <2>1, LenProperties
<1>2. PlacesOf(all, q) = PlacesOf(msgs, q)
  <2>1. ASSUME NEW i \in PlacesOf(all, q) PROVE i \in PlacesOf(msgs, q)
    <3>1. i \in 1 .. len + k /\ all[i].from = q
      BY <1>1 DEF PlacesOf
    <3>2. CASE i <= len
      BY <1>1, <3>1, <3>2 DEF PlacesOf
    <3>3. CASE ~(i <= len)
      <4>1. i - len \in 1 .. k /\ all[i] = batch[i - len]
        BY <1>1, <3>1, <3>3
      <4> QED
        BY <1>0, <3>1, <4>1
    <3> QED
      BY <3>2, <3>3
  <2>2. ASSUME NEW i \in PlacesOf(msgs, q) PROVE i \in PlacesOf(all, q)
    <3>1. i \in 1 .. len /\ i \in 1 .. len + k /\ i <= len /\ msgs[i].from = q
      BY <1>1 DEF PlacesOf
    <3> QED
      BY <1>1, <3>1 DEF PlacesOf
  <2> QED
    BY <2>1, <2>2
<1>3. \A i \in PlacesOf(msgs, q) : all[i] = msgs[i]
  <2> SUFFICES ASSUME NEW i \in PlacesOf(msgs, q) PROVE all[i] = msgs[i]
    OBVIOUS
  <2>1. i \in 1 .. len + k /\ i <= len
    BY <1>1 DEF PlacesOf
  <2> QED
    BY <1>1, <2>1
<1>4. {all[i].num : i \in PlacesOf(all, q)} = 1 .. n
  BY <1>2, <1>3 DEF FirstInOrder
<1>5. \A i, j \in PlacesOf(all, q) : i < j => all[i].num < all[j].num
  BY <1>2, <1>3 DEF FirstInOrder
<1> QED
  BY <1>0, <1>4, <1>5 DEF FirstInOrder

LEMMA Regroup ==
    ASSUME NEW a \in Seq(Message), NEW b \in Seq(Message), NEW d \in Seq(Message)
    PROVE  /\ a \o (b \o d) = (a \o b) \o d
           /\ a \o b \in Seq(Message)
           /\ a \o <<>> = a
BY ConcatAssociative, ConcatProperties, ConcatEmptySeq

(* What a producer in a push holds are its next messages. *)
HandIsNext ==
    \A p \in Producers :
        ppc[p] # "idle" =>
            \A i \in 1 .. Len(hand[p]) : hand[p][i] = [from |-> p, num |-> sent[p] + i]

OInv == IInv /\ HandIsNext /\ AllAccountedFor

LEMMA InitOInv == Init => OInv
<1> SUFFICES ASSUME Init PROVE OInv
  OBVIOUS
<1>1. IInv
  BY InitIInv
<1>2. HandIsNext
  BY DEF Init, HandIsNext
<1>3. got \o local \o queue = <<>>
  BY DEF Init
<1>4. \A p \in Producers : sent[p] = 0
  BY DEF Init
<1>5. \A p \in Producers : PlacesOf(<<>>, p) = {}
  BY DEF PlacesOf
<1>6. \A p \in Producers : FirstInOrder(<<>>, p, 0)
  BY <1>5 DEF FirstInOrder
<1>7. AllAccountedFor
  BY <1>3, <1>4, <1>6 DEF AllAccountedFor
<1> QED
  BY <1>1, <1>2, <1>7 DEF OInv

LEMMA BeginPushOrder ==
    ASSUME OInv, NEW p \in Producers, BeginPush(p)
    PROVE  HandIsNext' /\ AllAccountedFor'
<1>1. UNCHANGED <<sent, got, local, queue, closer>>
  BY DEF BeginPush, queueVars, consumerVars
<1>2. PICK k \in Nat, form \in {"single", "list"} :
          /\ hand' = [hand EXCEPT ![p] = Batch(p, k)]
          /\ ppc' = [ppc EXCEPT ![p] = form]
  <2>1. 1 .. MaxBatch \subseteq Nat /\ 1 \in Nat
    BY QueueAssumption
  <2> QED
    BY <2>1 DEF BeginPush
<1>3. hand'[p] = Batch(p, k) /\ \A q \in Producers \ {p} : hand'[q] = hand[q] /\ ppc'[q] = ppc[q]
  BY <1>2 DEF OInv, IInv, TypeOK
<1>4. \A i \in 1 .. Len(Batch(p, k)) : Batch(p, k)[i] = [from |-> p, num |-> sent[p] + i]
  BY DEF Batch
<1>5. HandIsNext'
  BY <1>1, <1>3, <1>4 DEF OInv, HandIsNext
<1> QED
  BY <1>1, <1>5 DEF OInv, AllAccountedFor

LEMMA PushOrder ==
    ASSUME OInv, NEW p \in Producers, PushSingle(p) \/ PushList(p)
    PROVE  HandIsNext' /\ AllAccountedFor'
<1>0. PICK batch, k : batch = hand[p] /\ k = Len(batch)
  OBVIOUS
<1>1. /\ ppc[p] # "idle" /\ Accepted(p) /\ closer # "closed"
      /\ hand' = [hand EXCEPT ![p] = <<>>]
  BY PushResult DEF OInv, IInv, NobodyAfterClose
<1>2. /\ batch \in Seq(Message) /\ k \in Nat /\ queue \in Seq(Message)
      /\ got \in Seq(Message) /\ local \in Seq(Message) /\ sent[p] \in Nat
  BY <1>0 DEF OInv, IInv, TypeOK
<1>3. \A i \in 1 .. k : batch[i] = [from |-> p, num |-> sent[p] + i]
  BY <1>0, <1>1 DEF OInv, HandIsNext
<1>4. queue' = queue \o batch
  <2>1. ~change => queue = <<>>
    BY <1>1 DEF OInv, IInv, ChangeMeansMessages
  <2>2. <<>> \o batch = batch
    BY <1>2, ConcatEmptySeq
  <2> QED
    BY <1>0, <2>1, <2>2 DEF PushSingle, PushList
<1>5. /\ UNCHANGED <<got, local, closer>>
      /\ ppc' = [ppc EXCEPT ![p] = "idle"]
      /\ sent' = [sent EXCEPT ![p] = sent[p] + k]
  BY <1>0, <1>1 DEF Accepted, consumerVars
<1>6. /\ ppc'[p] = "idle" /\ sent'[p] = sent[p] + k
      /\ \A q \in Producers \ {p} : hand'[q] = hand[q] /\ ppc'[q] = ppc[q] /\ sent'[q] = sent[q]
  BY <1>1, <1>5 DEF OInv, IInv, TypeOK
<1>7. HandIsNext'
  BY <1>6 DEF OInv, HandIsNext
<1>8. PICK all : /\ all = got \o local \o queue /\ all \in Seq(Message)
                 /\ got' \o local' \o queue' = all \o batch
  <2>1. got \o local \in Seq(Message)
    BY <1>2, Regroup
  <2>2. (got \o local) \o (queue \o batch) = ((got \o local) \o queue) \o batch
    BY <1>2, <2>1, Regroup
  <2>3. (got \o local) \o queue \in Seq(Message)
    BY <1>2, <2>1, Regroup
  <2> QED
    BY <1>4, <1>5, <2>2, <2>3
<1>9. \A q \in Producers : FirstInOrder(all, q, sent[q])
  BY <1>1, <1>8 DEF OInv, AllAccountedFor
<1>10. ASSUME NEW q \in Producers PROVE FirstInOrder(all \o batch, q, sent'[q])
  <2>1. CASE q = p
    <3>1. FirstInOrder(all \o batch, p, sent[p] + k)
      BY <1>0, <1>2, <1>3, <1>8, <1>9, BatchBehind
    <3> QED
      BY <1>6, <2>1, <3>1
  <2>2. CASE q # p
    <3>1. \A i \in 1 .. Len(batch) : batch[i].from = p
      <4> SUFFICES ASSUME NEW i \in 1 .. Len(batch) PROVE batch[i].from = p
        OBVIOUS
      <4>1. batch[i] = [from |-> p, num |-> sent[p] + i]
        BY <1>0, <1>3
      <4> QED
        BY <4>1
    <3>2. FirstInOrder(all \o batch, q, sent[q])
      BY <1>2, <1>8, <1>9, <2>2, <3>1, OthersBehind
    <3> QED
      BY <1>6, <2>2, <3>2
  <2> QED
    BY <2>1, <2>2
<1>11. AllAccountedFor'
  BY <1>8, <1>10 DEF AllAccountedFor
<1> QED
  BY <1>7, <1>11

(* The poller moves messages from one of its lists to the next. *)
LEMMA PollerOrder ==
    ASSUME OInv, ConsumerNext
    PROVE  HandIsNext' /\ AllAccountedFor'
<1>1. UNCHANGED <<hand, ppc, sent, closer>>
  BY DEF ConsumerNext, WaitForPoping, GoToSleep, ReturnFromWait, ReadIsWorking, HandleMessages,
         producerVars
<1>2. /\ queue \in Seq(Message) /\ got \in Seq(Message) /\ local \in Seq(Message)
  BY DEF OInv, IInv, TypeOK
<1>3. cpc \in {"call", "waiting"} => local = <<>>
  BY DEF OInv, IInv, HandledBeforePop
<1>4. ASSUME cpc \in {"call", "waiting"}, UNCHANGED got,
             PopImmediately \/ UNCHANGED <<local, queue>>
      PROVE  got' \o local' \o queue' = got \o local \o queue
  <2>1. CASE local' = queue /\ queue' = local /\ UNCHANGED got
    <3>1. got \o <<>> = got /\ got \o queue \in Seq(Message)
      BY <1>2, Regroup
    <3>2. (got \o queue) \o <<>> = got \o queue
      BY <3>1, Regroup
    <3> QED
      BY <1>3, <1>4, <2>1, <3>1, <3>2
  <2> QED
    BY <1>4, <2>1 DEF PopImmediately
<1>5. got' \o local' \o queue' = got \o local \o queue
  <2>1. CASE WaitForPoping
    BY <1>4, <2>1 DEF WaitForPoping
  <2>2. CASE ReturnFromWait
    BY <1>4, <2>2 DEF ReturnFromWait
  <2>3. CASE GoToSleep \/ ReadIsWorking
    BY <2>3 DEF GoToSleep, ReadIsWorking, queueVars
  <2>4. CASE HandleMessages
    <3>1. CASE UNCHANGED <<local, got, queue>>
      BY <3>1
    <3>2. CASE got' = got \o local /\ local' = <<>> /\ queue' = queue
      <4>1. (got \o local) \o <<>> = got \o local
        BY <1>2, Regroup
      <4> QED
        BY <3>2, <4>1
    <3> QED
      BY <2>4, <3>1, <3>2 DEF HandleMessages, queueVars
  <2> QED
    BY <2>1, <2>2, <2>3, <2>4 DEF ConsumerNext
<1> QED
  BY <1>1, <1>5 DEF OInv, HandIsNext, AllAccountedFor

LEMMA OthersKeepOrder ==
    ASSUME OInv, UNCHANGED <<hand, ppc, sent, got, local>>, closer' # "closed" => closer # "closed",
           closer' = "closed" \/ UNCHANGED queue
    PROVE  HandIsNext' /\ AllAccountedFor'
<1>1. HandIsNext'
  BY DEF OInv, HandIsNext
<1>2. ASSUME closer' # "closed", NEW p \in Producers
      PROVE  FirstInOrder(got' \o local' \o queue', p, sent'[p])
  <2>1. FirstInOrder(got \o local \o queue, p, sent[p])
    BY <1>2 DEF OInv, AllAccountedFor
  <2>2. got' \o local' \o queue' = got \o local \o queue /\ sent'[p] = sent[p]
    BY <1>2
  <2> QED
    BY <2>1, <2>2
<1>3. AllAccountedFor'
  BY <1>2 DEF AllAccountedFor
<1> QED
  BY <1>1, <1>3

LEMMA StepOInv == OInv /\ [Next]_vars => OInv'
<1> SUFFICES ASSUME OInv, [Next]_vars PROVE OInv'
  OBVIOUS
<1>1. IInv'
  BY StepIInv DEF OInv
<1>2. ASSUME NEW p \in Producers, ProducerNext(p) PROVE HandIsNext' /\ AllAccountedFor'
  <2>1. CASE Notify(p)
    BY <2>1, OthersKeepOrder DEF Notify, producerVars, consumerVars
  <2> QED
    BY <1>2, <2>1, BeginPushOrder, PushOrder DEF ProducerNext
<1>3. CASE SpuriousWakeUp \/ UNCHANGED vars
  <2>1. UNCHANGED <<hand, ppc, sent, got, local>> /\ UNCHANGED <<closer, queue>>
    BY <1>3 DEF SpuriousWakeUp, vars, queueVars, producerVars, consumerVars
  <2>2. closer' # "closed" => closer # "closed"
    BY <2>1
  <2> QED
    BY <1>1, <2>1, <2>2, OthersKeepOrder DEF OInv
<1>4. CASE CloserNext
  <2>1. UNCHANGED <<hand, ppc, sent, got, local>> /\ closer # "closed"
    BY <1>4 DEF CloserNext, ClearIsWorking, BroadcastConsumer, ClosePool, Close, queueVars,
                producerVars, consumerVars
  <2>2. closer' = "closed" \/ UNCHANGED queue
    BY <1>4 DEF CloserNext, ClearIsWorking, BroadcastConsumer, ClosePool, Close, queueVars
  <2> QED
    BY <1>1, <2>1, <2>2, OthersKeepOrder DEF OInv
<1> QED
  BY <1>1, <1>2, <1>3, <1>4, PollerOrder DEF OInv, Next

(* Of the messages a producer pushed nothing is lost, doubled or taken out *)
(* of order by the swaps of lists between producers, queue and poller.     *)
THEOREM OrderKept == Spec => []AllAccountedFor
<1>1. Init => OInv
  BY InitOInv
<1>2. OInv /\ [Next]_vars => OInv'
  BY StepOInv
<1>3. OInv => AllAccountedFor
  BY DEF OInv
<1> QED
  BY <1>1, <1>2, <1>3, PTL DEF Spec
-----------------------------------------------------------------------------
(* The channel.  What the poller has handled of a producer are the first   *)
(* of its messages, so that their numbers, in order, count from 1.         *)

(* A set of numbers has a least one.                                       *)
LEMMA LeastOf == ASSUME NEW N \in SUBSET Nat, N # {} PROVE \E n \in N : \A k \in N : n <= k
<1> DEFINE R == {p \in Nat \X Nat : p[1] < p[2]}
<1>1. \A j, k \in Nat : j < k => <<j, k>> \in R
  OBVIOUS
<1>2. IsWellFoundedOn(R, Nat)
  BY NatLessThanWellFounded DEF OpToRel
<1> HIDE DEF R
<1>3. PICK n \in N : \A k \in N : ~(<<k, n>> \in R)
  BY <1>2, WFMin
<1>4. ASSUME NEW k \in N PROVE n <= k
  <2>1. ~(k < n) /\ k \in Nat /\ n \in Nat
    BY <1>1, <1>3
  <2> QED
    BY <2>1
<1> QED
  BY <1>4

(* Numbers up to n of which each has the smaller ones by it are the first. *)
LEMMA DownwardClosed ==
    ASSUME NEW n \in Nat, NEW N \in SUBSET (1 .. n),
           \A x \in N : \A y \in 1 .. n : y < x => y \in N
    PROVE  \E m \in 0 .. n : N = 1 .. m
<1>1. CASE N = 1 .. n
  BY <1>1
<1>2. CASE N # 1 .. n
  <2> DEFINE rest == (1 .. n) \ N
  <2>1. rest \in SUBSET Nat /\ rest # {}
    <3>1. ASSUME rest = {} PROVE N = 1 .. n
      <4>1. \A x \in 1 .. n : x \in N
        BY <3>1
      <4> QED
        BY <4>1
    <3> QED
      BY <1>2, <3>1
  <2> HIDE DEF rest
  <2>2. PICK c \in rest : \A x \in rest : c <= x
    BY <2>1, LeastOf
  <2>3. c \in 1 .. n /\ c \notin N
    BY DEF rest
  <2>4. ASSUME NEW x \in 1 .. n, x < c PROVE x \in N
    <3>1. x \notin rest
      BY <2>2, <2>3, <2>4
    <3> QED
      BY <3>1 DEF rest
  <2>5. ASSUME NEW x \in N PROVE x < c
    <3>1. x \in 1 .. n /\ ~(c < x) /\ c # x
      BY <2>3
    <3> QED
      BY <2>3, <3>1
  <2>6. N = 1 .. c - 1
    <3>1. \A x \in 1 .. c - 1 : x \in 1 .. n /\ x < c
      BY <2>3
    <3>2. \A x \in N : x \in 1 .. c - 1
      BY <2>3, <2>5
    <3> QED
      BY <2>4, <3>1, <3>2
  <2> QED
    BY <2>3, <2>6
<1> QED
  BY <1>1, <1>2

LEMMA PrefixInOrder ==
    ASSUME NEW a \in Seq(Message), NEW b \in Seq(Message), NEW p, NEW n \in Nat,
           FirstInOrder(a \o b, p, n)
    PROVE  \E m \in 0 .. n : FirstInOrder(a, p, m)
<1>0. PICK all, len : all = a \o b /\ len = Len(a)
  OBVIOUS
<1>1. /\ len \in Nat /\ DOMAIN a = 1 .. len /\ DOMAIN all = 1 .. Len(all)
      /\ Len(all) \in Nat /\ len <= Len(all)
      /\ \A i \in 1 .. len : i \in 1 .. Len(all) /\ all[i] = a[i]
  <2>1. /\ all \in Seq(Message) /\ Len(all) = Len(a) + Len(b) /\ Len(a) \in Nat /\ Len(b) \in Nat
        /\ \A i \in 1 .. Len(a) + Len(b) : all[i] = IF i <= Len(a) THEN a[i] ELSE b[i - Len(a)]
    BY <1>0, ConcatProperties, LenProperties
  <2>2. DOMAIN a = 1 .. len /\ DOMAIN all = 1 .. Len(all)
    BY <1>0, <2>1, LenProperties
  <2> QED
    BY <1>0, <2>1, <2>2
<1>2. \A i \in PlacesOf(a, p) : i \in 1 .. len /\ i \in PlacesOf(all, p) /\ all[i] = a[i]
  BY <1>1 DEF PlacesOf
<1>3. \A i \in PlacesOf(all, p) : i \in 1 .. Len(all) /\ (i <= len => i \in PlacesOf(a, p))
  <2> SUFFICES ASSUME NEW i \in PlacesOf(all, p) PROVE i \in 1 .. Len(all) /\ (i <= len => i \in PlacesOf(a, p))
    OBVIOUS
  <2>1. i \in 1 .. Len(all) /\ all[i].from = p
    BY <1>1 DEF PlacesOf
  <2>2. i <= len => i \in 1 .. len /\ all[i] = a[i]
    BY <1>1, <2>1
  <2> QED
    BY <1>1, <2>1, <2>2 DEF PlacesOf
<1>4. /\ {all[i].num : i \in PlacesOf(all, p)} = 1 .. n
      /\ \A i, j \in PlacesOf(all, p) : i < j => all[i].num < all[j].num
  BY <1>0 DEF FirstInOrder
<1> DEFINE N == {a[i].num : i \in PlacesOf(a, p)}
<1>5. N \subseteq 1 .. n
  BY <1>2, <1>4
<1>6. ASSUME NEW x \in N, NEW y \in 1 .. n, y < x PROVE y \in N
  <2>1. PICK i \in PlacesOf(a, p) : x = a[i].num
    OBVIOUS
  <2>2. PICK j \in PlacesOf(all, p) : y = all[j].num
    BY <1>4
  <2>3. x = all[i].num /\ i \in 1 .. len /\ i \in PlacesOf(all, p)
    BY <1>2, <2>1
  <2>4. ~(i < j) /\ i # j
    <3>1. i < j => x < y
      BY <1>4, <2>2, <2>3
    <3>2. x \in Nat /\ y \in Nat
      <4> HIDE DEF N
      <4>1. x \in 1 .. n
        BY <1>5, <1>6
      <4> QED
        BY <1>6, <4>1
    <3> QED
      BY <1>6, <2>2, <2>3, <3>1, <3>2
  <2>5. j <= len
    BY <1>1, <1>3, <2>3, <2>4
  <2>6. j \in PlacesOf(a, p)
    BY <1>3, <2>5
  <2> QED
    BY <1>2, <2>2, <2>6
<1>7. \A i, j \in PlacesOf(a, p) : i < j => a[i].num < a[j].num
  BY <1>2, <1>4
<1>8. \E m \in 0 .. n : N = 1 .. m
  <2> HIDE DEF N
  <2> QED
    BY <1>5, <1>6, DownwardClosed
<1> QED
  BY <1>7, <1>8 DEF FirstInOrder

(* As many places as numbers, when no number is there twice.               *)
LEMMA PlacesCounted ==
    ASSUME NEW Q, NEW num \in [Q -> Nat], NEW n \in Nat,
           {num[i] : i \in Q} = 1 .. n,
           \A i, j \in Q : num[i] = num[j] => i = j
    PROVE  Cardinality(Q) = n
<1> DEFINE f == [k \in 1 .. n |-> CHOOSE i \in Q : num[i] = k]
<1>1. \A k \in 1 .. n : f[k] \in Q /\ num[f[k]] = k
  <2> SUFFICES ASSUME NEW k \in 1 .. n PROVE f[k] \in Q /\ num[f[k]] = k
    OBVIOUS
  <2>1. \E i \in Q : num[i] = k
    OBVIOUS
  <2> QED
    BY <2>1
<1>2. DOMAIN f = 1 .. n
  OBVIOUS
<1>3. f \in [1 .. n -> Q]
  BY <1>1
<1> HIDE DEF f
<1>4. \A j, k \in 1 .. n : f[j] = f[k] => j = k
  BY <1>1
<1>5. \A i \in Q : \E k \in 1 .. n : f[k] = i
  BY <1>1
<1>6. ExistsBijection(1 .. n, Q)
  <2>1. f \in Bijection(1 .. n, Q)
    BY <1>3, <1>4, <1>5, Fun_IsBij
  <2> QED
    BY <2>1, Fun_ExistsBij
<1> QED
  BY <1>6, FS_CountingElements

LEMMA NumbersInOrder ==
    ASSUME NEW msgs \in Seq(Message), NEW p, NEW m \in Nat, FirstInOrder(msgs, p, m)
    PROVE  NumbersOf(msgs, p) = [k \in 1 .. m |-> k]
<1> DEFINE P == PlacesOf(msgs, p)
           num == [i \in P |-> msgs[i].num]
<1>1. P \subseteq Nat /\ num \in [P -> Nat] /\ \A i \in P : num[i] = msgs[i].num
  <2>1. \A i \in P : i \in 1 .. Len(msgs) /\ msgs[i] \in Message
    <3>1. DOMAIN msgs = 1 .. Len(msgs) /\ \A i \in 1 .. Len(msgs) : msgs[i] \in Message
      BY LenProperties, ElementOfSeq
    <3> QED
      BY <3>1 DEF PlacesOf
  <2>2. \A i \in P : i \in Nat /\ msgs[i].num \in Nat
    BY <2>1 DEF Message
  <2> HIDE DEF P
  <2> QED
    BY <2>2
<1>2. /\ {num[i] : i \in P} = 1 .. m
      /\ \A i, j \in P : i < j => num[i] < num[j]
  BY <1>1 DEF FirstInOrder
<1> HIDE DEF num
<1>3. \A i, j \in P : (j <= i <=> num[j] <= num[i]) /\ (num[i] = num[j] => i = j)
  <2> SUFFICES ASSUME NEW i \in P, NEW j \in P
               PROVE  (j <= i <=> num[j] <= num[i]) /\ (num[i] = num[j] => i = j)
    OBVIOUS
  <2>1. i \in Nat /\ j \in Nat /\ num[i] \in Nat /\ num[j] \in Nat
    BY <1>1
  <2>2. (i < j => num[i] < num[j]) /\ (j < i => num[j] < num[i])
    BY <1>2
  <2> QED
    BY <2>1, <2>2
<1>4. Cardinality(P) = m
  <2> HIDE DEF P
  <2>1. \A i, j \in P : num[i] = num[j] => i = j
    BY <1>3
  <2> QED
    BY <1>1, <1>2, <2>1, PlacesCounted
<1>5. ASSUME NEW i \in P PROVE CountTo(msgs, p, i) = num[i]
  <2> DEFINE Q == {j \in P : j <= i}
             below == [j \in Q |-> num[j]]
  <2>1. num[i] \in 1 .. m /\ num[i] \in Nat
    BY <1>1, <1>2
  <2>2. \A x \in 1 .. m : \E j \in P : num[j] = x
    BY <1>2
  <2>3. \A j \in P : num[j] \in 1 .. m
    BY <1>2
  <2>4. below \in [Q -> Nat] /\ \A j \in Q : below[j] = num[j] /\ j \in P /\ j <= i
    BY <1>1
  <2>5. \A j \in P : j <= i => j \in Q
    OBVIOUS
  <2>6. Cardinality(Q) = CountTo(msgs, p, i)
    BY DEF CountTo
  <2> HIDE DEF Q, P, below
  <2>7. {below[j] : j \in Q} = 1 .. num[i]
    <3>1. ASSUME NEW j \in Q PROVE below[j] \in 1 .. num[i]
      <4>1. below[j] = num[j] /\ num[j] <= num[i] /\ num[j] \in 1 .. m
        BY <1>3, <2>3, <2>4
      <4> QED
        BY <2>1, <4>1
    <3>2. ASSUME NEW x \in 1 .. num[i] PROVE \E j \in Q : below[j] = x
      <4>1. x \in 1 .. m /\ x <= num[i]
        BY <2>1
      <4>2. PICK j \in P : num[j] = x
        BY <2>2, <4>1
      <4>3. j \in Q
        BY <1>3, <2>5, <4>1, <4>2
      <4> QED
        BY <2>4, <4>2, <4>3
    <3> QED
      BY <3>1, <3>2
  <2>8. \A j, k \in Q : below[j] = below[k] => j = k
    BY <1>3, <2>4
  <2>9. Cardinality(Q) = num[i]
    BY <2>1, <2>4, <2>7, <2>8, PlacesCounted
  <2> QED
    BY <2>6, <2>9
<1>6. ASSUME NEW k \in 1 .. m PROVE msgs[CHOOSE i \in P : CountTo(msgs, p, i) = k].num = k
  <2>1. \E i \in P : CountTo(msgs, p, i) = k
    <3>1. PICK i \in P : num[i] = k
      BY <1>2
    <3> QED
      BY <1>5, <3>1
  <2>2. PICK i \in P : i = (CHOOSE j \in P : CountTo(msgs, p, j) = k) /\ CountTo(msgs, p, i) = k
    BY <2>1
  <2>3. num[i] = k
    BY <1>5, <2>2
  <2> QED
    BY <1>1, <2>2, <2>3
<1> QED
  BY <1>4, <1>6 DEF NumbersOf

LEMMA GotIsPrefix ==
    ASSUME NEW a \in Seq(Message), NEW b \in Seq(Message), NEW d \in Seq(Message),
           NEW p, NEW n \in Nat, FirstInOrder(a \o b \o d, p, n)
    PROVE  \E m \in 0 .. n : FirstInOrder(a, p, m)
<1>1. b \o d \in Seq(Message) /\ (a \o b) \o d = a \o (b \o d)
  BY Regroup
<1>2. FirstInOrder(a \o (b \o d), p, n)
  BY <1>1
<1> QED
  BY <1>1, <1>2, PrefixInOrder

(* Until Close frees the queue this follows from the account; afterwards   *)
(* the poller is gone.                                                     *)
GotInOrder == \A p \in Producers : \E m \in 0 .. sent[p] : FirstInOrder(got, p, m)

OpenIsWorking == closer = "open" => isWorking

CInv == OInv /\ GotInOrder /\ OpenIsWorking

LEMMA InitCInv == Init => CInv
<1> SUFFICES ASSUME Init PROVE CInv
  OBVIOUS
<1>1. OInv
  BY InitOInv
<1>2. \A p \in Producers : FirstInOrder(<<>>, p, 0)
  <2>1. \A p \in Producers : PlacesOf(<<>>, p) = {}
    BY DEF PlacesOf
  <2> QED
    BY <2>1 DEF FirstInOrder
<1>3. got = <<>> /\ \A p \in Producers : sent[p] = 0
  BY DEF Init
<1>4. GotInOrder
  BY <1>2, <1>3 DEF GotInOrder
<1> QED
  BY <1>1, <1>4 DEF CInv, OpenIsWorking, Init

LEMMA NobodyMovesAfterClose ==
    ASSUME OInv, [Next]_vars, closer' = "closed"
    PROVE  UNCHANGED <<got, sent>>
<1>1. CASE closer = "closed"
  <2>1. cpc = "done" /\ \A p \in Producers : ppc[p] = "idle"
    BY <1>1 DEF OInv, IInv, NobodyAfterClose
  <2>2. ASSUME NEW p \in Producers, ProducerNext(p) PROVE UNCHANGED <<got, sent>>
    BY <2>1, <2>2 DEF ProducerNext, BeginPush, PushSingle, PushList, Notify, producerVars,
                      consumerVars
  <2>3. ~ConsumerNext
    <3>1. cpc # "waiting"
      BY <2>1
    <3> QED
      BY <2>1, <3>1 DEF ConsumerNext, WaitForPoping, GoToSleep, ReturnFromWait, ReadIsWorking,
                        HandleMessages
  <2> QED
    BY <2>2, <2>3 DEF Next, SpuriousWakeUp, CloserNext, ClearIsWorking, BroadcastConsumer,
                      ClosePool, Close, vars, producerVars, consumerVars
<1>2. CASE closer # "closed"
  <2>1. closer' # closer
    BY <1>2
  <2>2. \A p \in Producers : ~ProducerNext(p)
    BY <2>1 DEF ProducerNext, BeginPush, PushSingle, PushList, Accepted, Notify
  <2>3. ~ConsumerNext /\ ~SpuriousWakeUp
    BY <2>1 DEF ConsumerNext, WaitForPoping, GoToSleep, ReturnFromWait, ReadIsWorking,
                HandleMessages, SpuriousWakeUp
  <2> QED
    BY <2>1, <2>2, <2>3 DEF Next, CloserNext, ClearIsWorking, BroadcastConsumer, ClosePool,
                            Close, vars, producerVars, consumerVars
<1> QED
  BY <1>1, <1>2

LEMMA StepCInv == CInv /\ [Next]_vars => CInv'
<1> SUFFICES ASSUME CInv, [Next]_vars PROVE CInv'
  OBVIOUS
<1>1. OInv /\ OInv'
  BY StepOInv DEF CInv
<1>2. GotInOrder'
  <2>1. CASE closer' = "closed"
    BY <1>1, <2>1, NobodyMovesAfterClose DEF CInv, GotInOrder
  <2>2. CASE closer' # "closed"
    <3>1. ASSUME NEW p \in Producers PROVE \E m \in 0 .. sent'[p] : FirstInOrder(got', p, m)
      <4>1. FirstInOrder(got' \o local' \o queue', p, sent'[p])
        BY <1>1, <2>2 DEF OInv, AllAccountedFor
      <4>2. /\ got' \in Seq(Message) /\ local' \in Seq(Message) /\ queue' \in Seq(Message)
            /\ sent'[p] \in Nat
        BY <1>1 DEF OInv, IInv, TypeOK
      <4> QED
        BY <4>1, <4>2, GotIsPrefix
    <3> QED
      BY <3>1 DEF GotInOrder
  <2> QED
    BY <2>1, <2>2
<1>3. OpenIsWorking'
  <2>1. CASE UNCHANGED <<closer, isWorking>>
    BY <2>1 DEF CInv, OpenIsWorking
  <2>2. CASE CloserNext
    BY <2>2 DEF CloserNext, ClearIsWorking, BroadcastConsumer, ClosePool, Close, OpenIsWorking
  <2>3. UNCHANGED <<closer, isWorking>> \/ CloserNext
    BY DEF Next, ProducerNext, BeginPush, PushSingle, PushList, Accepted, Notify, ConsumerNext,
           WaitForPoping, GoToSleep, ReturnFromWait, ReadIsWorking, HandleMessages,
           SpuriousWakeUp, vars, queueVars
  <2> QED
    BY <2>1, <2>2, <2>3
<1> QED
  BY <1>1, <1>2, <1>3 DEF CInv

ChannelUntouched == UNCHANGED <<sent, got, isWorking>>

LEMMA Stutters == ChannelUntouched => UNCHANGED Channel!chanVars
BY DEF ChannelUntouched, Channel!chanVars

LEMMA PushAccepts ==
    ASSUME CInv, NEW p \in Producers, PushSingle(p) \/ PushList(p)
    PROVE  Channel!ChanNext
<1>1. /\ ppc[p] # "idle" /\ Accepted(p)
  BY DEF PushSingle, PushList
<1>2. hand[p] \in Seq(Message) /\ hand[p] # <<>>
  BY <1>1 DEF CInv, OInv, IInv, TypeOK, HandFullInPush
<1>3. PICK k \in Nat \ {0} : k = Len(hand[p])
  BY <1>2, EmptySeq, LenProperties
<1>4. sent \in [Producers -> Nat] /\ sent' = [sent EXCEPT ![p] = sent[p] + k]
  BY <1>1, <1>3 DEF Accepted, CInv, OInv, IInv, TypeOK
<1>5. sent'[p] > sent[p] /\ sent' = [sent EXCEPT ![p] = sent'[p]]
  BY <1>4
<1>6. UNCHANGED <<got, isWorking>>
  BY <1>1 DEF Accepted, consumerVars
<1>7. Channel!Accept(p)
  BY <1>5, <1>6 DEF Channel!Accept
<1> QED
  BY <1>7 DEF Channel!ChanNext

LEMMA HandleDelivers ==
    ASSUME CInv, CInv', HandleMessages
    PROVE  Channel!ChanNext
<1>1. UNCHANGED <<sent, isWorking>> /\ (UNCHANGED got \/ got' = got \o local)
  BY DEF HandleMessages, queueVars, producerVars
<1>2. /\ got \in Seq(Message) /\ got' \in Seq(Message) /\ local \in Seq(Message)
      /\ sent \in [Producers -> Nat]
  BY DEF CInv, OInv, IInv, TypeOK
<1> DEFINE new == [p \in Producers |-> NumbersOf(got', p)]
<1>3. ASSUME NEW p \in Producers
      PROVE  \E m \in 0 .. sent[p], k \in Nat :
                 /\ k <= m
                 /\ NumbersOf(got', p) = [i \in 1 .. m |-> i]
                 /\ NumbersOf(got, p) = [i \in 1 .. k |-> i]
  <2>1. PICK m \in 0 .. sent[p] : FirstInOrder(got', p, m)
    BY <1>1 DEF CInv, GotInOrder
  <2>2. m \in Nat
    BY <1>2, <2>1
  <2>3. PICK k \in 0 .. m : FirstInOrder(got, p, k)
    <3>1. CASE UNCHANGED got
      BY <2>1, <2>2, <3>1
    <3>2. CASE got' = got \o local
      <4>1. FirstInOrder(got \o local, p, m)
        BY <2>1, <3>2
      <4> QED
        BY <1>2, <2>2, <4>1, PrefixInOrder
    <3> QED
      BY <1>1, <3>1, <3>2
  <2>4. k \in Nat /\ k <= m
    BY <2>2, <2>3
  <2>5. NumbersOf(got', p) = [i \in 1 .. m |-> i]
    BY <1>2, <2>1, <2>2, NumbersInOrder
  <2>6. NumbersOf(got, p) = [i \in 1 .. k |-> i]
    BY <1>2, <2>3, <2>4, NumbersInOrder
  <2> QED
    BY <2>1, <2>4, <2>5, <2>6
<1>4. ASSUME NEW p \in Producers
      PROVE  /\ NumbersOf(got', p) \in Seq(Nat)
             /\ Len(NumbersOf(got', p)) \in Len(NumbersOf(got, p)) .. sent[p]
             /\ NumbersOf(got', p) = Channel!FirstMessages(Len(NumbersOf(got', p)))
  <2>1. PICK m \in 0 .. sent[p], k \in Nat :
                 /\ k <= m
                 /\ NumbersOf(got', p) = [i \in 1 .. m |-> i]
                 /\ NumbersOf(got, p) = [i \in 1 .. k |-> i]
    BY <1>3
  <2>2. PICK a, b : a = NumbersOf(got', p) /\ b = NumbersOf(got, p)
    OBVIOUS
  <2>3. m \in Nat /\ sent[p] \in Nat /\ m <= sent[p]
    BY <1>2, <2>1
  <2>4. a \in Seq(Nat) /\ Len(a) = m /\ Len(b) = k
    BY <2>1, <2>2, <2>3
  <2>5. a = Channel!FirstMessages(Len(a))
    BY <2>1, <2>2, <2>4 DEF Channel!FirstMessages
  <2>6. Len(a) \in Len(b) .. sent[p]
    BY <2>1, <2>3, <2>4
  <2> QED
    BY <2>2, <2>4, <2>5, <2>6
<1>5. new \in [Producers -> Seq(Nat)]
  BY <1>4
<1>6. Channel!Deliver
  BY <1>1, <1>4, <1>5 DEF Channel!Deliver
<1> QED
  BY <1>6 DEF Channel!ChanNext

LEMMA StepChannel ==
    ASSUME CInv, CInv', [Next]_vars
    PROVE  [Channel!ChanNext]_Channel!chanVars
<1>1. ASSUME NEW p \in Producers, ProducerNext(p) PROVE [Channel!ChanNext]_Channel!chanVars
  <2>1. CASE BeginPush(p) \/ Notify(p)
    BY <2>1, Stutters DEF ChannelUntouched, BeginPush, Notify, queueVars, producerVars,
                          consumerVars
  <2> QED
    BY <1>1, <2>1, PushAccepts DEF ProducerNext
<1>2. CASE ConsumerNext
  <2>1. CASE ~HandleMessages
    BY <1>2, <2>1, Stutters DEF ChannelUntouched, ConsumerNext, WaitForPoping, GoToSleep,
                                ReturnFromWait, ReadIsWorking, queueVars, producerVars
  <2> QED
    BY <2>1, HandleDelivers
<1>3. CASE ClearIsWorking
  <2>1. isWorking
    BY <1>3 DEF CInv, OpenIsWorking, ClearIsWorking
  <2>2. Channel!CloseChan
    BY <1>3, <2>1 DEF ClearIsWorking, Channel!CloseChan, producerVars, consumerVars
  <2> QED
    BY <2>2 DEF Channel!ChanNext
<1>4. CASE SpuriousWakeUp \/ BroadcastConsumer \/ ClosePool \/ Close \/ UNCHANGED vars
  BY <1>4, Stutters DEF ChannelUntouched, SpuriousWakeUp, BroadcastConsumer, ClosePool, Close,
                        vars, queueVars, producerVars, consumerVars
<1> QED
  BY <1>1, <1>2, <1>3, <1>4 DEF Next, CloserNext

(* The queue is a channel: the poller handles of every producer's messages *)
(* a prefix of those accepted, in the order of the pushes, each once, and  *)
(* what it has handled only grows.                                         *)
THEOREM IsChannel == Spec => ImplementsChannel
<1>1. Init => Channel!ChanInit
  <2> SUFFICES ASSUME Init PROVE Channel!ChanInit
    OBVIOUS
  <2>1. \A p \in Producers : FirstInOrder(<<>>, p, 0)
    <3>1. \A p \in Producers : PlacesOf(<<>>, p) = {}
      BY DEF PlacesOf
    <3> QED
      BY <3>1 DEF FirstInOrder
  <2>2. <<>> \in Seq(Message) /\ 0 \in Nat
    OBVIOUS
  <2>3. ASSUME NEW p \in Producers PROVE NumbersOf(<<>>, p) = <<>>
    <3>1. NumbersOf(<<>>, p) = [k \in 1 .. 0 |-> k]
      BY <2>1, <2>2, NumbersInOrder
    <3> QED
      BY <3>1
  <2> QED
    BY <2>3 DEF Init, Channel!ChanInit
<1>2. CInv /\ CInv' /\ [Next]_vars => [Channel!ChanNext]_Channel!chanVars
  BY StepChannel
<1>3. Init => CInv
  BY InitCInv
<1>4. CInv /\ [Next]_vars => CInv'
  BY StepCInv
<1> QED
  BY <1>1, <1>2, <1>3, <1>4, PTL DEF Spec, ImplementsChannel, Channel!ChanSpec
=============================================================================
