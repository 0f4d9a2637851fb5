------------------------ MODULE MessageQueueNoThread ------------------------
(***************************************************************************)
(* The mailbox queue of the framework (MessageQueueImpl.h:524-625,         *)
(* MessageQueue.cpp:504-549) together with the threads that use it: the    *)
(* producers, the poller thread that drains it in an endless loop          *)
(* (FS_EpollTransferPoller.cpp:464-504, the same loop at 382-462 and       *)
(* 506-546) and the thread that closes it (171-205).                       *)
(*                                                                         *)
(* A critical section is one action, except the consumer's: the closer     *)
(* broadcasts without taking the mutex, so the decision to sleep and the   *)
(* sleep itself are two steps (the mutex is held in between).              *)
(***************************************************************************)
EXTENDS Naturals, Sequences, ConditionLocker

CONSTANTS Producers,   \* threads that push
          Consumer,    \* the poller thread
          MaxSent,     \* bound: messages a producer pushes
          MaxBatch     \* bound: messages in one list push

ASSUME QueueAssumption ==
    /\ Consumer \notin Producers
    /\ MaxSent \in Nat
    /\ MaxBatch \in Nat \ {0}

VARIABLES
    isWorking,   \* _isWorking
    change,      \* _msgConsumerQueueChange
    queue,       \* *_consumerMsgQueue
    guard,       \* _consumerGuard
    ppc,         \* a producer is "idle", or past its test of _isWorking: "single", "list"
    hand,        \* the list a producer passes to Push, and gets back from it
    sent,        \* how many messages of a producer were accepted
    cpc,         \* where the poller is in its loop
    local,       \* messageBlockList, the poller's own list
    mqWorking,   \* isMqWorking, the poller's copy of _isWorking
    got,         \* the messages the poller handled, in order
    closer       \* where the closing thread is

queueVars == <<isWorking, change, queue, guard>>
producerVars == <<ppc, hand, sent>>
consumerVars == <<cpc, local, mqWorking, got>>
vars == <<queueVars, producerVars, consumerVars, closer>>

Message == [from : Producers, num : Nat \ {0}]

TypeOK ==
    /\ isWorking \in BOOLEAN /\ change \in BOOLEAN /\ mqWorking \in BOOLEAN
    /\ queue \in Seq(Message) /\ local \in Seq(Message) /\ got \in Seq(Message)
    /\ guard \in LockerType({Consumer})
    /\ ppc \in [Producers -> {"idle", "single", "list"}]
    /\ hand \in [Producers -> Seq(Message)]
    /\ sent \in [Producers -> Nat]
    /\ cpc \in {"call", "locked", "waiting", "popped", "read", "done"}
    /\ closer \in {"open", "unworking", "broadcast", "joining", "closed"}

Init ==
    /\ isWorking = TRUE /\ change = FALSE /\ queue = <<>> /\ guard = NewLocker
    /\ ppc = [p \in Producers |-> "idle"]
    /\ hand = [p \in Producers |-> <<>>]
    /\ sent = [p \in Producers |-> 0]
    /\ cpc = "call" /\ local = <<>> /\ mqWorking = TRUE /\ got = <<>>
    /\ closer = "open"

(* The mutex is free unless the poller sits between its test and its sleep. *)
MutexFree == cpc # "locked"

(* Mutant of Batch: numbers start at 0. *)
Batch_FromZero(p, k) == [i \in 1 .. k |-> [from |-> p, num |-> sent[p] + i - 1]]

Batch(p, k) == [i \in 1 .. k |-> [from |-> p, num |-> sent[p] + i]]

-----------------------------------------------------------------------------
(* Producers.  Push reads _isWorking without the mutex and returns false   *)
(* when it is down: a rejected push leaves no trace.                       *)
BeginPush(p) ==
    /\ ppc[p] = "idle" /\ hand[p] = <<>> /\ isWorking
    /\ \/ /\ sent[p] < MaxSent
          /\ ppc' = [ppc EXCEPT ![p] = "single"]
          /\ hand' = [hand EXCEPT ![p] = Batch(p, 1)]
       \/ \E k \in 1 .. MaxBatch :
             /\ sent[p] + k <= MaxSent
             /\ ppc' = [ppc EXCEPT ![p] = "list"]
             /\ hand' = [hand EXCEPT ![p] = Batch(p, k)]
    /\ UNCHANGED <<queueVars, sent, consumerVars, closer>>

(* Mutant of Accepted: the push forgets to signal. *)
Accepted_NoSinal(p) ==
    /\ ppc' = [ppc EXCEPT ![p] = "idle"]
    /\ sent' = [sent EXCEPT ![p] = @ + Len(hand[p])]
    /\ change' = TRUE
    /\ UNCHANGED <<isWorking, guard, consumerVars, closer>>

Accepted(p) ==
    /\ ppc' = [ppc EXCEPT ![p] = "idle"]
    /\ sent' = [sent EXCEPT ![p] = @ + Len(hand[p])]
    /\ change' = TRUE
    /\ guard' \in Sinal(guard)
    /\ UNCHANGED <<isWorking, consumerVars, closer>>

(* Mutant of PushSingle: push_front for push_back. *)
PushSingle_AtFront(p) ==
    /\ ppc[p] = "single" /\ MutexFree
    /\ queue' = hand[p] \o queue
    /\ hand' = [hand EXCEPT ![p] = <<>>]
    /\ Accepted(p)

PushSingle(p) ==
    /\ ppc[p] = "single" /\ MutexFree
    /\ queue' = queue \o hand[p]
    /\ hand' = [hand EXCEPT ![p] = <<>>]
    /\ Accepted(p)

(* An unread queue gets the messages appended; otherwise the two lists are *)
(* swapped and the caller walks away with the queue's old list.            *)
PushList(p) ==
    /\ ppc[p] = "list" /\ MutexFree
    /\ IF change
       THEN queue' = queue \o hand[p] /\ hand' = [hand EXCEPT ![p] = <<>>]
       ELSE queue' = hand[p] /\ hand' = [hand EXCEPT ![p] = queue]
    /\ Accepted(p)

(* Notify signals without any message. *)
Notify(p) ==
    /\ ppc[p] = "idle" /\ MutexFree
    /\ guard' \in Sinal(guard)
    /\ UNCHANGED <<isWorking, change, queue, producerVars, consumerVars, closer>>

-----------------------------------------------------------------------------
(* The poller. *)
PopImmediately ==
    IF change
    THEN local' = queue /\ queue' = local /\ change' = FALSE
    ELSE UNCHANGED <<local, queue, change>>

(* WaitForPoping(INFINITE): with messages, or with a signal nobody consumed *)
(* yet, it does not sleep.                                                  *)
WaitForPoping ==
    /\ cpc = "call"
    /\ \/ /\ change
          /\ cpc' = "popped"
          /\ PopImmediately
          /\ UNCHANGED guard
       \/ /\ ~change /\ guard.isSinal
          /\ cpc' = "popped"
          /\ guard' = LeaveDeadWait(guard, Consumer)
          /\ UNCHANGED <<local, queue, change>>
       \/ /\ ~change /\ ~guard.isSinal
          /\ cpc' = "locked"
          /\ UNCHANGED <<guard, local, queue, change>>
    /\ UNCHANGED <<isWorking, producerVars, mqWorking, got, closer>>

GoToSleep ==
    /\ cpc = "locked"
    /\ cpc' = "waiting"
    /\ guard' = Sleep(guard, Consumer)
    /\ UNCHANGED <<isWorking, change, queue, producerVars, local, mqWorking, got, closer>>

SpuriousWakeUp ==
    /\ Consumer \in guard.asleep
    /\ guard' = WakeUp(guard, Consumer)
    /\ UNCHANGED <<isWorking, change, queue, producerVars, consumerVars, closer>>

ReturnFromWait ==
    /\ cpc = "waiting" /\ Consumer \notin guard.asleep
    /\ cpc' = "popped"
    /\ guard' = LeaveDeadWait(guard, Consumer)
    /\ PopImmediately
    /\ UNCHANGED <<isWorking, producerVars, mqWorking, got, closer>>

ReadIsWorking ==
    /\ cpc = "popped"
    /\ cpc' = "read"
    /\ mqWorking' = isWorking
    /\ UNCHANGED <<queueVars, producerVars, local, got, closer>>

(* pool->IsPoolWorking() turns false when the closer enters pool->Close(). *)
PoolWorking == closer \notin {"joining", "closed"}

(* Mutant of HandleMessages: the handled messages stay in the poller's list. *)
HandleMessages_KeepsList ==
    /\ cpc = "read"
    /\ IF ~PoolWorking /\ local = <<>>
       THEN cpc' = "done" /\ UNCHANGED <<local, got>>
       ELSE /\ got' = got \o local
            /\ UNCHANGED local
            /\ cpc' = IF mqWorking THEN "call" ELSE "done"
    /\ UNCHANGED <<queueVars, producerVars, mqWorking, closer>>

HandleMessages ==
    /\ cpc = "read"
    /\ IF ~PoolWorking /\ local = <<>>
       THEN cpc' = "done" /\ UNCHANGED <<local, got>>
       ELSE /\ got' = got \o local
            /\ local' = <<>>
            /\ cpc' = IF mqWorking THEN "call" ELSE "done"
    /\ UNCHANGED <<queueVars, producerVars, mqWorking, closer>>

-----------------------------------------------------------------------------
(* The closing thread: BeforeClose in two unlocked steps, then the join of *)
(* the pool, then Close, which frees the list.  Producers have stopped by  *)
(* then: they run in the same pool or in dispatchers joined before it.     *)
ClearIsWorking ==
    /\ closer = "open" /\ closer' = "unworking"
    /\ isWorking' = FALSE
    /\ UNCHANGED <<change, queue, guard, producerVars, consumerVars>>

BroadcastConsumer ==
    /\ closer = "unworking" /\ closer' = "broadcast"
    /\ guard' = Broadcast(guard)
    /\ UNCHANGED <<isWorking, change, queue, producerVars, consumerVars>>

ClosePool ==
    /\ closer = "broadcast" /\ closer' = "joining"
    /\ UNCHANGED <<queueVars, producerVars, consumerVars>>

Close ==
    /\ closer = "joining" /\ cpc = "done"
    /\ \A p \in Producers : ppc[p] = "idle"
    /\ closer' = "closed"
    /\ queue' = <<>>
    /\ UNCHANGED <<isWorking, change, guard, producerVars, consumerVars>>

-----------------------------------------------------------------------------
ProducerNext(p) == BeginPush(p) \/ PushSingle(p) \/ PushList(p) \/ Notify(p)

ConsumerNext ==
    WaitForPoping \/ GoToSleep \/ ReturnFromWait \/ ReadIsWorking \/ HandleMessages

CloserNext == ClearIsWorking \/ BroadcastConsumer \/ ClosePool \/ Close

Next ==
    \/ \E p \in Producers : ProducerNext(p)
    \/ ConsumerNext
    \/ SpuriousWakeUp
    \/ CloserNext

Spec == Init /\ [][Next]_vars

(* Threads that can run do run: the poller, and a producer or the closer in *)
(* the middle of a call.  Nobody has to push, and nobody has to close.      *)
FairSpec ==
    /\ Spec
    /\ WF_vars(ConsumerNext)
    /\ \A p \in Producers : WF_vars(PushSingle(p) \/ PushList(p))
    /\ WF_vars(BroadcastConsumer \/ ClosePool \/ Close)

-----------------------------------------------------------------------------
PlacesOf(msgs, p) == {i \in DOMAIN msgs : msgs[i].from = p}

(* The numbers of p's messages among msgs, in the order they have there.   *)
CountTo(msgs, p, i) == Cardinality({j \in PlacesOf(msgs, p) : j <= i})

NumbersOf(msgs, p) ==
    [k \in 1 .. Cardinality(PlacesOf(msgs, p)) |->
        msgs[CHOOSE i \in PlacesOf(msgs, p) : CountTo(msgs, p, i) = k].num]

(* The messages of p among msgs are its first n, each once, in order. *)
FirstInOrder(msgs, p, n) ==
    /\ {msgs[i].num : i \in PlacesOf(msgs, p)} = 1 .. n
    /\ \A i, j \in PlacesOf(msgs, p) : i < j => msgs[i].num < msgs[j].num

(* What was accepted is, in the order each producer pushed it, handled, in *)
(* the poller's list or in the queue: swapping lists loses nothing.  (Close *)
(* frees what is left, so the account ends there.)                          *)
AllAccountedFor ==
    closer # "closed" =>
        \A p \in Producers : FirstInOrder(got \o local \o queue, p, sent[p])

(* Push swaps lists only when the queue's is empty: a producer never walks *)
(* away with somebody's unhandled messages in its list.                    *)
ListComesBackEmpty == \A p \in Producers : ppc[p] = "idle" => hand[p] = <<>>

(* No lost wake-up by a push: a poller asleep, or holding the mutex on its *)
(* way to sleep, leaves no message behind in the queue.                    *)
NeverSleepsOnMessages ==
    (cpc = "locked" \/ Consumer \in guard.asleep) => queue = <<>> /\ ~change

(* _msgConsumerQueueChange is up exactly when the queue holds messages     *)
(* (until Close frees them).                                               *)
ChangeMeansMessages == closer # "closed" => (change <=> queue # <<>>)

(* The queue is a channel that keeps each producer's order.                *)
Channel == INSTANCE MsgChannel WITH
               Source <- Producers,
               sent <- sent,
               got <- [p \in Producers |-> NumbersOf(got, p)],
               closed <- ~isWorking

ImplementsChannel == Channel!ChanSpec

(* While the queue works, an accepted message is handled: neither a lost   *)
(* signal nor a stale _isSinal strands it.                                 *)
AcceptedIsHandled ==
    \A p \in Producers : \A n \in 1 .. MaxSent :
        (sent[p] >= n) ~> (~isWorking \/ Len(NumbersOf(got, p)) >= n)

(* BeforeClose wakes the consumer thread ("wake the consumer threads", the *)
(* comment at MessageQueue.cpp:531): the poller finishes and can be joined. *)
CloseWakesConsumer == (closer = "broadcast") ~> (cpc = "done")
=============================================================================
