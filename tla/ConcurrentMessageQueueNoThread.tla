------------------- MODULE ConcurrentMessageQueueNoThread -------------------
(***************************************************************************)
(* The queue between the network threads and the dispatchers               *)
(* (MessageQueueImpl.h:261-522, MessageQueue.cpp:397-502): every generator *)
(* (transfer, acceptor, connector) has a list towards every consumer       *)
(* (dispatcher).  A list is guarded by its generator's mutex, which also   *)
(* guards one flag per GENERATOR, shared by its lists to all consumers;    *)
(* "consumer c has news" is a flag per consumer under the consumer's own   *)
(* mutex, and a push takes the two mutexes one after the other.            *)
(*                                                                         *)
(* The consumers run the dispatcher's loop (IFS_MsgDispatcher.cpp:304-335):*)
(* they wait with a timeout and, once their pool is closed, take one last  *)
(* frame of messages.                                                      *)
(***************************************************************************)
EXTENDS Naturals, Sequences, ConditionLocker

CONSTANTS
    GeneratorQuantity, ConsumerQuantity,
    Pushers,        \* threads that push; several may share a generator
    GeneratorOf,    \* GeneratorOf[t]: the generator id thread t pushes with
    Targets,        \* Targets[t]: the consumers t pushes to
    ListPushers,    \* the threads that use the list forms of Push
    MaxSent,        \* bound: MaxSent[g] messages from generator g to each consumer
    MaxBatch        \* bound: messages in one list push

Generators == 0 .. GeneratorQuantity - 1
Consumers == 0 .. ConsumerQuantity - 1

ASSUME QueueAssumption ==
    /\ GeneratorQuantity \in Nat \ {0} /\ ConsumerQuantity \in Nat \ {0}
    /\ GeneratorOf \in [Pushers -> Generators]
    /\ Targets \in [Pushers -> SUBSET Consumers]
    /\ ListPushers \subseteq Pushers
    /\ MaxSent \in [Generators -> Nat] /\ MaxBatch \in Nat

VARIABLES
    isWorking,   \* _isWorking
    genChange,   \* _msgGeneratorMsgQueueChanges, per generator
    conChange,   \* _msgConsumerQueueChanges, per consumer
    conGuard,    \* _consumerGuards
    queue,       \* _consumerMsgQueues[c][g]
    ppc,         \* a pusher: "idle", "push" (before the generator's mutex), "signal"
    want,        \* the call a pusher is in: [con, cnt, list]
    back,        \* the list Push gives back to its caller
    sent,        \* sent[c][g]: how many messages were accepted from g for c
    cpc, idx,    \* where a consumer is, and the generator it pops next
    has, last,   \* hasMsgs; this is the frame after the dispatcher's loop
    vec,         \* _recvMsgBlocks, the consumer's own lists
    got,         \* what it handled
    poolWorking, \* IsPoolWorking of the consumer's pool
    closer       \* BeforeClose is at consumer closer[2]; closer[3]: it met a waiter

queueVars == <<genChange, conChange, conGuard, queue>>
pusherVars == <<ppc, want, back, sent>>
consumerVars == <<cpc, idx, has, last, vec, got>>
closeVars == <<isWorking, poolWorking, closer>>
vars == <<queueVars, pusherVars, consumerVars, closeVars>>

PerList(S) == [Consumers -> [Generators -> S]]
Call == [con : Consumers, cnt : Nat \ {0}, list : BOOLEAN]
NoCall == [con |-> 0, cnt |-> 1, list |-> FALSE]
Number == Nat \ {0}

TypeOK ==
    /\ isWorking \in BOOLEAN
    /\ genChange \in [Generators -> BOOLEAN]
    /\ conChange \in [Consumers -> BOOLEAN]
    /\ conGuard \in [Consumers -> LockerType(Consumers)]
    /\ queue \in PerList(Seq(Number)) /\ vec \in PerList(Seq(Number))
    /\ got \in PerList(Seq(Number))
    /\ ppc \in [Pushers -> {"idle", "push", "signal"}]
    /\ want \in [Pushers -> Call]
    /\ back \in [Pushers -> Seq(Number)]
    /\ sent \in PerList(Nat)
    /\ cpc \in [Consumers -> {"call", "waiting", "pop", "handle", "last", "done"}]
    /\ idx \in [Consumers -> Generators]
    /\ has \in [Consumers -> BOOLEAN] /\ last \in [Consumers -> BOOLEAN]
    /\ poolWorking \in [Consumers -> BOOLEAN]
    /\ closer \in {"open", "signalling", "signalled", "closed"} \X Consumers \X BOOLEAN

Everywhere(x) == [c \in Consumers |-> [g \in Generators |-> x]]

Init ==
    /\ isWorking = TRUE
    /\ genChange = [g \in Generators |-> FALSE]
    /\ conChange = [c \in Consumers |-> FALSE]
    /\ conGuard = [c \in Consumers |-> NewLocker]
    /\ queue = Everywhere(<<>>) /\ vec = Everywhere(<<>>) /\ got = Everywhere(<<>>)
    /\ ppc = [t \in Pushers |-> "idle"]
    /\ want = [t \in Pushers |-> NoCall]
    /\ back = [t \in Pushers |-> <<>>]
    /\ sent = Everywhere(0)
    /\ cpc = [c \in Consumers |-> "call"]
    /\ idx = [c \in Consumers |-> 0]
    /\ has = [c \in Consumers |-> FALSE] /\ last = [c \in Consumers |-> FALSE]
    /\ poolWorking = [c \in Consumers |-> TRUE]
    /\ closer = <<"open", 0, FALSE>>

-----------------------------------------------------------------------------
(* Pushers.  Push(g, ..) is PushByConsumerId(g, ConsumerOf(g), ..): the two *)
(* pairs of functions have the same bodies.                                 *)
ConsumerOf(g) == g % ConsumerQuantity   \* _GetConsumerIdByGeneratorId

BeginPush(t) ==
    /\ ppc[t] = "idle" /\ back[t] = <<>> /\ isWorking
    /\ \E c \in Targets[t], n \in 1 .. MaxBatch, l \in BOOLEAN :
          /\ l => t \in ListPushers
          /\ ~l => n = 1
          /\ sent[c][GeneratorOf[t]] + n <= MaxSent[GeneratorOf[t]]
          /\ want' = [want EXCEPT ![t] = [con |-> c, cnt |-> n, list |-> l]]
    /\ ppc' = [ppc EXCEPT ![t] = "push"]
    /\ UNCHANGED <<queueVars, back, sent, consumerVars, closeVars>>

(* Mutant of NewMessages: numbers start at 0. *)
NewMessages_FromZero(c, g, n) == [i \in 1 .. n |-> sent[c][g] + i - 1]

NewMessages(c, g, n) == [i \in 1 .. n |-> sent[c][g] + i]

(* Mutant of Accept: the generator's flag is raised by lists only. *)
Accept_ListRaisesFlag(t, c, g, newQueue, givenBack) ==
    /\ ppc' = [ppc EXCEPT ![t] = "signal"]
    /\ queue' = [queue EXCEPT ![c][g] = newQueue]
    /\ back' = [back EXCEPT ![t] = givenBack]
    /\ sent' = [sent EXCEPT ![c][g] = @ + want[t].cnt]
    /\ genChange' = [genChange EXCEPT ![g] = @ \/ want[t].list]
    /\ UNCHANGED <<conChange, conGuard, want, consumerVars, closeVars>>

Accept(t, c, g, newQueue, givenBack) ==
    /\ ppc' = [ppc EXCEPT ![t] = "signal"]
    /\ queue' = [queue EXCEPT ![c][g] = newQueue]
    /\ back' = [back EXCEPT ![t] = givenBack]
    /\ sent' = [sent EXCEPT ![c][g] = @ + want[t].cnt]
    /\ genChange' = [genChange EXCEPT ![g] = TRUE]
    /\ UNCHANGED <<conChange, conGuard, want, consumerVars, closeVars>>

(* Under the generator's mutex: a single message, or a list that finds the *)
(* flag up, is appended; otherwise the list trades places with the queue's.*)
Push(t) ==
    LET c == want[t].con
        g == GeneratorOf[t]
        msgs == NewMessages(c, g, want[t].cnt)
    IN  /\ ppc[t] = "push"
        /\ IF want[t].list /\ ~genChange[g]
           THEN Accept(t, c, g, msgs, queue[c][g])
           ELSE Accept(t, c, g, queue[c][g] \o msgs, <<>>)

(* Mutant of SignalConsumer: it signals without raising the flag. *)
SignalConsumer_NoFlag(t) ==
    LET c == want[t].con
    IN  /\ ppc[t] = "signal"
        /\ ppc' = [ppc EXCEPT ![t] = "idle"]
        /\ want' = [want EXCEPT ![t] = NoCall]
        /\ \E l \in Sinal(conGuard[c]) : conGuard' = [conGuard EXCEPT ![c] = l]
        /\ UNCHANGED <<genChange, conChange, queue, back, sent, consumerVars, closeVars>>

(* Under the consumer's mutex. *)
SignalConsumer(t) ==
    LET c == want[t].con
    IN  /\ ppc[t] = "signal"
        /\ ppc' = [ppc EXCEPT ![t] = "idle"]
        /\ want' = [want EXCEPT ![t] = NoCall]
        /\ conChange' = [conChange EXCEPT ![c] = TRUE]
        /\ \E l \in Sinal(conGuard[c]) : conGuard' = [conGuard EXCEPT ![c] = l]
        /\ UNCHANGED <<genChange, queue, back, sent, consumerVars, closeVars>>

-----------------------------------------------------------------------------
(* Consumers. *)
TakeChange(c) ==
    /\ has' = [has EXCEPT ![c] = conChange[c]]
    /\ conChange' = [conChange EXCEPT ![c] = FALSE]
    /\ idx' = [idx EXCEPT ![c] = 0]
    /\ cpc' = [cpc EXCEPT ![c] = IF conChange[c] THEN "pop" ELSE "handle"]

WaitForPoping(c) ==
    /\ cpc[c] = "call"
    /\ \/ /\ conChange[c]
          /\ TakeChange(c)
          /\ UNCHANGED conGuard
       \/ /\ ~conChange[c]
          /\ conGuard' = [conGuard EXCEPT ![c] = Sleep(@, c)]
          /\ cpc' = [cpc EXCEPT ![c] = "waiting"]
          /\ UNCHANGED <<conChange, idx, has>>
    /\ UNCHANGED <<genChange, queue, pusherVars, last, vec, got, closeVars>>

TimeOut(c) ==
    /\ c \in conGuard[c].asleep
    /\ conGuard' = [conGuard EXCEPT ![c] = WakeUp(@, c)]
    /\ UNCHANGED <<genChange, conChange, queue, pusherVars, consumerVars, closeVars>>

ReturnFromWait(c) ==
    /\ cpc[c] = "waiting" /\ c \notin conGuard[c].asleep
    /\ conGuard' = [conGuard EXCEPT ![c] = LeaveWait(@, c)]
    /\ TakeChange(c)
    /\ UNCHANGED <<genChange, queue, pusherVars, last, vec, got, closeVars>>

(* Mutant of PopGenerator: the consumer's flag is cleared (again) after the *)
(* last list.                                                               *)
PopGenerator_ClearsLate(c) ==
    LET g == idx[c]
    IN  /\ cpc[c] = "pop"
        /\ IF queue[c][g] = <<>>
           THEN UNCHANGED <<queue, vec, genChange>>
           ELSE /\ queue' = [queue EXCEPT ![c][g] = vec[c][g]]
                /\ vec' = [vec EXCEPT ![c][g] = queue[c][g]]
                /\ genChange' = [genChange EXCEPT ![g] = FALSE]
        /\ IF g + 1 = GeneratorQuantity
           THEN /\ cpc' = [cpc EXCEPT ![c] = "handle"] /\ UNCHANGED idx
                /\ conChange' = [conChange EXCEPT ![c] = FALSE]
           ELSE idx' = [idx EXCEPT ![c] = g + 1] /\ UNCHANGED <<cpc, conChange>>
        /\ UNCHANGED <<conGuard, pusherVars, has, last, got, closeVars>>

(* One round of the loop of _PopImmediately, under the mutex of a generator. *)
PopGenerator(c) ==
    LET g == idx[c]
    IN  /\ cpc[c] = "pop"
        /\ IF queue[c][g] = <<>>
           THEN UNCHANGED <<queue, vec, genChange>>
           ELSE /\ queue' = [queue EXCEPT ![c][g] = vec[c][g]]
                /\ vec' = [vec EXCEPT ![c][g] = queue[c][g]]
                /\ genChange' = [genChange EXCEPT ![g] = FALSE]
        /\ IF g + 1 = GeneratorQuantity
           THEN cpc' = [cpc EXCEPT ![c] = "handle"] /\ UNCHANGED idx
           ELSE idx' = [idx EXCEPT ![c] = g + 1] /\ UNCHANGED cpc
        /\ UNCHANGED <<conChange, conGuard, pusherVars, has, last, got, closeVars>>

(* Mutant of HandleMessages: the handled messages stay in the lists. *)
HandleMessages_KeepsLists(c) ==
    /\ cpc[c] = "handle"
    /\ got' = [got EXCEPT ![c] = [g \in Generators |-> got[c][g] \o vec[c][g]]]
    /\ cpc' = [cpc EXCEPT ![c] =
                  IF last[c] THEN "done"
                  ELSE IF poolWorking[c] \/ has[c] THEN "call" ELSE "last"]
    /\ UNCHANGED <<queueVars, pusherVars, idx, has, last, vec, closeVars>>

(* The rest of the frame, and the test of the loop around it. *)
HandleMessages(c) ==
    /\ cpc[c] = "handle"
    /\ got' = [got EXCEPT ![c] = [g \in Generators |-> got[c][g] \o vec[c][g]]]
    /\ vec' = [vec EXCEPT ![c] = [g \in Generators |-> <<>>]]
    /\ cpc' = [cpc EXCEPT ![c] =
                  IF last[c] THEN "done"
                  ELSE IF poolWorking[c] \/ has[c] THEN "call" ELSE "last"]
    /\ UNCHANGED <<queueVars, pusherVars, idx, has, last, closeVars>>

(* PopImmediately after the dispatcher's loop, for one more frame. *)
PopImmediately(c) ==
    /\ cpc[c] = "last"
    /\ last' = [last EXCEPT ![c] = TRUE]
    /\ TakeChange(c)
    /\ UNCHANGED <<genChange, conGuard, queue, pusherVars, vec, got, closeVars>>

-----------------------------------------------------------------------------
(* Closing.  The engine closes the dispatchers' pools, joins everybody that *)
(* pushes and closes the queue last (IFS_NetEngine.cpp:238-265); the test   *)
(* (TestMessageQueue.h:320-324) closes the queue while everybody runs.      *)
(* A dispatcher's WillClose rouses its own consumer before it closes the    *)
(* pool: a signal without any message.                                      *)
NotifyConsumer(c) ==
    /\ isWorking /\ poolWorking[c]
    /\ \E l \in Sinal(conGuard[c]) : conGuard' = [conGuard EXCEPT ![c] = l]
    /\ UNCHANGED <<genChange, conChange, queue, pusherVars, consumerVars, closeVars>>

ClosePool(c) ==
    /\ poolWorking[c]
    /\ poolWorking' = [poolWorking EXCEPT ![c] = FALSE]
    /\ UNCHANGED <<queueVars, pusherVars, consumerVars, isWorking, closer>>

ClearIsWorking ==
    /\ closer[1] = "open"
    /\ isWorking' = FALSE
    /\ closer' = <<"signalling", 0, FALSE>>
    /\ UNCHANGED <<queueVars, pusherVars, consumerVars, poolWorking>>

(* BeforeClose goes round the consumers until a round meets no waiter. *)
SignalWaiter ==
    LET c == closer[2]
        met == closer[3] \/ HasWaiter(conGuard[c])
    IN  /\ closer[1] = "signalling"
        /\ IF HasWaiter(conGuard[c])
           THEN \E l \in Sinal(conGuard[c]) : conGuard' = [conGuard EXCEPT ![c] = l]
           ELSE UNCHANGED conGuard
        /\ closer' = IF c + 1 < ConsumerQuantity THEN <<"signalling", c + 1, met>>
                     ELSE IF met THEN <<"signalling", 0, FALSE>>
                     ELSE <<"signalled", 0, FALSE>>
        /\ UNCHANGED <<genChange, conChange, queue, pusherVars, consumerVars, isWorking, poolWorking>>

(* Close frees what nobody handled. *)
Close ==
    /\ closer[1] = "signalled"
    /\ \A c \in Consumers : cpc[c] = "done"
    /\ \A t \in Pushers : ppc[t] = "idle"
    /\ closer' = <<"closed", 0, FALSE>>
    /\ queue' = Everywhere(<<>>)
    /\ UNCHANGED <<genChange, conChange, conGuard, pusherVars, consumerVars, isWorking, poolWorking>>

-----------------------------------------------------------------------------
PusherNext(t) == BeginPush(t) \/ Push(t) \/ SignalConsumer(t)

ConsumerNext(c) ==
    \/ WaitForPoping(c) \/ ReturnFromWait(c) \/ PopGenerator(c)
    \/ HandleMessages(c) \/ PopImmediately(c)

CloserNext == ClearIsWorking \/ SignalWaiter \/ Close

Next ==
    \/ \E t \in Pushers : PusherNext(t)
    \/ \E c \in Consumers : ConsumerNext(c) \/ TimeOut(c) \/ NotifyConsumer(c) \/ ClosePool(c)
    \/ CloserNext

Spec == Init /\ [][Next]_vars

(* Threads inside a call go on, consumers run, a timed wait ends.  Nobody  *)
(* has to push, to close a pool or to close the queue.                     *)
FairSpec ==
    /\ Spec
    /\ \A t \in Pushers : WF_vars(Push(t) \/ SignalConsumer(t))
    /\ \A c \in Consumers : /\ WF_vars(ConsumerNext(c))
                            /\ WF_vars(TimeOut(c))
    /\ WF_vars(SignalWaiter \/ Close)

-----------------------------------------------------------------------------
(* What a user of the list forms has to respect: a generator used with     *)
(* lists pushes to one consumer only.                                      *)
ListsGoToOneConsumer ==
    \A t \in ListPushers : \A u \in Pushers :
        GeneratorOf[u] = GeneratorOf[t] => Targets[u] = Targets[t] /\ \A c, d \in Targets[u] : c = d

Signalling(c) == \E t \in Pushers : ppc[t] = "signal" /\ want[t].con = c

(* No message is left where nobody looks: while a list holds messages, its *)
(* consumer's flag is up, or a pusher is about to raise it, or the         *)
(* consumer is on a round of pops that has not passed the list.  The two   *)
(* mutexes are never held together, so this rests on the order in which    *)
(* Push and WaitForPoping take them.                                       *)
NoStrandedMessages ==
    \A c \in Consumers, g \in Generators :
        queue[c][g] # <<>> =>
            \/ conChange[c]
            \/ Signalling(c)
            \/ cpc[c] = "pop" /\ idx[c] <= g

(* Of what was accepted for a consumer nothing is lost, doubled or taken   *)
(* out of order by the exchanges of lists (until Close frees the rest).    *)
AllAccountedFor ==
    (ListsGoToOneConsumer /\ closer[1] # "closed") =>
        \A c \in Consumers, g \in Generators :
            got[c][g] \o vec[c][g] \o queue[c][g] = [i \in 1 .. sent[c][g] |-> i]

(* "Swap if the queue is empty" (the comment on the else-branch of both    *)
(* list forms, MessageQueueImpl.h:345, 382): the caller gets an empty list *)
(* back, never somebody's unhandled messages.  So it is where the lists of *)
(* a generator go to one consumer.                                         *)
ListComesBackEmpty == \A t \in Pushers : back[t] = <<>>

(* The queue is a channel that keeps order from each generator to each     *)
(* consumer.                                                               *)
Channel == INSTANCE MsgChannel WITH
               Source <- Consumers \X Generators,
               sent <- [p \in Consumers \X Generators |-> sent[p[1]][p[2]]],
               got <- [p \in Consumers \X Generators |-> got[p[1]][p[2]]],
               closed <- ~isWorking

ImplementsChannel == Channel!ChanSpec

(* While its pool works and the queue is open, a consumer handles whatever *)
(* was accepted for it.                                                    *)
AcceptedIsHandled ==
    \A t \in Pushers : \A c \in Targets[t] :
        LET g == GeneratorOf[t]
        IN  \A n \in 1 .. MaxSent[g] :
                (sent[c][g] >= n) ~>
                    (~isWorking \/ ~poolWorking[c] \/ Len(got[c][g]) >= n)
=============================================================================
