---------------- MODULE ConcurrentMessageQueueNoThreadProofs ----------------
(***************************************************************************)
(* For any number of generators, consumers and pushers, and any bounds:    *)
(* the variables keep their types, no message is left in a list nobody     *)
(* looks at, the order is kept, and the queue implements its channel.      *)
(***************************************************************************)
EXTENDS ConcurrentMessageQueueNoThread, ConditionLockerProofs, SequenceTheorems, Integers, TLAPS

LEMMA ListTypes ==
    ASSUME TypeOK, NEW c \in Consumers, NEW g \in Generators
    PROVE  /\ sent[c][g] \in Nat
           /\ queue[c][g] \in Seq(Number) /\ vec[c][g] \in Seq(Number)
           /\ got[c][g] \in Seq(Number)
BY DEF TypeOK, PerList

LEMMA UpdatedList ==
    ASSUME NEW S, NEW f \in PerList(S), NEW c, NEW g, NEW x \in S
    PROVE  [f EXCEPT ![c][g] = x] \in PerList(S)
BY DEF PerList

LEMMA NextGenerator ==
    ASSUME NEW g \in Generators, g + 1 # GeneratorQuantity
    PROVE  g + 1 \in Generators
<1>1. GeneratorQuantity \in Nat
  BY QueueAssumption
<1> QED
  BY <1>1 DEF Generators

LEMMA InitTypes == Init => TypeOK
<1> SUFFICES ASSUME Init PROVE TypeOK
  OBVIOUS
<1>1. NewLocker \in LockerType(Consumers)
  BY DEF NewLocker, LockerType
<1>2. 0 \in Generators /\ 0 \in Consumers
  BY QueueAssumption DEF Generators, Consumers
<1>3. NoCall \in Call
  BY <1>2 DEF NoCall, Call
<1>4. <<>> \in Seq(Number)
  OBVIOUS
<1> QED
  BY <1>1, <1>2, <1>3, <1>4 DEF Init, TypeOK, Everywhere, PerList

LEMMA BeginPushTypes ==
    ASSUME TypeOK, NEW t \in Pushers, BeginPush(t)
    PROVE  TypeOK'
<1>1. PICK c \in Targets[t], n \in 1 .. MaxBatch, l \in BOOLEAN :
          want' = [want EXCEPT ![t] = [con |-> c, cnt |-> n, list |-> l]]
  BY DEF BeginPush
<1>2. c \in Consumers /\ n \in Nat \ {0}
  BY QueueAssumption
<1>3. [con |-> c, cnt |-> n, list |-> l] \in Call
  BY <1>2 DEF Call
<1>4. want' \in [Pushers -> Call]
  BY <1>1, <1>3 DEF TypeOK
<1>5. ppc' \in [Pushers -> {"idle", "push", "signal"}]
  BY DEF TypeOK, BeginPush
<1> QED
  BY <1>4, <1>5 DEF TypeOK, BeginPush, queueVars, consumerVars, closeVars

LEMMA PushTypes ==
    ASSUME TypeOK, NEW t \in Pushers, Push(t)
    PROVE  TypeOK'
<1> DEFINE c == want[t].con
           g == GeneratorOf[t]
           n == want[t].cnt
           msgs == NewMessages(c, g, n)
<1>1. c \in Consumers /\ g \in Generators /\ n \in Nat \ {0}
  BY QueueAssumption DEF TypeOK, Call
<1>2. sent[c][g] \in Nat /\ queue[c][g] \in Seq(Number)
  BY <1>1, ListTypes
<1>3. msgs \in Seq(Number)
  <2>1. \A i \in 1 .. n : sent[c][g] + i \in Number
    BY <1>1, <1>2 DEF Number
  <2> QED
    BY <1>1, <2>1 DEF NewMessages
<1>4. queue[c][g] \o msgs \in Seq(Number)
  BY <1>2, <1>3
<1>5. ASSUME NEW q \in Seq(Number), NEW b \in Seq(Number), Accept(t, c, g, q, b)
      PROVE  TypeOK'
  <2>1. queue' \in PerList(Seq(Number))
    BY <1>5, UpdatedList DEF TypeOK, Accept
  <2>2. back' \in [Pushers -> Seq(Number)]
    BY <1>5 DEF TypeOK, Accept
  <2>3. sent[c][g] + n \in Nat
    BY <1>1, <1>2
  <2>4. sent' \in PerList(Nat)
    BY <1>5, <2>3, UpdatedList DEF TypeOK, Accept
  <2>5. genChange' \in [Generators -> BOOLEAN]
    BY <1>5 DEF TypeOK, Accept
  <2>6. ppc' \in [Pushers -> {"idle", "push", "signal"}]
    BY <1>5 DEF TypeOK, Accept
  <2> QED
    BY <1>5, <2>1, <2>2, <2>4, <2>5, <2>6 DEF TypeOK, Accept, consumerVars, closeVars
<1>6. Accept(t, c, g, msgs, queue[c][g]) \/ Accept(t, c, g, queue[c][g] \o msgs, <<>>)
  BY DEF Push
<1>7. <<>> \in Seq(Number)
  OBVIOUS
<1> QED
  BY <1>2, <1>3, <1>4, <1>5, <1>6, <1>7

LEMMA SignalConsumerTypes ==
    ASSUME TypeOK, NEW t \in Pushers, SignalConsumer(t)
    PROVE  TypeOK'
<1> DEFINE c == want[t].con
<1>1. c \in Consumers
  BY DEF TypeOK, Call
<1>2. PICK l \in Sinal(conGuard[c]) : conGuard' = [conGuard EXCEPT ![c] = l]
  BY DEF SignalConsumer
<1>3. l \in LockerType(Consumers)
  BY <1>1, SinalResult DEF TypeOK
<1>4. conGuard' \in [Consumers -> LockerType(Consumers)]
  BY <1>2, <1>3 DEF TypeOK
<1>5. NoCall \in Call
  BY QueueAssumption DEF NoCall, Call, Consumers
<1>6. want' \in [Pushers -> Call] /\ ppc' \in [Pushers -> {"idle", "push", "signal"}]
  BY <1>5 DEF TypeOK, SignalConsumer
<1>7. conChange' \in [Consumers -> BOOLEAN]
  BY DEF TypeOK, SignalConsumer
<1> QED
  BY <1>4, <1>6, <1>7 DEF TypeOK, SignalConsumer, consumerVars, closeVars

(* What TakeChange does, for the three actions that contain it. *)
LEMMA TakeChangeTypes ==
    ASSUME TypeOK, NEW c \in Consumers, TakeChange(c)
    PROVE  /\ has' \in [Consumers -> BOOLEAN]
           /\ conChange' \in [Consumers -> BOOLEAN]
           /\ idx' \in [Consumers -> Generators]
           /\ cpc' \in [Consumers -> {"call", "waiting", "pop", "handle", "last", "done"}]
<1>1. 0 \in Generators
  BY QueueAssumption DEF Generators
<1>2. conChange[c] \in BOOLEAN
  BY DEF TypeOK
<1> QED
  BY <1>1, <1>2 DEF TypeOK, TakeChange

LEMMA ConsumerTypes ==
    ASSUME TypeOK, NEW c \in Consumers, ConsumerNext(c) \/ TimeOut(c)
    PROVE  TypeOK'
<1>0. conGuard[c] \in LockerType(Consumers)
  BY DEF TypeOK
<1>1. CASE WaitForPoping(c)
  <2>1. CASE TakeChange(c) /\ UNCHANGED conGuard
    BY <1>1, <2>1, TakeChangeTypes
    DEF TypeOK, WaitForPoping, pusherVars, closeVars
  <2>2. CASE /\ conGuard' = [conGuard EXCEPT ![c] = Sleep(@, c)]
             /\ cpc' = [cpc EXCEPT ![c] = "waiting"]
             /\ UNCHANGED <<conChange, idx, has>>
    <3>1. conGuard' \in [Consumers -> LockerType(Consumers)]
      BY <1>0, <2>2, LockerCalls DEF TypeOK
    <3> QED
      BY <1>1, <2>2, <3>1 DEF TypeOK, WaitForPoping, pusherVars, closeVars
  <2> QED
    BY <1>1, <2>1, <2>2 DEF WaitForPoping
<1>2. CASE TimeOut(c)
  <2>1. conGuard' \in [Consumers -> LockerType(Consumers)]
    BY <1>0, <1>2, LockerCalls DEF TypeOK, TimeOut
  <2> QED
    BY <1>2, <2>1 DEF TypeOK, TimeOut, pusherVars, consumerVars, closeVars
<1>3. CASE ReturnFromWait(c)
  <2>1. conGuard' \in [Consumers -> LockerType(Consumers)]
    BY <1>0, <1>3, LockerCalls DEF TypeOK, ReturnFromWait
  <2>2. TakeChange(c)
    BY <1>3 DEF ReturnFromWait
  <2> QED
    BY <1>3, <2>1, <2>2, TakeChangeTypes
    DEF TypeOK, ReturnFromWait, pusherVars, closeVars
<1>4. CASE PopGenerator(c)
  <2> DEFINE g == idx[c]
  <2>1. g \in Generators
    BY DEF TypeOK
  <2>2. queue[c][g] \in Seq(Number) /\ vec[c][g] \in Seq(Number)
    BY <2>1, ListTypes
  <2>3. queue' \in PerList(Seq(Number)) /\ vec' \in PerList(Seq(Number))
    <3>1. CASE queue[c][g] = <<>>
      BY <1>4, <3>1 DEF TypeOK, PopGenerator
    <3>2. CASE queue[c][g] # <<>>
      <4>1. /\ queue' = [queue EXCEPT ![c][g] = vec[c][g]]
            /\ vec' = [vec EXCEPT ![c][g] = queue[c][g]]
        BY <1>4, <3>2 DEF PopGenerator
      <4>2. queue \in PerList(Seq(Number)) /\ vec \in PerList(Seq(Number))
        BY DEF TypeOK
      <4> QED
        BY <2>2, <4>1, <4>2, UpdatedList
    <3> QED
      BY <3>1, <3>2
  <2>4. genChange' \in [Generators -> BOOLEAN]
    BY <1>4, <2>1 DEF TypeOK, PopGenerator
  <2>5. g + 1 # GeneratorQuantity => g + 1 \in Generators
    BY <2>1, NextGenerator
  <2>6. /\ idx' \in [Consumers -> Generators]
        /\ cpc' \in [Consumers -> {"call", "waiting", "pop", "handle", "last", "done"}]
    BY <1>4, <2>5 DEF TypeOK, PopGenerator
  <2> QED
    BY <1>4, <2>3, <2>4, <2>6 DEF TypeOK, PopGenerator, pusherVars, closeVars
<1>5. CASE HandleMessages(c)
  <2>1. \A g \in Generators : got[c][g] \o vec[c][g] \in Seq(Number)
    BY ListTypes
  <2>2. got' \in PerList(Seq(Number))
    BY <1>5, <2>1 DEF TypeOK, HandleMessages, PerList
  <2>3. vec' \in PerList(Seq(Number))
    BY <1>5 DEF TypeOK, HandleMessages, PerList
  <2>4. cpc' \in [Consumers -> {"call", "waiting", "pop", "handle", "last", "done"}]
    BY <1>5 DEF TypeOK, HandleMessages
  <2> QED
    BY <1>5, <2>2, <2>3, <2>4 DEF TypeOK, HandleMessages, queueVars, pusherVars, closeVars
<1>6. CASE PopImmediately(c)
  <2>1. TakeChange(c) /\ last' \in [Consumers -> BOOLEAN]
    BY <1>6 DEF TypeOK, PopImmediately
  <2> QED
    BY <1>6, <2>1, TakeChangeTypes DEF TypeOK, PopImmediately, pusherVars, closeVars
<1> QED
  BY <1>1, <1>2, <1>3, <1>4, <1>5, <1>6 DEF ConsumerNext

LEMMA CloserTypes ==
    ASSUME TypeOK, CloserNext \/ \E c \in Consumers : NotifyConsumer(c) \/ ClosePool(c)
    PROVE  TypeOK'
<1>0. 0 \in Consumers /\ closer[2] \in Consumers /\ closer[3] \in BOOLEAN
  BY QueueAssumption DEF TypeOK, Consumers
<1>1. CASE ClearIsWorking
  BY <1>0, <1>1 DEF TypeOK, ClearIsWorking, queueVars, pusherVars, consumerVars
<1>2. CASE SignalWaiter
  <2> DEFINE c == closer[2]
  <2>1. conGuard' \in [Consumers -> LockerType(Consumers)]
    <3>1. CASE HasWaiter(conGuard[c])
      <4>1. PICK l \in Sinal(conGuard[c]) : conGuard' = [conGuard EXCEPT ![c] = l]
        BY <1>2, <3>1 DEF SignalWaiter
      <4>2. l \in LockerType(Consumers)
        BY <1>0, SinalResult DEF TypeOK
      <4> QED
        BY <4>1, <4>2 DEF TypeOK
    <3>2. CASE ~HasWaiter(conGuard[c])
      BY <1>2, <3>2 DEF TypeOK, SignalWaiter
    <3> QED
      BY <3>1, <3>2
  <2>2. HasWaiter(conGuard[c]) \in BOOLEAN
    BY DEF HasWaiter
  <2>3. c + 1 < ConsumerQuantity => c + 1 \in Consumers
    BY <1>0, QueueAssumption DEF Consumers
  <2>4. closer' \in {"open", "signalling", "signalled", "closed"} \X Consumers \X BOOLEAN
    BY <1>0, <1>2, <2>2, <2>3 DEF SignalWaiter
  <2> QED
    BY <1>2, <2>1, <2>4 DEF TypeOK, SignalWaiter, pusherVars, consumerVars
<1>3. CASE Close
  <2>1. queue' \in PerList(Seq(Number))
    BY <1>3 DEF Close, Everywhere, PerList
  <2> QED
    BY <1>0, <1>3, <2>1 DEF TypeOK, Close, pusherVars, consumerVars
<1>4. CASE \E c \in Consumers : ClosePool(c)
  BY <1>4 DEF TypeOK, ClosePool, queueVars, pusherVars, consumerVars
<1>5. ASSUME NEW c \in Consumers, NotifyConsumer(c) PROVE TypeOK'
  <2>1. PICK l \in Sinal(conGuard[c]) : conGuard' = [conGuard EXCEPT ![c] = l]
    BY <1>5 DEF NotifyConsumer
  <2>2. l \in LockerType(Consumers)
    BY SinalResult DEF TypeOK
  <2> QED
    BY <1>5, <2>1, <2>2 DEF TypeOK, NotifyConsumer, pusherVars, consumerVars, closeVars
<1> QED
  BY <1>1, <1>2, <1>3, <1>4, <1>5 DEF CloserNext

LEMMA StepTypes == TypeOK /\ [Next]_vars => TypeOK'
<1> SUFFICES ASSUME TypeOK, [Next]_vars PROVE TypeOK'
  OBVIOUS
<1>1. ASSUME NEW t \in Pushers, PusherNext(t) PROVE TypeOK'
  BY <1>1, BeginPushTypes, PushTypes, SignalConsumerTypes DEF PusherNext
<1>2. CASE UNCHANGED vars
  BY <1>2 DEF TypeOK, vars, queueVars, pusherVars, consumerVars, closeVars
<1> QED
  BY <1>1, <1>2, ConsumerTypes, CloserTypes DEF Next

(* The variables keep their types, however many generators, consumers and  *)
(* pushers there are.                                                      *)
THEOREM TypeCorrect == Spec => []TypeOK
<1>1. Init => TypeOK
  BY InitTypes
<1>2. TypeOK /\ [Next]_vars => TypeOK'
  BY StepTypes
<1> QED
  BY <1>1, <1>2, PTL DEF Spec

-----------------------------------------------------------------------------
(* A consumer that is not handling messages has none left in its lists     *)
(* where the next pop will exchange them: what it gives to the queue is    *)
(* empty.  NoStrandedMessages is not inductive without it.                 *)
BeforePop(c, g) == cpc[c] \in {"call", "waiting", "last"} \/ (cpc[c] = "pop" /\ idx[c] <= g)

HandledBeforePop ==
    \A c \in Consumers, g \in Generators : BeforePop(c, g) => vec[c][g] = <<>>

IInv == TypeOK /\ HandledBeforePop /\ NoStrandedMessages

LEMMA InitIInv == Init => IInv
<1> SUFFICES ASSUME Init PROVE IInv
  OBVIOUS
<1>1. TypeOK
  BY InitTypes
<1>2. HandledBeforePop
  BY DEF Init, HandledBeforePop, Everywhere
<1>3. NoStrandedMessages
  BY DEF Init, NoStrandedMessages, Everywhere
<1> QED
  BY <1>1, <1>2, <1>3 DEF IInv

(* Pushers and closers do not touch the consumers' lists. *)
LEMMA OthersKeepHandled ==
    ASSUME HandledBeforePop, UNCHANGED <<cpc, idx, vec>>
    PROVE  HandledBeforePop'
BY DEF HandledBeforePop, BeforePop

LEMMA ConsumerKeepsHandled ==
    ASSUME TypeOK, HandledBeforePop, NEW c \in Consumers, ConsumerNext(c)
    PROVE  HandledBeforePop'
<1> SUFFICES ASSUME NEW d \in Consumers, NEW g \in Generators, BeforePop(d, g)'
             PROVE  vec'[d][g] = <<>>
  BY DEF HandledBeforePop
<1>1. BeforePop(d, g) => vec[d][g] = <<>>
  BY DEF HandledBeforePop
<1>2. ASSUME cpc[c] \in {"call", "waiting", "last"}, UNCHANGED vec,
             \A e \in Consumers \ {c} : cpc'[e] = cpc[e] /\ idx'[e] = idx[e]
      PROVE  vec'[d][g] = <<>>
  BY <1>1, <1>2 DEF BeforePop
<1>3. ASSUME TakeChange(c)
      PROVE  \A e \in Consumers \ {c} : cpc'[e] = cpc[e] /\ idx'[e] = idx[e]
  BY <1>3 DEF TypeOK, TakeChange
<1>4. CASE WaitForPoping(c)
  <2>1. \A e \in Consumers \ {c} : cpc'[e] = cpc[e] /\ idx'[e] = idx[e]
    BY <1>3, <1>4 DEF TypeOK, WaitForPoping
  <2> QED
    BY <1>2, <1>4, <2>1 DEF WaitForPoping
<1>5. CASE ReturnFromWait(c)
  BY <1>2, <1>3, <1>5 DEF ReturnFromWait
<1>6. CASE PopImmediately(c)
  BY <1>2, <1>3, <1>6 DEF PopImmediately
<1>7. CASE PopGenerator(c)
  <2>1. CASE d # c
    <3>1. cpc'[d] = cpc[d] /\ idx'[d] = idx[d] /\ vec'[d] = vec[d]
      BY <1>7, <2>1 DEF TypeOK, PopGenerator, PerList
    <3> QED
      BY <1>1, <3>1 DEF BeforePop
  <2>2. CASE d = c
    <3>1. /\ idx[c] + 1 # GeneratorQuantity
          /\ idx' = [idx EXCEPT ![c] = idx[c] + 1]
          /\ cpc' = cpc /\ cpc[c] = "pop"
      BY <1>7, <2>2 DEF TypeOK, PopGenerator, BeforePop
    <3>2. idx[c] \in Int /\ g \in Int
      BY QueueAssumption DEF TypeOK, Generators
    <3>3. idx'[c] = idx[c] + 1 /\ idx'[c] <= g
      BY <2>2, <3>1 DEF TypeOK, BeforePop
    <3>4. idx[c] <= g /\ g # idx[c]
      BY <3>2, <3>3
    <3>5. vec'[c][g] = vec[c][g]
      <4>1. idx[c] \in Generators \ {g}
        BY <3>4 DEF TypeOK
      <4>2. CASE queue[c][idx[c]] = <<>>
        BY <1>7, <4>2 DEF PopGenerator
      <4>3. CASE queue[c][idx[c]] # <<>>
        <5>1. vec' = [vec EXCEPT ![c][idx[c]] = queue[c][idx[c]]]
          BY <1>7, <4>3 DEF PopGenerator
        <5> QED
          BY <4>1, <5>1 DEF TypeOK, PerList
      <4> QED
        BY <4>2, <4>3
    <3> QED
      BY <1>1, <2>2, <3>1, <3>4, <3>5 DEF BeforePop
  <2> QED
    BY <2>1, <2>2
<1>8. CASE HandleMessages(c)
  <2>1. CASE d # c
    <3>1. cpc'[d] = cpc[d] /\ idx'[d] = idx[d] /\ vec'[d] = vec[d]
      BY <1>8, <2>1 DEF TypeOK, HandleMessages, PerList
    <3> QED
      BY <1>1, <3>1 DEF BeforePop
  <2>2. CASE d = c
    BY <1>8, <2>2 DEF TypeOK, HandleMessages, PerList
  <2> QED
    BY <2>1, <2>2
<1> QED
  BY <1>4, <1>5, <1>6, <1>7, <1>8 DEF ConsumerNext

-----------------------------------------------------------------------------
LEMMA PusherStrandsNothing ==
    ASSUME TypeOK, NoStrandedMessages, NEW t \in Pushers, PusherNext(t)
    PROVE  NoStrandedMessages'
<1> SUFFICES ASSUME NEW c \in Consumers, NEW g \in Generators, queue'[c][g] # <<>>
             PROVE  conChange'[c] \/ Signalling(c)' \/ (cpc'[c] = "pop" /\ idx'[c] <= g)
  BY DEF NoStrandedMessages
<1>1. queue[c][g] # <<>> =>
          conChange[c] \/ Signalling(c) \/ (cpc[c] = "pop" /\ idx[c] <= g)
  BY DEF NoStrandedMessages
<1>2. CASE BeginPush(t)
  <2>1. \A u \in Pushers : ppc[u] = "signal" => ppc'[u] = "signal" /\ want'[u] = want[u]
    BY <1>2 DEF TypeOK, BeginPush
  <2>2. Signalling(c) => Signalling(c)'
    BY <2>1 DEF Signalling
  <2> QED
    BY <1>1, <1>2, <2>2 DEF BeginPush, queueVars, consumerVars
<1>3. CASE Push(t)
  <2>1. /\ UNCHANGED <<conChange, want, cpc, idx>>
        /\ ppc[t] = "push" /\ ppc' = [ppc EXCEPT ![t] = "signal"]
        /\ \A e \in Consumers : e # want[t].con => queue'[e] = queue[e]
    BY <1>3 DEF TypeOK, PerList, Push, Accept, consumerVars
  <2>2. Signalling(c) => Signalling(c)'
    BY <2>1 DEF TypeOK, Signalling
  <2>3. CASE want[t].con = c
    BY <2>1, <2>3 DEF TypeOK, Signalling
  <2>4. CASE want[t].con # c
    <3>1. queue'[c] = queue[c]
      BY <2>1, <2>4
    <3> QED
      BY <1>1, <2>1, <2>2, <3>1
  <2> QED
    BY <2>3, <2>4
<1>4. CASE SignalConsumer(t)
  <2>1. CASE want[t].con = c
    BY <1>4, <2>1 DEF TypeOK, SignalConsumer
  <2>2. CASE want[t].con # c
    <3>1. \A u \in Pushers \ {t} : ppc'[u] = ppc[u] /\ want'[u] = want[u]
      BY <1>4 DEF TypeOK, SignalConsumer
    <3>2. Signalling(c) => Signalling(c)'
      BY <2>2, <3>1 DEF Signalling
    <3>3. conChange'[c] = conChange[c] /\ UNCHANGED <<queue, cpc, idx>>
      BY <1>4, <2>2 DEF TypeOK, SignalConsumer, consumerVars
    <3> QED
      BY <1>1, <3>2, <3>3
  <2> QED
    BY <2>1, <2>2
<1> QED
  BY <1>2, <1>3, <1>4 DEF PusherNext

LEMMA ConsumerStrandsNothing ==
    ASSUME TypeOK, HandledBeforePop, NoStrandedMessages,
           NEW c \in Consumers, ConsumerNext(c)
    PROVE  NoStrandedMessages'
<1> SUFFICES ASSUME NEW d \in Consumers, NEW g \in Generators, queue'[d][g] # <<>>
             PROVE  conChange'[d] \/ Signalling(d)' \/ (cpc'[d] = "pop" /\ idx'[d] <= g)
  BY DEF NoStrandedMessages
<1>1. queue[d][g] # <<>> =>
          conChange[d] \/ Signalling(d) \/ (cpc[d] = "pop" /\ idx[d] <= g)
  BY DEF NoStrandedMessages
<1>2. Signalling(d)' = Signalling(d)
  <2>1. UNCHANGED <<ppc, want>>
    BY DEF ConsumerNext, WaitForPoping, ReturnFromWait, PopGenerator, HandleMessages,
           PopImmediately, pusherVars
  <2> QED
    BY <2>1 DEF Signalling
<1>3. 0 <= g
  BY QueueAssumption DEF Generators
<1>4. ASSUME TakeChange(c), UNCHANGED queue, cpc[c] # "pop"
      PROVE  conChange'[d] \/ Signalling(d)' \/ (cpc'[d] = "pop" /\ idx'[d] <= g)
  <2>1. CASE d # c
    <3>1. conChange'[d] = conChange[d] /\ cpc'[d] = cpc[d] /\ idx'[d] = idx[d]
      BY <1>4, <2>1 DEF TypeOK, TakeChange
    <3> QED
      BY <1>1, <1>2, <1>4, <3>1
  <2>2. CASE d = c
    <3>1. conChange[c] => cpc'[c] = "pop" /\ idx'[c] = 0
      BY <1>4 DEF TypeOK, TakeChange
    <3> QED
      BY <1>1, <1>2, <1>3, <1>4, <2>2, <3>1
  <2> QED
    BY <2>1, <2>2
<1>5. CASE WaitForPoping(c)
  <2>1. CASE TakeChange(c)
    BY <1>4, <1>5, <2>1 DEF WaitForPoping
  <2>2. CASE /\ cpc' = [cpc EXCEPT ![c] = "waiting"]
             /\ UNCHANGED <<conChange, idx, has>>
    <3>1. d # c => cpc'[d] = cpc[d]
      BY <2>2 DEF TypeOK
    <3> QED
      BY <1>1, <1>2, <1>5, <2>2, <3>1 DEF WaitForPoping
  <2> QED
    BY <1>5, <2>1, <2>2 DEF WaitForPoping
<1>6. CASE ReturnFromWait(c)
  BY <1>4, <1>6 DEF ReturnFromWait
<1>7. CASE PopImmediately(c)
  BY <1>4, <1>7 DEF PopImmediately
<1>8. CASE PopGenerator(c)
  <2>1. conChange' = conChange
    BY <1>8 DEF PopGenerator
  <2>2. CASE d # c
    <3>1. queue'[d] = queue[d] /\ cpc'[d] = cpc[d] /\ idx'[d] = idx[d]
      BY <1>8, <2>2 DEF TypeOK, PopGenerator, PerList
    <3> QED
      BY <1>1, <1>2, <2>1, <3>1
  <2>3. CASE d = c
    <3>1. idx[c] \in Generators /\ cpc[c] = "pop"
      BY <1>8 DEF TypeOK, PopGenerator
    <3>2. idx[c] \in Int /\ g \in Int /\ g <= GeneratorQuantity - 1
      BY <3>1, QueueAssumption DEF Generators
    <3>3. vec[c][idx[c]] = <<>>
      BY <3>1, <3>2 DEF HandledBeforePop, BeforePop
    <3>4. queue'[c][idx[c]] = <<>>
      <4>1. CASE queue[c][idx[c]] = <<>>
        BY <1>8, <4>1 DEF PopGenerator
      <4>2. CASE queue[c][idx[c]] # <<>>
        <5>1. queue' = [queue EXCEPT ![c][idx[c]] = <<>>]
          BY <1>8, <3>3, <4>2 DEF PopGenerator
        <5> QED
          BY <3>1, <5>1 DEF TypeOK, PerList
      <4> QED
        BY <4>1, <4>2
    <3>5. g # idx[c]
      BY <2>3, <3>4
    <3>6. queue'[c][g] = queue[c][g]
      <4>1. idx[c] \in Generators \ {g}
        BY <3>5 DEF TypeOK
      <4>2. CASE queue[c][idx[c]] = <<>>
        BY <1>8, <4>2 DEF PopGenerator
      <4>3. CASE queue[c][idx[c]] # <<>>
        <5>1. queue' = [queue EXCEPT ![c][idx[c]] = vec[c][idx[c]]]
          BY <1>8, <4>3 DEF PopGenerator
        <5> QED
          BY <4>1, <5>1 DEF TypeOK, PerList
      <4> QED
        BY <4>2, <4>3
    <3>7. idx[c] <= g => cpc'[c] = "pop" /\ idx'[c] <= g
      <4>1. idx[c] <= g => idx[c] + 1 # GeneratorQuantity /\ idx[c] + 1 <= g
        <5>1. GeneratorQuantity \in Int
          BY QueueAssumption
        <5> QED
          BY <3>2, <3>5, <5>1
      <4>2. idx[c] + 1 # GeneratorQuantity => cpc'[c] = "pop" /\ idx'[c] = idx[c] + 1
        BY <1>8, <3>1 DEF TypeOK, PopGenerator
      <4> QED
        BY <4>1, <4>2
    <3> QED
      BY <1>1, <1>2, <2>1, <2>3, <3>6, <3>7
  <2> QED
    BY <2>2, <2>3
<1>9. CASE HandleMessages(c)
  <2>1. UNCHANGED <<conChange, queue, idx>> /\ cpc[c] # "pop"
    BY <1>9 DEF HandleMessages, queueVars
  <2>2. d # c => cpc'[d] = cpc[d]
    BY <1>9 DEF TypeOK, HandleMessages
  <2> QED
    BY <1>1, <1>2, <2>1, <2>2
<1> QED
  BY <1>5, <1>6, <1>7, <1>8, <1>9 DEF ConsumerNext

LEMMA OthersStrandNothing ==
    ASSUME NoStrandedMessages,
           \/ UNCHANGED <<queue, conChange, ppc, want, cpc, idx>>
           \/ queue' = Everywhere(<<>>)
    PROVE  NoStrandedMessages'
<1>1. CASE UNCHANGED <<queue, conChange, ppc, want, cpc, idx>>
  BY <1>1 DEF NoStrandedMessages, Signalling
<1>2. CASE queue' = Everywhere(<<>>)
  BY <1>2 DEF NoStrandedMessages, Everywhere
<1> QED
  BY <1>1, <1>2

LEMMA StepIInv == IInv /\ [Next]_vars => IInv'
<1> SUFFICES ASSUME IInv, [Next]_vars PROVE IInv'
  OBVIOUS
<1>1. TypeOK /\ HandledBeforePop /\ NoStrandedMessages /\ TypeOK'
  BY StepTypes DEF IInv
<1>2. ASSUME NEW t \in Pushers, PusherNext(t)
      PROVE  IInv'
  <2>1. UNCHANGED <<cpc, idx, vec>>
    BY <1>2 DEF PusherNext, BeginPush, Push, Accept, SignalConsumer, consumerVars
  <2> QED
    BY <1>1, <1>2, <2>1, OthersKeepHandled, PusherStrandsNothing DEF IInv
<1>3. ASSUME NEW c \in Consumers, ConsumerNext(c)
      PROVE  IInv'
  BY <1>1, <1>3, ConsumerKeepsHandled, ConsumerStrandsNothing DEF IInv
<1>4. CASE CloserNext \/ UNCHANGED vars
           \/ \E c \in Consumers : TimeOut(c) \/ NotifyConsumer(c) \/ ClosePool(c)
  <2>1. UNCHANGED <<cpc, idx, vec>>
    BY <1>4 DEF CloserNext, ClearIsWorking, SignalWaiter, Close, TimeOut, NotifyConsumer,
                ClosePool, vars, consumerVars
  <2>2. \/ UNCHANGED <<queue, conChange, ppc, want, cpc, idx>>
        \/ queue' = Everywhere(<<>>)
    BY <1>4 DEF CloserNext, ClearIsWorking, SignalWaiter, Close, TimeOut, NotifyConsumer,
                ClosePool, vars, queueVars, pusherVars, consumerVars
  <2> QED
    BY <1>1, <2>1, <2>2, OthersKeepHandled, OthersStrandNothing DEF IInv
<1>5. \/ \E t \in Pushers : PusherNext(t)
      \/ \E c \in Consumers : ConsumerNext(c)
      \/ \E c \in Consumers : TimeOut(c) \/ NotifyConsumer(c) \/ ClosePool(c)
      \/ CloserNext \/ UNCHANGED vars
  BY DEF Next
<1> QED
  BY <1>2, <1>3, <1>4, <1>5

(* No message is ever left where nobody looks: a push to any consumer,     *)
(* through any generator, is noticed, although the list's flag and the     *)
(* consumer's flag are guarded by two mutexes that are never held together.*)
THEOREM NothingStranded == Spec => []NoStrandedMessages
<1>1. Init => IInv
  BY InitIInv
<1>2. IInv /\ [Next]_vars => IInv'
  BY StepIInv
<1>3. IInv => NoStrandedMessages
  BY DEF IInv
<1> QED
  BY <1>1, <1>2, <1>3, PTL DEF Spec
-----------------------------------------------------------------------------
(* Order.  Numbers(n) is what a consumer gets of n accepted messages.      *)
Numbers(n) == [i \in 1 .. n |-> i]

LEMMA NumbersType ==
    ASSUME NEW n \in Nat
    PROVE  Numbers(n) \in Seq(Number) /\ Len(Numbers(n)) = n
<1>1. \A i \in 1 .. n : i \in Number
  BY DEF Number
<1> QED
  BY <1>1 DEF Numbers

LEMMA NumbersGrow ==
    ASSUME NEW n \in Nat, NEW k \in Nat
    PROVE  /\ [i \in 1 .. k |-> n + i] \in Seq(Number)
           /\ Numbers(n) \o [i \in 1 .. k |-> n + i] = Numbers(n + k)
<1> DEFINE more == [i \in 1 .. k |-> n + i]
<1>1. more \in Seq(Number) /\ Len(more) = k
  <2>1. \A i \in 1 .. k : n + i \in Number
    BY DEF Number
  <2> QED
    BY <2>1
<1>2. Numbers(n) \in Seq(Number) /\ Len(Numbers(n)) = n
  BY NumbersType
<1>3. n + k \in Nat
  OBVIOUS
<1>4. Numbers(n + k) \in Seq(Number) /\ Len(Numbers(n + k)) = n + k
  BY <1>3, NumbersType
<1> HIDE DEF more
<1>5. /\ Numbers(n) \o more \in Seq(Number)
      /\ Len(Numbers(n) \o more) = n + k
      /\ \A i \in 1 .. n + k : (Numbers(n) \o more)[i] = IF i <= n THEN Numbers(n)[i] ELSE more[i - n]
  <2>1. /\ Numbers(n) \o more \in Seq(Number)
        /\ Len(Numbers(n) \o more) = Len(Numbers(n)) + Len(more)
        /\ \A i \in 1 .. Len(Numbers(n)) + Len(more) :
              (Numbers(n) \o more)[i]
                = IF i <= Len(Numbers(n)) THEN Numbers(n)[i] ELSE more[i - Len(Numbers(n))]
    BY <1>1, <1>2, ConcatProperties
  <2> QED
    BY <1>1, <1>2, <2>1
<1>6. ASSUME NEW i \in 1 .. n + k
      PROVE  (Numbers(n) \o more)[i] = Numbers(n + k)[i]
  <2>1. CASE i <= n
    <3>1. i \in 1 .. n
      BY <2>1
    <3> QED
      BY <1>5, <2>1, <3>1 DEF Numbers
  <2>2. CASE ~(i <= n)
    <3>1. i - n \in 1 .. k /\ n + (i - n) = i
      BY <2>2
    <3>2. more[i - n] = i
      BY <3>1 DEF more
    <3> QED
      BY <1>5, <2>2, <3>2 DEF Numbers
  <2> QED
    BY <2>1, <2>2
<1>7. Numbers(n) \o more = Numbers(n + k)
  BY <1>4, <1>5, <1>6, SeqEqual
<1> QED
  BY <1>1, <1>7 DEF more

LEMMA Regroup ==
    ASSUME NEW a \in Seq(Number), NEW b \in Seq(Number), NEW d \in Seq(Number)
    PROVE  a \o (b \o d) = (a \o b) \o d
BY ConcatAssociative

(* What was handed over of n accepted messages are the first ones. *)
LEMMA FrontOfNumbers ==
    ASSUME NEW n \in Nat, NEW a \in Seq(Number), NEW b \in Seq(Number), a \o b = Numbers(n)
    PROVE  Len(a) \in 0 .. n /\ a = Numbers(Len(a))
<1>1. Len(a) \in Nat /\ Len(b) \in Nat
  BY LenProperties
<1>2. Len(a) + Len(b) = n
  BY ConcatProperties, NumbersType
<1>3. \A i \in 1 .. Len(a) : a[i] = i
  <2> SUFFICES ASSUME NEW i \in 1 .. Len(a) PROVE a[i] = i
    OBVIOUS
  <2>1. i \in 1 .. Len(a) + Len(b) /\ i <= Len(a) /\ i \in 1 .. n
    BY <1>1, <1>2
  <2>2. (a \o b)[i] = a[i]
    BY <2>1, ConcatProperties
  <2> QED
    BY <2>1, <2>2 DEF Numbers
<1>4. Numbers(Len(a)) \in Seq(Number) /\ Len(Numbers(Len(a))) = Len(a)
  BY <1>1, NumbersType
<1>5. \A i \in 1 .. Len(a) : a[i] = Numbers(Len(a))[i]
  BY <1>3 DEF Numbers
<1>6. a = Numbers(Len(a))
  BY <1>4, <1>5, SeqEqual
<1> QED
  BY <1>1, <1>2, <1>6

(* The conjuncts the order rests on.  A swap by a list push keeps the      *)
(* order because the flag is up whenever the list it finds is not empty    *)
(* (FlagOfFullList).  That flag is lowered by the pop of any consumer of   *)
(* the generator: only targets have anything to pop (OnlyTargets), and a   *)
(* generator with lists has one target.                                    *)
WantIsTarget ==
    \A t \in Pushers :
        ppc[t] = "push" => /\ want[t].con \in Targets[t]
                           /\ want[t].list => t \in ListPushers

OnlyTargets ==
    \A c \in Consumers, g \in Generators :
        queue[c][g] # <<>> => \E u \in Pushers : GeneratorOf[u] = g /\ c \in Targets[u]

FlagOfFullList ==
    \A t \in ListPushers, c \in Consumers :
        ~genChange[GeneratorOf[t]] => queue[c][GeneratorOf[t]] = <<>>

(* What is left after the close: nobody pushes and nobody handles.         *)
OpenIsWorking == closer[1] = "open" <=> isWorking

ClosedIsDone ==
    closer[1] = "closed" => /\ \A c \in Consumers : cpc[c] = "done"
                            /\ \A t \in Pushers : ppc[t] = "idle"

InOrder(c, g) == got[c][g] \o vec[c][g] \o queue[c][g] = Numbers(sent[c][g])

AllInOrder ==
    closer[1] # "closed" => \A c \in Consumers, g \in Generators : InOrder(c, g)

OInv ==
    /\ TypeOK /\ HandledBeforePop
    /\ WantIsTarget /\ OnlyTargets /\ FlagOfFullList
    /\ OpenIsWorking /\ ClosedIsDone /\ AllInOrder

LEMMA InitOInv == Init => OInv
<1> SUFFICES ASSUME Init PROVE OInv
  OBVIOUS
<1>1. TypeOK /\ HandledBeforePop
  BY InitIInv DEF IInv
<1>2. WantIsTarget /\ OnlyTargets /\ OpenIsWorking /\ ClosedIsDone
  BY DEF Init, Everywhere, WantIsTarget, OnlyTargets, OpenIsWorking, ClosedIsDone
<1>3. FlagOfFullList
  BY QueueAssumption DEF Init, Everywhere, FlagOfFullList
<1>4. ASSUME NEW c \in Consumers, NEW g \in Generators PROVE InOrder(c, g)
  <2>1. got[c][g] = <<>> /\ vec[c][g] = <<>> /\ queue[c][g] = <<>> /\ sent[c][g] = 0
    BY DEF Init, Everywhere
  <2>2. <<>> \o <<>> \o <<>> = Numbers(0)
    <3>1. Numbers(0) \in Seq(Number) /\ Len(Numbers(0)) = 0
      BY NumbersType
    <3>2. <<>> \o <<>> = <<>>
      OBVIOUS
    <3> QED
      BY <3>1, <3>2
  <2> QED
    BY <2>1, <2>2 DEF InOrder
<1> QED
  BY <1>1, <1>2, <1>3, <1>4 DEF OInv, AllInOrder

(* Steps that leave the lists alone. *)
LEMMA ListsUntouched ==
    ASSUME OInv, UNCHANGED <<queue, genChange, got, vec, sent, closer, isWorking>>
    PROVE  OnlyTargets' /\ FlagOfFullList' /\ OpenIsWorking' /\ AllInOrder'
BY DEF OInv, OnlyTargets, FlagOfFullList, OpenIsWorking, AllInOrder, InOrder

LEMMA BeginPushOrder ==
    ASSUME OInv, NEW t \in Pushers, BeginPush(t)
    PROVE  WantIsTarget' /\ ClosedIsDone' /\ OnlyTargets' /\ FlagOfFullList' /\ OpenIsWorking' /\ AllInOrder'
<1>1. UNCHANGED <<queue, genChange, got, vec, sent, closer, isWorking>>
  BY DEF BeginPush, queueVars, consumerVars, closeVars
<1>2. WantIsTarget'
  <2>1. PICK c \in Targets[t], n \in 1 .. MaxBatch, l \in BOOLEAN :
           /\ l => t \in ListPushers
           /\ want' = [want EXCEPT ![t] = [con |-> c, cnt |-> n, list |-> l]]
    BY DEF BeginPush
  <2>2. want'[t].con = c /\ want'[t].list = l
    BY <2>1 DEF OInv, TypeOK
  <2>3. \A u \in Pushers \ {t} : want'[u] = want[u] /\ ppc'[u] = ppc[u]
    BY <2>1 DEF OInv, TypeOK, BeginPush
  <2> QED
    BY <2>1, <2>2, <2>3 DEF OInv, WantIsTarget
<1>3. closer[1] # "closed"
  BY DEF BeginPush, OInv, OpenIsWorking
<1> QED
  BY <1>1, <1>2, <1>3, ListsUntouched DEF ClosedIsDone

LEMMA PushOrder ==
    ASSUME OInv, ListsGoToOneConsumer, NEW t \in Pushers, Push(t)
    PROVE  WantIsTarget' /\ ClosedIsDone' /\ OnlyTargets' /\ FlagOfFullList' /\ OpenIsWorking' /\ AllInOrder'
<1>0. PICK c, g, n, m, msgs :
         /\ c = want[t].con /\ g = GeneratorOf[t] /\ n = want[t].cnt
         /\ m = sent[c][g] /\ msgs = NewMessages(c, g, n)
  OBVIOUS
<1>1. /\ c \in Consumers /\ g \in Generators /\ n \in Nat \ {0} /\ c \in Targets[t]
      /\ want[t].list => t \in ListPushers
  BY <1>0, QueueAssumption DEF OInv, TypeOK, Call, WantIsTarget, Push
<1>2. /\ m \in Nat /\ queue[c][g] \in Seq(Number) /\ vec[c][g] \in Seq(Number)
      /\ got[c][g] \in Seq(Number)
  BY <1>0, <1>1, ListTypes DEF OInv
<1>3. msgs \in Seq(Number) /\ Numbers(m) \o msgs = Numbers(m + n)
  BY <1>0, <1>1, <1>2, NumbersGrow DEF NewMessages
<1>4. closer[1] # "closed" /\ InOrder(c, g)
  BY <1>1 DEF OInv, ClosedIsDone, AllInOrder, Push
<1>5. PICK b : Accept(t, c, g, queue[c][g] \o msgs, b)
  <2>1. CASE want[t].list /\ ~genChange[g]
    <3>1. queue[c][g] = <<>>
      BY <1>0, <1>1, <2>1 DEF OInv, FlagOfFullList
    <3>2. queue[c][g] \o msgs = msgs
      BY <1>3, <3>1, ConcatEmptySeq
    <3> QED
      BY <1>0, <2>1, <3>2 DEF Push
  <2>2. CASE ~(want[t].list /\ ~genChange[g])
    BY <1>0, <2>2 DEF Push
  <2> QED
    BY <2>1, <2>2
<1>6. /\ UNCHANGED <<want, got, vec, closer, isWorking, cpc>>
      /\ ppc' = [ppc EXCEPT ![t] = "signal"]
      /\ genChange' = [genChange EXCEPT ![g] = TRUE]
      /\ queue' = [queue EXCEPT ![c][g] = queue[c][g] \o msgs]
      /\ sent' = [sent EXCEPT ![c][g] = m + n]
  BY <1>0, <1>5 DEF Accept, consumerVars, closeVars
<1>7. /\ queue'[c][g] = queue[c][g] \o msgs /\ sent'[c][g] = m + n
      /\ \A d \in Consumers, h \in Generators :
            <<d, h>> # <<c, g>> => queue'[d][h] = queue[d][h] /\ sent'[d][h] = sent[d][h]
  BY <1>1, <1>6 DEF OInv, TypeOK, PerList
<1>8. WantIsTarget' /\ ClosedIsDone' /\ OpenIsWorking'
  BY <1>4, <1>6 DEF OInv, TypeOK, WantIsTarget, ClosedIsDone, OpenIsWorking
<1>9. OnlyTargets'
  <2> SUFFICES ASSUME NEW d \in Consumers, NEW h \in Generators, queue'[d][h] # <<>>
               PROVE  \E u \in Pushers : GeneratorOf[u] = h /\ d \in Targets[u]
    BY DEF OnlyTargets
  <2>1. CASE <<d, h>> = <<c, g>>
    BY <1>0, <1>1, <2>1
  <2>2. CASE <<d, h>> # <<c, g>>
    BY <1>7, <2>2 DEF OInv, OnlyTargets
  <2> QED
    BY <2>1, <2>2
<1>10. FlagOfFullList'
  <2> SUFFICES ASSUME NEW u \in ListPushers, NEW d \in Consumers, ~genChange'[GeneratorOf[u]]
               PROVE  queue'[d][GeneratorOf[u]] = <<>>
    BY DEF FlagOfFullList
  <2>1. GeneratorOf[u] \in Generators
    BY QueueAssumption
  <2>2. GeneratorOf[u] # g
    BY <1>1, <1>6 DEF OInv, TypeOK
  <2>3. ~genChange[GeneratorOf[u]]
    BY <1>6, <2>1, <2>2 DEF OInv, TypeOK
  <2> QED
    BY <1>7, <2>1, <2>2, <2>3 DEF OInv, FlagOfFullList
<1>11. InOrder(c, g)'
  <2>1. (got[c][g] \o vec[c][g]) \o (queue[c][g] \o msgs)
          = (got[c][g] \o vec[c][g] \o queue[c][g]) \o msgs
    <3>1. got[c][g] \o vec[c][g] \in Seq(Number)
      BY <1>2, ConcatProperties
    <3> QED
      BY <1>2, <1>3, <3>1, Regroup
  <2>2. got[c][g] \o vec[c][g] \o queue[c][g] = Numbers(m)
    BY <1>0, <1>4 DEF InOrder
  <2>3. InOrder(c, g)' <=> (got[c][g] \o vec[c][g]) \o (queue[c][g] \o msgs) = Numbers(m + n)
    BY <1>6, <1>7 DEF InOrder
  <2> QED
    BY <1>3, <2>1, <2>2, <2>3
<1>12. AllInOrder'
  <2> SUFFICES ASSUME NEW d \in Consumers, NEW h \in Generators PROVE InOrder(d, h)'
    BY DEF AllInOrder
  <2>1. CASE <<d, h>> = <<c, g>>
    BY <1>11, <2>1
  <2>2. CASE <<d, h>> # <<c, g>>
    <3>1. InOrder(d, h)
      BY <1>4 DEF OInv, AllInOrder
    <3>2. got' = got /\ vec' = vec /\ queue'[d][h] = queue[d][h] /\ sent'[d][h] = sent[d][h]
      BY <1>6, <1>7, <2>2
    <3> QED
      BY <3>1, <3>2 DEF InOrder
  <2> QED
    BY <2>1, <2>2
<1> QED
  BY <1>8, <1>9, <1>10, <1>12

LEMMA SignalConsumerOrder ==
    ASSUME OInv, NEW t \in Pushers, SignalConsumer(t)
    PROVE  WantIsTarget' /\ ClosedIsDone' /\ OnlyTargets' /\ FlagOfFullList' /\ OpenIsWorking' /\ AllInOrder'
<1>1. UNCHANGED <<queue, genChange, got, vec, sent, closer, isWorking, cpc>>
  BY DEF SignalConsumer, consumerVars, closeVars
<1>2. ppc'[t] = "idle" /\ \A u \in Pushers \ {t} : want'[u] = want[u] /\ ppc'[u] = ppc[u]
  BY DEF OInv, TypeOK, SignalConsumer
<1>3. WantIsTarget' /\ ClosedIsDone'
  BY <1>1, <1>2 DEF OInv, WantIsTarget, ClosedIsDone
<1> QED
  BY <1>1, <1>3, ListsUntouched

LEMMA PopOrder ==
    ASSUME OInv, ListsGoToOneConsumer, NEW c \in Consumers, PopGenerator(c)
    PROVE  OnlyTargets' /\ FlagOfFullList' /\ OpenIsWorking' /\ AllInOrder'
<1>0. PICK g : g = idx[c]
  OBVIOUS
<1>1. g \in Generators /\ UNCHANGED <<got, sent, closer, isWorking>>
  BY <1>0 DEF OInv, TypeOK, PopGenerator, pusherVars, closeVars
<1>2. CASE queue[c][g] = <<>>
  BY <1>0, <1>1, <1>2, ListsUntouched DEF PopGenerator
<1>3. CASE queue[c][g] # <<>>
  <2>1. vec[c][g] = <<>>
    BY <1>0, <1>1 DEF OInv, TypeOK, HandledBeforePop, BeforePop, PopGenerator, Generators
  <2>2. /\ queue' = [queue EXCEPT ![c][g] = <<>>]
        /\ vec' = [vec EXCEPT ![c][g] = queue[c][g]]
        /\ genChange' = [genChange EXCEPT ![g] = FALSE]
    BY <1>0, <1>3, <2>1 DEF PopGenerator
  <2>3. /\ queue'[c][g] = <<>> /\ vec'[c][g] = queue[c][g]
        /\ \A d \in Consumers, h \in Generators :
              <<d, h>> # <<c, g>> => queue'[d][h] = queue[d][h] /\ vec'[d][h] = vec[d][h]
    BY <1>1, <2>2 DEF OInv, TypeOK, PerList
  <2>4. OnlyTargets'
    BY <1>1, <2>3 DEF OInv, OnlyTargets
  <2>5. FlagOfFullList'
    <3> SUFFICES ASSUME NEW u \in ListPushers, NEW d \in Consumers, ~genChange'[GeneratorOf[u]]
                 PROVE  queue'[d][GeneratorOf[u]] = <<>>
      BY DEF FlagOfFullList
    <3>1. u \in Pushers /\ GeneratorOf[u] \in Generators
      BY QueueAssumption
    <3>2. CASE GeneratorOf[u] # g
      <4>1. ~genChange[GeneratorOf[u]]
        BY <1>1, <2>2, <3>1, <3>2 DEF OInv, TypeOK
      <4> QED
        BY <2>3, <3>1, <3>2, <4>1 DEF OInv, FlagOfFullList
    <3>3. CASE GeneratorOf[u] = g
      <4>1. c \in Targets[u]
        BY <1>1, <1>3, <3>3 DEF OInv, OnlyTargets, ListsGoToOneConsumer
      <4>2. CASE queue[d][g] # <<>>
        <5>1. d \in Targets[u]
          BY <1>1, <3>3, <4>2 DEF OInv, OnlyTargets, ListsGoToOneConsumer
        <5>2. d = c
          BY <3>1, <4>1, <5>1 DEF ListsGoToOneConsumer
        <5> QED
          BY <2>3, <3>3, <5>2
      <4>3. CASE queue[d][g] = <<>>
        BY <1>1, <2>3, <3>3, <4>3
      <4> QED
        BY <4>2, <4>3
    <3> QED
      BY <3>2, <3>3
  <2>6. AllInOrder'
    <3> SUFFICES ASSUME closer[1] # "closed", NEW d \in Consumers, NEW h \in Generators
                 PROVE  InOrder(d, h)'
      BY <1>1 DEF AllInOrder
    <3>1. InOrder(d, h)
      BY DEF OInv, AllInOrder
    <3>2. CASE d = c /\ h = g
      <4>1. queue[c][g] \in Seq(Number) /\ got[c][g] \in Seq(Number)
        BY <1>1, ListTypes DEF OInv
      <4>2. got[c][g] \o <<>> = got[c][g]
        BY <4>1, ConcatEmptySeq
      <4>3. (got[c][g] \o queue[c][g]) \o <<>> = got[c][g] \o queue[c][g]
        BY <4>1, ConcatEmptySeq, ConcatProperties
      <4>4. InOrder(c, g)
        BY <3>1, <3>2
      <4>5. got[c][g] \o queue[c][g] = Numbers(sent[c][g])
        BY <2>1, <4>2, <4>4 DEF InOrder
      <4>6. InOrder(c, g)' <=> (got[c][g] \o queue[c][g]) \o <<>> = Numbers(sent[c][g])
        BY <1>1, <2>3 DEF InOrder
      <4> QED
        BY <3>2, <4>3, <4>5, <4>6
    <3>3. CASE ~(d = c /\ h = g)
      BY <1>1, <2>3, <3>1, <3>3 DEF InOrder
    <3> QED
      BY <3>2, <3>3
  <2> QED
    BY <1>1, <2>4, <2>5, <2>6 DEF OInv, OpenIsWorking
<1> QED
  BY <1>2, <1>3

LEMMA HandleOrder ==
    ASSUME OInv, NEW c \in Consumers, HandleMessages(c)
    PROVE  OnlyTargets' /\ FlagOfFullList' /\ OpenIsWorking' /\ AllInOrder'
<1>1. UNCHANGED <<queue, genChange, sent, closer, isWorking>>
  BY DEF HandleMessages, queueVars, pusherVars, closeVars
<1>2. ASSUME closer[1] # "closed", NEW d \in Consumers, NEW h \in Generators
      PROVE  InOrder(d, h)'
  <2>1. InOrder(d, h)
    BY <1>2 DEF OInv, AllInOrder
  <2>2. CASE d # c
    <3>1. got'[d] = got[d] /\ vec'[d] = vec[d]
      BY <2>2 DEF OInv, TypeOK, PerList, HandleMessages
    <3> QED
      BY <1>1, <2>1, <3>1 DEF InOrder
  <2>3. CASE d = c
    <3>1. got'[c][h] = got[c][h] \o vec[c][h] /\ vec'[c][h] = <<>>
      BY DEF OInv, TypeOK, PerList, HandleMessages
    <3>2. got[c][h] \o vec[c][h] \in Seq(Number)
      BY ListTypes, ConcatProperties DEF OInv
    <3>3. (got[c][h] \o vec[c][h]) \o <<>> = got[c][h] \o vec[c][h]
      BY <3>2, ConcatEmptySeq
    <3> QED
      BY <1>1, <2>1, <2>3, <3>1, <3>3 DEF InOrder
  <2> QED
    BY <2>2, <2>3
<1>3. AllInOrder'
  BY <1>1, <1>2 DEF AllInOrder
<1> QED
  BY <1>1, <1>3 DEF OInv, OnlyTargets, FlagOfFullList, OpenIsWorking

LEMMA ConsumerOrder ==
    ASSUME OInv, ListsGoToOneConsumer, NEW c \in Consumers, ConsumerNext(c)
    PROVE  WantIsTarget' /\ ClosedIsDone' /\ OnlyTargets' /\ FlagOfFullList' /\ OpenIsWorking' /\ AllInOrder'
<1>1. UNCHANGED <<want, ppc, closer>>
  BY DEF ConsumerNext, WaitForPoping, ReturnFromWait, PopGenerator, HandleMessages,
         PopImmediately, pusherVars, closeVars
<1>2. cpc[c] # "done"
  BY DEF ConsumerNext, WaitForPoping, ReturnFromWait, PopGenerator, HandleMessages, PopImmediately
<1>3. WantIsTarget' /\ ClosedIsDone'
  BY <1>1, <1>2 DEF OInv, WantIsTarget, ClosedIsDone
<1>4. CASE WaitForPoping(c) \/ ReturnFromWait(c) \/ PopImmediately(c)
  <2>1. UNCHANGED <<queue, genChange, got, vec, sent, closer, isWorking>>
    BY <1>4 DEF WaitForPoping, ReturnFromWait, PopImmediately, pusherVars, closeVars
  <2> QED
    BY <1>3, <2>1, ListsUntouched
<1> QED
  BY <1>3, <1>4, PopOrder, HandleOrder DEF ConsumerNext

LEMMA OthersOrder ==
    ASSUME OInv,
           CloserNext \/ UNCHANGED vars
           \/ \E c \in Consumers : TimeOut(c) \/ NotifyConsumer(c) \/ ClosePool(c)
    PROVE  WantIsTarget' /\ ClosedIsDone' /\ OnlyTargets' /\ FlagOfFullList' /\ OpenIsWorking' /\ AllInOrder'
<1>1. UNCHANGED <<want, ppc, cpc, genChange, got, vec, sent>>
  BY DEF CloserNext, ClearIsWorking, SignalWaiter, Close, TimeOut, NotifyConsumer, ClosePool,
         vars, queueVars, pusherVars, consumerVars
<1>2. WantIsTarget'
  BY <1>1 DEF OInv, WantIsTarget
<1>3. CASE Close
  <2>1. closer'[1] = "closed" /\ closer[1] = "signalled" /\ UNCHANGED isWorking
    BY <1>3 DEF Close
  <2>2. \A c \in Consumers, g \in Generators : queue'[c][g] = <<>>
    BY <1>3 DEF Close, Everywhere
  <2>3. OnlyTargets' /\ FlagOfFullList'
    BY <2>2, QueueAssumption DEF OnlyTargets, FlagOfFullList
  <2>4. OpenIsWorking'
    BY <2>1 DEF OInv, OpenIsWorking
  <2>5. ClosedIsDone'
    BY <1>1, <1>3 DEF Close, ClosedIsDone
  <2> QED
    BY <1>2, <2>1, <2>3, <2>4, <2>5 DEF AllInOrder
<1>4. CASE ~Close
  <2>1. UNCHANGED queue
    BY <1>4 DEF CloserNext, ClearIsWorking, SignalWaiter, TimeOut, NotifyConsumer, ClosePool,
                vars, queueVars
  <2>2. OnlyTargets' /\ FlagOfFullList'
    BY <1>1, <2>1 DEF OInv, OnlyTargets, FlagOfFullList
  <2>3. \/ UNCHANGED <<closer, isWorking>>
        \/ closer[1] # "closed" /\ closer'[1] \notin {"open", "closed"} /\ ~isWorking'
    <3>1. CASE ClearIsWorking
      BY <3>1 DEF ClearIsWorking
    <3>2. CASE SignalWaiter
      BY <3>2 DEF SignalWaiter, OInv, OpenIsWorking
    <3>3. CASE UNCHANGED vars \/ \E c \in Consumers : TimeOut(c) \/ NotifyConsumer(c) \/ ClosePool(c)
      BY <3>3 DEF TimeOut, NotifyConsumer, ClosePool, vars, closeVars
    <3> QED
      BY <1>4, <3>1, <3>2, <3>3 DEF CloserNext
  <2>4. OpenIsWorking' /\ ClosedIsDone'
    BY <1>1, <2>3 DEF OInv, OpenIsWorking, ClosedIsDone
  <2>5. AllInOrder'
    BY <1>1, <2>1, <2>3 DEF OInv, AllInOrder, InOrder
  <2> QED
    BY <1>2, <2>2, <2>4, <2>5
<1> QED
  BY <1>3, <1>4

LEMMA StepOInv == ListsGoToOneConsumer /\ OInv /\ [Next]_vars => OInv'
<1> SUFFICES ASSUME ListsGoToOneConsumer, OInv, [Next]_vars PROVE OInv'
  OBVIOUS
<1>1. TypeOK'
  BY StepTypes DEF OInv
<1>2. HandledBeforePop'
  <2>1. ASSUME NEW c \in Consumers, ConsumerNext(c) PROVE HandledBeforePop'
    BY <2>1, ConsumerKeepsHandled DEF OInv
  <2>2. ASSUME ~\E c \in Consumers : ConsumerNext(c) PROVE UNCHANGED <<cpc, idx, vec>>
    BY <2>2 DEF Next, PusherNext, BeginPush, Push, Accept, SignalConsumer,
                CloserNext, ClearIsWorking, SignalWaiter, Close, TimeOut, NotifyConsumer,
                ClosePool, vars, consumerVars
  <2> QED
    BY <2>1, <2>2, OthersKeepHandled DEF OInv
<1>3. ASSUME NEW t \in Pushers, PusherNext(t) PROVE OInv'
  BY <1>1, <1>2, <1>3, BeginPushOrder, PushOrder, SignalConsumerOrder DEF PusherNext, OInv
<1>4. ASSUME NEW c \in Consumers, ConsumerNext(c) PROVE OInv'
  BY <1>1, <1>2, <1>4, ConsumerOrder DEF OInv
<1>5. CASE CloserNext \/ UNCHANGED vars
           \/ \E c \in Consumers : TimeOut(c) \/ NotifyConsumer(c) \/ ClosePool(c)
  BY <1>1, <1>2, <1>5, OthersOrder DEF OInv
<1> QED
  BY <1>3, <1>4, <1>5 DEF Next

LEMMA OInvAlways ==
    ASSUME ListsGoToOneConsumer
    PROVE  Spec => []OInv
<1>1. Init => OInv
  BY InitOInv
<1>2. OInv /\ [Next]_vars => OInv'
  BY StepOInv
<1> QED
  BY <1>1, <1>2, PTL DEF Spec

(* A list push that finds the flag down trades its list for an empty one,  *)
(* when the lists of a generator go to one consumer.                       *)
THEOREM SwapGivesEmptyList ==
    ASSUME ListsGoToOneConsumer
    PROVE  Spec => []ListComesBackEmpty
<1>1. Init => ListComesBackEmpty
  BY DEF Init, ListComesBackEmpty
<1>2. OInv /\ ListComesBackEmpty /\ [Next]_vars => ListComesBackEmpty'
  <2> SUFFICES ASSUME OInv, ListComesBackEmpty, [Next]_vars PROVE ListComesBackEmpty'
    OBVIOUS
  <2>1. ASSUME NEW t \in Pushers, Push(t) PROVE ListComesBackEmpty'
    <3>1. PICK q, b : Accept(t, want[t].con, GeneratorOf[t], q, b) /\ b = <<>>
      <4>1. CASE want[t].list /\ ~genChange[GeneratorOf[t]]
        <5>1. t \in ListPushers /\ want[t].con \in Consumers
          BY <2>1, <4>1 DEF OInv, TypeOK, Call, WantIsTarget, Push
        <5>2. queue[want[t].con][GeneratorOf[t]] = <<>>
          BY <4>1, <5>1 DEF OInv, FlagOfFullList
        <5> QED
          BY <2>1, <4>1, <5>2 DEF Push
      <4>2. CASE ~(want[t].list /\ ~genChange[GeneratorOf[t]])
        BY <2>1, <4>2 DEF Push
      <4> QED
        BY <4>1, <4>2
    <3>2. back' = [back EXCEPT ![t] = <<>>]
      BY <3>1 DEF Accept
    <3> QED
      BY <3>2 DEF OInv, TypeOK, ListComesBackEmpty
  <2>2. CASE back' = back
    BY <2>2 DEF ListComesBackEmpty
  <2>3. ASSUME NEW t \in Pushers, PusherNext(t) PROVE ListComesBackEmpty'
    BY <2>1, <2>2, <2>3 DEF PusherNext, BeginPush, SignalConsumer
  <2>4. (\E c \in Consumers : ConsumerNext(c) \/ TimeOut(c) \/ NotifyConsumer(c) \/ ClosePool(c))
           \/ CloserNext \/ UNCHANGED vars => back' = back
    BY DEF ConsumerNext, WaitForPoping, ReturnFromWait, PopGenerator, PopImmediately,
       HandleMessages, TimeOut, NotifyConsumer, ClosePool, CloserNext, ClearIsWorking,
       SignalWaiter, Close, vars, pusherVars
  <2> QED
    BY <2>2, <2>3, <2>4 DEF Next
<1>3. Spec => []OInv
  BY OInvAlways
<1> QED
  BY <1>1, <1>2, <1>3, PTL DEF Spec

(* Of the messages accepted from a generator for a consumer nothing is     *)
(* lost, doubled or taken out of order, through any number of swaps, pops  *)
(* and threads that share a generator.                                     *)
THEOREM OrderKept == Spec => []AllAccountedFor
<1>1. CASE ListsGoToOneConsumer
  <2>1. Spec => []OInv
    BY <1>1, OInvAlways
  <2>2. OInv => AllAccountedFor
    BY DEF OInv, AllInOrder, InOrder, Numbers, AllAccountedFor
  <2> QED
    BY <2>1, <2>2, PTL
<1>2. CASE ~ListsGoToOneConsumer
  <2>1. AllAccountedFor
    BY <1>2 DEF AllAccountedFor
  <2> QED
    BY <2>1, PTL
<1> QED
  BY <1>1, <1>2

-----------------------------------------------------------------------------
(* The queue implements the channel: a push accepts, a frame delivers, the *)
(* start of the close closes, and everything else stutters.                *)
ChannelUntouched == UNCHANGED <<sent, got, isWorking>>

LEMMA Stutters ==
    ASSUME ChannelUntouched
    PROVE  UNCHANGED Channel!chanVars
BY DEF ChannelUntouched, Channel!chanVars

LEMMA PushAccepts ==
    ASSUME TypeOK, NEW t \in Pushers, Push(t)
    PROVE  Channel!ChanNext
<1>0. PICK c, g, n, p : /\ c = want[t].con /\ g = GeneratorOf[t] /\ n = want[t].cnt
                        /\ p = <<c, g>>
  OBVIOUS
<1>1. c \in Consumers /\ g \in Generators /\ n \in Nat \ {0} /\ sent[c][g] \in Nat
  <2>1. c \in Consumers /\ g \in Generators /\ n \in Nat \ {0}
    BY <1>0, QueueAssumption DEF TypeOK, Call
  <2> QED
    BY <2>1, ListTypes
<1>2. sent' = [sent EXCEPT ![c][g] = @ + n] /\ UNCHANGED <<got, isWorking>>
  BY <1>0 DEF Push, Accept, consumerVars, closeVars
<1>3. /\ sent'[c][g] = sent[c][g] + n
      /\ \A d \in Consumers, h \in Generators :
            ~(d = c /\ h = g) => sent'[d][h] = sent[d][h]
  BY <1>1, <1>2 DEF TypeOK, PerList
<1> DEFINE S == Consumers \X Generators
           old == [q \in S |-> sent[q[1]][q[2]]]
           new == [q \in S |-> sent'[q[1]][q[2]]]
<1>4. p \in S /\ p[1] = c /\ p[2] = g
  BY <1>0, <1>1
<1>5. new[p] > old[p]
  <2>1. new[p] = sent'[c][g] /\ old[p] = sent[c][g]
    BY <1>4
  <2> QED
    BY <1>1, <1>3, <2>1
<1>6. new = [old EXCEPT ![p] = new[p]]
  <2> SUFFICES ASSUME NEW q \in S, q # p PROVE new[q] = old[q]
    BY <1>4
  <2>1. q[1] \in Consumers /\ q[2] \in Generators /\ ~(q[1] = c /\ q[2] = g)
    BY <1>0
  <2> QED
    BY <1>3, <2>1
<1>7. Channel!Accept(p)
  BY <1>2, <1>5, <1>6 DEF Channel!Accept
<1> QED
  BY <1>4, <1>7 DEF Channel!ChanNext

LEMMA HandleDelivers ==
    ASSUME OInv, OInv', NEW c \in Consumers, HandleMessages(c)
    PROVE  Channel!ChanNext
<1>1. UNCHANGED <<sent, isWorking, closer>> /\ closer[1] # "closed"
  BY DEF OInv, ClosedIsDone, HandleMessages, pusherVars, closeVars
<1> DEFINE S == Consumers \X Generators
           new == [q \in S |-> got'[q[1]][q[2]]]
<1>2. ASSUME NEW q \in S
      PROVE  /\ new[q] \in Seq(Number)
             /\ Len(new[q]) \in Len(got[q[1]][q[2]]) .. sent[q[1]][q[2]]
             /\ new[q] = Numbers(Len(new[q]))
  <2>0. PICK d, g : d = q[1] /\ g = q[2]
    OBVIOUS
  <2>1. d \in Consumers /\ g \in Generators /\ new[q] = got'[d][g]
    BY <2>0
  <2>2. /\ sent[d][g] \in Nat /\ got[d][g] \in Seq(Number) /\ vec[d][g] \in Seq(Number)
        /\ queue[d][g] \in Seq(Number)
    BY <2>1, ListTypes DEF OInv
  <2>3. got'[d][g] \in Seq(Number) /\ vec'[d][g] \in Seq(Number) /\ queue'[d][g] \in Seq(Number)
    BY <2>1 DEF OInv, TypeOK, PerList
  <2>4. got'[d][g] \o vec'[d][g] \o queue'[d][g] = Numbers(sent[d][g])
    BY <1>1, <2>1 DEF OInv, AllInOrder, InOrder
  <2>5. vec'[d][g] \o queue'[d][g] \in Seq(Number)
        /\ got'[d][g] \o (vec'[d][g] \o queue'[d][g]) = Numbers(sent[d][g])
    BY <2>3, <2>4, Regroup, ConcatProperties
  <2>6. Len(got'[d][g]) \in 0 .. sent[d][g] /\ got'[d][g] = Numbers(Len(got'[d][g]))
    BY <2>2, <2>3, <2>5, FrontOfNumbers
  <2>7. got'[d][g] = got[d][g] \/ got'[d][g] = got[d][g] \o vec[d][g]
    BY <2>1 DEF OInv, TypeOK, PerList, HandleMessages
  <2>8. Len(got[d][g] \o vec[d][g]) = Len(got[d][g]) + Len(vec[d][g])
        /\ Len(got[d][g]) \in Nat /\ Len(vec[d][g]) \in Nat
    BY <2>2, ConcatProperties, LenProperties
  <2>9. Len(got'[d][g]) >= Len(got[d][g])
    <3>1. ASSUME NEW a, NEW b \in Nat, NEW k \in Nat, Len(a) = b + k PROVE Len(a) >= b
      BY <3>1
    <3>2. CASE got'[d][g] = got[d][g]
      BY <2>8, <3>2
    <3>3. CASE got'[d][g] = got[d][g] \o vec[d][g]
      <4>1. Len(got'[d][g]) = Len(got[d][g]) + Len(vec[d][g])
        BY <2>8, <3>3, Zenon
      <4> QED
        BY <2>8, <3>1, <4>1, Zenon
    <3> QED
      BY <2>7, <3>2, <3>3
  <2> QED
    BY <2>0, <2>1, <2>2, <2>3, <2>6, <2>8, <2>9
<1>3. new \in [S -> Seq(Nat)]
  <2>1. \A q \in S : new[q] \in Seq(Nat)
    BY <1>2, SeqMonotonic DEF Number
  <2> QED
    BY <2>1
<1>4. Channel!Deliver
  BY <1>1, <1>2, <1>3 DEF Channel!Deliver, Channel!FirstMessages, Numbers
<1> QED
  BY <1>4 DEF Channel!ChanNext

LEMMA StepChannel ==
    ASSUME OInv, OInv', [Next]_vars
    PROVE  [Channel!ChanNext]_Channel!chanVars
<1>1. ASSUME NEW t \in Pushers, PusherNext(t) PROVE [Channel!ChanNext]_Channel!chanVars
  <2>1. CASE BeginPush(t) \/ SignalConsumer(t)
    BY <2>1, Stutters DEF ChannelUntouched, BeginPush, SignalConsumer, consumerVars, closeVars
  <2> QED
    BY <1>1, <2>1, PushAccepts DEF PusherNext, OInv
<1>2. ASSUME NEW c \in Consumers, ConsumerNext(c) PROVE [Channel!ChanNext]_Channel!chanVars
  <2>1. CASE ~HandleMessages(c)
    BY <1>2, <2>1, Stutters
    DEF ChannelUntouched, ConsumerNext, WaitForPoping, ReturnFromWait, PopGenerator,
        PopImmediately, pusherVars, closeVars
  <2> QED
    BY <2>1, HandleDelivers
<1>3. CASE ClearIsWorking
  <2>1. isWorking
    BY <1>3 DEF OInv, OpenIsWorking, ClearIsWorking
  <2>2. Channel!CloseChan
    BY <1>3, <2>1 DEF ClearIsWorking, Channel!CloseChan, pusherVars, consumerVars
  <2> QED
    BY <2>2 DEF Channel!ChanNext
<1>4. CASE SignalWaiter \/ Close \/ UNCHANGED vars
           \/ \E c \in Consumers : TimeOut(c) \/ NotifyConsumer(c) \/ ClosePool(c)
  BY <1>4, Stutters
  DEF ChannelUntouched, SignalWaiter, Close, TimeOut, NotifyConsumer, ClosePool, vars,
      pusherVars, consumerVars, closeVars
<1> QED
  BY <1>1, <1>2, <1>3, <1>4 DEF Next, CloserNext

(* The queue is a channel that keeps order from each generator to each     *)
(* consumer, when the lists of a generator go to one consumer.             *)
THEOREM IsChannel ==
    ASSUME ListsGoToOneConsumer
    PROVE  Spec => ImplementsChannel
<1>1. Init => Channel!ChanInit
  BY DEF Init, Everywhere, Channel!ChanInit
<1>2. OInv /\ OInv' /\ [Next]_vars => [Channel!ChanNext]_Channel!chanVars
  BY StepChannel
<1>3. Spec => []OInv
  BY OInvAlways
<1> QED
  BY <1>1, <1>2, <1>3, PTL DEF Spec, ImplementsChannel, Channel!ChanSpec
=============================================================================
