-------------------------- MODULE ThreadPoolProofs --------------------------
(***************************************************************************)
(* For any tasks, threads and limit: the variables keep their types, each  *)
(* accepted task is run once at most and none is forgotten, and a closed   *)
(* pool is quiet and has run them all.                                     *)
(***************************************************************************)
EXTENDS ThreadPool, ConditionLockerProofs, FiniteSetTheorems, Integers, TLAPS

Live == {t \in Thread : pc[t] \notin {"none", "gone"}}

(* _curTotalNum is the number of threads in ThreadHandler, up to the limit. *)
CountIsRight == curTotal = Cardinality(Live) /\ curTotal <= MaxNum

(* _waitCnt counts the threads in DeadWait, and only they sleep. *)
WaitersWait ==
    /\ \A t \in Thread : t \in locker.waiting <=> pc[t] = "waiting"
    /\ locker.asleep \subseteq locker.waiting

(* A thread that begins, or runs a task, is sure to look at the list.      *)
BusyLooksAgain == \A t \in Thread : pc[t] \in {"none", "run"} => ~isEmpty[t]

(* Nobody adds a task or starts a thread once Close has begun.             *)
ClosingIsClosed == closer # "open" => ~poolWorking

(* When Close has returned, no thread is in ThreadHandler and no task in   *)
(* the list.                                                               *)
NoneLeft ==
    closer = "closed" => /\ tasks = <<>>
                         /\ \A t \in Thread : pc[t] \in {"none", "gone"}

IInv ==
    /\ TypeOK /\ CountIsRight /\ WaitersWait /\ BusyLooksAgain
    /\ ClosingIsClosed /\ NoneLeft
    /\ ~FullToo => TaskHasTaker

LEMMA InitIInv == Init => IInv
<1> SUFFICES ASSUME Init PROVE IInv
  OBVIOUS
<1>1. NewLocker \in LockerType(Thread) /\ NewLocker.waiting = {} /\ NewLocker.asleep = {}
  BY DEF NewLocker, LockerType
<1>2. TypeOK
  <2>1. tasks \in Seq(Task)
    BY DEF Init
  <2>3. poolWorking \in BOOLEAN /\ stopAdding \in BOOLEAN
    BY Zenon DEF Init
  <2>2. /\ pc \in [Thread -> {"none", "test", "lock", "run", "waiting", "leave", "gone"}]
        /\ isEmpty \in [Thread -> BOOLEAN]
        /\ task \in [Thread -> Task \cup {NoTask}]
        /\ started \in [Task -> Nat]
    BY DEF Init
  <2> QED
    BY <1>1, <2>1, <2>2, <2>3 DEF Init, TypeOK
<1>3. Live = {}
  BY DEF Init, Live
<1>4. CountIsRight
  BY <1>3, FS_EmptySet, PoolAssumption DEF CountIsRight, Init
<1>5. WaitersWait /\ BusyLooksAgain
  BY <1>1 DEF Init, WaitersWait, BusyLooksAgain
<1> QED
  BY <1>2, <1>4, <1>5 DEF IInv, Init, ClosingIsClosed, NoneLeft, TaskHasTaker

(* The live threads are finitely many, so that they can be counted. *)
LEMMA LiveIsFinite == IsFiniteSet(Live)
<1>1. Live \subseteq Thread
  BY DEF Live
<1> QED
  BY <1>1, PoolAssumption, FS_Subset

(* _CreateThread makes num threads of the ones that do not exist yet.      *)
LEMMA CreateResult ==
    ASSUME TypeOK, CountIsRight, NEW num \in Nat, CreateThread(num), curTotal + num <= MaxNum
    PROVE  \E new \in SUBSET Thread :
              /\ \A t \in new : pc[t] = "none"
              /\ num > 0 => new # {}
              /\ pc' = [t \in Thread |-> IF t \in new THEN "test" ELSE pc[t]]
              /\ curTotal' = curTotal + num
              /\ CountIsRight'
<1>1. CASE num = 0
  <2>1. pc' = [t \in Thread |-> IF t \in {} THEN "test" ELSE pc[t]] /\ pc' = pc /\ curTotal' = curTotal
    BY <1>1 DEF CreateThread, TypeOK
  <2>2. CountIsRight'
    BY <2>1 DEF CountIsRight, Live
  <2>3. \A t \in {} : pc[t] = "none"
    OBVIOUS
  <2>4. {} \in SUBSET Thread /\ curTotal' = curTotal + num /\ ~(num > 0)
    BY <1>1, <2>1 DEF TypeOK
  <2> QED
    BY <2>1, <2>2, <2>3, <2>4
<1>2. CASE num # 0
  <2>1. PICK new \in SUBSET {t \in Thread : pc[t] = "none"} :
            /\ Cardinality(new) = num
            /\ curTotal' = curTotal + num
            /\ pc' = [t \in Thread |-> IF t \in new THEN "test" ELSE pc[t]]
    BY <1>2 DEF CreateThread
  <2>2. Live' = Live \cup new /\ Live \cap new = {}
    BY <2>1 DEF Live
  <2>3. IsFiniteSet(new)
    BY PoolAssumption, FS_Subset
  <2>4. Cardinality(Live') = Cardinality(Live) + Cardinality(new) - Cardinality(Live \cap new)
    BY <2>2, <2>3, LiveIsFinite, FS_Union
  <2>5. Cardinality(Live') = curTotal + num
    <3>1. Cardinality(Live) \in Nat /\ Cardinality(Live \cap new) = 0
      BY <2>2, LiveIsFinite, FS_CardinalityType, FS_EmptySet
    <3> QED
      BY <2>1, <2>4, <3>1 DEF CountIsRight
  <2>6. new # {}
    BY <1>2, <2>1, FS_EmptySet
  <2> QED
    BY <2>1, <2>5, <2>6 DEF CountIsRight
<1> QED
  BY <1>1, <1>2

(* A signal keeps the waiting threads, and if there is one, leaves one of  *)
(* them awake.                                                             *)
LEMMA SinalKeepsWaiting ==
    ASSUME TypeOK, WaitersWait, NEW k \in Sinal(locker)
    PROVE  /\ k \in LockerType(Thread)
           /\ k.waiting = locker.waiting
           /\ k.asleep \subseteq locker.asleep
           /\ HasWaiter(locker) => \E t \in Thread : t \in k.waiting /\ t \notin k.asleep
<1>1. locker \in LockerType(Thread)
  BY DEF TypeOK
<1>2. k \in LockerType(Thread) /\ k.asleep \subseteq locker.asleep
  BY <1>1, SinalResult
<1>3. CASE locker.asleep = {}
  <2>1. k = [locker EXCEPT !.isSinal = TRUE]
    BY <1>3 DEF Sinal
  <2>2. k.waiting = locker.waiting /\ k.asleep = {}
    BY <1>1, <1>3, <2>1 DEF LockerType
  <2>3. locker.waiting \subseteq Thread
    BY <1>1 DEF LockerType
  <2> QED
    BY <1>2, <2>2, <2>3 DEF HasWaiter
<1>4. CASE locker.asleep # {}
  <2>1. PICK t \in locker.asleep : k = [locker EXCEPT !.isSinal = TRUE, !.asleep = @ \ {t}]
    BY <1>4 DEF Sinal
  <2>2. k.waiting = locker.waiting /\ k.asleep = locker.asleep \ {t}
    BY <1>1, <2>1 DEF LockerType
  <2>3. t \in Thread /\ t \in locker.waiting
    BY <1>1 DEF LockerType, WaitersWait
  <2> QED
    BY <1>2, <2>2, <2>3
<1> QED
  BY <1>3, <1>4

LEMMA AddTaskKeeps ==
    ASSUME IInv, NEW k \in Task, NEW force \in BOOLEAN, NEW need \in Requests,
           Call(k, force, need)
    PROVE  IInv'
<1> DEFINE left == MaxNum - curTotal
           num == IF left > need THEN need ELSE left
<1>1. AddTask(k, force, need)
  BY DEF Call
<1>2. curTotal \in Nat /\ MaxNum \in Nat /\ need \in Nat \ {0} /\ curTotal <= MaxNum
  BY PoolAssumption DEF IInv, TypeOK, CountIsRight
<1>3. num \in Nat /\ curTotal + num <= MaxNum
  BY <1>2
<1>4. tasks' \in Seq(Task) /\ accepted' \subseteq Task
  BY <1>1 DEF AddTask, IInv, TypeOK
<1>5. poolWorking /\ closer = "open" /\ closer' = "open" /\ UNCHANGED poolWorking
  BY <1>1 DEF AddTask, IInv, ClosingIsClosed
<1>6. CASE HasWaiter(locker) /\ ~force
  <2>1. locker' \in Sinal(locker) /\ UNCHANGED <<curTotal, pc, isEmpty>>
    BY <1>1, <1>6 DEF AddTask
  <2>2. /\ locker' \in LockerType(Thread) /\ locker'.waiting = locker.waiting
        /\ locker'.asleep \subseteq locker.asleep
        /\ \E t \in Thread : t \in locker'.waiting /\ t \notin locker'.asleep
    BY <1>6, <2>1, SinalKeepsWaiting DEF IInv
  <2>3. TypeOK'
    BY <1>1, <1>4, <2>1, <2>2 DEF AddTask, IInv, TypeOK
  <2>4. CountIsRight' /\ WaitersWait' /\ BusyLooksAgain'
    BY <2>1, <2>2 DEF IInv, CountIsRight, Live, WaitersWait, BusyLooksAgain
  <2>5. TaskHasTaker'
    BY <2>2, <2>4 DEF WaitersWait, TaskHasTaker, WillLook
  <2> QED
    BY <1>5, <2>3, <2>4, <2>5 DEF IInv, ClosingIsClosed, NoneLeft
<1>7. CASE ~HasWaiter(locker) \/ force
  <2>1. CreateThread(num) /\ UNCHANGED <<locker, isEmpty>>
    BY <1>1, <1>7 DEF AddTask
  <2>2. PICK new \in SUBSET Thread :
            /\ \A t \in new : pc[t] = "none"
            /\ num > 0 => new # {}
            /\ pc' = [t \in Thread |-> IF t \in new THEN "test" ELSE pc[t]]
            /\ curTotal' = curTotal + num
            /\ CountIsRight'
    BY <1>3, <2>1, CreateResult DEF IInv
  <2>3. TypeOK'
    <3>1. pc' \in [Thread -> {"none", "test", "lock", "run", "waiting", "leave", "gone"}]
      BY <2>2 DEF IInv, TypeOK
    <3>2. curTotal' \in Nat
      BY <1>2, <1>3, <2>2
    <3> QED
      BY <1>1, <1>4, <2>1, <3>1, <3>2 DEF AddTask, IInv, TypeOK
  <2>4. WaitersWait' /\ BusyLooksAgain'
    BY <2>1, <2>2 DEF IInv, WaitersWait, BusyLooksAgain
  <2>5. ~FullToo => TaskHasTaker'
    <3> SUFFICES ASSUME ~FullToo PROVE \E t \in Thread : WillLook(t)'
      BY DEF TaskHasTaker
    <3>1. num > 0
      BY <1>2, <1>7 DEF Call
    <3>2. PICK t \in Thread : t \in new
      BY <2>2, <3>1
    <3>3. pc'[t] = "test" /\ ~isEmpty'[t]
      BY <2>1, <2>2, <3>2 DEF IInv, BusyLooksAgain
    <3> QED
      BY <3>3 DEF WillLook
  <2> QED
    BY <1>5, <2>2, <2>3, <2>4, <2>5 DEF IInv, ClosingIsClosed, NoneLeft
<1> QED
  BY <1>6, <1>7

(* A step of a thread within ThreadHandler, the last one apart, changes    *)
(* its place and perhaps its copy of isEmpty.                              *)
LEMMA InsideKeepsCount ==
    ASSUME IInv, NEW t \in Thread, pc[t] \notin {"none", "gone"},
           NEW place \in {"test", "lock", "run", "waiting", "leave"},
           pc' = [pc EXCEPT ![t] = place], UNCHANGED curTotal
    PROVE  CountIsRight'
<1>1. Live' = Live
  BY DEF Live, IInv, TypeOK
<1> QED
  BY <1>1 DEF IInv, CountIsRight

(* A closed pool has no thread in ThreadHandler. *)
LEMMA LiveIsNotClosed ==
    ASSUME IInv, NEW t \in Thread, pc[t] \notin {"none", "gone"}
    PROVE  closer # "closed"
BY DEF IInv, NoneLeft

LEMMA TestLoopKeeps ==
    ASSUME IInv, NEW t \in Thread, TestLoop(t)
    PROVE  IInv'
<1>1. /\ pc[t] = "test"
      /\ pc' = [pc EXCEPT ![t] = IF poolWorking \/ ~isEmpty[t] THEN "lock" ELSE "leave"]
      /\ UNCHANGED <<tasks, poolVars, locker, isEmpty, task, accepted, started, closer>>
  BY DEF TestLoop
<1>2. CountIsRight'
  BY <1>1, InsideKeepsCount DEF poolVars
<1>3. TypeOK'
  BY <1>1 DEF IInv, TypeOK, poolVars
<1>4. WaitersWait' /\ BusyLooksAgain'
  BY <1>1 DEF IInv, TypeOK, WaitersWait, BusyLooksAgain
<1>5. TaskHasTaker => TaskHasTaker'
  BY <1>1 DEF IInv, TypeOK, TaskHasTaker, WillLook
<1>6. closer # "closed"
  BY <1>1, LiveIsNotClosed
<1> QED
  BY <1>1, <1>2, <1>3, <1>4, <1>5, <1>6 DEF IInv, poolVars, ClosingIsClosed, NoneLeft

LEMMA TakeTaskKeeps ==
    ASSUME IInv, NEW t \in Thread, TakeTask(t)
    PROVE  IInv'
<1>1. /\ pc[t] = "lock" /\ tasks # <<>>
      /\ pc' = [pc EXCEPT ![t] = "run"]
      /\ isEmpty' = [isEmpty EXCEPT ![t] = FALSE]
      /\ UNCHANGED <<poolVars, locker, accepted, closer>>
  BY DEF TakeTask
<1>2. CountIsRight'
  BY <1>1, InsideKeepsCount DEF poolVars
<1>3. Head(tasks) \in Task /\ tasks' \in Seq(Task)
  BY <1>1 DEF TakeTask, IInv, TypeOK
<1>4. TypeOK'
  BY <1>1, <1>3 DEF IInv, TypeOK, poolVars, TakeTask
<1>5. WaitersWait' /\ BusyLooksAgain'
  BY <1>1 DEF IInv, TypeOK, WaitersWait, BusyLooksAgain
<1>6. TaskHasTaker'
  BY <1>1 DEF IInv, TypeOK, TaskHasTaker, WillLook
<1>7. closer # "closed"
  BY <1>1, LiveIsNotClosed
<1> QED
  BY <1>1, <1>2, <1>4, <1>5, <1>6, <1>7 DEF IInv, poolVars, ClosingIsClosed, NoneLeft

LEMMA RunEndsKeeps ==
    ASSUME IInv, NEW t \in Thread, RunEnds(t)
    PROVE  IInv'
<1>1. /\ pc[t] = "run"
      /\ pc' = [pc EXCEPT ![t] = "test"]
      /\ task' = [task EXCEPT ![t] = NoTask]
      /\ UNCHANGED <<tasks, poolVars, locker, isEmpty, accepted, started, closer>>
  BY DEF RunEnds
<1>2. CountIsRight'
  BY <1>1, InsideKeepsCount DEF poolVars
<1>3. TypeOK'
  BY <1>1 DEF IInv, TypeOK, poolVars
<1>4. WaitersWait' /\ BusyLooksAgain'
  BY <1>1 DEF IInv, TypeOK, WaitersWait, BusyLooksAgain
<1>5. TaskHasTaker'
  BY <1>1 DEF IInv, TypeOK, BusyLooksAgain, TaskHasTaker, WillLook
<1>6. closer # "closed"
  BY <1>1, LiveIsNotClosed
<1> QED
  BY <1>1, <1>2, <1>3, <1>4, <1>5, <1>6 DEF IInv, poolVars, ClosingIsClosed, NoneLeft

(* What the two ends of DeadWait do to the locker. *)
LEMMA WaitResult ==
    ASSUME TypeOK, NEW t \in Thread
    PROVE  /\ Sleep(locker, t) \in LockerType(Thread)
           /\ Sleep(locker, t).waiting = locker.waiting \cup {t}
           /\ Sleep(locker, t).asleep = locker.asleep \cup {t}
           /\ LeaveDeadWait(locker, t) \in LockerType(Thread)
           /\ LeaveDeadWait(locker, t).waiting = locker.waiting \ {t}
           /\ LeaveDeadWait(locker, t).asleep = locker.asleep
<1>1. locker \in LockerType(Thread)
  BY DEF TypeOK
<1>2. Sleep(locker, t) \in LockerType(Thread) /\ LeaveDeadWait(locker, t) \in LockerType(Thread)
  BY <1>1, LockerCalls
<1> QED
  BY <1>1, <1>2 DEF LockerType, Sleep, LeaveDeadWait

LEMMA DeadWaitKeeps ==
    ASSUME IInv, NEW t \in Thread, DeadWait(t)
    PROVE  IInv'
<1>1. /\ pc[t] = "lock" /\ tasks = <<>>
      /\ UNCHANGED <<tasks, poolVars, task, accepted, started, closer>>
  BY DEF DeadWait
<1>2. closer # "closed"
  BY <1>1, LiveIsNotClosed
<1>3. TaskHasTaker'
  BY <1>1 DEF TaskHasTaker
<1>4. CASE locker.isSinal
  <2>1. /\ locker' = LeaveDeadWait(locker, t)
        /\ pc' = [pc EXCEPT ![t] = "test"]
        /\ isEmpty' = [isEmpty EXCEPT ![t] = TRUE]
    BY <1>4 DEF DeadWait
  <2>2. CountIsRight'
    BY <1>1, <2>1, InsideKeepsCount DEF poolVars
  <2>3. TypeOK'
    BY <1>1, <2>1, WaitResult DEF IInv, TypeOK, poolVars
  <2>4. WaitersWait' /\ BusyLooksAgain'
    BY <1>1, <2>1, WaitResult DEF IInv, TypeOK, WaitersWait, BusyLooksAgain
  <2> QED
    BY <1>1, <1>2, <1>3, <2>2, <2>3, <2>4 DEF IInv, poolVars, ClosingIsClosed, NoneLeft
<1>5. CASE ~locker.isSinal
  <2>1. /\ locker' = Sleep(locker, t)
        /\ pc' = [pc EXCEPT ![t] = "waiting"]
        /\ UNCHANGED isEmpty
    BY <1>5 DEF DeadWait
  <2>2. CountIsRight'
    BY <1>1, <2>1, InsideKeepsCount DEF poolVars
  <2>3. TypeOK'
    BY <1>1, <2>1, WaitResult DEF IInv, TypeOK, poolVars
  <2>4. WaitersWait' /\ BusyLooksAgain'
    BY <1>1, <2>1, WaitResult DEF IInv, TypeOK, WaitersWait, BusyLooksAgain
  <2> QED
    BY <1>1, <1>2, <1>3, <2>2, <2>3, <2>4 DEF IInv, poolVars, ClosingIsClosed, NoneLeft
<1> QED
  BY <1>4, <1>5

LEMMA ReturnFromWaitKeeps ==
    ASSUME IInv, NEW t \in Thread, ReturnFromWait(t)
    PROVE  IInv'
<1>1. /\ pc[t] = "waiting" /\ t \notin locker.asleep
      /\ locker' = LeaveDeadWait(locker, t)
      /\ pc' = [pc EXCEPT ![t] = "test"]
      /\ isEmpty' = [isEmpty EXCEPT ![t] = (tasks = <<>>)]
      /\ UNCHANGED <<tasks, poolVars, task, accepted, started, closer>>
  BY DEF ReturnFromWait
<1>2. CountIsRight'
  BY <1>1, InsideKeepsCount DEF poolVars
<1>3. (tasks = <<>>) \in BOOLEAN
  OBVIOUS
<1>4. TypeOK'
  BY <1>1, <1>3, WaitResult DEF IInv, TypeOK, poolVars
<1>5. WaitersWait' /\ BusyLooksAgain'
  BY <1>1, WaitResult DEF IInv, TypeOK, WaitersWait, BusyLooksAgain
<1>6. TaskHasTaker'
  BY <1>1 DEF IInv, TypeOK, TaskHasTaker, WillLook
<1>7. closer # "closed"
  BY <1>1, LiveIsNotClosed
<1> QED
  BY <1>1, <1>2, <1>4, <1>5, <1>6, <1>7 DEF IInv, poolVars, ClosingIsClosed, NoneLeft

LEMMA SpuriousWakeUpKeeps ==
    ASSUME IInv, NEW t \in Thread, SpuriousWakeUp(t)
    PROVE  IInv'
<1>1. locker' = WakeUp(locker, t)
      /\ UNCHANGED <<tasks, poolVars, threadVars, accepted, started, closer>>
  BY DEF SpuriousWakeUp
<1>2. locker \in LockerType(Thread)
  BY DEF IInv, TypeOK
<1>3. /\ locker' \in LockerType(Thread)
      /\ locker'.waiting = locker.waiting /\ locker'.asleep = locker.asleep \ {t}
  BY <1>1, <1>2, LockerCalls DEF LockerType, WakeUp
<1>4. TypeOK' /\ CountIsRight'
  BY <1>1, <1>3 DEF IInv, TypeOK, CountIsRight, Live, poolVars, threadVars
<1>5. WaitersWait' /\ BusyLooksAgain'
  BY <1>1, <1>3 DEF IInv, WaitersWait, BusyLooksAgain, threadVars
<1>6. TaskHasTaker => TaskHasTaker'
  BY <1>1, <1>3 DEF TaskHasTaker, WillLook, threadVars
<1> QED
  BY <1>1, <1>4, <1>5, <1>6 DEF IInv, poolVars, threadVars, ClosingIsClosed, NoneLeft

LEMMA LeaveKeeps ==
    ASSUME IInv, NEW t \in Thread, Leave(t)
    PROVE  IInv'
<1>1. /\ pc[t] = "leave"
      /\ pc' = [pc EXCEPT ![t] = "gone"]
      /\ curTotal' = curTotal - 1
      /\ locker' \in Sinal(locker) \/ locker' = locker
      /\ UNCHANGED <<tasks, poolWorking, stopAdding, isEmpty, task, accepted, started, closer>>
  BY DEF Leave
<1>2. t \in Live /\ Live' = Live \ {t}
  BY <1>1 DEF Live, IInv, TypeOK
<1>3. Cardinality(Live') = Cardinality(Live) - 1 /\ Cardinality(Live') \in Nat
  BY <1>2, LiveIsFinite, FS_RemoveElement, FS_CardinalityType, FS_Subset
<1>4. CountIsRight' /\ curTotal' \in Nat
  BY <1>1, <1>3, PoolAssumption DEF IInv, TypeOK, CountIsRight
<1>5. /\ locker' \in LockerType(Thread) /\ locker'.waiting = locker.waiting
      /\ locker'.asleep \subseteq locker.asleep
  BY <1>1, SinalKeepsWaiting DEF IInv, TypeOK
<1>6. TypeOK'
  BY <1>1, <1>4, <1>5 DEF IInv, TypeOK
<1>7. WaitersWait' /\ BusyLooksAgain'
  BY <1>1, <1>5 DEF IInv, TypeOK, WaitersWait, BusyLooksAgain
<1>8. TaskHasTaker => TaskHasTaker'
  BY <1>1, <1>5 DEF IInv, TypeOK, TaskHasTaker, WillLook
<1>9. closer # "closed"
  BY <1>1, LiveIsNotClosed
<1> QED
  BY <1>1, <1>4, <1>6, <1>7, <1>8, <1>9 DEF IInv, ClosingIsClosed, NoneLeft

LEMMA CloserKeeps ==
    ASSUME IInv, BeginClose \/ CloserNext \/ StopAdd \/ EnableAdd
    PROVE  IInv'
<1>1. /\ UNCHANGED <<tasks, curTotal, threadVars, accepted, started>>
      /\ locker' \in Sinal(locker) \/ locker' = locker
  BY DEF BeginClose, CloserNext, SignalThreads, CheckThreads, StopAdd, EnableAdd, poolVars
<1>2. /\ locker' \in LockerType(Thread) /\ locker'.waiting = locker.waiting
      /\ locker'.asleep \subseteq locker.asleep
  BY <1>1, SinalKeepsWaiting DEF IInv, TypeOK
<1>3. /\ poolWorking' \in BOOLEAN /\ stopAdding' \in BOOLEAN
      /\ closer' \in {"open", "signal", "check", "closed"}
      /\ closer' # "open" => ~poolWorking'
  <2>1. CASE BeginClose
    BY <2>1 DEF BeginClose
  <2>2. CASE SignalThreads
    BY <2>2 DEF SignalThreads, poolVars, IInv, TypeOK, ClosingIsClosed
  <2>3. CASE CheckThreads
    BY <2>3 DEF CheckThreads, poolVars, IInv, TypeOK, ClosingIsClosed
  <2>4. CASE StopAdd
    BY <2>4 DEF StopAdd, IInv, TypeOK, ClosingIsClosed
  <2>5. CASE EnableAdd
    BY <2>5 DEF EnableAdd, IInv, TypeOK, ClosingIsClosed
  <2> QED
    BY <2>1, <2>2, <2>3, <2>4, <2>5 DEF CloserNext
<1>4. TypeOK' /\ CountIsRight'
  BY <1>1, <1>2, <1>3 DEF IInv, TypeOK, CountIsRight, Live, threadVars
<1>5. WaitersWait' /\ BusyLooksAgain'
  BY <1>1, <1>2 DEF IInv, WaitersWait, BusyLooksAgain, threadVars
<1>6. TaskHasTaker => TaskHasTaker'
  BY <1>1, <1>2 DEF TaskHasTaker, WillLook, threadVars
<1>7. NoneLeft'
  <2> SUFFICES ASSUME closer' = "closed"
               PROVE  tasks = <<>> /\ \A t \in Thread : pc[t] \in {"none", "gone"}
    BY <1>1 DEF NoneLeft, threadVars
  <2>1. CASE closer = "closed"
    BY <2>1 DEF IInv, NoneLeft
  <2>2. CASE closer # "closed"
    <3>1. tasks = <<>> /\ curTotal = 0
      BY <2>2 DEF BeginClose, CloserNext, SignalThreads, CheckThreads, StopAdd, EnableAdd
    <3>2. Live = {}
      BY <3>1, LiveIsFinite, FS_EmptySet DEF IInv, CountIsRight
    <3> QED
      BY <3>1, <3>2 DEF Live
  <2> QED
    BY <2>1, <2>2
<1> QED
  BY <1>3, <1>4, <1>5, <1>6, <1>7 DEF IInv, ClosingIsClosed

LEMMA StepIInv == IInv /\ [Next]_vars => IInv'
<1> SUFFICES ASSUME IInv, [Next]_vars PROVE IInv'
  OBVIOUS
<1>1. ASSUME NEW t \in Thread, ThreadNext(t) \/ SpuriousWakeUp(t) PROVE IInv'
  BY <1>1, TestLoopKeeps, TakeTaskKeeps, RunEndsKeeps, DeadWaitKeeps, ReturnFromWaitKeeps,
     LeaveKeeps, SpuriousWakeUpKeeps DEF ThreadNext
<1>2. CASE UNCHANGED vars
  BY <1>2
  DEF IInv, TypeOK, vars, poolVars, threadVars, CountIsRight, Live, WaitersWait,
      BusyLooksAgain, ClosingIsClosed, NoneLeft, TaskHasTaker, WillLook
<1> QED
  BY <1>1, <1>2, AddTaskKeeps, CloserKeeps DEF Next

THEOREM Invariance == Spec => []IInv
<1>1. Init => IInv
  BY InitIInv
<1>2. IInv /\ [Next]_vars => IInv'
  BY StepIInv
<1> QED
  BY <1>1, <1>2, PTL DEF Spec

(* The variables keep their types; that the count of threads never goes    *)
(* below 0 is part of it.                                                  *)
THEOREM TypeCorrect == Spec => []TypeOK
<1>1. IInv => TypeOK
  BY DEF IInv
<1> QED
  BY <1>1, Invariance, PTL

-----------------------------------------------------------------------------
(* Tasks. *)

(* The list holds a task once, an accepted one.  A task was run once if it *)
(* was accepted and is no longer in the list, and never otherwise.         *)
InList(k) == \E i \in 1 .. Len(tasks) : tasks[i] = k

TasksOnce ==
    /\ \A i, j \in 1 .. Len(tasks) : tasks[i] = tasks[j] => i = j
    /\ \A k \in Task : InList(k) => k \in accepted
    /\ \A k \in Task : started[k] = IF k \in accepted /\ ~InList(k) THEN 1 ELSE 0

LEMMA AddTaskOnce ==
    ASSUME TypeOK, TasksOnce, NEW k \in Task, k \notin accepted,
           tasks' = Append(tasks, k), accepted' = accepted \cup {k}, started' = started
    PROVE  TasksOnce'
<1>1. PICK q, r : q = tasks /\ r = tasks'
  OBVIOUS
<1>2. /\ q \in Seq(Task) /\ Len(q) \in Nat /\ Len(r) = Len(q) + 1
      /\ r[Len(q) + 1] = k /\ \A i \in 1 .. Len(q) : r[i] = q[i]
  BY <1>1 DEF TypeOK
<1>3. \A i \in 1 .. Len(r) : i = Len(q) + 1 \/ i \in 1 .. Len(q)
  BY <1>2
<1>4. \A i \in 1 .. Len(q) : i \in 1 .. Len(r) /\ q[i] # k
  BY <1>1, <1>2 DEF TasksOnce, InList
<1>5. Len(q) + 1 \in 1 .. Len(r)
  BY <1>2
<1>6. \A i, j \in 1 .. Len(r) : r[i] = r[j] => i = j
  BY <1>1, <1>2, <1>3, <1>4 DEF TasksOnce
<1>7. \A x \in Task : InList(x)' <=> (InList(x) \/ x = k)
  BY <1>1, <1>2, <1>3, <1>4, <1>5 DEF InList
<1>8. \A x \in Task : InList(x)' => x \in accepted'
  BY <1>7 DEF TasksOnce
<1>9. ASSUME NEW x \in Task
      PROVE  started'[x] = IF x \in accepted' /\ ~InList(x)' THEN 1 ELSE 0
  <2>1. CASE x = k
    BY <1>7, <2>1 DEF TasksOnce
  <2>2. CASE x # k
    BY <1>7, <2>2 DEF TasksOnce
  <2> QED
    BY <2>1, <2>2
<1> QED
  BY <1>1, <1>6, <1>8, <1>9 DEF TasksOnce

LEMMA TakeTaskOnce ==
    ASSUME TypeOK, TasksOnce, NEW t \in Thread, TakeTask(t)
    PROVE  TasksOnce'
<1>1. PICK q, r, k : q = tasks /\ r = tasks' /\ k = Head(q)
  OBVIOUS
<1>2. /\ q \in Seq(Task) /\ q # <<>> /\ r = Tail(q)
      /\ started' = [started EXCEPT ![k] = @ + 1] /\ accepted' = accepted
  BY <1>1 DEF TakeTask, TypeOK
<1>3. /\ Len(q) \in Nat /\ Len(r) = Len(q) - 1 /\ k = q[1] /\ k \in Task
      /\ 1 \in 1 .. Len(q) /\ \A i \in 1 .. Len(r) : r[i] = q[i + 1]
  BY <1>1, <1>2
<1>4. \A i \in 1 .. Len(r) : i + 1 \in 1 .. Len(q) /\ i + 1 # 1
  BY <1>3
<1>5. \A i \in 1 .. Len(q) : i = 1 \/ (i - 1 \in 1 .. Len(r) /\ r[i - 1] = q[i])
  <2> SUFFICES ASSUME NEW i \in 1 .. Len(q), i # 1 PROVE i - 1 \in 1 .. Len(r) /\ r[i - 1] = q[i]
    OBVIOUS
  <2>1. i - 1 \in 1 .. Len(r) /\ (i - 1) + 1 = i
    BY <1>3
  <2> QED
    BY <1>3, <2>1
<1>6. \A i, j \in 1 .. Len(q) : q[i] = q[j] => i = j
  BY <1>1 DEF TasksOnce
<1>7. \A i, j \in 1 .. Len(r) : r[i] = r[j] => i = j
  <2> SUFFICES ASSUME NEW i \in 1 .. Len(r), NEW j \in 1 .. Len(r), r[i] = r[j] PROVE i = j
    OBVIOUS
  <2>1. i + 1 = j + 1
    BY <1>3, <1>4, <1>6
  <2> QED
    BY <1>3, <2>1
<1>8. \A x \in Task : InList(x)' <=> (InList(x) /\ x # k)
  <2> SUFFICES ASSUME NEW x \in Task
               PROVE  (\E i \in 1 .. Len(r) : r[i] = x) <=> ((\E i \in 1 .. Len(q) : q[i] = x) /\ x # k)
    BY <1>1 DEF InList
  <2>1. ASSUME NEW i \in 1 .. Len(r), r[i] = x PROVE (\E j \in 1 .. Len(q) : q[j] = x) /\ x # k
    BY <1>3, <1>4, <1>6, <2>1
  <2>2. ASSUME NEW i \in 1 .. Len(q), q[i] = x, x # k PROVE \E j \in 1 .. Len(r) : r[j] = x
    BY <1>3, <1>5, <2>2
  <2> QED
    BY <2>1, <2>2
<1>9. InList(k) /\ k \in accepted
  BY <1>1, <1>3 DEF InList, TasksOnce
<1>10. ASSUME NEW x \in Task
       PROVE  started'[x] = IF x \in accepted' /\ ~InList(x)' THEN 1 ELSE 0
  <2>1. CASE x = k
    <3>1. started[k] = 0
      BY <1>3, <1>9 DEF TasksOnce
    <3>2. started'[k] = 1
      BY <1>2, <1>3, <3>1 DEF TypeOK
    <3> QED
      BY <1>2, <1>8, <1>9, <2>1, <3>2
  <2>2. CASE x # k
    <3>1. started'[x] = started[x]
      BY <1>2, <2>2 DEF TypeOK
    <3> QED
      BY <1>2, <1>8, <2>2, <3>1 DEF TasksOnce
  <2> QED
    BY <2>1, <2>2
<1>11. \A x \in Task : InList(x)' => x \in accepted'
  BY <1>2, <1>8 DEF TasksOnce
<1> QED
  BY <1>1, <1>7, <1>10, <1>11 DEF TasksOnce

(* The other steps leave list, accepted tasks and runs alone.              *)
LEMMA StepOnce == TypeOK /\ TasksOnce /\ [Next]_vars => TasksOnce'
<1> SUFFICES ASSUME TypeOK, TasksOnce, [Next]_vars PROVE TasksOnce'
  OBVIOUS
<1>1. ASSUME UNCHANGED <<tasks, accepted, started>> PROVE TasksOnce'
  BY <1>1 DEF TasksOnce, InList
<1>2. ASSUME NEW k \in Task, NEW force \in BOOLEAN, NEW need \in Requests, Call(k, force, need)
      PROVE  TasksOnce'
  BY <1>2, AddTaskOnce DEF Call, AddTask
<1>3. ASSUME NEW t \in Thread, ThreadNext(t) \/ SpuriousWakeUp(t) PROVE TasksOnce'
  <2>1. CASE TakeTask(t)
    BY <2>1, TakeTaskOnce
  <2>2. CASE ~TakeTask(t)
    <3>1. UNCHANGED <<tasks, accepted, started>>
      BY <1>3, <2>2 DEF ThreadNext, TestLoop, RunEnds, DeadWait, ReturnFromWait, Leave, SpuriousWakeUp
    <3> QED
      BY <1>1, <3>1
  <2> QED
    BY <2>1, <2>2
<1>4. CASE StopAdd \/ EnableAdd \/ BeginClose \/ CloserNext \/ UNCHANGED vars
  <2>1. UNCHANGED <<tasks, accepted, started>>
    BY <1>4 DEF StopAdd, EnableAdd, BeginClose, CloserNext, SignalThreads, CheckThreads, vars
  <2> QED
    BY <1>1, <2>1
<1> QED
  BY <1>2, <1>3, <1>4 DEF Next

(* A task AddTask took waits in the list, once, or was run, once; no other *)
(* task is ever run, if callers add a task once as they are asked to.      *)
THEOREM EachTaskOnce == Spec => []TasksOnce
<1>1. Init => TasksOnce
  <2> SUFFICES ASSUME Init PROVE TasksOnce
    OBVIOUS
  <2>1. Len(tasks) = 0 /\ 1 .. 0 = {} /\ accepted = {} /\ \A k \in Task : started[k] = 0
    BY DEF Init
  <2> QED
    BY <2>1 DEF TasksOnce, InList
<1>2. TypeOK /\ TasksOnce /\ [Next]_vars => TasksOnce'
  BY StepOnce
<1> QED
  BY <1>1, <1>2, TypeCorrect, PTL DEF Spec

(* When Close returns, no thread is left in ThreadHandler and every task   *)
(* that was accepted was run, once: the pool may be deleted.               *)
THEOREM QuietWhenClosed == Spec => []ClosedIsQuiet
<1>1. IInv /\ TasksOnce => ClosedIsQuiet
  <2> SUFFICES ASSUME IInv, TasksOnce, closer = "closed"
               PROVE  /\ tasks = <<>> /\ \A t \in Thread : pc[t] \in {"none", "gone"}
                      /\ \A k \in accepted : started[k] = 1
    BY DEF ClosedIsQuiet
  <2>1. tasks = <<>> /\ \A t \in Thread : pc[t] \in {"none", "gone"}
    BY DEF IInv, NoneLeft
  <2>2. \A k : ~InList(k)
    <3>1. Len(tasks) = 0 /\ 1 .. 0 = {}
      BY <2>1
    <3> QED
      BY <3>1 DEF InList
  <2>3. \A k \in accepted : k \in Task
    BY DEF IInv, TypeOK
  <2> QED
    BY <2>1, <2>2, <2>3 DEF TasksOnce
<1> QED
  BY <1>1, EachTaskOnce, Invariance, PTL

(* While tasks wait, a thread is certain to look at the list, if callers   *)
(* do not add a task that needs a thread to a full pool.                   *)
THEOREM NoTaskForgotten == ~FullToo => (Spec => []TaskHasTaker)
<1> SUFFICES ASSUME ~FullToo PROVE Spec => []TaskHasTaker
  OBVIOUS
<1>1. IInv => TaskHasTaker
  BY DEF IInv
<1> QED
  BY <1>1, Invariance, PTL
=============================================================================
