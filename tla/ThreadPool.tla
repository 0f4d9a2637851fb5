------------------------------ MODULE ThreadPool ------------------------------
(***************************************************************************)
(* FS_ThreadPool (FS_ThreadPool.cpp): a list of tasks, threads that take   *)
(* them, and one condition variable, in its Linux build.  Every thread of  *)
(* the framework runs in such a pool, most of them one task that goes on   *)
(* while IsPoolWorking.                                                    *)
(*                                                                         *)
(* A section under the pool's mutex is one action.  A thread reads         *)
(* _isDestroy, an atomic, outside of it: that test is a step of its own.   *)
(* _waitNum counts the threads between the two ends of DeadWait, which are *)
(* the locker's waiting threads.                                           *)
(***************************************************************************)
EXTENDS Naturals, Sequences, FiniteSets, ConditionLocker

CONSTANTS
    Task,        \* each is added once ("deliver one task once only", FS_ThreadPool.h:62)
    NoTask,
    Endless,     \* tasks that run while IsPoolWorking
    Thread,      \* bound: the threads the system can give the pool
    MaxNum,      \* _maxNum
    Requests,    \* the numOfThreadToCreateIfNeed callers pass
    FullToo      \* do callers add a task that needs a thread to a full pool?

ASSUME PoolAssumption ==
    /\ Endless \subseteq Task /\ NoTask \notin Task
    /\ IsFiniteSet(Thread)
    /\ MaxNum \in Nat
    /\ Requests \subseteq Nat \ {0}
    /\ FullToo \in BOOLEAN

VARIABLES
    tasks,        \* _tasks
    curTotal,     \* _curTotalNum
    poolWorking,  \* _isPoolWorking; _isDestroy is its opposite
    stopAdding,   \* _isStopAddingTask
    locker,       \* _locker
    pc,           \* where a thread is in ThreadHandler
    isEmpty,      \* its local of that name
    task,         \* the task it runs
    accepted,     \* tasks AddTask took
    started,      \* how often a task was run
    closer        \* where the thread in Close is

threadVars == <<pc, isEmpty, task>>
poolVars == <<curTotal, poolWorking, stopAdding>>
vars == <<tasks, poolVars, locker, threadVars, accepted, started, closer>>

TypeOK ==
    /\ tasks \in Seq(Task)
    /\ curTotal \in Nat
    /\ poolWorking \in BOOLEAN /\ stopAdding \in BOOLEAN
    /\ locker \in LockerType(Thread)
    /\ pc \in [Thread -> {"none", "test", "lock", "run", "waiting", "leave", "gone"}]
    /\ isEmpty \in [Thread -> BOOLEAN]
    /\ task \in [Thread -> Task \cup {NoTask}]
    /\ accepted \subseteq Task
    /\ started \in [Task -> Nat]
    /\ closer \in {"open", "signal", "check", "closed"}

Init ==
    /\ tasks = <<>> /\ curTotal = 0
    /\ poolWorking = TRUE /\ stopAdding = FALSE
    /\ locker = NewLocker
    /\ pc = [t \in Thread |-> "none"]
    /\ isEmpty = [t \in Thread |-> FALSE]
    /\ task = [t \in Thread |-> NoTask]
    /\ accepted = {} /\ started = [k \in Task |-> 0]
    /\ closer = "open"

-----------------------------------------------------------------------------
(* Mutant of CreateThread: the thread is not counted. *)
CreateThread_NotCounted(num) ==
    IF num = 0 THEN UNCHANGED <<curTotal, pc>>
    ELSE \E new \in SUBSET {t \in Thread : pc[t] = "none"} :
            /\ Cardinality(new) = num
            /\ pc' = [t \in Thread |-> IF t \in new THEN "test" ELSE pc[t]]
            /\ UNCHANGED curTotal

(* _CreateThread: a new thread begins with isEmpty false.  pthread_create  *)
(* succeeds: its failure, which AddTask does not look at, is left out.     *)
CreateThread(num) ==
    IF num = 0 THEN UNCHANGED <<curTotal, pc>>
    ELSE \E new \in SUBSET {t \in Thread : pc[t] = "none"} :
            /\ Cardinality(new) = num
            /\ curTotal' = curTotal + num
            /\ pc' = [t \in Thread |-> IF t \in new THEN "test" ELSE pc[t]]

(* Mutant of AddTask: the waiting thread is not signalled. *)
AddTask_NoSinal(k, force, need) ==
    LET left == MaxNum - curTotal
        num == IF left > need THEN need ELSE left
    IN  /\ poolWorking /\ ~stopAdding
        /\ tasks' = Append(tasks, k)
        /\ \/ /\ HasWaiter(locker) /\ ~force
              /\ UNCHANGED <<curTotal, pc>>
           \/ /\ ~HasWaiter(locker) \/ force
              /\ CreateThread(num)
        /\ accepted' = accepted \cup {k}
        /\ UNCHANGED <<poolWorking, stopAdding, locker, isEmpty, task, started, closer>>

(* A thread that waits is signalled, unless the caller forces a new one;   *)
(* "waits" includes threads that are signalled already.  Otherwise         *)
(* numOfThreadToCreateIfNeed is cut to what the pool may still have, which *)
(* makes the test against _maxNum that follows succeed in a full pool too. *)
AddTask(k, force, need) ==
    LET left == MaxNum - curTotal
        num == IF left > need THEN need ELSE left
    IN  /\ poolWorking /\ ~stopAdding
        /\ tasks' = Append(tasks, k)
        /\ \/ /\ HasWaiter(locker) /\ ~force
              /\ locker' \in Sinal(locker)
              /\ UNCHANGED <<curTotal, pc>>
           \/ /\ ~HasWaiter(locker) \/ force
              /\ curTotal + num <= MaxNum
              /\ CreateThread(num)
              /\ UNCHANGED locker
        /\ accepted' = accepted \cup {k}
        /\ UNCHANGED <<poolWorking, stopAdding, isEmpty, task, started, closer>>

(* How the framework calls it: a task that does not end is given a thread  *)
(* of its own (the leak monitor adds its unforced, the only one of its     *)
(* pool), and pools are made as large as their tasks need.                 *)
Call(k, force, need) ==
    /\ k \notin accepted
    /\ k \in Endless => force
    /\ FullToo \/ curTotal < MaxNum \/ (HasWaiter(locker) /\ ~force)
    /\ AddTask(k, force, need)

StopAdd ==
    /\ ~stopAdding
    /\ stopAdding' = TRUE
    /\ UNCHANGED <<tasks, curTotal, poolWorking, locker, threadVars, accepted, started, closer>>

EnableAdd ==
    /\ stopAdding
    /\ stopAdding' = FALSE
    /\ UNCHANGED <<tasks, curTotal, poolWorking, locker, threadVars, accepted, started, closer>>

-----------------------------------------------------------------------------
(* ThreadHandler. *)
(* Mutant of TestLoop: a thread leaves as soon as the pool is destroyed. *)
TestLoop_DestroyOnly(t) ==
    /\ pc[t] = "test"
    /\ pc' = [pc EXCEPT ![t] = IF poolWorking THEN "lock" ELSE "leave"]
    /\ UNCHANGED <<tasks, poolVars, locker, isEmpty, task, accepted, started, closer>>

TestLoop(t) ==
    /\ pc[t] = "test"
    /\ pc' = [pc EXCEPT ![t] = IF poolWorking \/ ~isEmpty[t] THEN "lock" ELSE "leave"]
    /\ UNCHANGED <<tasks, poolVars, locker, isEmpty, task, accepted, started, closer>>

TakeTask(t) ==
    /\ pc[t] = "lock" /\ tasks # <<>>
    /\ pc' = [pc EXCEPT ![t] = "run"]
    /\ isEmpty' = [isEmpty EXCEPT ![t] = FALSE]
    /\ task' = [task EXCEPT ![t] = Head(tasks)]
    /\ tasks' = Tail(tasks)
    /\ started' = [started EXCEPT ![Head(tasks)] = @ + 1]
    /\ UNCHANGED <<poolVars, locker, accepted, closer>>

RunEnds(t) ==
    /\ pc[t] = "run"
    /\ task[t] \in Endless => ~poolWorking
    /\ pc' = [pc EXCEPT ![t] = "test"]
    /\ task' = [task EXCEPT ![t] = NoTask]
    /\ UNCHANGED <<tasks, poolVars, locker, isEmpty, accepted, started, closer>>

(* DeadWait returns at once when the signal flag is up. *)
DeadWait(t) ==
    /\ pc[t] = "lock" /\ tasks = <<>>
    /\ \/ /\ locker.isSinal
          /\ locker' = LeaveDeadWait(locker, t)
          /\ pc' = [pc EXCEPT ![t] = "test"]
          /\ isEmpty' = [isEmpty EXCEPT ![t] = TRUE]
       \/ /\ ~locker.isSinal
          /\ locker' = Sleep(locker, t)
          /\ pc' = [pc EXCEPT ![t] = "waiting"]
          /\ UNCHANGED isEmpty
    /\ UNCHANGED <<tasks, poolVars, task, accepted, started, closer>>

(* Mutant of ReturnFromWait: isEmpty is not looked up again. *)
ReturnFromWait_AssumesEmpty(t) ==
    /\ pc[t] = "waiting" /\ t \notin locker.asleep
    /\ locker' = LeaveDeadWait(locker, t)
    /\ pc' = [pc EXCEPT ![t] = "test"]
    /\ isEmpty' = [isEmpty EXCEPT ![t] = TRUE]
    /\ UNCHANGED <<tasks, poolVars, task, accepted, started, closer>>

ReturnFromWait(t) ==
    /\ pc[t] = "waiting" /\ t \notin locker.asleep
    /\ locker' = LeaveDeadWait(locker, t)
    /\ pc' = [pc EXCEPT ![t] = "test"]
    /\ isEmpty' = [isEmpty EXCEPT ![t] = (tasks = <<>>)]
    /\ UNCHANGED <<tasks, poolVars, task, accepted, started, closer>>

SpuriousWakeUp(t) ==
    /\ t \in locker.asleep
    /\ locker' = WakeUp(locker, t)
    /\ UNCHANGED <<tasks, poolVars, threadVars, accepted, started, closer>>

Leave(t) ==
    /\ pc[t] = "leave"
    /\ pc' = [pc EXCEPT ![t] = "gone"]
    /\ curTotal' = curTotal - 1
    /\ IF curTotal' = 0 THEN locker' \in Sinal(locker) ELSE UNCHANGED locker
    /\ UNCHANGED <<tasks, poolWorking, stopAdding, isEmpty, task, accepted, started, closer>>

-----------------------------------------------------------------------------
(* Close: the flags, then a signal and a look, over and over.  (ResetSinal, *)
(* called at the end, does nothing in the Linux build.)                    *)
BeginClose ==
    /\ closer = "open"
    /\ closer' = "signal"
    /\ poolWorking' = FALSE /\ stopAdding' = TRUE
    /\ UNCHANGED <<tasks, curTotal, locker, threadVars, accepted, started>>

SignalThreads ==
    /\ closer = "signal"
    /\ closer' = "check"
    /\ locker' \in Sinal(locker)
    /\ UNCHANGED <<tasks, poolVars, threadVars, accepted, started>>

(* Mutant of CheckThreads: an empty list is enough. *)
CheckThreads_ListOnly ==
    /\ closer = "check"
    /\ closer' = IF tasks = <<>> THEN "closed" ELSE "signal"
    /\ UNCHANGED <<tasks, poolVars, locker, threadVars, accepted, started>>

CheckThreads ==
    /\ closer = "check"
    /\ closer' = IF tasks = <<>> /\ curTotal = 0 THEN "closed" ELSE "signal"
    /\ UNCHANGED <<tasks, poolVars, locker, threadVars, accepted, started>>

-----------------------------------------------------------------------------
ThreadNext(t) == TestLoop(t) \/ TakeTask(t) \/ RunEnds(t) \/ DeadWait(t) \/ ReturnFromWait(t) \/ Leave(t)

CloserNext == SignalThreads \/ CheckThreads

Next ==
    \/ \E k \in Task, force \in BOOLEAN, need \in Requests : Call(k, force, need)
    \/ StopAdd \/ EnableAdd
    \/ \E t \in Thread : ThreadNext(t) \/ SpuriousWakeUp(t)
    \/ BeginClose \/ CloserNext

Spec == Init /\ [][Next]_vars

FairSpec ==
    /\ Spec
    /\ \A t \in Thread : WF_vars(ThreadNext(t))
    /\ WF_vars(CloserNext)

-----------------------------------------------------------------------------
(* A thread that is certain to look at the list again (if it runs an       *)
(* endless task, once the pool is closed).                                 *)
WillLook(t) ==
    \/ pc[t] \in {"lock", "run"}
    \/ pc[t] = "test" /\ ~isEmpty[t]
    \/ pc[t] = "waiting" /\ t \notin locker.asleep

(* No accepted task is forgotten: while tasks are in the list, one thread  *)
(* is certain to look at it, even if the pool is closed this moment.  (A   *)
(* full pool whose threads all sleep takes a task and tells nobody, so     *)
(* this is for callers that keep to the limit.)                            *)
TaskHasTaker == tasks # <<>> => \E t \in Thread : WillLook(t)

(* Close returns to a caller who deletes the pool: by then every thread    *)
(* has left its loop, and every task AddTask took was run, once.           *)
ClosedIsQuiet ==
    closer = "closed" => /\ tasks = <<>>
                         /\ \A t \in Thread : pc[t] \in {"none", "gone"}
                         /\ \A k \in accepted : started[k] = 1

(* A task AddTask took is run: an endless one because it was given a       *)
(* thread ("one thread of its own per log file", FS_Log.cpp:151), another  *)
(* one although it may be queued behind endless ones.                      *)
AcceptedStarts == \A k \in Task : (k \in accepted) ~> (started[k] > 0)

(* Close returns, whatever flags and threads are left when it begins.      *)
CloseCompletes == (closer = "signal") ~> (closer = "closed")
=============================================================================
