--------------------------- MODULE ConditionLocker ---------------------------
(***************************************************************************)
(* The condition variable every queue and the thread pool are built on:    *)
(* frame/src/common/asyn/Lock/Impl/ConditionLocker.cpp, the Linux build    *)
(* (a pthread mutex, a pthread condition and two atomics).                 *)
(*                                                                         *)
(* One locker is a record; the module holds what each call does to it, so  *)
(* that a component with many lockers keeps them in a function.  The mutex *)
(* itself is not here: a component that needs a critical section split in  *)
(* two steps keeps its holder, the others make the section one action.     *)
(*                                                                         *)
(*   isSinal  the _isSinal flag                                            *)
(*   waiting  the threads _waitCnt counts: between ++_waitCnt and          *)
(*            --_waitCnt (woken threads wait for the mutex in between)     *)
(*   asleep   those of them that are inside pthread_cond_wait/timedwait    *)
(***************************************************************************)
EXTENDS FiniteSets

LockerType(Thread) == [isSinal : BOOLEAN, waiting : SUBSET Thread, asleep : SUBSET Thread]

NewLocker == [isSinal |-> FALSE, waiting |-> {}, asleep |-> {}]

HasWaiter(l) == l.waiting # {}

(* Wait and DeadWait up to the call that releases the mutex and sleeps. *)
Sleep(l, t) == [l EXCEPT !.waiting = @ \cup {t}, !.asleep = @ \cup {t}]

(* The thread t leaves pthread_cond_(timed)wait: a timeout, or a wake-up   *)
(* POSIX allows without a signal.  A signal does it through Sinal below.   *)
WakeUp(l, t) == [l EXCEPT !.asleep = @ \ {t}]

(* What is left of Wait(milliSecond) once the mutex is held again: the     *)
(* timed wait neither tests _isSinal nor clears it.                        *)
LeaveWait(l, t) == [l EXCEPT !.waiting = @ \ {t}]

(* What is left of DeadWait: the flag is consumed.                         *)
LeaveDeadWait(l, t) == [l EXCEPT !.waiting = @ \ {t}, !.isSinal = FALSE]

(* pthread_cond_signal wakes one sleeper if there is one; then the flag    *)
(* is raised, whether or not anybody slept.                                *)
Sinal(l) ==
    IF l.asleep = {}
    THEN {[l EXCEPT !.isSinal = TRUE]}
    ELSE {[l EXCEPT !.isSinal = TRUE, !.asleep = @ \ {t}] : t \in l.asleep}

(* pthread_cond_broadcast wakes the sleepers and leaves the flag alone.    *)
Broadcast(l) == [l EXCEPT !.asleep = {}]
=============================================================================
