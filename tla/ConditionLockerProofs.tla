------------------------ MODULE ConditionLockerProofs ------------------------
(***************************************************************************)
(* What the calls on a locker leave behind, for the proofs about the       *)
(* components that have one.                                               *)
(***************************************************************************)
EXTENDS ConditionLocker, TLAPS

(* A new locker, and a locker after any call of one of its threads, is a   *)
(* locker.                                                                 *)
LEMMA LockerCalls ==
    ASSUME NEW Thread, NEW l \in LockerType(Thread), NEW t \in Thread
    PROVE  /\ NewLocker \in LockerType(Thread)
           /\ Sleep(l, t) \in LockerType(Thread)
           /\ WakeUp(l, t) \in LockerType(Thread)
           /\ LeaveWait(l, t) \in LockerType(Thread)
           /\ LeaveDeadWait(l, t) \in LockerType(Thread)
           /\ Broadcast(l) \in LockerType(Thread)
<1>1. NewLocker \in LockerType(Thread)
  BY DEF LockerType, NewLocker
<1>2. l.waiting \cup {t} \in SUBSET Thread /\ l.asleep \cup {t} \in SUBSET Thread
  BY DEF LockerType
<1>3. Sleep(l, t) \in LockerType(Thread)
  BY <1>2 DEF LockerType, Sleep
<1>4. l.waiting \ {t} \in SUBSET Thread /\ l.asleep \ {t} \in SUBSET Thread
  BY DEF LockerType
<1>5. WakeUp(l, t) \in LockerType(Thread)
  BY <1>4 DEF LockerType, WakeUp
<1>6. LeaveWait(l, t) \in LockerType(Thread)
  BY <1>4 DEF LockerType, LeaveWait
<1>7. LeaveDeadWait(l, t) \in LockerType(Thread)
  BY <1>4 DEF LockerType, LeaveDeadWait
<1>8. Broadcast(l) \in LockerType(Thread)
  BY DEF LockerType, Broadcast
<1> QED
  BY <1>1, <1>3, <1>5, <1>6, <1>7, <1>8

(* A signal leaves a locker whatever sleeper it wakes, its flag up, and    *)
(* nobody asleep who was awake.                                            *)
LEMMA SinalResult ==
    ASSUME NEW Thread, NEW l \in LockerType(Thread), NEW k \in Sinal(l)
    PROVE  k \in LockerType(Thread) /\ k.isSinal /\ k.asleep \subseteq l.asleep
<1>1. CASE l.asleep = {}
  <2>1. k = [l EXCEPT !.isSinal = TRUE]
    BY <1>1 DEF Sinal
  <2> QED
    BY <2>1 DEF LockerType
<1>2. CASE l.asleep # {}
  <2>1. PICK t \in l.asleep : k = [l EXCEPT !.isSinal = TRUE, !.asleep = @ \ {t}]
    BY <1>2 DEF Sinal
  <2>2. l.asleep \ {t} \in SUBSET Thread
    BY DEF LockerType
  <2>3. k.asleep = l.asleep \ {t} /\ k.isSinal
    BY <2>1 DEF LockerType
  <2>4. k \in LockerType(Thread)
    BY <2>1, <2>2 DEF LockerType
  <2> QED
    BY <2>3, <2>4
<1> QED
  BY <1>1, <1>2
=============================================================================
