------------------------------ MODULE TimeWheel ------------------------------
(***************************************************************************)
(* TimeWheel and FS_Timer (TimeWheel.cpp, FS_Timer.cpp): timers of one     *)
(* thread, kept in a set ordered by expiry.  The logic schedules, cancels  *)
(* and frees timers between two rotations and schedules and cancels them   *)
(* in callbacks; what it asks for while the wheel turns is put off to the  *)
(* end of the rotation.                                                    *)
(*                                                                         *)
(* The step of a rotation that hands a timer to its callback and the one   *)
(* that takes it back are two actions, with the callback's calls and the   *)
(* passing of time in between.  Times are small integers; _periodCache and *)
(* _lastTimeOutTime, which only callbacks see, are left out.               *)
(***************************************************************************)
EXTENDS Integers, Sequences, FiniteSets

CONSTANTS
    Timer,
    NoTimer,
    Periods,      \* what timers are scheduled with
    Resolution,   \* _resolutionSlice
    MaxTime,      \* bound on the clock
    MaxCalls,     \* bound on the operations put off in one rotation
    MaxId         \* no timer is freed when _increaseId has come to it

ASSUME WheelAssumption ==
    /\ NoTimer \notin Timer
    /\ Periods \subseteq Nat
    /\ Resolution \in Nat
    /\ MaxTime \in Nat /\ MaxCalls \in Nat /\ MaxId \in Nat

VARIABLES
    now,            \* Time::Now()
    phase,          \* where the thread is
    curTime,        \* _curTime
    timeDatas,      \* _timeDatas
    toRefresh,      \* timeDataToRefresh
    current,        \* the timer in its callback: _isRotatingWheel
    asynData,       \* _asynData
    asynFlag,       \* _asynRegisterFlag: the timers it holds and their value
    increaseId,     \* _increaseId
    expiredTime, period, isCancel, uniqueId,   \* of a timer's TimeData
    scheduled,      \* was the timer's last call Schedule?
    earliest,       \* when its next call may come at the earliest
    due             \* timers this rotation has to call and has not yet

wheelVars == <<curTime, timeDatas, toRefresh, current>>
asynVars == <<asynData, asynFlag>>
dataVars == <<expiredTime, period, isCancel>>
idVars == <<increaseId, uniqueId>>
historyVars == <<scheduled, earliest>>
vars == <<now, phase, wheelVars, asynVars, dataVars, idVars, historyVars, due>>

Op == [op : {"register", "unregister"}, timer : Timer]

TypeOK ==
    /\ now \in Nat /\ curTime \in Nat
    /\ phase \in {"logic", "turning", "after"}
    /\ timeDatas \subseteq Timer /\ toRefresh \subseteq Timer /\ due \subseteq Timer
    /\ current \in Timer \cup {NoTimer}
    /\ current # NoTimer => current \in timeDatas /\ phase = "turning"
    /\ asynData \in Seq(Op)
    /\ \E T \in SUBSET Timer : asynFlag \in [T -> BOOLEAN]
    /\ increaseId \in Nat
    /\ expiredTime \in [Timer -> Nat] /\ period \in [Timer -> Nat]
    /\ isCancel \in [Timer -> BOOLEAN] /\ scheduled \in [Timer -> BOOLEAN]
    /\ uniqueId \in [Timer -> Nat]
    /\ earliest \in [Timer -> Nat]

(* No timer yet.  Time 0 stands for "never".                               *)
Init ==
    /\ now = 1 /\ curTime = 1
    /\ phase = "logic" /\ current = NoTimer
    /\ timeDatas = {} /\ toRefresh = {} /\ due = {}
    /\ asynData = <<>> /\ asynFlag = [t \in {} |-> FALSE]
    /\ increaseId = 0 /\ uniqueId = [t \in Timer |-> 0]
    /\ expiredTime = [t \in Timer |-> 0] /\ period = [t \in Timer |-> 0]
    /\ isCancel = [t \in Timer |-> FALSE] /\ scheduled = [t \in Timer |-> FALSE]
    /\ earliest = [t \in Timer |-> 0]

-----------------------------------------------------------------------------
(* The order of the set.  A timer in it has an id; the one whose callback  *)
(* moved its expiry keeps its place at the front until it is erased.       *)
Before(t, u) ==
    \/ expiredTime[t] < expiredTime[u]
    \/ expiredTime[t] = expiredTime[u] /\ uniqueId[t] < uniqueId[u]

IsFirst(t) == \A u \in timeDatas \ {t} : Before(t, u)

IsRotating == phase = "turning"

IsRegister(t) == IF t \in DOMAIN asynFlag THEN asynFlag[t] ELSE t \in timeDatas

(* Mutant of ModifiedResolution: reckoned from the last rotation only.     *)
ModifiedResolution_FromCurTime ==
    LET left == Resolution - (now - curTime)
    IN  IF left <= 0 THEN 0 ELSE left

(* GetModifiedResolution, cut off at 0.                                    *)
ModifiedResolution ==
    LET first == CHOOSE t \in timeDatas : IsFirst(t)
        from == IF timeDatas = {} THEN curTime ELSE expiredTime[first] - period[first]
        left == Resolution - (now - from)
    IN  IF left <= 0 THEN 0 ELSE left

(* _NewAsynTimeData, for one or two operations on the same timer.          *)
PutOff(t, ops) ==
    /\ Len(asynData) + Len(ops) <= MaxCalls
    /\ asynData' = asynData \o [i \in DOMAIN ops |-> [op |-> ops[i], timer |-> t]]
    /\ asynFlag' = [u \in DOMAIN asynFlag \cup {t} |->
                        IF u = t THEN ops[Len(ops)] = "register" ELSE asynFlag[u]]

(* Register when the wheel does not turn: TimeDataLess finds an element by *)
(* expiry and id, so that a timer is in the set at most once.              *)
Register(t, expiry) ==
    IF expiry = 0
    THEN UNCHANGED <<timeDatas, idVars>>
    ELSE /\ timeDatas' = timeDatas \cup {t}
         /\ IF uniqueId[t] = 0
            THEN /\ increaseId' = increaseId + 1
                 /\ uniqueId' = [uniqueId EXCEPT ![t] = increaseId + 1]
            ELSE UNCHANGED idVars

UnRegister(t) ==
    timeDatas' = IF uniqueId[t] # 0 THEN timeDatas \ {t} ELSE timeDatas

-----------------------------------------------------------------------------
(* The logic.  Its callbacks schedule their own timer or one that is not   *)
(* in the set, never one that waits there: that would move an element of   *)
(* the ordered set.  All callers in the repository keep to this.           *)
InCallback == IsRotating /\ current # NoTimer

HistoryOf(t, s, next) ==
    /\ scheduled' = [scheduled EXCEPT ![t] = s]
    /\ earliest' = [earliest EXCEPT ![t] = next]
    /\ due' = due \ {t}

(* FS_Timer::Schedule: a timer that was registered once is cancelled first. *)
Schedule(t, p) ==
    /\ \/ /\ phase = "logic"
          /\ Register(t, now + p)
          /\ UNCHANGED asynVars
       \/ /\ InCallback /\ (t = current \/ t \notin timeDatas)
          /\ PutOff(t, IF uniqueId[t] = 0 THEN <<"register">> ELSE <<"unregister", "register">>)
          /\ UNCHANGED <<timeDatas, idVars>>
    /\ isCancel' = [isCancel EXCEPT ![t] = FALSE]
    /\ period' = [period EXCEPT ![t] = p]
    /\ expiredTime' = [expiredTime EXCEPT ![t] = now + p]
    /\ HistoryOf(t, TRUE, now + p)
    /\ UNCHANGED <<now, phase, curTime, toRefresh, current>>

(* Mutant of Cancel: while the wheel turns only the flag is set.           *)
Cancel_FlagOnly(t) ==
    /\ \/ phase = "logic" /\ UnRegister(t)
       \/ InCallback /\ UNCHANGED timeDatas
    /\ isCancel' = [isCancel EXCEPT ![t] = TRUE]
    /\ HistoryOf(t, FALSE, 0)
    /\ UNCHANGED <<now, phase, curTime, toRefresh, current, asynVars, idVars, expiredTime, period>>

(* FS_Timer::Cancel.  The handler for it, if any, leaves the timers alone. *)
Cancel(t) ==
    /\ \/ /\ phase = "logic"
          /\ UnRegister(t)
          /\ UNCHANGED asynVars
       \/ /\ InCallback
          /\ PutOff(t, <<"unregister">>)
          /\ UNCHANGED timeDatas
    /\ isCancel' = [isCancel EXCEPT ![t] = TRUE]
    /\ HistoryOf(t, FALSE, 0)
    /\ UNCHANGED <<now, phase, curTime, toRefresh, current, idVars, expiredTime, period>>

(* ~FS_Timer, and a new timer in its place.  Only between rotations: what  *)
(* a callback frees stays in _asynData.                                    *)
Renew(t) ==
    /\ phase = "logic" /\ increaseId < MaxId
    /\ UnRegister(t)
    /\ uniqueId' = [uniqueId EXCEPT ![t] = 0]
    /\ isCancel' = [isCancel EXCEPT ![t] = FALSE]
    /\ expiredTime' = [expiredTime EXCEPT ![t] = 0]
    /\ period' = [period EXCEPT ![t] = 0]
    /\ HistoryOf(t, FALSE, 0)
    /\ UNCHANGED <<now, phase, curTime, toRefresh, current, asynVars, increaseId>>

Tick ==
    /\ now < MaxTime /\ now' = now + 1
    /\ UNCHANGED <<phase, wheelVars, asynVars, dataVars, idVars, historyVars, due>>

-----------------------------------------------------------------------------
(* RotateWheel.                                                            *)
BeginRotate ==
    /\ phase = "logic" /\ phase' = "turning"
    /\ curTime' = now
    /\ due' = {t \in Timer : scheduled[t] /\ expiredTime[t] <= now}
    /\ UNCHANGED <<now, timeDatas, toRefresh, current, asynVars, dataVars, idVars, historyVars>>

(* Mutant of Expired: the timer whose time has just come has to wait.      *)
Expired_Strict(t) == expiredTime[t] < curTime

Expired(t) == expiredTime[t] <= curTime

(* Mutant of TimeOut: erased before the callback instead of after it.      *)
TimeOut_ErasesFirst(t) ==
    /\ IsRotating /\ current = NoTimer
    /\ IsFirst(t) /\ Expired(t)
    /\ timeDatas' = timeDatas \ {t}
    /\ due' = due \ {t}
    /\ current' = IF isCancel[t] THEN NoTimer ELSE t
    /\ UNCHANGED <<now, phase, curTime, toRefresh, asynVars, dataVars, idVars, historyVars>>

(* The loop comes to an expired timer: OnTimeOut, unless it was cancelled  *)
(* since the rotation began.                                               *)
TimeOut(t) ==
    /\ IsRotating /\ current = NoTimer
    /\ IsFirst(t) /\ Expired(t)
    /\ IF isCancel[t]
       THEN /\ timeDatas' = timeDatas \ {t}
            /\ UNCHANGED <<current, earliest, due>>
       ELSE /\ current' = t
            /\ earliest' = [earliest EXCEPT ![t] = @ + period[t]]
            /\ due' = due \ {t}
            /\ UNCHANGED timeDatas
    /\ UNCHANGED <<now, phase, curTime, toRefresh, asynVars, dataVars, idVars, scheduled>>

(* ... and back from the callback.                                         *)
ErasePassed ==
    /\ InCallback
    /\ toRefresh' = IF isCancel[current] THEN toRefresh ELSE toRefresh \cup {current}
    /\ timeDatas' = timeDatas \ {current}
    /\ current' = NoTimer
    /\ UNCHANGED <<now, phase, curTime, asynVars, dataVars, idVars, historyVars, due>>

(* Mutant of Refresh: an expiry that is past is not moved on.              *)
Refresh_SameExpiry ==
    /\ IsRotating /\ current = NoTimer
    /\ timeDatas = {} \/ \E t \in timeDatas : IsFirst(t) /\ ~Expired(t)
    /\ phase' = "after"
    /\ timeDatas' = timeDatas \cup toRefresh
    /\ toRefresh' = {}
    /\ UNCHANGED <<now, curTime, current, asynVars, dataVars, idVars, historyVars, due>>

(* The loop is over: the timers that were called are put back. *)
Refresh ==
    /\ IsRotating /\ current = NoTimer
    /\ timeDatas = {} \/ \E t \in timeDatas : IsFirst(t) /\ ~Expired(t)
    /\ phase' = "after"
    /\ expiredTime' = [t \in Timer |-> expiredTime[t] + IF t \in toRefresh THEN period[t] ELSE 0]
    /\ timeDatas' = timeDatas \cup toRefresh
    /\ toRefresh' = {}
    /\ UNCHANGED <<now, curTime, current, asynVars, period, isCancel, idVars, historyVars, due>>

(* _AfterRotateWheel: what was put off, in order, and the end of it.       *)
RunPutOff ==
    /\ phase = "after" /\ asynData # <<>>
    /\ LET t == Head(asynData).timer
       IN  IF Head(asynData).op = "register"
           THEN Register(t, expiredTime[t])
           ELSE UnRegister(t) /\ UNCHANGED idVars
    /\ asynData' = Tail(asynData)
    /\ UNCHANGED <<now, phase, curTime, toRefresh, current, asynFlag, dataVars, historyVars, due>>

EndRotate ==
    /\ phase = "after" /\ asynData = <<>>
    /\ phase' = "logic"
    /\ asynFlag' = [t \in {} |-> FALSE]
    /\ UNCHANGED <<now, wheelVars, asynData, dataVars, idVars, historyVars, due>>

-----------------------------------------------------------------------------
Next ==
    \/ \E t \in Timer : \/ \E p \in Periods : Schedule(t, p)
                        \/ Cancel(t) \/ Renew(t)
    \/ Tick
    \/ BeginRotate \/ (\E t \in timeDatas : TimeOut(t)) \/ ErasePassed \/ Refresh \/ RunPutOff \/ EndRotate

Spec == Init /\ [][Next]_vars

-----------------------------------------------------------------------------
(* IsScheduling answers what the last call to the timer was, also while    *)
(* that call waits for the end of the rotation, and the operations put off *)
(* leave the set in that state.  The one exception: a timer that this      *)
(* rotation has called and not yet put back.                               *)
SchedulingIsTrue ==
    phase # "after" => \A t \in Timer \ (toRefresh \ DOMAIN asynFlag) : IsRegister(t) = scheduled[t]

(* A rotation calls every scheduled timer that was due when it began,      *)
(* unless a callback cancelled or rescheduled it before its turn.          *)
MissesNobody == phase = "after" => due = {}

(* A timer is never called early: its n-th call since Schedule comes n     *)
(* periods after it or later, whatever its callbacks and others did.       *)
NotEarly == [][\A t \in Timer : current' = t /\ current # t => earliest[t] <= curTime]_vars

(* A loop that sleeps as GetModifiedResolution says turns the wheel no     *)
(* later than one resolution after the expiry of any timer.                *)
PunctualWait ==
    phase = "logic" => \A t \in timeDatas : \/ ModifiedResolution = 0
                                            \/ now + ModifiedResolution <= expiredTime[t] + Resolution

(* Between rotations a timer expires as many periods after its Schedule as *)
(* it was called since, and one: "whether the wheel turns or not it is     *)
(* start_time+period" (FS_Timer.cpp:80).                                   *)
ScheduleMeansPeriod ==
    phase = "logic" => \A t \in Timer : scheduled[t] => expiredTime[t] = earliest[t]
=============================================================================
