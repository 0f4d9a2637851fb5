--------------------------- MODULE TimeWheelProofs ---------------------------
(***************************************************************************)
(* Proofs about TimeWheel, for any timers, periods and bounds.  The core   *)
(* is Settled: the last operation put off for a timer, or, when there is   *)
(* none, its place in the set, agrees with the last call to the timer.     *)
(* That a rotation misses nobody rests on it, because a timer that is due  *)
(* is found in the set only if it is there.                                *)
(***************************************************************************)
EXTENDS TimeWheel, SequenceTheorems, WellFoundedInduction, TLAPS

(* The variables keep their types.                                         *)
LEMMA PutOffTypes ==
    ASSUME TypeOK, NEW t \in Timer, NEW ops \in Seq({"register", "unregister"}),
           Len(ops) > 0, PutOff(t, ops)
    PROVE  /\ asynData' \in Seq(Op)
           /\ \E T \in SUBSET Timer : asynFlag' \in [T -> BOOLEAN]
  <1>1. asynData' \in Seq(Op)
    <2> DEFINE new == [i \in DOMAIN ops |-> [op |-> ops[i], timer |-> t]]
    <2>1. new \in [1 .. Len(ops) -> Op]
      BY DEF Op
    <2>2. new \in Seq(Op)
      BY <2>1
    <2> QED BY <2>2, ConcatProperties DEF PutOff, TypeOK
  <1>2. \E T \in SUBSET Timer : asynFlag' \in [T -> BOOLEAN]
    <2>1. PICK T \in SUBSET Timer : asynFlag \in [T -> BOOLEAN]
      BY DEF TypeOK
    <2>2. (ops[Len(ops)] = "register") \in BOOLEAN
      OBVIOUS
    <2>3. asynFlag' \in [T \cup {t} -> BOOLEAN]
      BY <2>1, <2>2 DEF PutOff
    <2>4. T \cup {t} \in SUBSET Timer
      BY <2>1
    <2> QED BY <2>3, <2>4
  <1> QED BY <1>1, <1>2

LEMMA RegisterTypes ==
    ASSUME timeDatas \subseteq Timer, increaseId \in Nat, uniqueId \in [Timer -> Nat],
           NEW t \in Timer, NEW expiry \in Nat, Register(t, expiry)
    PROVE  /\ timeDatas' \subseteq Timer /\ timeDatas \subseteq timeDatas'
           /\ increaseId' \in Nat /\ uniqueId' \in [Timer -> Nat]
  BY DEF Register, idVars

LEMMA OneOrTwo ==
    /\ <<"register">> \in Seq({"register", "unregister"}) /\ Len(<<"register">>) = 1
    /\ <<"unregister">> \in Seq({"register", "unregister"}) /\ Len(<<"unregister">>) = 1
    /\ <<"unregister", "register">> \in Seq({"register", "unregister"})
    /\ Len(<<"unregister", "register">>) = 2
  OBVIOUS

LEMMA ScheduleTypes ==
    ASSUME TypeOK, NEW t \in Timer, NEW p \in Periods, Schedule(t, p), p \in Nat,
           asynData' \in Seq(Op), \E T \in SUBSET Timer : asynFlag' \in [T -> BOOLEAN],
           timeDatas' \subseteq Timer, timeDatas \subseteq timeDatas',
           increaseId' \in Nat, uniqueId' \in [Timer -> Nat]
    PROVE  TypeOK'
  <1>1. isCancel' \in [Timer -> BOOLEAN] /\ scheduled' \in [Timer -> BOOLEAN]
    BY DEF Schedule, HistoryOf, TypeOK
  <1>2. /\ period' \in [Timer -> Nat] /\ expiredTime' \in [Timer -> Nat] /\ earliest' \in [Timer -> Nat]
        /\ due' \subseteq Timer
    BY DEF Schedule, HistoryOf, TypeOK
  <1>3. /\ now' \in Nat /\ curTime' \in Nat /\ phase' \in {"logic", "turning", "after"}
        /\ toRefresh' \subseteq Timer /\ current' \in Timer \cup {NoTimer}
        /\ current' # NoTimer => current' \in timeDatas' /\ phase' = "turning"
    BY DEF Schedule, TypeOK
  <1> QED BY <1>1, <1>2, <1>3 DEF TypeOK

LEMMA TypeInit == Init => TypeOK
  <1> SUFFICES ASSUME Init PROVE TypeOK
    OBVIOUS
  <1>1. asynFlag \in [{} -> BOOLEAN]
    BY DEF Init
  <1>2. asynData \in Seq(Op)
    BY DEF Init
  <1> QED BY <1>1, <1>2, WheelAssumption DEF Init, TypeOK

LEMMA TypeNext == TypeOK /\ [Next]_vars => TypeOK'
  <1> SUFFICES ASSUME TypeOK, [Next]_vars PROVE TypeOK'
    OBVIOUS
  <1> USE WheelAssumption
  <1>1. ASSUME NEW t \in Timer, NEW p \in Periods, Schedule(t, p) PROVE TypeOK'
    <2>0. now + p \in Nat /\ p \in Nat
      BY DEF TypeOK
    <2>1. CASE phase = "logic" /\ Register(t, now + p) /\ UNCHANGED asynVars
      <3>1. timeDatas' \subseteq Timer /\ timeDatas \subseteq timeDatas' /\ increaseId' \in Nat /\ uniqueId' \in [Timer -> Nat]
        <4>1. timeDatas \subseteq Timer /\ increaseId \in Nat /\ uniqueId \in [Timer -> Nat]
          BY DEF TypeOK
        <4>2. Register(t, now + p) /\ now + p \in Nat
          BY <2>0, <2>1
        <4> HIDE DEF TypeOK
        <4> QED BY <4>1, <4>2, RegisterTypes
      <3>2. asynData' \in Seq(Op) /\ \E T \in SUBSET Timer : asynFlag' \in [T -> BOOLEAN]
        BY <2>1 DEF TypeOK, asynVars
      <3> QED BY <2>0, <3>1, <3>2, <1>1, ScheduleTypes
    <2>2. CASE InCallback /\ PutOff(t, IF uniqueId[t] = 0 THEN <<"register">> ELSE <<"unregister", "register">>) /\ UNCHANGED <<timeDatas, idVars>>
      <3> DEFINE ops == IF uniqueId[t] = 0 THEN <<"register">> ELSE <<"unregister", "register">>
      <3>a. ops \in Seq({"register", "unregister"}) /\ Len(ops) > 0
        <4>1. CASE uniqueId[t] = 0
          <5>1. ops = <<"register">>
            BY <4>1
          <5> HIDE DEF ops
          <5> QED BY <5>1, OneOrTwo
        <4>2. CASE uniqueId[t] # 0
          <5>1. ops = <<"unregister", "register">>
            BY <4>2
          <5> HIDE DEF ops
          <5> QED BY <5>1, OneOrTwo
        <4> QED BY <4>1, <4>2
      <3>b. PutOff(t, ops)
        BY <2>2
      <3>1. asynData' \in Seq(Op) /\ \E T \in SUBSET Timer : asynFlag' \in [T -> BOOLEAN]
        <4> HIDE DEF ops
        <4> QED BY <3>a, <3>b, PutOffTypes
      <3>2. timeDatas' \subseteq Timer /\ timeDatas \subseteq timeDatas' /\ increaseId' \in Nat /\ uniqueId' \in [Timer -> Nat]
        BY <2>2 DEF TypeOK, idVars
      <3> QED BY <2>0, <3>1, <3>2, <1>1, ScheduleTypes
    <2> QED BY <1>1, <2>1, <2>2 DEF Schedule
  <1>2. ASSUME NEW t \in Timer, Cancel(t) PROVE TypeOK'
    <2>1. CASE phase = "logic" /\ UnRegister(t) /\ UNCHANGED asynVars
      BY <1>2, <2>1 DEF TypeOK, Cancel, HistoryOf, UnRegister, asynVars, idVars
    <2>2. CASE InCallback /\ PutOff(t, <<"unregister">>) /\ UNCHANGED timeDatas
      <3>1. asynData' \in Seq(Op) /\ \E T \in SUBSET Timer : asynFlag' \in [T -> BOOLEAN]
        <4>1. <<"unregister">> \in Seq({"register", "unregister"}) /\ Len(<<"unregister">>) > 0
          BY OneOrTwo
        <4>2. PutOff(t, <<"unregister">>)
          BY <2>2
        <4> QED BY <4>1, <4>2, PutOffTypes
      <3>2. isCancel' \in [Timer -> BOOLEAN] /\ scheduled' \in [Timer -> BOOLEAN] /\ earliest' \in [Timer -> Nat] /\ due' \subseteq Timer
        BY <1>2 DEF Cancel, HistoryOf, TypeOK
      <3>3. /\ now' \in Nat /\ curTime' \in Nat /\ phase' \in {"logic", "turning", "after"}
            /\ timeDatas' \subseteq Timer /\ toRefresh' \subseteq Timer /\ current' \in Timer \cup {NoTimer}
            /\ current' # NoTimer => current' \in timeDatas' /\ phase' = "turning"
            /\ increaseId' \in Nat /\ uniqueId' \in [Timer -> Nat]
            /\ expiredTime' \in [Timer -> Nat] /\ period' \in [Timer -> Nat]
        BY <1>2, <2>2 DEF Cancel, TypeOK, idVars
      <3> QED BY <3>1, <3>2, <3>3 DEF TypeOK
    <2> QED BY <1>2, <2>1, <2>2 DEF Cancel
  <1>3. ASSUME NEW t \in Timer, Renew(t) PROVE TypeOK'
    BY <1>3 DEF TypeOK, Renew, HistoryOf, UnRegister, asynVars
  <1>4. CASE Tick
    BY <1>4 DEF TypeOK, Tick, wheelVars, asynVars, dataVars, idVars, historyVars
  <1>5. CASE BeginRotate
    BY <1>5 DEF TypeOK, BeginRotate, asynVars, dataVars, idVars, historyVars
  <1>6. ASSUME NEW t \in timeDatas, TimeOut(t) PROVE TypeOK'
    BY <1>6 DEF TypeOK, TimeOut, IsRotating, asynVars, dataVars, idVars
  <1>7. CASE ErasePassed
    BY <1>7 DEF TypeOK, ErasePassed, InCallback, asynVars, dataVars, idVars, historyVars
  <1>8. CASE Refresh
    BY <1>8 DEF TypeOK, Refresh, asynVars, idVars, historyVars
  <1>9. CASE RunPutOff
    <2>1. Head(asynData) \in Op /\ Tail(asynData) \in Seq(Op)
      BY <1>9 DEF RunPutOff, TypeOK
    <2>2. Head(asynData).timer \in Timer
      BY <2>1 DEF Op
    <2>3. timeDatas' \subseteq Timer /\ increaseId' \in Nat /\ uniqueId' \in [Timer -> Nat]
      <3>1. CASE Head(asynData).op = "register"
        <4>1. expiredTime[Head(asynData).timer] \in Nat
          BY <2>2 DEF TypeOK
        <4> QED BY <1>9, <2>2, <3>1, <4>1, RegisterTypes DEF RunPutOff, TypeOK
      <3>2. CASE Head(asynData).op # "register"
        BY <1>9, <2>2, <3>2 DEF RunPutOff, UnRegister, TypeOK, idVars
      <3> QED BY <3>1, <3>2
    <2> QED BY <1>9, <2>1, <2>3 DEF TypeOK, RunPutOff, dataVars, historyVars
  <1>10. CASE EndRotate
    <2>1. asynFlag' \in [{} -> BOOLEAN]
      BY <1>10 DEF EndRotate
    <2>2. \E T \in SUBSET Timer : asynFlag' \in [T -> BOOLEAN]
      BY <2>1
    <2> QED BY <1>10, <2>2 DEF TypeOK, EndRotate, wheelVars, dataVars, idVars, historyVars
  <1>11. CASE UNCHANGED vars
    BY <1>11 DEF TypeOK, vars, wheelVars, asynVars, dataVars, idVars, historyVars
  <1> QED BY <1>1, <1>2, <1>3, <1>4, <1>5, <1>6, <1>7, <1>8, <1>9, <1>10, <1>11 DEF Next

THEOREM TypeCorrect == Spec => []TypeOK
  BY TypeInit, TypeNext, PTL DEF Spec

-----------------------------------------------------------------------------
Pending(t) == \E i \in 1 .. Len(asynData) : asynData[i].timer = t

(* The last operation put off for t is op.                                 *)
LastIs(t, op) ==
    \E i \in 1 .. Len(asynData) :
        /\ asynData[i].timer = t /\ asynData[i].op = op
        /\ \A j \in 1 .. Len(asynData) : j > i => asynData[j].timer # t

(* The last call to the timer settles where it ends up.                    *)
SettledAt(t) ==
    /\ Pending(t) => /\ scheduled[t] => LastIs(t, "register")
                     /\ ~scheduled[t] => LastIs(t, "unregister")
    /\ ~Pending(t) => (t \in timeDatas \cup toRefresh <=> scheduled[t])

Settled == \A t \in Timer : SettledAt(t)

Phases ==
    /\ phase = "logic" => asynData = <<>> /\ DOMAIN asynFlag = {}
    /\ phase # "turning" => toRefresh = {}
    /\ timeDatas \cap toRefresh = {}

DataAt(t) ==
    /\ scheduled[t] => ~isCancel[t] /\ expiredTime[t] > 0
    /\ ~scheduled[t] => earliest[t] = 0 /\ (isCancel[t] \/ period[t] = 0)

Data ==
    /\ now > 0
    /\ \A t \in Timer : DataAt(t)
    /\ \A t \in timeDatas \cup toRefresh : uniqueId[t] # 0

Flags ==
    phase = "turning" =>
        \A t \in Timer : /\ t \in DOMAIN asynFlag <=> Pending(t)
                         /\ t \in DOMAIN asynFlag => asynFlag[t] = scheduled[t]

DueThere ==
    /\ phase # "turning" => due = {}
    /\ \A t \in due : /\ scheduled[t] /\ t # current
                      /\ t \in timeDatas /\ expiredTime[t] <= curTime

(* A timer that was called and not put back has its period to come.        *)
Early ==
    \A t \in Timer :
        earliest[t] <= expiredTime[t] + IF t = current \/ t \in toRefresh THEN period[t] ELSE 0

IInv == TypeOK /\ Phases /\ Data /\ Settled /\ Flags /\ DueThere /\ Early

(* What PutOff does to the operations of the timer and of the others.      *)
LEMMA PutOffOps ==
    ASSUME TypeOK, NEW t \in Timer, NEW ops \in Seq({"register", "unregister"}),
           Len(ops) > 0, PutOff(t, ops)
    PROVE  /\ Pending(t)' /\ LastIs(t, ops[Len(ops)])'
           /\ \A u \in Timer \ {t} : (Pending(u)' <=> Pending(u)) /\ \A op : LastIs(u, op) => LastIs(u, op)'
  <1> DEFINE new == [i \in DOMAIN ops |-> [op |-> ops[i], timer |-> t]]
  <1>1. /\ Len(asynData) \in Nat /\ Len(ops) \in Nat /\ DOMAIN ops = 1 .. Len(ops)
        /\ asynData \in Seq(Op)
    BY DEF TypeOK
  <1>2. new \in Seq(Op) /\ Len(new) = Len(ops)
    <2>1. new \in [1 .. Len(ops) -> Op]
      BY DEF Op
    <2> QED BY <2>1, <1>1
  <1>3. asynData' = asynData \o new
    BY DEF PutOff
  <1>4. /\ Len(asynData') = Len(asynData) + Len(ops)
        /\ \A i \in 1 .. Len(asynData') :
              asynData'[i] = IF i <= Len(asynData) THEN asynData[i] ELSE new[i - Len(asynData)]
    <2> HIDE DEF new
    <2>1. Len(asynData \o new) = Len(asynData) + Len(new)
      BY <1>1, <1>2
    <2>2. \A i \in 1 .. Len(asynData) + Len(new) :
              (asynData \o new)[i] = IF i <= Len(asynData) THEN asynData[i] ELSE new[i - Len(asynData)]
      BY <1>1, <1>2
    <2> QED BY <1>2, <1>3, <2>1, <2>2
  <1>5. \A i \in 1 .. Len(asynData') :
            IF i <= Len(asynData) THEN asynData'[i] = asynData[i]
            ELSE asynData'[i].timer = t /\ asynData'[i].op = ops[i - Len(asynData)]
    <2>1. \A k \in 1 .. Len(ops) : new[k].timer = t /\ new[k].op = ops[k]
      BY <1>1
    <2>2. \A i \in 1 .. Len(asynData') : ~(i <= Len(asynData)) => i - Len(asynData) \in 1 .. Len(ops)
      BY <1>1, <1>4
    <2> HIDE DEF new
    <2> QED BY <1>4, <2>1, <2>2
  <1>6. Pending(t)' /\ LastIs(t, ops[Len(ops)])'
    <2>1. Len(asynData') \in 1 .. Len(asynData')
      BY <1>1, <1>4
    <2>2. asynData'[Len(asynData')].timer = t /\ asynData'[Len(asynData')].op = ops[Len(ops)]
      BY <2>1, <1>1, <1>4, <1>5
    <2>3. \A j \in 1 .. Len(asynData') : ~(j > Len(asynData'))
      BY <1>1, <1>4
    <2> QED BY <2>1, <2>2, <2>3 DEF Pending, LastIs
  <1>7. ASSUME NEW u \in Timer \ {t} PROVE (Pending(u)' <=> Pending(u)) /\ \A op : LastIs(u, op) => LastIs(u, op)'
    <2>1. \A i \in 1 .. Len(asynData') : asynData'[i].timer = u => i \in 1 .. Len(asynData) /\ asynData[i].timer = u
      BY <1>1, <1>4, <1>5
    <2>2. \A i \in 1 .. Len(asynData) : i \in 1 .. Len(asynData') /\ asynData'[i] = asynData[i]
      BY <1>1, <1>4, <1>5
    <2>3. Pending(u)' <=> Pending(u)
      BY <2>1, <2>2 DEF Pending
    <2>4. ASSUME NEW op, LastIs(u, op) PROVE LastIs(u, op)'
      <3>1. PICK i \in 1 .. Len(asynData) :
                /\ asynData[i].timer = u /\ asynData[i].op = op
                /\ \A j \in 1 .. Len(asynData) : j > i => asynData[j].timer # u
        BY <2>4 DEF LastIs
      <3>2. \A j \in 1 .. Len(asynData') : j > i => asynData'[j].timer # u
        BY <2>1, <3>1
      <3> QED BY <2>2, <3>1, <3>2 DEF LastIs
    <2> QED BY <2>3, <2>4
  <1> QED BY <1>6, <1>7

(* What is left of them when the first one is run.                         *)
LEMMA TailOps ==
    ASSUME TypeOK, asynData # <<>>, asynData' = Tail(asynData),
           NEW h \in Timer, h = Head(asynData).timer
    PROVE  /\ Head(asynData) \in Op
           /\ \A u \in Timer : u # h => (Pending(u)' <=> Pending(u))
           /\ \A u \in Timer : \A op : Pending(u)' /\ LastIs(u, op) => LastIs(u, op)'
           /\ \A u \in Timer : Pending(u)' => Pending(u)
           /\ \A op : ~Pending(h)' /\ LastIs(h, op)
                        => Head(asynData).op = op
  <1>1. /\ asynData \in Seq(Op) /\ Len(asynData) \in Nat /\ Len(asynData) > 0
        /\ Len(asynData') = Len(asynData) - 1
        /\ \A i \in 1 .. Len(asynData') : asynData'[i] = asynData[i + 1]
        /\ Head(asynData) = asynData[1] /\ Head(asynData) \in Op
    BY DEF TypeOK
  <1>2. \A i \in 1 .. Len(asynData') : i + 1 \in 1 .. Len(asynData)
    BY <1>1
  <1>3. \A i \in 1 .. Len(asynData) : i # 1 => i - 1 \in 1 .. Len(asynData') /\ asynData'[i - 1] = asynData[i]
    BY <1>1
  <1>4. ASSUME NEW u \in Timer PROVE Pending(u)' => Pending(u)
    BY <1>1, <1>2 DEF Pending
  <1>5. ASSUME NEW u \in Timer, u # h PROVE Pending(u) => Pending(u)'
    BY <1>1, <1>3, <1>5 DEF Pending
  <1>6. ASSUME NEW u \in Timer, NEW op, Pending(u)', LastIs(u, op) PROVE LastIs(u, op)'
    <2>1. PICK i \in 1 .. Len(asynData) :
                /\ asynData[i].timer = u /\ asynData[i].op = op
                /\ \A j \in 1 .. Len(asynData) : j > i => asynData[j].timer # u
      BY <1>6 DEF LastIs
    <2>2. PICK k \in 1 .. Len(asynData') : asynData'[k].timer = u
      BY <1>6 DEF Pending
    <2>3. i # 1
      BY <1>1, <1>2, <2>1, <2>2
    <2>4. i - 1 \in 1 .. Len(asynData') /\ asynData'[i - 1] = asynData[i]
      BY <1>3, <2>3
    <2>5. \A j \in 1 .. Len(asynData') : j > i - 1 => asynData'[j].timer # u
      BY <1>1, <1>2, <2>1
    <2> QED BY <2>1, <2>4, <2>5 DEF LastIs
  <1>7. ASSUME NEW op, ~Pending(h)', LastIs(h, op)
        PROVE  Head(asynData).op = op
    <2>1. PICK i \in 1 .. Len(asynData) : asynData[i].timer = h /\ asynData[i].op = op
      BY <1>7 DEF LastIs
    <2>2. i = 1
      BY <1>3, <1>7, <2>1 DEF Pending
    <2> QED BY <1>1, <2>1, <2>2
  <1> QED BY <1>1, <1>4, <1>5, <1>6, <1>7

-----------------------------------------------------------------------------
LEMMA InitIInv == Init => IInv
  <1> SUFFICES ASSUME Init PROVE IInv
    OBVIOUS
  <1>1. TypeOK
    BY TypeInit
  <1>2. DOMAIN asynFlag = {} /\ Len(asynData) = 0
    BY DEF Init
  <1>3. \A t \in Timer : ~Pending(t)
    BY <1>2 DEF Pending
  <1>4. Settled
    BY <1>3 DEF Settled, SettledAt, Init
  <1>5. Phases /\ Data /\ Flags /\ DueThere
    BY <1>2 DEF Init, Phases, Data, DataAt, Flags, DueThere
  <1>6. Early
    BY DEF Init, Early
  <1> QED BY <1>1, <1>4, <1>5, <1>6 DEF IInv

(* Schedule and Cancel in a callback put operations off whose last one     *)
(* says what the timer is to be; no other timer is concerned.              *)
LEMMA PutOffSettles ==
    ASSUME IInv, NEW t \in Timer, NEW ops \in Seq({"register", "unregister"}), Len(ops) > 0,
           InCallback, PutOff(t, ops), timeDatas' = timeDatas, toRefresh' = toRefresh, phase' = phase,
           NEW s \in BOOLEAN, scheduled' = [scheduled EXCEPT ![t] = s],
           ops[Len(ops)] = IF s THEN "register" ELSE "unregister"
    PROVE  Settled' /\ Flags'
  <1>1. /\ Pending(t)' /\ LastIs(t, ops[Len(ops)])'
        /\ \A u \in Timer \ {t} : (Pending(u)' <=> Pending(u)) /\ \A op : LastIs(u, op) => LastIs(u, op)'
    BY PutOffOps DEF IInv
  <1>2. scheduled' \in [Timer -> BOOLEAN] /\ scheduled'[t] = s /\ \A u \in Timer \ {t} : scheduled'[u] = scheduled[u]
    BY DEF IInv, TypeOK
  <1>3. Settled'
    <2>1. SettledAt(t)'
      <3>1. (scheduled'[t] => LastIs(t, "register")') /\ (~scheduled'[t] => LastIs(t, "unregister")')
        BY <1>1, <1>2
      <3> QED BY <1>1, <3>1 DEF SettledAt
    <2>2. ASSUME NEW u \in Timer \ {t} PROVE SettledAt(u)'
      <3>1. SettledAt(u)
        BY DEF IInv, Settled
      <3>2. (Pending(u)' <=> Pending(u)) /\ (LastIs(u, "register") => LastIs(u, "register")')
            /\ (LastIs(u, "unregister") => LastIs(u, "unregister")') /\ scheduled'[u] = scheduled[u]
        BY <1>1, <1>2
      <3> QED BY <3>1, <3>2 DEF SettledAt
    <2> QED BY <2>1, <2>2 DEF Settled
  <1>4. Flags'
    <2>1. /\ DOMAIN asynFlag' = DOMAIN asynFlag \cup {t}
          /\ asynFlag'[t] = (ops[Len(ops)] = "register")
          /\ \A u \in DOMAIN asynFlag \ {t} : asynFlag'[u] = asynFlag[u]
      BY DEF PutOff
    <2>2. asynFlag'[t] = s
      BY <2>1
    <2>3. phase = "turning"
      BY DEF InCallback, IsRotating
    <2>4. t \in DOMAIN asynFlag' /\ Pending(t)' /\ asynFlag'[t] = scheduled'[t]
      BY <1>1, <1>2, <2>1, <2>2
    <2>5. ASSUME NEW u \in Timer \ {t}
          PROVE  /\ u \in DOMAIN asynFlag' <=> Pending(u)'
                 /\ u \in DOMAIN asynFlag' => asynFlag'[u] = scheduled'[u]
      BY <1>1, <1>2, <2>1, <2>3 DEF IInv, Flags
    <2> QED BY <2>4, <2>5 DEF Flags
  <1> QED BY <1>3, <1>4

(* A timer nobody has operations for and that was cancelled is in no set.  *)
LEMMA CancelledIsPending ==
    ASSUME IInv, NEW t \in timeDatas \cup toRefresh, isCancel[t]
    PROVE  t \in Timer /\ Pending(t) /\ ~scheduled[t]
  <1>1. t \in Timer
    BY DEF IInv, TypeOK
  <1>2. ~scheduled[t]
    BY <1>1, Zenon DEF IInv, Data, DataAt
  <1> QED BY <1>1, <1>2 DEF IInv, Settled, SettledAt

LEMMA SettledNext == IInv /\ TypeOK' /\ [Next]_vars => Settled' /\ Flags'
  <1> SUFFICES ASSUME IInv, TypeOK', [Next]_vars PROVE Settled' /\ Flags'
    OBVIOUS
  <1> USE WheelAssumption
  <1>0. TypeOK /\ Phases /\ Data /\ Settled /\ Flags
    BY DEF IInv
  <1>a. ASSUME asynData' = asynData PROVE \A u \in Timer : (Pending(u)' <=> Pending(u)) /\ \A op : LastIs(u, op) <=> LastIs(u, op)'
    BY <1>a DEF Pending, LastIs
  <1>b. ASSUME asynData = <<>> PROVE \A u \in Timer : ~Pending(u)
    BY <1>b DEF Pending
  <1>1. ASSUME NEW t \in Timer, NEW p \in Periods, Schedule(t, p) PROVE Settled' /\ Flags'
    <2>0. /\ now + p \in Nat /\ now + p > 0
          /\ scheduled' = [scheduled EXCEPT ![t] = TRUE]
          /\ toRefresh' = toRefresh /\ phase' = phase
      BY <1>0, <1>1 DEF Schedule, HistoryOf, TypeOK, Data
    <2>1. CASE phase = "logic" /\ Register(t, now + p) /\ UNCHANGED asynVars
      <3>1. timeDatas' = timeDatas \cup {t} /\ asynData' = asynData /\ asynData = <<>>
        BY <1>0, <2>0, <2>1 DEF Register, asynVars, Phases
      <3>2. \A u \in Timer : scheduled'[u] <=> (u = t \/ scheduled[u])
        BY <1>0, <2>0 DEF TypeOK
      <3> QED BY <1>0, <1>a, <1>b, <2>0, <2>1, <3>1, <3>2 DEF Settled, SettledAt, Flags
    <2>2. CASE InCallback /\ PutOff(t, IF uniqueId[t] = 0 THEN <<"register">> ELSE <<"unregister", "register">>) /\ UNCHANGED <<timeDatas, idVars>>
      <3>1. CASE uniqueId[t] = 0
        <4>1. PutOff(t, <<"register">>)
          BY <2>2, <3>1
        <4>2. <<"register">> \in Seq({"register", "unregister"}) /\ Len(<<"register">>) > 0 /\ <<"register">>[Len(<<"register">>)] = "register"
          BY OneOrTwo
        <4> QED BY <2>0, <2>2, <4>1, <4>2, PutOffSettles
      <3>2. CASE uniqueId[t] # 0
        <4> DEFINE two == <<"unregister", "register">>
        <4>1. PutOff(t, two)
          BY <2>2, <3>2
        <4>2. two \in Seq({"register", "unregister"}) /\ Len(two) > 0 /\ two[Len(two)] = "register"
          BY OneOrTwo
        <4> HIDE DEF two
        <4> QED BY <2>0, <2>2, <4>1, <4>2, PutOffSettles
      <3> QED BY <3>1, <3>2
    <2> QED BY <1>1, <2>1, <2>2 DEF Schedule
  <1>2. ASSUME NEW t \in Timer, Cancel(t) PROVE Settled' /\ Flags'
    <2>0. /\ scheduled' = [scheduled EXCEPT ![t] = FALSE]
          /\ toRefresh' = toRefresh /\ phase' = phase
      BY <1>2 DEF Cancel, HistoryOf
    <2>1. CASE phase = "logic" /\ UnRegister(t) /\ UNCHANGED asynVars
      <3>1. timeDatas' = timeDatas \ {t} /\ asynData' = asynData /\ asynData = <<>> /\ toRefresh = {}
        BY <1>0, <2>1 DEF UnRegister, asynVars, Phases, Data
      <3>2. \A u \in Timer : scheduled'[u] <=> (u # t /\ scheduled[u])
        BY <1>0, <2>0 DEF TypeOK
      <3> QED BY <1>0, <1>a, <1>b, <2>0, <2>1, <3>1, <3>2 DEF Settled, SettledAt, Flags
    <2>2. CASE InCallback /\ PutOff(t, <<"unregister">>) /\ UNCHANGED timeDatas
      <3>1. <<"unregister">> \in Seq({"register", "unregister"}) /\ Len(<<"unregister">>) > 0 /\ <<"unregister">>[Len(<<"unregister">>)] = "unregister"
        BY OneOrTwo
      <3> QED BY <2>0, <2>2, <3>1, PutOffSettles
    <2> QED BY <1>2, <2>1, <2>2 DEF Cancel
  <1>3. ASSUME NEW t \in Timer, Renew(t) PROVE Settled' /\ Flags'
    <2>1. /\ timeDatas' = timeDatas \ {t} /\ asynData' = asynData /\ asynData = <<>>
          /\ toRefresh' = toRefresh /\ toRefresh = {} /\ phase' = "logic"
      BY <1>0, <1>3 DEF Renew, UnRegister, asynVars, Phases, Data
    <2>2. \A u \in Timer : scheduled'[u] <=> (u # t /\ scheduled[u])
      BY <1>0, <1>3 DEF TypeOK, Renew, HistoryOf
    <2> QED BY <1>0, <1>a, <1>b, <2>1, <2>2 DEF Settled, SettledAt, Flags
  <1>4. CASE Tick
    BY <1>0, <1>4, <1>a DEF Tick, Settled, SettledAt, Flags, wheelVars, asynVars, historyVars
  <1>5. CASE BeginRotate
    <2>1. /\ asynData = <<>> /\ DOMAIN asynFlag = {} /\ UNCHANGED <<timeDatas, toRefresh, asynData, asynFlag, scheduled>>
      BY <1>0, <1>5 DEF BeginRotate, Phases, asynVars, historyVars
    <2> QED BY <1>0, <1>a, <1>b, <2>1 DEF Settled, SettledAt, Flags
  <1>6. ASSUME NEW t \in timeDatas, TimeOut(t) PROVE Settled' /\ Flags'
    <2>1. UNCHANGED <<toRefresh, asynData, asynFlag, scheduled, phase>>
      BY <1>6 DEF TimeOut, asynVars
    <2>2. CASE isCancel[t]
      <3>1. timeDatas' = timeDatas \ {t} /\ Pending(t)
        BY <1>6, <2>2, CancelledIsPending DEF TimeOut
      <3> QED BY <1>0, <1>a, <2>1, <3>1 DEF Settled, SettledAt, Flags
    <2>3. CASE ~isCancel[t]
      BY <1>0, <1>6, <1>a, <2>1, <2>3 DEF TimeOut, Settled, SettledAt, Flags
    <2> QED BY <2>2, <2>3
  <1>7. CASE ErasePassed
    <2>1. UNCHANGED <<asynData, asynFlag, scheduled, phase>> /\ current \in timeDatas
      BY <1>0, <1>7 DEF ErasePassed, asynVars, historyVars, InCallback, TypeOK
    <2>2. CASE isCancel[current]
      <3>1. timeDatas' \cup toRefresh' = (timeDatas \cup toRefresh) \ {current} /\ Pending(current)
        BY <1>0, <1>7, <2>1, <2>2, CancelledIsPending DEF ErasePassed, Phases
      <3> QED BY <1>0, <1>a, <2>1, <3>1 DEF Settled, SettledAt, Flags
    <2>3. CASE ~isCancel[current]
      <3>1. timeDatas' \cup toRefresh' = timeDatas \cup toRefresh
        BY <1>7, <2>1, <2>3 DEF ErasePassed
      <3> QED BY <1>0, <1>a, <2>1, <3>1 DEF Settled, SettledAt, Flags
    <2> QED BY <2>2, <2>3
  <1>8. CASE Refresh
    <2>1. /\ UNCHANGED <<asynData, asynFlag, scheduled>> /\ phase' = "after"
          /\ timeDatas' \cup toRefresh' = timeDatas \cup toRefresh
      BY <1>8 DEF Refresh, asynVars, historyVars
    <2> QED BY <1>0, <1>a, <2>1 DEF Settled, SettledAt, Flags
  <1>9. CASE RunPutOff
    <2>0. /\ asynData # <<>> /\ asynData' = Tail(asynData) /\ phase' = "after"
          /\ toRefresh' = {} /\ toRefresh = {} /\ scheduled' = scheduled
      BY <1>0, <1>9 DEF RunPutOff, historyVars, Phases
    <2>h. Head(asynData) \in Op
      BY <1>0, <2>0 DEF TypeOK
    <2>t. PICK t \in Timer : t = Head(asynData).timer
      BY <2>h DEF Op
    <2>1. /\ Head(asynData) \in Op
          /\ \A u \in Timer : u # t => (Pending(u)' <=> Pending(u))
          /\ \A u \in Timer : \A op : Pending(u)' /\ LastIs(u, op) => LastIs(u, op)'
          /\ \A u \in Timer : Pending(u)' => Pending(u)
          /\ \A op : ~Pending(t)' /\ LastIs(t, op) => Head(asynData).op = op
      BY <1>0, <2>0, <2>t, TailOps
    <2>2. Pending(t)
      <3>2. 1 \in 1 .. Len(asynData) /\ asynData[1] = Head(asynData)
        BY <1>0, <2>0 DEF TypeOK
      <3> QED BY <2>t, <3>2 DEF Pending
    <2>3. \A u \in Timer : u # t => (u \in timeDatas' <=> u \in timeDatas)
      BY <1>9, <2>t DEF RunPutOff, Register, UnRegister
    <2>4. ASSUME ~Pending(t)' PROVE t \in timeDatas' <=> scheduled[t]
      <3>3. CASE scheduled[t]
        <4>0. Head(asynData).op = "register"
          <5>1. SettledAt(t)
            BY <1>0 DEF Settled
          <5>2. LastIs(t, "register")
            BY <5>1, <2>2, <3>3, Zenon DEF SettledAt
          <5> QED BY <2>1, <2>4, <5>2
        <4>1. Register(t, expiredTime[t]) /\ expiredTime[t] # 0
          BY <1>0, <1>9, <2>t, <3>3, <4>0 DEF RunPutOff, Data, DataAt, TypeOK
        <4> QED BY <3>3, <4>1 DEF Register
      <3>4. CASE ~scheduled[t]
        <4>0. Head(asynData).op = "unregister"
          <5>1. SettledAt(t)
            BY <1>0 DEF Settled
          <5>2. LastIs(t, "unregister")
            BY <5>1, <2>2, <3>4, Zenon DEF SettledAt
          <5> QED BY <2>1, <2>4, <5>2
        <4>1. UnRegister(t)
          BY <1>9, <2>t, <4>0 DEF RunPutOff
        <4>2. t \notin timeDatas'
          BY <1>0, <4>1 DEF UnRegister, Data
        <4> QED BY <3>4, <4>2
      <3> QED BY <3>3, <3>4
    <2>5. ASSUME NEW u \in Timer PROVE SettledAt(u)'
      <3>0. SettledAt(u)
        BY <1>0 DEF Settled
      <3>1. /\ (Pending(u)' => Pending(u))
            /\ Pending(u)' /\ LastIs(u, "register") => LastIs(u, "register")'
            /\ Pending(u)' /\ LastIs(u, "unregister") => LastIs(u, "unregister")'
        BY <2>1
      <3>2. CASE u = t
        BY <2>0, <2>4, <3>0, <3>1, <3>2 DEF SettledAt
      <3>3. CASE u # t
        BY <2>0, <2>1, <2>3, <3>0, <3>1, <3>3 DEF SettledAt
      <3> QED BY <3>2, <3>3
    <2> QED BY <2>0, <2>5 DEF Settled, Flags
  <1>10. CASE EndRotate
    <2>1. UNCHANGED <<timeDatas, toRefresh, asynData, scheduled>> /\ phase' = "logic"
      BY <1>10 DEF EndRotate, wheelVars, historyVars
    <2> QED BY <1>0, <1>a, <2>1 DEF Settled, SettledAt, Flags
  <1>11. CASE UNCHANGED vars
    BY <1>0, <1>a, <1>11 DEF vars, Settled, SettledAt, Flags, wheelVars, asynVars, historyVars
  <1> QED BY <1>1, <1>2, <1>3, <1>4, <1>5, <1>6, <1>7, <1>8, <1>9, <1>10, <1>11 DEF Next
-----------------------------------------------------------------------------
LEMMA PhasesNext == IInv /\ [Next]_vars => Phases'
  <1> SUFFICES ASSUME IInv, [Next]_vars PROVE Phases'
    OBVIOUS
  <1>0. TypeOK /\ Phases
    BY DEF IInv
  <1>1. ASSUME NEW t \in Timer, NEW p \in Periods, Schedule(t, p) PROVE Phases'
    <2>1. phase' = phase /\ toRefresh' = toRefresh
      BY <1>1 DEF Schedule
    <2>2. CASE phase = "logic" /\ Register(t, now + p) /\ UNCHANGED asynVars
      BY <1>0, <2>1, <2>2 DEF Phases, asynVars
    <2>3. CASE InCallback /\ UNCHANGED <<timeDatas, idVars>>
      BY <1>0, <2>1, <2>3 DEF Phases, InCallback, IsRotating
    <2> QED BY <1>1, <2>2, <2>3 DEF Schedule
  <1>2. ASSUME NEW t \in Timer, Cancel(t) PROVE Phases'
    BY <1>0, <1>2 DEF Cancel, UnRegister, InCallback, IsRotating, Phases, asynVars
  <1>3. ASSUME NEW t \in Timer, Renew(t) PROVE Phases'
    BY <1>0, <1>3 DEF Renew, UnRegister, Phases, asynVars
  <1>4. CASE Tick
    BY <1>0, <1>4 DEF Tick, Phases, wheelVars, asynVars
  <1>5. CASE BeginRotate
    BY <1>0, <1>5 DEF BeginRotate, Phases
  <1>6. ASSUME NEW t \in timeDatas, TimeOut(t) PROVE Phases'
    BY <1>0, <1>6 DEF TimeOut, IsRotating, Phases
  <1>7. CASE ErasePassed
    BY <1>0, <1>7 DEF ErasePassed, InCallback, IsRotating, Phases
  <1>8. CASE Refresh
    BY <1>8 DEF Refresh, Phases
  <1>9. CASE RunPutOff
    BY <1>0, <1>9 DEF RunPutOff, Phases
  <1>10. CASE EndRotate
    BY <1>0, <1>10 DEF EndRotate, Phases, wheelVars
  <1>11. CASE UNCHANGED vars
    BY <1>0, <1>11 DEF vars, wheelVars, asynVars, Phases
  <1> QED BY <1>1, <1>2, <1>3, <1>4, <1>5, <1>6, <1>7, <1>8, <1>9, <1>10, <1>11 DEF Next

LEMMA DataNext == IInv /\ [Next]_vars => Data'
  <1> SUFFICES ASSUME IInv, [Next]_vars PROVE Data'
    OBVIOUS
  <1>0. TypeOK /\ Phases /\ Data
    BY DEF IInv
  <1> USE WheelAssumption
  <1>1. ASSUME NEW t \in Timer, NEW p \in Periods, Schedule(t, p) PROVE Data'
    <2>0. now + p \in Nat /\ now + p > 0 /\ now' = now /\ toRefresh' = toRefresh
      BY <1>0, <1>1 DEF Schedule, TypeOK, Data
    <2>1. \A u \in Timer : DataAt(u)'
      <3> SUFFICES ASSUME NEW u \in Timer PROVE DataAt(u)'
        OBVIOUS
      <3>1. CASE u = t
        <4>1. scheduled'[t] /\ ~isCancel'[t] /\ expiredTime'[t] > 0
          BY <1>0, <1>1, <2>0 DEF Schedule, HistoryOf, TypeOK
        <4> QED BY <3>1, <4>1 DEF DataAt
      <3>2. CASE u # t
        <4>1. /\ scheduled'[u] = scheduled[u] /\ isCancel'[u] = isCancel[u] /\ earliest'[u] = earliest[u]
              /\ expiredTime'[u] = expiredTime[u] /\ period'[u] = period[u]
          BY <1>0, <1>1, <3>2 DEF Schedule, HistoryOf, TypeOK
        <4> QED BY <1>0, <4>1 DEF Data, DataAt
      <3> QED BY <3>1, <3>2
    <2>2. \A u \in timeDatas' \cup toRefresh' : uniqueId'[u] # 0
      <3>1. CASE Register(t, now + p)
        <4>1. timeDatas' = timeDatas \cup {t} /\ uniqueId'[t] # 0
              /\ \A u \in Timer \ {t} : uniqueId'[u] = uniqueId[u]
          BY <1>0, <2>0, <3>1 DEF Register, TypeOK, idVars
        <4> QED BY <1>0, <2>0, <4>1 DEF Data, TypeOK
      <3>2. CASE UNCHANGED <<timeDatas, idVars>>
        BY <1>0, <2>0, <3>2 DEF Data, idVars
      <3> QED BY <1>1, <3>1, <3>2 DEF Schedule
    <2> QED BY <1>0, <2>0, <2>1, <2>2 DEF Data
  <1>2. ASSUME NEW t \in Timer, Cancel(t) PROVE Data'
    <2>1. \A u \in Timer : DataAt(u)'
      <3> SUFFICES ASSUME NEW u \in Timer PROVE DataAt(u)'
        OBVIOUS
      <3>1. CASE u = t
        <4>1. ~scheduled'[t] /\ isCancel'[t] /\ earliest'[t] = 0
          BY <1>0, <1>2 DEF Cancel, HistoryOf, TypeOK
        <4> QED BY <3>1, <4>1 DEF DataAt
      <3>2. CASE u # t
        <4>1. /\ scheduled'[u] = scheduled[u] /\ isCancel'[u] = isCancel[u] /\ earliest'[u] = earliest[u]
              /\ expiredTime'[u] = expiredTime[u] /\ period'[u] = period[u]
          BY <1>0, <1>2, <3>2 DEF Cancel, HistoryOf, TypeOK
        <4> QED BY <1>0, <4>1 DEF Data, DataAt
      <3> QED BY <3>1, <3>2
    <2>2. timeDatas' \subseteq timeDatas /\ toRefresh' = toRefresh /\ uniqueId' = uniqueId /\ now' = now
      BY <1>2 DEF Cancel, UnRegister, idVars
    <2> QED BY <1>0, <2>1, <2>2 DEF Data
  <1>3. ASSUME NEW t \in Timer, Renew(t) PROVE Data'
    <2>1. \A u \in Timer : DataAt(u)'
      <3> SUFFICES ASSUME NEW u \in Timer PROVE DataAt(u)'
        OBVIOUS
      <3>1. CASE u = t
        <4>1. ~scheduled'[t] /\ earliest'[t] = 0 /\ period'[t] = 0
          BY <1>0, <1>3 DEF Renew, HistoryOf, TypeOK
        <4> QED BY <3>1, <4>1 DEF DataAt
      <3>2. CASE u # t
        <4>1. /\ scheduled'[u] = scheduled[u] /\ isCancel'[u] = isCancel[u] /\ earliest'[u] = earliest[u]
              /\ expiredTime'[u] = expiredTime[u] /\ period'[u] = period[u]
          BY <1>0, <1>3, <3>2 DEF Renew, HistoryOf, TypeOK
        <4> QED BY <1>0, <4>1 DEF Data, DataAt
      <3> QED BY <3>1, <3>2
    <2>2. /\ timeDatas' = timeDatas \ {t} /\ toRefresh' = {} /\ now' = now
          /\ \A u \in Timer \ {t} : uniqueId'[u] = uniqueId[u]
      BY <1>0, <1>3 DEF Renew, UnRegister, Phases, Data, TypeOK
    <2> QED BY <1>0, <2>1, <2>2 DEF Data, TypeOK
  <1>4. CASE Tick
    BY <1>0, <1>4 DEF Tick, Data, DataAt, TypeOK, wheelVars, dataVars, idVars, historyVars
  <1>5. CASE BeginRotate
    BY <1>0, <1>5 DEF BeginRotate, Data, DataAt, dataVars, idVars, historyVars
  <1>6. ASSUME NEW t \in timeDatas, TimeOut(t) PROVE Data'
    <2>1. t \in Timer /\ UNCHANGED <<now, toRefresh, scheduled, isCancel, expiredTime, period, uniqueId>>
          /\ timeDatas' \subseteq timeDatas
      BY <1>0, <1>6 DEF TimeOut, TypeOK, dataVars, idVars
    <2>2. ASSUME NEW u \in Timer PROVE DataAt(u)'
      <3>1. DataAt(u)
        BY <1>0 DEF Data
      <3>2. CASE earliest'[u] = earliest[u]
        BY <2>1, <3>1, <3>2 DEF DataAt
      <3>3. CASE earliest'[u] # earliest[u]
        <4>1. ~isCancel[u] /\ earliest'[u] = earliest[u] + period[u]
          BY <1>0, <1>6, <3>3 DEF TimeOut, TypeOK
        <4>2. CASE scheduled[u]
          BY <2>1, <3>1, <4>2 DEF DataAt
        <4>3. CASE ~scheduled[u]
          <5>1. earliest[u] = 0 /\ period[u] = 0
            BY <3>1, <4>1, <4>3, Zenon DEF DataAt
          <5>2. earliest'[u] = 0
            BY <4>1, <5>1
          <5> QED BY <2>1, <4>3, <5>1, <5>2 DEF DataAt
        <4> QED BY <4>2, <4>3
      <3> QED BY <3>2, <3>3
    <2> QED BY <1>0, <2>1, <2>2 DEF Data
  <1>7. CASE ErasePassed
    BY <1>0, <1>7 DEF ErasePassed, InCallback, Data, DataAt, TypeOK, dataVars, idVars, historyVars
  <1>8. CASE Refresh
    <2>1. \A u \in Timer : expiredTime'[u] >= expiredTime[u]
      BY <1>0, <1>8 DEF Refresh, TypeOK
    <2>2. \A u \in Timer : expiredTime'[u] \in Nat /\ expiredTime[u] \in Nat
      BY <1>0, <1>8 DEF Refresh, TypeOK
    <2>3. /\ UNCHANGED <<now, scheduled, isCancel, earliest, period, uniqueId>>
          /\ timeDatas' \cup toRefresh' = timeDatas \cup toRefresh
      BY <1>8 DEF Refresh, idVars, historyVars
    <2> QED BY <1>0, <2>1, <2>2, <2>3 DEF Data, DataAt
  <1>9. CASE RunPutOff
    <2>0. UNCHANGED <<now, toRefresh, scheduled, isCancel, earliest, period, expiredTime>>
          /\ Head(asynData) \in Op
      BY <1>0, <1>9 DEF RunPutOff, dataVars, historyVars, TypeOK
    <2>t. PICK t \in Timer : t = Head(asynData).timer
      BY <2>0 DEF Op
    <2>1. \A u \in timeDatas' \cup toRefresh' : uniqueId'[u] # 0
      <3>1. CASE Register(t, expiredTime[t])
        <4>1. CASE expiredTime[t] = 0
          BY <1>0, <2>0, <3>1, <4>1 DEF Register, Data, idVars
        <4>2. CASE expiredTime[t] # 0
          <5>1. timeDatas' = timeDatas \cup {t} /\ uniqueId'[t] # 0
                /\ \A u \in Timer \ {t} : uniqueId'[u] = uniqueId[u]
            BY <1>0, <3>1, <4>2 DEF Register, TypeOK, idVars
          <5> QED BY <1>0, <2>0, <5>1 DEF Data, TypeOK
        <4> QED BY <4>1, <4>2
      <3>2. CASE UnRegister(t) /\ UNCHANGED idVars
        BY <1>0, <2>0, <3>2 DEF UnRegister, Data, idVars
      <3> QED BY <1>9, <2>t, <3>1, <3>2 DEF RunPutOff
    <2> QED BY <1>0, <2>0, <2>1 DEF Data, DataAt
  <1>10. CASE EndRotate
    BY <1>0, <1>10 DEF EndRotate, Data, DataAt, wheelVars, dataVars, idVars, historyVars
  <1>11. CASE UNCHANGED vars
    BY <1>0, <1>11 DEF vars, Data, DataAt, wheelVars, dataVars, idVars, historyVars
  <1> QED BY <1>1, <1>2, <1>3, <1>4, <1>5, <1>6, <1>7, <1>8, <1>9, <1>10, <1>11 DEF Next

(* A scheduled timer whose time has come is found: it is in the set when   *)
(* the rotation begins, and the loop ends only when the first is to come.  *)
LEMMA DueNext == IInv /\ [Next]_vars => DueThere'
  <1> SUFFICES ASSUME IInv, [Next]_vars PROVE DueThere'
    OBVIOUS
  <1>0. TypeOK /\ Phases /\ Data /\ Settled /\ DueThere
    BY DEF IInv
  <1> USE WheelAssumption
  <1>1. ASSUME NEW t \in Timer, NEW p \in Periods, Schedule(t, p) PROVE DueThere'
    <2>1. /\ due' = due \ {t} /\ UNCHANGED <<phase, curTime, current>> /\ timeDatas \subseteq timeDatas'
          /\ \A u \in Timer \ {t} : scheduled'[u] = scheduled[u] /\ expiredTime'[u] = expiredTime[u]
      BY <1>0, <1>1 DEF Schedule, HistoryOf, Register, TypeOK
    <2> QED BY <1>0, <2>1 DEF DueThere, TypeOK
  <1>2. ASSUME NEW t \in Timer, Cancel(t) PROVE DueThere'
    <2>1. /\ due' = due \ {t} /\ UNCHANGED <<phase, curTime, current, expiredTime>> /\ timeDatas \ {t} \subseteq timeDatas'
          /\ \A u \in Timer \ {t} : scheduled'[u] = scheduled[u]
      BY <1>0, <1>2 DEF Cancel, HistoryOf, UnRegister, TypeOK
    <2> QED BY <1>0, <2>1 DEF DueThere, TypeOK
  <1>3. ASSUME NEW t \in Timer, Renew(t) PROVE DueThere'
    <2>1. due' = {} /\ phase' = "logic"
      BY <1>0, <1>3 DEF Renew, HistoryOf, DueThere
    <2> QED BY <2>1 DEF DueThere
  <1>4. CASE Tick
    BY <1>0, <1>4 DEF Tick, DueThere, wheelVars, dataVars, historyVars
  <1>5. CASE BeginRotate
    <2>1. ASSUME NEW t \in Timer, scheduled[t] PROVE t \in timeDatas /\ t # current
      <3>1. ~Pending(t) /\ toRefresh = {}
        BY <1>0, <1>5 DEF BeginRotate, Phases, Pending
      <3>2. t \in timeDatas
        BY <1>0, <2>1, <3>1 DEF Settled, SettledAt
      <3>3. current = NoTimer
        BY <1>0, <1>5 DEF BeginRotate, TypeOK
      <3> QED BY <3>2, <3>3
    <2>2. /\ due' = {t \in Timer : scheduled[t] /\ expiredTime[t] <= now} /\ curTime' = now
          /\ phase' = "turning" /\ UNCHANGED <<timeDatas, current, scheduled, expiredTime>>
      BY <1>5 DEF BeginRotate, dataVars, historyVars
    <2> QED BY <2>1, <2>2 DEF DueThere
  <1>6. ASSUME NEW t \in timeDatas, TimeOut(t) PROVE DueThere'
    <2>1. UNCHANGED <<phase, curTime, scheduled, expiredTime>> /\ t \in Timer /\ phase = "turning"
      BY <1>0, <1>6 DEF TimeOut, IsRotating, dataVars, TypeOK
    <2>2. CASE isCancel[t]
      <3>0. ~scheduled[t]
        BY <1>0, <2>1, <2>2, Zenon DEF Data, DataAt
      <3>1. timeDatas' = timeDatas \ {t} /\ due' = due /\ current' = current
        BY <1>6, <2>1, <2>2 DEF TimeOut
      <3> QED BY <1>0, <2>1, <3>0, <3>1 DEF DueThere
    <2>3. CASE ~isCancel[t]
      BY <1>0, <1>6, <2>1, <2>3 DEF TimeOut, DueThere
    <2> QED BY <2>2, <2>3
  <1>7. CASE ErasePassed
    BY <1>0, <1>7 DEF ErasePassed, InCallback, IsRotating, DueThere, TypeOK, dataVars, historyVars
  <1>8. CASE Refresh
    <2>1. due = {}
      <3> SUFFICES ASSUME NEW u \in due PROVE FALSE
        OBVIOUS
      <3>1. u \in timeDatas /\ expiredTime[u] <= curTime /\ u \in Timer
        BY <1>0 DEF DueThere, TypeOK
      <3>2. PICK t \in timeDatas : IsFirst(t) /\ ~Expired(t)
        BY <1>8, <3>1 DEF Refresh
      <3>3. expiredTime[t] \in Nat /\ expiredTime[u] \in Nat /\ curTime \in Nat
        BY <1>0, <3>1 DEF TypeOK
      <3>4. expiredTime[t] <= expiredTime[u]
        BY <3>1, <3>2, <3>3 DEF IsFirst, Before
      <3> QED BY <3>1, <3>2, <3>3, <3>4 DEF Expired
    <2>2. due' = {} /\ phase' = "after"
      BY <1>8, <2>1 DEF Refresh
    <2> QED BY <2>2 DEF DueThere
  <1>9. CASE RunPutOff
    BY <1>0, <1>9 DEF RunPutOff, DueThere
  <1>10. CASE EndRotate
    BY <1>0, <1>10 DEF EndRotate, DueThere
  <1>11. CASE UNCHANGED vars
    BY <1>0, <1>11 DEF vars, DueThere, wheelVars, dataVars, historyVars
  <1> QED BY <1>1, <1>2, <1>3, <1>4, <1>5, <1>6, <1>7, <1>8, <1>9, <1>10, <1>11 DEF Next

LEMMA EarlyNext == IInv /\ TypeOK' /\ [Next]_vars => Early'
  <1> SUFFICES ASSUME IInv, TypeOK', [Next]_vars, NEW u \in Timer
               PROVE  (earliest[u] <= expiredTime[u] + IF u = current \/ u \in toRefresh THEN period[u] ELSE 0)'
    BY DEF Early
  <1>0. TypeOK /\ Phases /\ Data
    BY DEF IInv
  <1>e. earliest[u] <= expiredTime[u] + IF u = current \/ u \in toRefresh THEN period[u] ELSE 0
    BY DEF IInv, Early
  <1>n. /\ earliest[u] \in Nat /\ expiredTime[u] \in Nat /\ period[u] \in Nat
        /\ earliest'[u] \in Nat /\ expiredTime'[u] \in Nat /\ period'[u] \in Nat
    BY <1>0 DEF TypeOK
  <1> USE WheelAssumption
  <1>1. ASSUME NEW t \in Timer, NEW p \in Periods, Schedule(t, p)
        PROVE  (earliest[u] <= expiredTime[u] + IF u = current \/ u \in toRefresh THEN period[u] ELSE 0)'
    <2>1. CASE u = t
      <3>1. earliest'[u] = now + p /\ expiredTime'[u] = now + p
        BY <1>0, <1>1, <2>1 DEF Schedule, HistoryOf, TypeOK
      <3> QED BY <1>n, <3>1
    <2>2. CASE u # t
      <3>1. /\ earliest'[u] = earliest[u] /\ expiredTime'[u] = expiredTime[u] /\ period'[u] = period[u]
            /\ current' = current /\ toRefresh' = toRefresh
        BY <1>0, <1>1, <2>2 DEF Schedule, HistoryOf, TypeOK
      <3> QED BY <1>e, <3>1
    <2> QED BY <2>1, <2>2
  <1>2. ASSUME NEW t \in Timer, Cancel(t)
        PROVE  (earliest[u] <= expiredTime[u] + IF u = current \/ u \in toRefresh THEN period[u] ELSE 0)'
    <2>1. /\ earliest'[u] = IF u = t THEN 0 ELSE earliest[u]
          /\ UNCHANGED <<current, toRefresh, expiredTime, period>>
      BY <1>0, <1>2 DEF Cancel, HistoryOf, TypeOK
    <2> QED BY <1>e, <1>n, <2>1
  <1>3. ASSUME NEW t \in Timer, Renew(t)
        PROVE  (earliest[u] <= expiredTime[u] + IF u = current \/ u \in toRefresh THEN period[u] ELSE 0)'
    <2>1. CASE u = t
      <3>1. earliest'[u] = 0
        BY <1>0, <1>3, <2>1 DEF Renew, HistoryOf, TypeOK
      <3> QED BY <1>n, <3>1
    <2>2. CASE u # t
      <3>1. /\ earliest'[u] = earliest[u] /\ expiredTime'[u] = expiredTime[u] /\ period'[u] = period[u]
            /\ current' = current /\ toRefresh' = toRefresh
        BY <1>0, <1>3, <2>2 DEF Renew, HistoryOf, TypeOK
      <3> QED BY <1>e, <3>1
    <2> QED BY <2>1, <2>2
  <1>6. ASSUME NEW t \in timeDatas, TimeOut(t)
        PROVE  (earliest[u] <= expiredTime[u] + IF u = current \/ u \in toRefresh THEN period[u] ELSE 0)'
    <2>1. /\ UNCHANGED <<toRefresh, expiredTime, period>> /\ t \in Timer /\ current = NoTimer
          /\ t \notin toRefresh
      BY <1>0, <1>6 DEF TimeOut, dataVars, TypeOK, Phases
    <2>2. CASE isCancel[t]
      BY <1>6, <1>e, <2>1, <2>2 DEF TimeOut
    <2>3. CASE ~isCancel[t]
      <3>1. current' = t /\ earliest' = [earliest EXCEPT ![t] = @ + period[t]]
        BY <1>6, <2>3 DEF TimeOut
      <3>2. CASE u = t
        <4>1. earliest'[u] = earliest[u] + period[u] /\ earliest[u] <= expiredTime[u]
          BY <1>0, <1>e, <1>n, <2>1, <3>1, <3>2 DEF TypeOK
        <4> QED BY <1>n, <2>1, <3>1, <3>2, <4>1
      <3>3. CASE u # t
        <4>1. earliest'[u] = earliest[u] /\ u # current /\ u # current'
          BY <1>0, <2>1, <3>1, <3>3 DEF TypeOK
        <4> QED BY <1>e, <2>1, <4>1
      <3> QED BY <3>2, <3>3
    <2> QED BY <2>2, <2>3
  <1>7. CASE ErasePassed
    <2>1. UNCHANGED <<earliest, expiredTime, period>> /\ current' = NoTimer
      BY <1>7 DEF ErasePassed, dataVars, historyVars
    <2>2. CASE u = current /\ isCancel[u]
      <3>1. earliest[u] = 0
        BY <1>0, <2>2, Zenon DEF Data, DataAt
      <3> QED BY <1>n, <2>1, <3>1
    <2>3. CASE ~(u = current /\ isCancel[u])
      <3>1. (u = current \/ u \in toRefresh) <=> (u = current' \/ u \in toRefresh')
        BY <1>7, <2>1, <2>3 DEF ErasePassed
      <3> QED BY <1>e, <2>1, <3>1
    <2> QED BY <2>2, <2>3
  <1>8. CASE Refresh
    <2>1. /\ UNCHANGED <<earliest, period>> /\ toRefresh' = {} /\ current' = NoTimer /\ current = NoTimer
          /\ expiredTime'[u] = expiredTime[u] + IF u \in toRefresh THEN period[u] ELSE 0
      BY <1>8 DEF Refresh, historyVars
    <2> QED BY <1>e, <1>n, <2>1
  <1>9. ASSUME UNCHANGED <<earliest, expiredTime, period, current, toRefresh>>
        PROVE  (earliest[u] <= expiredTime[u] + IF u = current \/ u \in toRefresh THEN period[u] ELSE 0)'
    BY <1>e, <1>9
  <1>10. Tick \/ BeginRotate \/ RunPutOff \/ EndRotate \/ UNCHANGED vars
            => UNCHANGED <<earliest, expiredTime, period, current, toRefresh>>
    BY DEF Tick, BeginRotate, RunPutOff, EndRotate, vars, wheelVars, dataVars, historyVars
  <1> QED BY <1>1, <1>2, <1>3, <1>6, <1>7, <1>8, <1>9, <1>10 DEF Next

THEOREM Inductive == Spec => []IInv
  <1>1. IInv /\ [Next]_vars => IInv'
    BY TypeNext, PhasesNext, DataNext, SettledNext, DueNext, EarlyNext DEF IInv
  <1> QED BY InitIInv, <1>1, PTL DEF Spec

(* IsScheduling answers the truth, also for what is put off.               *)
THEOREM SchedulingCorrect == Spec => []SchedulingIsTrue
  <1>1. IInv => SchedulingIsTrue
    <2> SUFFICES ASSUME IInv, phase # "after", NEW t \in Timer \ (toRefresh \ DOMAIN asynFlag)
                 PROVE  IsRegister(t) = scheduled[t]
      BY DEF SchedulingIsTrue
    <2>0. phase \in {"logic", "turning"} /\ scheduled[t] \in BOOLEAN /\ SettledAt(t)
      BY DEF IInv, TypeOK, Settled
    <2>1. CASE t \in DOMAIN asynFlag
      <3>1. phase = "turning"
        BY <2>0, <2>1 DEF IInv, Phases
      <3> QED BY <2>1, <3>1 DEF IInv, Flags, IsRegister
    <2>2. CASE t \notin DOMAIN asynFlag
      <3>1. ~Pending(t) /\ t \notin toRefresh
        BY <2>0, <2>2 DEF IInv, Phases, Flags, Pending
      <3>2. t \in timeDatas <=> scheduled[t]
        BY <2>0, <3>1 DEF SettledAt
      <3>3. IsRegister(t) = (t \in timeDatas)
        BY <2>2 DEF IsRegister
      <3> QED BY <2>0, <3>2, <3>3
    <2> QED BY <2>1, <2>2
  <1> QED BY Inductive, <1>1, PTL

(* A rotation calls every scheduled timer that was due when it began.      *)
THEOREM NobodyMissed == Spec => []MissesNobody
  <1>1. IInv => MissesNobody
    BY DEF IInv, DueThere, MissesNobody
  <1> QED BY Inductive, <1>1, PTL

(* No call of a timer comes before it may.                                 *)
THEOREM NeverEarly == Spec => NotEarly
  <1> DEFINE OnTime == \A t \in Timer : current' = t /\ current # t => earliest[t] <= curTime
  <1>1. IInv /\ [Next]_vars => [OnTime]_vars
    <2> SUFFICES ASSUME IInv, Next, NEW u \in Timer, current' = u, current # u PROVE earliest[u] <= curTime
      OBVIOUS
    <2>1. \A t \in timeDatas : TimeOut(t) => u = t
      BY WheelAssumption DEF TimeOut
    <2>2. \E t \in timeDatas : TimeOut(t)
      BY WheelAssumption DEF Next, Schedule, Cancel, Renew, Tick, BeginRotate, ErasePassed, Refresh, RunPutOff, EndRotate, wheelVars
    <2>3. u \in timeDatas /\ expiredTime[u] <= curTime
      BY <2>1, <2>2 DEF TimeOut, Expired
    <2>4. u \notin toRefresh
      BY <2>3 DEF IInv, Phases
    <2>5. expiredTime[u] \in Nat /\ earliest[u] \in Nat /\ curTime \in Nat
      BY DEF IInv, TypeOK
    <2>6. earliest[u] <= expiredTime[u]
      BY <2>4, <2>5 DEF IInv, Early
    <2> QED BY <2>3, <2>5, <2>6
  <1> QED BY Inductive, <1>1, PTL DEF NotEarly, Spec
-----------------------------------------------------------------------------
(* No two timers carry the same id: _increaseId only grows, and a timer    *)
(* gets an id once.  It is what makes the order of the set total.          *)
Ids ==
    /\ \A t \in Timer : uniqueId[t] <= increaseId
    /\ \A t, u \in Timer : t # u /\ uniqueId[t] # 0 => uniqueId[t] # uniqueId[u]

LEMMA RegisterIds ==
    ASSUME TypeOK, Ids, NEW t \in Timer, NEW expiry, Register(t, expiry)
    PROVE  Ids'
  <1>n. increaseId \in Nat /\ uniqueId \in [Timer -> Nat]
    BY DEF TypeOK
  <1>1. CASE UNCHANGED idVars
    BY <1>1 DEF Ids, idVars
  <1>2. CASE increaseId' = increaseId + 1 /\ uniqueId' = [uniqueId EXCEPT ![t] = increaseId + 1]
    <2>1. \A u \in Timer : uniqueId[u] \in Nat /\ uniqueId'[u] = IF u = t THEN increaseId + 1 ELSE uniqueId[u]
      BY <1>n, <1>2
    <2>2. \A u \in Timer : uniqueId[u] <= increaseId
      BY DEF Ids
    <2>3. ASSUME NEW u \in Timer PROVE uniqueId'[u] <= increaseId'
      BY <1>n, <1>2, <2>1, <2>2
    <2>4. ASSUME NEW u \in Timer, NEW v \in Timer, u # v, uniqueId'[u] # 0 PROVE uniqueId'[u] # uniqueId'[v]
      <3>1. uniqueId[u] # 0 => uniqueId[u] # uniqueId[v]
        BY <2>4 DEF Ids
      <3>2. uniqueId[u] <= increaseId /\ uniqueId[v] <= increaseId /\ uniqueId[u] \in Nat /\ uniqueId[v] \in Nat
        BY <2>1, <2>2
      <3> QED BY <1>n, <2>1, <2>4, <3>1, <3>2
    <2> QED BY <2>3, <2>4 DEF Ids
  <1> QED BY <1>1, <1>2 DEF Register

LEMMA IdsNext == TypeOK /\ Ids /\ [Next]_vars => Ids'
  <1> SUFFICES ASSUME TypeOK, Ids, [Next]_vars PROVE Ids'
    OBVIOUS
  <1>k. UNCHANGED idVars => Ids'
    BY DEF Ids, idVars
  <1>1. ASSUME NEW t \in Timer, NEW p \in Periods, Schedule(t, p) PROVE Ids'
    BY <1>k, <1>1, RegisterIds DEF Schedule
  <1>2. ASSUME NEW t \in Timer, Renew(t) PROVE Ids'
    <2>1. \A u \in Timer : uniqueId'[u] = IF u = t THEN 0 ELSE uniqueId[u]
      BY <1>2 DEF Renew, TypeOK
    <2>2. increaseId' = increaseId /\ increaseId \in Nat
      BY <1>2 DEF Renew, TypeOK
    <2>3. \A u \in Timer : uniqueId'[u] <= increaseId'
      BY <2>1, <2>2 DEF Ids
    <2>4. \A u, v \in Timer : u # v /\ uniqueId'[u] # 0 => uniqueId'[u] # uniqueId'[v]
      BY <2>1 DEF Ids
    <2> QED BY <2>3, <2>4 DEF Ids
  <1>3. CASE RunPutOff
    <2>1. Head(asynData) \in Op
      BY <1>3 DEF RunPutOff, TypeOK
    <2>2. Head(asynData).timer \in Timer
      BY <2>1 DEF Op
    <2> QED BY <1>k, <1>3, <2>2, RegisterIds DEF RunPutOff
  <1>4. (\E t \in Timer : Cancel(t)) \/ Tick \/ BeginRotate \/ (\E t \in timeDatas : TimeOut(t))
            \/ ErasePassed \/ Refresh \/ EndRotate \/ UNCHANGED vars
        => UNCHANGED idVars
    BY DEF Cancel, Tick, BeginRotate, TimeOut, ErasePassed, Refresh, EndRotate, vars
  <1> QED BY <1>k, <1>1, <1>2, <1>3, <1>4 DEF Next

(* A set of numbers has a least one.                                       *)
LEMMA LeastOf == ASSUME NEW N \in SUBSET Nat, N # {} PROVE \E n \in N : \A k \in N : n <= k
  <1> DEFINE R == {p \in Nat \X Nat : p[1] < p[2]}
  <1>1. \A j, k \in Nat : j < k => <<j, k>> \in R
    OBVIOUS
  <1>2. IsWellFoundedOn(R, Nat)
    BY NatLessThanWellFounded DEF OpToRel
  <1> HIDE DEF R
  <1>3. PICK n \in N : \A k \in N : ~(<<k, n>> \in R)
    BY <1>2, WFMin
  <1>4. ASSUME NEW k \in N PROVE n <= k
    <2>1. ~(k < n) /\ k \in Nat /\ n \in Nat
      BY <1>1, <1>3
    <2> QED BY <2>1
  <1> QED BY <1>4

(* The set of timers, when there is one in it, has a first: the expiry     *)
(* decides, and among equals the id.                                       *)
LEMMA FirstExists ==
    ASSUME TypeOK, Ids, \A t \in timeDatas : uniqueId[t] # 0, timeDatas # {}
    PROVE  \E t \in timeDatas : IsFirst(t)
  <1>n. timeDatas \subseteq Timer /\ \A t \in timeDatas : expiredTime[t] \in Nat /\ uniqueId[t] \in Nat
    BY DEF TypeOK
  <1> DEFINE E == {expiredTime[t] : t \in timeDatas}
  <1>1. PICK e \in E : \A k \in E : e <= k
    BY <1>n, LeastOf
  <1> DEFINE N == {uniqueId[t] : t \in {u \in timeDatas : expiredTime[u] = e}}
  <1>2. PICK n \in N : \A k \in N : n <= k
    <2>1. N \in SUBSET Nat /\ N # {}
      BY <1>n, <1>1
    <2> HIDE DEF N
    <2> QED BY <2>1, LeastOf
  <1>3. PICK t \in timeDatas : expiredTime[t] = e /\ uniqueId[t] = n
    BY <1>2
  <1>4. ASSUME NEW u \in timeDatas \ {t} PROVE Before(t, u)
    <2>1. e <= expiredTime[u] /\ e \in Nat /\ expiredTime[u] \in Nat /\ uniqueId[u] \in Nat /\ n \in Nat
      BY <1>n, <1>1, <1>3
    <2>2. CASE expiredTime[u] = e
      <3>1. n <= uniqueId[u]
        BY <1>2, <2>2
      <3>2. uniqueId[t] # uniqueId[u]
        BY <1>n DEF Ids
      <3> QED BY <1>3, <2>1, <2>2, <3>1, <3>2 DEF Before
    <2>3. CASE expiredTime[u] # e
      BY <1>3, <2>1, <2>3 DEF Before
    <2> QED BY <2>2, <2>3
  <1> QED BY <1>4 DEF IsFirst

(* A loop that sleeps as GetModifiedResolution says turns the wheel at the *)
(* latest one resolution after a timer has expired, for any timers,        *)
(* periods and resolution.                                                 *)
THEOREM LoopIsPunctual == Spec => []PunctualWait
  <1>1. Init => Ids
    BY DEF Init, Ids
  <1>2. IInv /\ Ids => PunctualWait
    <2> SUFFICES ASSUME IInv, Ids, NEW t \in timeDatas, ModifiedResolution # 0
                 PROVE  now + ModifiedResolution <= expiredTime[t] + Resolution
      BY DEF PunctualWait
    <2> DEFINE first == CHOOSE u \in timeDatas : IsFirst(u)
    <2>1. TypeOK /\ \A u \in timeDatas : uniqueId[u] # 0
      BY DEF IInv, Data
    <2>2. first \in timeDatas /\ IsFirst(first)
      <3>1. \E u \in timeDatas : IsFirst(u)
        BY <2>1, FirstExists
      <3> QED BY <3>1
    <2>3. ModifiedResolution = Resolution - (now - (expiredTime[first] - period[first]))
      BY DEF ModifiedResolution
    <2> HIDE DEF first
    <2>4. /\ expiredTime[first] \in Nat /\ period[first] \in Nat /\ expiredTime[t] \in Nat
          /\ now \in Nat /\ Resolution \in Nat
      BY <2>1, <2>2, WheelAssumption DEF TypeOK
    <2>5. expiredTime[first] <= expiredTime[t]
      BY <2>2, <2>4 DEF IsFirst, Before
    <2> QED BY <2>3, <2>4, <2>5
  <1> QED BY <1>1, <1>2, IdsNext, TypeCorrect, Inductive, PTL DEF Spec
=============================================================================
