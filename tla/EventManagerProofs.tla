------------------------- MODULE EventManagerProofs -------------------------
(***************************************************************************)
(* For any events, stubs and depth of fires, and callers who bind no stub  *)
(* twice in one fire: the variables keep their types, the indexes hold in  *)
(* the end what was asked for, and every round is whole.                   *)
(***************************************************************************)
EXTENDS EventManager, SequenceTheorems, TLAPS

(* What an operation does to a registration.                               *)
Adds(op, id, st) == op.addOp /\ op.evId = id /\ op.stub = st
Removes(op, id, st) ==
    ~op.addOp /\ (IF op.evId # NoId THEN op.evId = id ELSE op.stub = st)

(* A registration that is there now (or not) is there after the operations *)
(* of q: kept by all of them, or added by one and kept by the rest.        *)
InTheEnd(q, now, id, st) ==
    \/ now /\ \A j \in 1 .. Len(q) : ~Removes(q[j], id, st)
    \/ \E i \in 1 .. Len(q) :
           Adds(q[i], id, st) /\ \A j \in 1 .. Len(q) : j > i => ~Removes(q[j], id, st)

WellFormed(op) ==
    /\ op.addOp => op.evId \in Ids /\ op.stub \in Stubs
    /\ ~op.addOp /\ op.evId = NoId => op.stub \in Stubs

(* The two indexes agree.                                                  *)
Matching ==
    \A id \in Ids :
        /\ IsInjective(listeners[id])
        /\ \A st \in Stubs : Contains(listeners[id], st) <=> stubListeners[st] = id

Used(st) == st \in Bindable \/ st <= maxListenerStub

(* An add that is put off has a stub of its own.                           *)
Fresh ==
    /\ \A i \in 1 .. Len(delayedOps) :
           /\ WellFormed(delayedOps[i])
           /\ delayedOps[i].addOp =>
                  stubListeners[delayedOps[i].stub] = NoId /\ Used(delayedOps[i].stub)
    /\ \A i, j \in 1 .. Len(delayedOps) :
           delayedOps[i].addOp /\ delayedOps[j].addOp /\ delayedOps[i].stub = delayedOps[j].stub
               => i = j
    /\ \A st \in Stubs : stubListeners[st] # NoId => Used(st)

(* What is asked for is what the operations put off will leave.            *)
AskedIs ==
    \A id \in Ids, st \in Stubs :
        [evId |-> id, stub |-> st] \in asked
            <=> InTheEnd(delayedOps, stubListeners[st] = id, id, st)

(* While events are fired the index is that of the start, and every fire   *)
(* has called the first of its list.                                       *)
Rounds ==
    /\ \A k \in 1 .. Len(fires) :
           /\ Len(fires[k].called) <= Len(listeners[fires[k].evId])
           /\ \A i \in 1 .. Len(fires[k].called) :
                  fires[k].called[i] = listeners[fires[k].evId][i]
    /\ IsFiring => \A id \in Ids, st \in Stubs :
                       [evId |-> id, stub |-> st] \in atStart <=> stubListeners[st] = id

IInv == TypeOK /\ Matching /\ Fresh /\ AskedIs /\ Rounds

-----------------------------------------------------------------------------
(* Sequences of operations.                                                *)
LEMMA EndEmpty ==
    ASSUME NEW now \in BOOLEAN, NEW id, NEW st
    PROVE  InTheEnd(<<>>, now, id, st) <=> now
BY DEF InTheEnd

LEMMA EndAppend ==
    ASSUME NEW q \in Seq(Op), NEW op \in Op, NEW now \in BOOLEAN, NEW id, NEW st
    PROVE  InTheEnd(Append(q, op), now, id, st)
               <=> Adds(op, id, st) \/ (InTheEnd(q, now, id, st) /\ ~Removes(op, id, st))
<1>1. PICK r : r = Append(q, op)
  OBVIOUS
<1>2. /\ Len(q) \in Nat /\ Len(r) = Len(q) + 1 /\ r[Len(r)] = op
      /\ \A i \in 1 .. Len(q) : r[i] = q[i]
  BY <1>1
<1>3. Adds(op, id, st) => ~Removes(op, id, st)
  BY DEF Adds, Removes
<1>4. ASSUME InTheEnd(r, now, id, st)
      PROVE  Adds(op, id, st) \/ (InTheEnd(q, now, id, st) /\ ~Removes(op, id, st))
  <2>1. CASE now /\ \A j \in 1 .. Len(r) : ~Removes(r[j], id, st)
    BY <1>2, <2>1 DEF InTheEnd
  <2>2. CASE \E i \in 1 .. Len(r) :
                 Adds(r[i], id, st) /\ \A j \in 1 .. Len(r) : j > i => ~Removes(r[j], id, st)
    <3>1. PICK i \in 1 .. Len(r) :
                 Adds(r[i], id, st) /\ \A j \in 1 .. Len(r) : j > i => ~Removes(r[j], id, st)
      BY <2>2
    <3>2. CASE i = Len(r)
      BY <1>2, <3>1, <3>2
    <3>3. CASE i # Len(r)
      <4>1. i \in 1 .. Len(q) /\ Len(r) > i /\ Len(r) \in 1 .. Len(r)
        BY <1>2, <3>3
      <4>2. ~Removes(op, id, st)
        BY <1>2, <3>1, <4>1
      <4>3. Adds(q[i], id, st) /\ \A j \in 1 .. Len(q) : j > i => ~Removes(q[j], id, st)
        BY <1>2, <3>1, <4>1
      <4> QED
        BY <4>1, <4>2, <4>3 DEF InTheEnd
    <3> QED
      BY <3>2, <3>3
  <2> QED
    BY <1>4, <2>1, <2>2 DEF InTheEnd
<1>5. ASSUME Adds(op, id, st) PROVE InTheEnd(r, now, id, st)
  <2>1. Len(r) \in 1 .. Len(r) /\ \A j \in 1 .. Len(r) : ~(j > Len(r))
    BY <1>2
  <2> QED
    BY <1>2, <1>5, <2>1 DEF InTheEnd
<1>6. ASSUME InTheEnd(q, now, id, st), ~Removes(op, id, st) PROVE InTheEnd(r, now, id, st)
  <2>1. \A j \in 1 .. Len(r) : j \in 1 .. Len(q) \/ j = Len(r)
    BY <1>2
  <2>2. CASE now /\ \A j \in 1 .. Len(q) : ~Removes(q[j], id, st)
    BY <1>2, <1>6, <2>1, <2>2 DEF InTheEnd
  <2>3. CASE \E i \in 1 .. Len(q) :
                 Adds(q[i], id, st) /\ \A j \in 1 .. Len(q) : j > i => ~Removes(q[j], id, st)
    <3>1. PICK i \in 1 .. Len(q) :
                 Adds(q[i], id, st) /\ \A j \in 1 .. Len(q) : j > i => ~Removes(q[j], id, st)
      BY <2>3
    <3>2. i \in 1 .. Len(r) /\ Adds(r[i], id, st)
      BY <1>2, <3>1
    <3>3. \A j \in 1 .. Len(r) : j > i => ~Removes(r[j], id, st)
      BY <1>2, <1>6, <2>1, <3>1
    <3> QED
      BY <3>2, <3>3 DEF InTheEnd
  <2> QED
    BY <1>6, <2>2, <2>3 DEF InTheEnd
<1> QED
  BY <1>1, <1>4, <1>5, <1>6

LEMMA EndTail ==
    ASSUME NEW q \in Seq(Op), q # <<>>, NEW now \in BOOLEAN, NEW id, NEW st,
           NEW then \in BOOLEAN,
           then <=> Adds(Head(q), id, st) \/ (now /\ ~Removes(Head(q), id, st))
    PROVE  InTheEnd(q, now, id, st) <=> InTheEnd(Tail(q), then, id, st)
<1>1. PICK r : r = Tail(q)
  OBVIOUS
<1>2. /\ Len(r) \in Nat /\ Len(q) = Len(r) + 1 /\ Head(q) = q[1]
      /\ \A i \in 1 .. Len(r) : r[i] = q[i + 1]
  BY <1>1
<1>3. /\ \A i \in 1 .. Len(r) : i + 1 \in 1 .. Len(q) /\ i + 1 > 1
      /\ \A i \in 1 .. Len(q) : i # 1 => i - 1 \in 1 .. Len(r) /\ (i - 1) + 1 = i
      /\ 1 \in 1 .. Len(q)
  BY <1>2
<1>4. \A i \in 1 .. Len(q) : i # 1 => r[i - 1] = q[i]
  BY <1>2, <1>3
<1>5. ASSUME InTheEnd(q, now, id, st) PROVE InTheEnd(r, then, id, st)
  <2>1. CASE now /\ \A j \in 1 .. Len(q) : ~Removes(q[j], id, st)
    BY <1>2, <1>3, <2>1 DEF InTheEnd
  <2>2. CASE \E i \in 1 .. Len(q) :
                 Adds(q[i], id, st) /\ \A j \in 1 .. Len(q) : j > i => ~Removes(q[j], id, st)
    <3>1. PICK i \in 1 .. Len(q) :
                 Adds(q[i], id, st) /\ \A j \in 1 .. Len(q) : j > i => ~Removes(q[j], id, st)
      BY <2>2
    <3>2. CASE i = 1
      <4>1. \A j \in 1 .. Len(r) : ~Removes(r[j], id, st)
        BY <1>2, <1>3, <3>1, <3>2
      <4> QED
        BY <1>2, <3>1, <3>2, <4>1 DEF InTheEnd
    <3>3. CASE i # 1
      <4>1. i - 1 \in 1 .. Len(r) /\ Adds(r[i - 1], id, st)
        BY <1>3, <1>4, <3>1, <3>3
      <4>2. ASSUME NEW j \in 1 .. Len(r), j > i - 1 PROVE ~Removes(r[j], id, st)
        <5>1. j + 1 \in 1 .. Len(q) /\ j + 1 > i
          BY <1>3, <4>2
        <5> QED
          BY <1>2, <3>1, <5>1
      <4> QED
        BY <4>1, <4>2 DEF InTheEnd
    <3> QED
      BY <3>2, <3>3
  <2> QED
    BY <1>5, <2>1, <2>2 DEF InTheEnd
<1>6. ASSUME InTheEnd(r, then, id, st) PROVE InTheEnd(q, now, id, st)
  <2>1. CASE then /\ \A j \in 1 .. Len(r) : ~Removes(r[j], id, st)
    <3>1. \A j \in 1 .. Len(q) : j # 1 => ~Removes(q[j], id, st)
      BY <1>3, <1>4, <2>1
    <3>2. CASE Adds(Head(q), id, st)
      <4>1. \A j \in 1 .. Len(q) : j > 1 => ~Removes(q[j], id, st)
        BY <3>1
      <4> QED
        BY <1>2, <1>3, <3>2, <4>1 DEF InTheEnd
    <3>3. CASE now /\ ~Removes(Head(q), id, st)
      BY <1>2, <3>1, <3>3 DEF InTheEnd
    <3> QED
      BY <2>1, <3>2, <3>3
  <2>2. CASE \E i \in 1 .. Len(r) :
                 Adds(r[i], id, st) /\ \A j \in 1 .. Len(r) : j > i => ~Removes(r[j], id, st)
    <3>1. PICK i \in 1 .. Len(r) :
                 Adds(r[i], id, st) /\ \A j \in 1 .. Len(r) : j > i => ~Removes(r[j], id, st)
      BY <2>2
    <3>2. i + 1 \in 1 .. Len(q) /\ Adds(q[i + 1], id, st)
      BY <1>2, <1>3, <3>1
    <3>3. ASSUME NEW j \in 1 .. Len(q), j > i + 1 PROVE ~Removes(q[j], id, st)
      <4>1. j # 1 /\ j - 1 \in 1 .. Len(r) /\ j - 1 > i
        BY <1>3, <3>3
      <4> QED
        BY <1>4, <3>1, <4>1
    <3> QED
      BY <3>2, <3>3 DEF InTheEnd
  <2> QED
    BY <1>6, <2>1, <2>2 DEF InTheEnd
<1> QED
  BY <1>1, <1>5, <1>6

-----------------------------------------------------------------------------
(* Lists of stubs without repetition.                                      *)
LEMMA ListAppend ==
    ASSUME NEW q \in Seq(Stubs), NEW st \in Stubs, IsInjective(q), ~Contains(q, st),
           NEW r, r = Append(q, st)
    PROVE  /\ r \in Seq(Stubs) /\ IsInjective(r)
           /\ \A x : Contains(r, x) <=> Contains(q, x) \/ x = st
<1>1. /\ r \in Seq(Stubs) /\ Len(q) \in Nat /\ Len(r) = Len(q) + 1 /\ r[Len(r)] = st
      /\ \A i \in 1 .. Len(q) : r[i] = q[i]
      /\ DOMAIN q = 1 .. Len(q) /\ DOMAIN r = 1 .. Len(r)
  OBVIOUS
<1>2. \A i \in 1 .. Len(r) : i \in 1 .. Len(q) \/ i = Len(r)
  BY <1>1
<1>3. IsInjective(r)
  <2> SUFFICES ASSUME NEW a \in 1 .. Len(r), NEW b \in 1 .. Len(r), r[a] = r[b] PROVE a = b
    BY <1>1 DEF IsInjective
  <2>1. CASE a \in 1 .. Len(q) /\ b \in 1 .. Len(q)
    BY <1>1, <2>1 DEF IsInjective
  <2>2. CASE a \in 1 .. Len(q) /\ b = Len(r)
    BY <1>1, <2>2 DEF Contains
  <2>3. CASE b \in 1 .. Len(q) /\ a = Len(r)
    BY <1>1, <2>3 DEF Contains
  <2> QED
    BY <1>2, <2>1, <2>2, <2>3
<1>4. ASSUME NEW x PROVE Contains(r, x) <=> Contains(q, x) \/ x = st
  <2>1. Contains(r, x) => Contains(q, x) \/ x = st
    BY <1>1, <1>2 DEF Contains
  <2>2. Contains(q, x) => Contains(r, x)
    <3>1. \A i \in 1 .. Len(q) : i \in 1 .. Len(r)
      BY <1>1
    <3> QED
      BY <1>1, <3>1 DEF Contains
  <2>3. x = st => Contains(r, x)
    <3>1. Len(r) \in 1 .. Len(r)
      BY <1>1
    <3> QED
      BY <1>1, <3>1 DEF Contains
  <2> QED
    BY <2>1, <2>2, <2>3
<1> QED
  BY <1>1, <1>3, <1>4

LEMMA ListRemove ==
    ASSUME NEW q \in Seq(Stubs), NEW st \in Stubs, IsInjective(q), Contains(q, st),
           NEW r, r = RemoveFirst(q, st)
    PROVE  /\ r \in Seq(Stubs) /\ IsInjective(r)
           /\ \A x : Contains(r, x) <=> Contains(q, x) /\ x # st
<1>1. PICK k \in 1 .. Len(q) : q[k] = st
  BY DEF Contains
<1>2. Len(q) \in Nat /\ DOMAIN q = 1 .. Len(q)
  OBVIOUS
<1>3. {i \in 1 .. Len(q) : q[i] = st} = {k}
  BY <1>1, <1>2 DEF IsInjective
<1>4. Min({k}) = k
  BY <1>1 DEF Min
<1>5. SelectInSeq(q, LAMBDA v : v = st) = k
  BY <1>3, <1>4 DEF SelectInSeq
<1>6. r = SubSeq(q, 1, k - 1) \o SubSeq(q, k + 1, Len(q))
  BY <1>1, <1>5 DEF RemoveFirst, RemoveAt
<1>7. PICK a, b : a = SubSeq(q, 1, k - 1) /\ b = SubSeq(q, k + 1, Len(q))
  OBVIOUS
<1>8. /\ a \in Seq(Stubs) /\ Len(a) = k - 1 /\ \A i \in 1 .. (k - 1) : a[i] = q[i]
      /\ b \in Seq(Stubs) /\ Len(b) = Len(q) - k /\ \A i \in 1 .. (Len(q) - k) : b[i] = q[i + k]
  <2>1. /\ \A i \in 1 .. (k - 1) : q[i] \in Stubs
        /\ \A i \in (k + 1) .. Len(q) : q[i] \in Stubs
        /\ k \in Nat /\ k >= 1 /\ k <= Len(q)
    BY <1>1, <1>2
  <2>2. /\ a \in Seq(Stubs) /\ Len(a) = (IF 1 <= k - 1 THEN (k - 1) - 1 + 1 ELSE 0)
        /\ \A i \in 1 .. ((k - 1) - 1 + 1) : a[i] = q[1 + i - 1]
    BY <1>2, <1>7, <2>1, SubSeqProperties
  <2>3. /\ b \in Seq(Stubs)
        /\ Len(b) = (IF k + 1 <= Len(q) THEN Len(q) - (k + 1) + 1 ELSE 0)
        /\ \A i \in 1 .. (Len(q) - (k + 1) + 1) : b[i] = q[(k + 1) + i - 1]
    BY <1>2, <1>7, <2>1, SubSeqProperties
  <2>4. a \in Seq(Stubs) /\ Len(a) = k - 1 /\ \A i \in 1 .. (k - 1) : a[i] = q[i]
    <3>1. (k - 1) - 1 + 1 = k - 1 /\ \A i \in 1 .. (k - 1) : 1 + i - 1 = i
      BY <2>1
    <3> QED
      BY <2>1, <2>2, <3>1
  <2>5. b \in Seq(Stubs) /\ Len(b) = Len(q) - k /\ \A i \in 1 .. (Len(q) - k) : b[i] = q[i + k]
    <3>1. /\ Len(q) - (k + 1) + 1 = Len(q) - k
          /\ \A i \in 1 .. (Len(q) - k) : (k + 1) + i - 1 = i + k
      BY <1>2, <2>1
    <3>2. Len(b) = Len(q) - k
      <4>1. PICK n \in Nat : n = Len(q) /\ k <= n
        BY <1>2, <2>1
      <4>2. (IF k + 1 <= n THEN n - (k + 1) + 1 ELSE 0) = n - k
        BY <2>1, <4>1
      <4> QED
        BY <2>3, <4>1, <4>2
    <3>3. ASSUME NEW i \in 1 .. (Len(q) - k) PROVE b[i] = q[i + k]
      <4>1. i \in 1 .. (Len(q) - (k + 1) + 1) /\ (k + 1) + i - 1 = i + k
        BY <3>1
      <4>2. b[i] = q[(k + 1) + i - 1]
        BY <2>3, <4>1
      <4> QED
        BY <4>1, <4>2
    <3> QED
      BY <2>3, <3>2, <3>3
  <2> QED
    BY <2>4, <2>5
<1>9. /\ r \in Seq(Stubs) /\ Len(r) = Len(q) - 1 /\ DOMAIN r = 1 .. Len(r)
      /\ \A i \in 1 .. Len(r) : r[i] = IF i < k THEN q[i] ELSE q[i + 1]
  <2>1. r = a \o b
    BY <1>6, <1>7
  <2>2. r \in Seq(Stubs) /\ Len(r) = Len(a) + Len(b)
    BY <1>8, <2>1, ConcatProperties
  <2>3. ASSUME NEW i \in 1 .. Len(r) PROVE r[i] = IF i < k THEN q[i] ELSE q[i + 1]
    <3>1. CASE i < k
      <4>1. i \in 1 .. (k - 1)
        BY <1>1, <3>1
      <4>2. r[i] = a[i]
        BY <1>8, <2>1, <4>1
      <4> QED
        BY <1>8, <3>1, <4>1, <4>2
    <3>2. CASE ~(i < k)
      <4>1. i - (k - 1) \in 1 .. (Len(q) - k) /\ (i - (k - 1)) + k = i + 1
        BY <1>1, <1>2, <1>8, <2>2, <3>2
      <4>2. r[i] = b[i - (k - 1)]
        <5>1. i \in 1 .. (Len(a) + Len(b)) /\ ~(i <= Len(a)) /\ Len(a) = k - 1
          BY <1>1, <1>8, <2>2, <3>2
        <5>2. (a \o b)[i] = b[i - Len(a)]
          BY <1>8, <5>1
        <5> QED
          BY <2>1, <5>1, <5>2
      <4> QED
        BY <1>8, <3>2, <4>1, <4>2
    <3> QED
      BY <3>1, <3>2
  <2> QED
    BY <1>2, <1>8, <2>2, <2>3
<1>10. \A i \in 1 .. Len(r) : (IF i < k THEN i ELSE i + 1) \in 1 .. Len(q) \ {k}
  BY <1>1, <1>2, <1>9
<1>11. IsInjective(r)
  <2> SUFFICES ASSUME NEW i \in 1 .. Len(r), NEW j \in 1 .. Len(r), r[i] = r[j] PROVE i = j
    BY <1>9 DEF IsInjective
  <2>1. PICK i2, j2 : /\ i2 = (IF i < k THEN i ELSE i + 1) /\ j2 = (IF j < k THEN j ELSE j + 1)
                     /\ i2 \in 1 .. Len(q) /\ j2 \in 1 .. Len(q)
    BY <1>10
  <2>2. q[i2] = q[j2]
    <3>1. q[i2] = r[i] /\ q[j2] = r[j]
      BY <1>9, <2>1
    <3> QED
      BY <3>1
  <2>3. i2 = j2
    BY <1>2, <2>1, <2>2 DEF IsInjective
  <2>4. (IF i < k THEN i ELSE i + 1) = (IF j < k THEN j ELSE j + 1)
    BY <2>1, <2>3
  <2> QED
    BY <1>1, <2>4
<1>12. ASSUME NEW x PROVE Contains(r, x) <=> Contains(q, x) /\ x # st
  <2>1. ASSUME NEW i \in 1 .. Len(r), r[i] = x PROVE Contains(q, x) /\ x # st
    <3>1. PICK j \in 1 .. Len(q) \ {k} : r[i] = q[j]
      BY <1>9, <1>10
    <3>2. q[j] # q[k]
      BY <1>1, <1>2, <3>1 DEF IsInjective
    <3> QED
      BY <1>1, <2>1, <3>1, <3>2 DEF Contains
  <2>2. ASSUME NEW j \in 1 .. Len(q), q[j] = x, x # st PROVE Contains(r, x)
    <3>1. CASE j < k
      <4>1. j \in 1 .. Len(r) /\ r[j] = x
        BY <1>1, <1>2, <1>9, <2>2, <3>1
      <4> QED
        BY <4>1 DEF Contains
    <3>2. CASE j > k
      <4>1. j - 1 \in 1 .. Len(r) /\ ~(j - 1 < k) /\ (j - 1) + 1 = j
        BY <1>1, <1>2, <1>9, <3>2
      <4>2. r[j - 1] = x
        BY <1>9, <2>2, <4>1
      <4> QED
        BY <4>1, <4>2 DEF Contains
    <3>3. j # k
      BY <1>1, <2>2
    <3> QED
      BY <1>1, <3>1, <3>2, <3>3
  <2> QED
    BY <2>1, <2>2 DEF Contains
<1> QED
  BY <1>9, <1>11, <1>12
-----------------------------------------------------------------------------
(* Types of the values that hold no sequences.                             *)
LEMMA StubsAreNumbers == Stubs \subseteq Nat \ {0}
BY EventAssumption DEF Stubs, NotBound

LEMMA IdsAreIds == NoId \notin Ids
BY EventAssumption

LEMMA InitIInv == Init => IInv
<1> SUFFICES ASSUME Init PROVE IInv
  OBVIOUS
<1>1. TypeOK
  BY EventAssumption DEF Init, TypeOK
<1>2. \A id \in Ids : listeners[id] = <<>>
  BY DEF Init
<1>3. \A st \in Stubs : stubListeners[st] = NoId
  BY DEF Init
<1>4. IsInjective(<<>>) /\ \A st : ~Contains(<<>>, st)
  BY DEF IsInjective, Contains
<1>5. Matching
  BY <1>2, <1>3, <1>4, IdsAreIds DEF Matching
<1>6. Fresh
  BY <1>3 DEF Init, Fresh
<1>7. AskedIs
  <2>1. ASSUME NEW id \in Ids, NEW st \in Stubs
        PROVE  ~InTheEnd(delayedOps, stubListeners[st] = id, id, st)
    BY <1>3, IdsAreIds DEF Init, InTheEnd
  <2> QED
    BY <2>1 DEF Init, AskedIs
<1>8. Rounds
  BY DEF Init, Rounds, IsFiring
<1> QED
  BY <1>1, <1>5, <1>6, <1>7, <1>8 DEF IInv

-----------------------------------------------------------------------------
(* An operation does to both indexes what it is to do.                     *)
Indexed == listeners \in [Ids -> Seq(Stubs)] /\ stubListeners \in [Stubs -> Ids \cup {NoId}]

(* What of the invariant follows for the indexes from two smaller facts.   *)
LEMMA ProcessIs ==
    ASSUME Indexed, Matching, NEW op \in Op, WellFormed(op),
           op.addOp => stubListeners[op.stub] = NoId,
           ProcessEventOperation(op)
    PROVE  /\ Indexed' /\ Matching'
           /\ \A id \in Ids, st \in Stubs :
                 stubListeners'[st] = id
                     <=> Adds(op, id, st) \/ (stubListeners[st] = id /\ ~Removes(op, id, st))
<1>1. CASE AddTo(op)
  <2>1. PICK e \in Ids, s \in Stubs : e = op.evId /\ s = op.stub
    BY <1>1 DEF AddTo, WellFormed
  <2>2. op.addOp /\ stubListeners[s] = NoId
    BY <1>1, <2>1 DEF AddTo
  <2>3. PICK r : r = Append(listeners[e], s)
    OBVIOUS
  <2>4. /\ listeners[e] \in Seq(Stubs) /\ IsInjective(listeners[e]) /\ ~Contains(listeners[e], s)
    BY <2>2, IdsAreIds DEF Indexed, Matching
  <2>5. /\ r \in Seq(Stubs) /\ IsInjective(r)
        /\ \A x : Contains(r, x) <=> Contains(listeners[e], x) \/ x = s
    BY <2>3, <2>4, ListAppend
  <2>6. /\ listeners' = [listeners EXCEPT ![e] = r]
        /\ stubListeners' = [stubListeners EXCEPT ![s] = e]
    BY <1>1, <2>1, <2>2, <2>3 DEF AddTo, Indexed
  <2>7. Indexed'
    BY <2>5, <2>6 DEF Indexed
  <2>8. /\ listeners'[e] = r /\ \A id \in Ids \ {e} : listeners'[id] = listeners[id]
        /\ stubListeners'[s] = e /\ \A st \in Stubs \ {s} : stubListeners'[st] = stubListeners[st]
    BY <2>6 DEF Indexed
  <2>9. Matching'
    <3> SUFFICES ASSUME NEW id \in Ids
                 PROVE  /\ IsInjective(listeners'[id])
                        /\ \A st \in Stubs : Contains(listeners'[id], st) <=> stubListeners'[st] = id
      BY DEF Matching
    <3>1. CASE id = e
      BY <2>2, <2>5, <2>8, <3>1 DEF Matching
    <3>2. CASE id # e
      <4>1. ~Contains(listeners[id], s)
        BY <2>2, IdsAreIds DEF Matching
      <4> QED
        BY <2>8, <3>2, <4>1 DEF Matching
    <3> QED
      BY <3>1, <3>2
  <2>10. ASSUME NEW id \in Ids, NEW st \in Stubs
         PROVE  stubListeners'[st] = id
                     <=> Adds(op, id, st) \/ (stubListeners[st] = id /\ ~Removes(op, id, st))
    <3>1. ~Removes(op, id, st) /\ (Adds(op, id, st) <=> id = e /\ st = s)
      BY <2>1, <2>2 DEF Removes, Adds
    <3> QED
      BY <2>2, <2>8, <3>1, IdsAreIds
  <2> QED
    BY <2>7, <2>9, <2>10
<1>2. CASE RemoveOfId(op)
  <2>1. PICK e \in Ids : e = op.evId
    BY <1>2 DEF RemoveOfId, Op
  <2>2. /\ ~op.addOp /\ e # NoId
        /\ listeners' = [listeners EXCEPT ![e] = <<>>]
        /\ stubListeners' = [st \in Stubs |-> IF Contains(listeners[e], st) THEN NoId
                                                                      ELSE stubListeners[st]]
    BY <1>2, <2>1 DEF RemoveOfId
  <2>3. /\ listeners'[e] = <<>> /\ \A id \in Ids \ {e} : listeners'[id] = listeners[id]
        /\ \A st \in Stubs :
               stubListeners'[st] = IF stubListeners[st] = e THEN NoId ELSE stubListeners[st]
    BY <2>2 DEF Indexed, Matching
  <2>4. Indexed'
    BY <2>2 DEF Indexed
  <2>5. IsInjective(<<>>) /\ \A st : ~Contains(<<>>, st)
    BY DEF IsInjective, Contains
  <2>6. Matching'
    <3> SUFFICES ASSUME NEW id \in Ids
                 PROVE  /\ IsInjective(listeners'[id])
                        /\ \A st \in Stubs : Contains(listeners'[id], st) <=> stubListeners'[st] = id
      BY DEF Matching
    <3>1. CASE id = e
      BY <2>2, <2>3, <2>5, <3>1
    <3>2. CASE id # e
      BY <2>3, <3>2, IdsAreIds DEF Matching
    <3> QED
      BY <3>1, <3>2
  <2>7. ASSUME NEW id \in Ids, NEW st \in Stubs
        PROVE  stubListeners'[st] = id
                     <=> Adds(op, id, st) \/ (stubListeners[st] = id /\ ~Removes(op, id, st))
    <3>1. ~Adds(op, id, st) /\ (Removes(op, id, st) <=> id = e)
      BY <2>1, <2>2 DEF Removes, Adds
    <3> QED
      BY <2>3, <3>1, IdsAreIds
  <2> QED
    BY <2>4, <2>6, <2>7
<1>3. CASE RemoveOfStub(op)
  <2>1. ~op.addOp /\ op.evId = NoId
    BY <1>3 DEF RemoveOfStub
  <2>2. PICK s \in Stubs : s = op.stub
    BY <2>1 DEF WellFormed
  <2>3. \A id \in Ids, st \in Stubs : ~Adds(op, id, st) /\ (Removes(op, id, st) <=> st = s)
    BY <2>1, <2>2 DEF Adds, Removes
  <2>4. CASE stubListeners[s] = NoId
    <3>1. UNCHANGED indexVars
      BY <1>3, <2>2, <2>4 DEF RemoveOfStub
    <3>2. Indexed' /\ Matching' /\ stubListeners' = stubListeners
      BY <3>1 DEF indexVars, Indexed, Matching
    <3> QED
      BY <2>3, <2>4, <3>2, IdsAreIds
  <2>5. CASE stubListeners[s] # NoId
    <3>1. PICK e \in Ids : e = stubListeners[s]
      BY <2>5 DEF Indexed
    <3>2. PICK r : r = RemoveFirst(listeners[e], s)
      OBVIOUS
    <3>3. /\ listeners' = [listeners EXCEPT ![e] = r]
          /\ stubListeners' = [stubListeners EXCEPT ![s] = NoId]
      BY <1>3, <2>2, <2>5, <3>1, <3>2 DEF RemoveOfStub, Indexed
    <3>4. /\ listeners[e] \in Seq(Stubs) /\ IsInjective(listeners[e]) /\ Contains(listeners[e], s)
      BY <3>1 DEF Indexed, Matching
    <3>5. /\ r \in Seq(Stubs) /\ IsInjective(r)
          /\ \A x : Contains(r, x) <=> Contains(listeners[e], x) /\ x # s
      BY <3>2, <3>4, ListRemove
    <3>6. Indexed'
      BY <3>3, <3>5 DEF Indexed
    <3>7. /\ listeners'[e] = r /\ \A id \in Ids \ {e} : listeners'[id] = listeners[id]
          /\ stubListeners'[s] = NoId
          /\ \A st \in Stubs \ {s} : stubListeners'[st] = stubListeners[st]
      BY <3>3 DEF Indexed
    <3>8. Matching'
      <4> SUFFICES ASSUME NEW id \in Ids
                   PROVE  /\ IsInjective(listeners'[id])
                          /\ \A st \in Stubs : Contains(listeners'[id], st) <=> stubListeners'[st] = id
        BY DEF Matching
      <4>1. CASE id = e
        BY <3>5, <3>7, <4>1, IdsAreIds DEF Matching
      <4>2. CASE id # e
        <5>1. ~Contains(listeners[id], s)
          BY <3>1, <4>2 DEF Matching
        <5> QED
          BY <3>7, <4>2, <5>1, IdsAreIds DEF Matching
      <4> QED
        BY <4>1, <4>2
    <3>9. \A id \in Ids, st \in Stubs :
              stubListeners'[st] = id <=> stubListeners[st] = id /\ st # s
      BY <3>7, IdsAreIds
    <3> QED
      BY <2>3, <3>6, <3>8, <3>9
  <2> QED
    BY <2>4, <2>5
<1> QED
  BY <1>1, <1>2, <1>3 DEF ProcessEventOperation

-----------------------------------------------------------------------------
(* The calls.                                                              *)

(* How the stubs in use follow from what an operation does.                *)
LEMMA SubmitKeeps ==
    ASSUME IInv, MayCall, NEW op \in Op, WellFormed(op), Submit(op),
           op.addOp => /\ stubListeners[op.stub] = NoId
                       /\ op.stub \in Bindable \/ op.stub <= maxListenerStub'
                       /\ \A i \in 1 .. Len(delayedOps) :
                              delayedOps[i].addOp => delayedOps[i].stub # op.stub,
           maxListenerStub' \in 0 .. MaxStub, maxListenerStub <= maxListenerStub',
           UNCHANGED <<fires, atStart>>,
           asked' \subseteq Registration,
           \A id \in Ids, st \in Stubs :
               [evId |-> id, stub |-> st] \in asked'
                   <=> \/ Adds(op, id, st)
                       \/ [evId |-> id, stub |-> st] \in asked /\ ~Removes(op, id, st)
    PROVE  IInv'
<1>1. /\ Indexed /\ delayedOps \in Seq(Op) /\ maxListenerStub \in Nat /\ maxListenerStub' \in Nat
      /\ Stubs \subseteq Nat
  BY StubsAreNumbers, EventAssumption DEF IInv, TypeOK, Indexed
<1>2. \A st \in Stubs : Used(st) => Used(st)'
  <2> SUFFICES ASSUME NEW st \in Stubs, st <= maxListenerStub PROVE st <= maxListenerStub'
    BY DEF Used
  <2>1. st \in Nat
    BY <1>1
  <2> QED
    BY <1>1, <2>1
<1>3. CASE IsFiring
  <2>1. PICK d : d = Append(delayedOps, op)
    OBVIOUS
  <2>2. delayedOps' = d /\ UNCHANGED indexVars
    BY <1>3, <2>1 DEF Submit
  <2>3. /\ d \in Seq(Op) /\ Len(d) = Len(delayedOps) + 1 /\ Len(delayedOps) \in Nat
        /\ d[Len(d)] = op /\ \A i \in 1 .. Len(delayedOps) : d[i] = delayedOps[i]
    BY <1>1, <2>1
  <2>4. \A i \in 1 .. Len(d) : i \in 1 .. Len(delayedOps) \/ i = Len(d)
    BY <2>3
  <2>5. TypeOK'
    BY <2>2, <2>3 DEF IInv, TypeOK, indexVars
  <2>6. Matching' /\ Rounds'
    BY <2>2 DEF IInv, Matching, Rounds, IsFiring, indexVars
  <2>7. Fresh'
    <3>1. ASSUME NEW i \in 1 .. Len(d)
          PROVE  /\ WellFormed(d[i])
                 /\ d[i].addOp => stubListeners[d[i].stub] = NoId /\ Used(d[i].stub)'
      <4>1. CASE i = Len(d)
        BY <2>3, <4>1 DEF Used
      <4>2. CASE i \in 1 .. Len(delayedOps)
        <5>1. /\ d[i] = delayedOps[i] /\ WellFormed(d[i])
              /\ d[i].addOp => stubListeners[d[i].stub] = NoId /\ Used(d[i].stub)
          BY <2>3, <4>2 DEF IInv, Fresh
        <5> QED
          BY <1>2, <5>1 DEF WellFormed
      <4> QED
        BY <2>4, <4>1, <4>2
    <3>2. ASSUME NEW i \in 1 .. Len(d), NEW j \in 1 .. Len(d), d[i].addOp, d[j].addOp,
                 d[i].stub = d[j].stub
          PROVE  i = j
      <4>1. CASE i \in 1 .. Len(delayedOps) /\ j \in 1 .. Len(delayedOps)
        BY <2>3, <3>2, <4>1 DEF IInv, Fresh
      <4>2. CASE i \in 1 .. Len(delayedOps) /\ j = Len(d)
        BY <2>3, <3>2, <4>2
      <4>3. CASE i = Len(d) /\ j \in 1 .. Len(delayedOps)
        BY <2>3, <3>2, <4>3
      <4> QED
        BY <2>4, <4>1, <4>2, <4>3
    <3>3. \A st \in Stubs : stubListeners'[st] # NoId => Used(st)'
      BY <1>2, <2>2 DEF IInv, Fresh, indexVars
    <3> QED
      BY <2>2, <3>1, <3>2, <3>3 DEF Fresh, indexVars
  <2>8. AskedIs'
    <3> SUFFICES ASSUME NEW id \in Ids, NEW st \in Stubs
                 PROVE  [evId |-> id, stub |-> st] \in asked'
                            <=> InTheEnd(d, stubListeners[st] = id, id, st)
      BY <2>2 DEF AskedIs, indexVars
    <3>1. PICK now \in BOOLEAN : now <=> stubListeners[st] = id
      OBVIOUS
    <3>2. InTheEnd(d, now, id, st)
              <=> Adds(op, id, st) \/ (InTheEnd(delayedOps, now, id, st) /\ ~Removes(op, id, st))
      BY <1>1, <2>1, EndAppend
    <3>3. InTheEnd(delayedOps, now, id, st) <=> [evId |-> id, stub |-> st] \in asked
      BY <3>1 DEF IInv, AskedIs, InTheEnd
    <3>4. InTheEnd(d, now, id, st) <=> InTheEnd(d, stubListeners[st] = id, id, st)
      BY <3>1 DEF InTheEnd
    <3> QED
      BY <3>2, <3>3, <3>4
  <2> QED
    BY <2>5, <2>6, <2>7, <2>8 DEF IInv
<1>4. CASE ~IsFiring
  <2>1. delayedOps = <<>> /\ delayedOps' = <<>> /\ ProcessEventOperation(op)
    BY <1>4 DEF Submit, MayCall
  <2>2. /\ Indexed' /\ Matching'
        /\ \A id \in Ids, st \in Stubs :
              stubListeners'[st] = id
                  <=> Adds(op, id, st) \/ (stubListeners[st] = id /\ ~Removes(op, id, st))
    BY <1>1, <2>1, ProcessIs DEF IInv
  <2>3. fires = <<>> /\ fires' = <<>>
    BY <1>4 DEF IsFiring
  <2>4. TypeOK'
    BY <2>1, <2>2, <2>3 DEF IInv, TypeOK, Indexed
  <2>5. Fresh'
    <3>1. ASSUME NEW st \in Stubs, stubListeners'[st] # NoId PROVE Used(st)'
      <4>1. PICK id \in Ids : id = stubListeners'[st]
        BY <2>2, <3>1 DEF Indexed
      <4>2. Adds(op, id, st) \/ stubListeners[st] = id
        BY <2>2, <4>1
      <4>3. CASE Adds(op, id, st)
        BY <4>3 DEF Adds, Used
      <4>4. CASE stubListeners[st] = id
        BY <1>2, <4>4, IdsAreIds DEF IInv, Fresh
      <4> QED
        BY <4>2, <4>3, <4>4
    <3> QED
      BY <2>1, <3>1 DEF Fresh
  <2>6. AskedIs'
    <3> SUFFICES ASSUME NEW id \in Ids, NEW st \in Stubs
                 PROVE  [evId |-> id, stub |-> st] \in asked'
                            <=> InTheEnd(<<>>, stubListeners'[st] = id, id, st)
      BY <2>1 DEF AskedIs
    <3>1. [evId |-> id, stub |-> st] \in asked <=> stubListeners[st] = id
      BY <2>1 DEF IInv, AskedIs, InTheEnd
    <3>2. InTheEnd(<<>>, stubListeners'[st] = id, id, st) <=> stubListeners'[st] = id
      BY DEF InTheEnd
    <3> QED
      BY <2>2, <3>1, <3>2
  <2>7. Rounds'
    BY <2>3 DEF Rounds, IsFiring
  <2> QED
    BY <2>2, <2>4, <2>5, <2>6, <2>7 DEF IInv
<1> QED
  BY <1>3, <1>4

LEMMA AddListenerKeeps ==
    ASSUME ~Careless, IInv, NEW e \in Ids, NEW b \in Bindable \cup {NotBound}, AddListener(e, b)
    PROVE  IInv'
<1>1. PICK s \in Stubs :
        /\ NewStub(s, b)
        /\ Submit([addOp |-> TRUE, evId |-> e, stub |-> s])
        /\ asked' = IF \E r \in asked : r.stub = s
                    THEN asked ELSE asked \cup {[evId |-> e, stub |-> s]}
        /\ UNCHANGED <<fires, atStart>> /\ MayCall
  BY DEF AddListener
<1>2. PICK op : op = [addOp |-> TRUE, evId |-> e, stub |-> s]
  OBVIOUS
<1>3. op \in Op /\ op.addOp /\ op.evId = e /\ op.stub = s /\ WellFormed(op)
  BY <1>2 DEF Op, WellFormed
<1>4. /\ Indexed /\ delayedOps \in Seq(Op) /\ maxListenerStub \in 0 .. MaxStub /\ MaxStub \in Nat
      /\ Stubs \subseteq Nat /\ asked \subseteq Registration
      /\ Bindable \cap 1 .. MaxStub = {}
  BY StubsAreNumbers, EventAssumption DEF IInv, TypeOK, Indexed
<1>5. /\ stubListeners[s] = NoId
      /\ s \in Bindable \/ s <= maxListenerStub'
      /\ maxListenerStub' \in 0 .. MaxStub /\ maxListenerStub <= maxListenerStub'
      /\ \A i \in 1 .. Len(delayedOps) : delayedOps[i].addOp => delayedOps[i].stub # s
  <2>1. CASE b = NotBound /\ s = maxListenerStub + 1 /\ s <= MaxStub /\ maxListenerStub' = s
    <3>1. s \in 1 .. MaxStub /\ ~(s <= maxListenerStub)
      BY <1>4, <2>1
    <3>2. ~Used(s)
      BY <1>4, <3>1 DEF Used
    <3>3. stubListeners[s] = NoId
      BY <3>2 DEF IInv, Fresh
    <3>4. \A i \in 1 .. Len(delayedOps) : delayedOps[i].addOp => delayedOps[i].stub # s
      BY <3>2 DEF IInv, Fresh
    <3> QED
      BY <1>4, <2>1, <3>1, <3>3, <3>4
  <2>2. CASE /\ b # NotBound /\ s = b /\ stubListeners[s] = NoId
             /\ s \notin PutOffAdds /\ maxListenerStub' = maxListenerStub
    <3>1. \A i \in 1 .. Len(delayedOps) : delayedOps[i].addOp => delayedOps[i].stub # s
      BY <2>2 DEF PutOffAdds
    <3> QED
      BY <1>4, <2>2, <3>1
  <2> QED
    BY <1>1, <2>1, <2>2 DEF NewStub
<1>6. \A r \in asked : r.stub # s
  <2> SUFFICES ASSUME NEW r \in asked, r.stub = s PROVE FALSE
    OBVIOUS
  <2>1. r.evId \in Ids /\ r = [evId |-> r.evId, stub |-> s]
    BY <1>4 DEF Registration
  <2>2. InTheEnd(delayedOps, stubListeners[s] = r.evId, r.evId, s)
    BY <2>1 DEF IInv, AskedIs
  <2>3. PICK i \in 1 .. Len(delayedOps) : Adds(delayedOps[i], r.evId, s)
    BY <1>5, <2>1, <2>2, IdsAreIds DEF InTheEnd
  <2> QED
    BY <1>5, <2>3 DEF Adds
<1>7. asked' = asked \cup {[evId |-> e, stub |-> s]}
  BY <1>1, <1>6
<1>8. asked' \subseteq Registration
  BY <1>4, <1>7 DEF Registration
<1>9. ASSUME NEW id \in Ids, NEW st \in Stubs
      PROVE  [evId |-> id, stub |-> st] \in asked'
                 <=> \/ Adds(op, id, st)
                     \/ [evId |-> id, stub |-> st] \in asked /\ ~Removes(op, id, st)
  <2>1. ~Removes(op, id, st) /\ (Adds(op, id, st) <=> id = e /\ st = s)
    BY <1>3 DEF Adds, Removes
  <2> QED
    BY <1>7, <2>1
<1> QED
  BY <1>1, <1>2, <1>3, <1>5, <1>8, <1>9, SubmitKeeps

LEMMA RemoveListenersKeeps ==
    ASSUME IInv, NEW e \in Ids, RemoveListeners(e)
    PROVE  IInv'
<1>1. PICK op : op = [addOp |-> FALSE, evId |-> e, stub |-> NotBound]
  OBVIOUS
<1>2. op \in Op /\ ~op.addOp /\ op.evId = e /\ WellFormed(op)
  BY <1>1, IdsAreIds DEF Op, WellFormed
<1>3. /\ MayCall /\ Submit(op) /\ UNCHANGED <<maxListenerStub, fires, atStart>>
      /\ asked' = {r \in asked : r.evId # e}
  BY <1>1 DEF RemoveListeners
<1>4. asked \subseteq Registration /\ maxListenerStub \in 0 .. MaxStub /\ MaxStub \in Nat
  BY EventAssumption DEF IInv, TypeOK
<1>5. \A id \in Ids, st \in Stubs : ~Adds(op, id, st) /\ (Removes(op, id, st) <=> id = e)
  BY <1>2, IdsAreIds DEF Adds, Removes
<1>6. ASSUME NEW id \in Ids, NEW st \in Stubs
      PROVE  [evId |-> id, stub |-> st] \in asked'
                 <=> \/ Adds(op, id, st)
                     \/ [evId |-> id, stub |-> st] \in asked /\ ~Removes(op, id, st)
  BY <1>3, <1>5
<1>7. asked' \subseteq Registration /\ maxListenerStub' \in 0 .. MaxStub /\ maxListenerStub <= maxListenerStub'
  BY <1>3, <1>4
<1> QED
  BY <1>2, <1>3, <1>6, <1>7, SubmitKeeps

LEMMA RemoveListenerKeeps ==
    ASSUME IInv, NEW s \in Stubs, RemoveListener(s)
    PROVE  IInv'
<1>1. PICK op : op = [addOp |-> FALSE, evId |-> NoId, stub |-> s]
  OBVIOUS
<1>2. op \in Op /\ ~op.addOp /\ op.evId = NoId /\ op.stub = s /\ WellFormed(op)
  BY <1>1 DEF Op, WellFormed
<1>3. /\ MayCall /\ Submit(op) /\ UNCHANGED <<maxListenerStub, fires, atStart>>
      /\ asked' = {r \in asked : r.stub # s}
  BY <1>1 DEF RemoveListener
<1>4. asked \subseteq Registration /\ maxListenerStub \in 0 .. MaxStub /\ MaxStub \in Nat
  BY EventAssumption DEF IInv, TypeOK
<1>5. \A id \in Ids, st \in Stubs : ~Adds(op, id, st) /\ (Removes(op, id, st) <=> st = s)
  BY <1>2 DEF Adds, Removes
<1>6. ASSUME NEW id \in Ids, NEW st \in Stubs
      PROVE  [evId |-> id, stub |-> st] \in asked'
                 <=> \/ Adds(op, id, st)
                     \/ [evId |-> id, stub |-> st] \in asked /\ ~Removes(op, id, st)
  BY <1>3, <1>5
<1>7. asked' \subseteq Registration /\ maxListenerStub' \in 0 .. MaxStub /\ maxListenerStub <= maxListenerStub'
  BY <1>3, <1>4
<1> QED
  BY <1>2, <1>3, <1>6, <1>7, SubmitKeeps

(* The stack of fires.                                                     *)
Fire == [evId : Ids, called : Seq(Stubs)]

LEMMA FiresAre ==
    ASSUME IInv
    PROVE  /\ fires \in Seq(Fire) /\ Len(fires) \in Nat
           /\ \A k \in 1 .. Len(fires) : fires[k] \in Fire
           /\ \A f \in Fire : f.evId \in Ids /\ f.called \in Seq(Stubs)
<1>1. fires \in Seq(Fire)
  BY DEF IInv, TypeOK, Fire
<1>2. \A f \in Fire : f.evId \in Ids /\ f.called \in Seq(Stubs)
  BY DEF Fire
<1>3. Len(fires) \in Nat /\ \A k \in 1 .. Len(fires) : fires[k] \in Fire
  BY <1>1
<1> QED
  BY <1>1, <1>2, <1>3

LEMMA FireEventKeeps ==
    ASSUME IInv, NEW e \in Ids, FireEvent(e)
    PROVE  IInv'
<1>1. PICK f : f = [evId |-> e, called |-> <<>>]
  OBVIOUS
<1>2. /\ MayCall /\ fires' = Append(fires, f)
      /\ atStart' = (IF IsFiring THEN atStart ELSE asked)
      /\ UNCHANGED <<indexVars, maxListenerStub, delayedOps, asked>>
  BY <1>1 DEF FireEvent
<1>3. /\ f \in [evId : Ids, called : Seq(Stubs)] /\ fires \in Seq([evId : Ids, called : Seq(Stubs)])
      /\ Len(f.called) = 0
  BY <1>1 DEF IInv, TypeOK
<1>4. /\ fires' \in Seq([evId : Ids, called : Seq(Stubs)]) /\ Len(fires') = Len(fires) + 1
      /\ Len(fires) \in Nat /\ fires'[Len(fires')] = f
      /\ \A k \in 1 .. Len(fires) : fires'[k] = fires[k]
  BY <1>2, <1>3
<1>5. TypeOK'
  BY <1>2, <1>4 DEF IInv, TypeOK, indexVars
<1>6. Matching' /\ Fresh' /\ AskedIs'
  BY <1>2 DEF IInv, Matching, Fresh, AskedIs, Used, indexVars
<1>7. ASSUME NEW k \in 1 .. Len(fires')
      PROVE  /\ Len(fires'[k].called) <= Len(listeners[fires'[k].evId])
             /\ \A i \in 1 .. Len(fires'[k].called) :
                    fires'[k].called[i] = listeners[fires'[k].evId][i]
  <2>1. CASE k = Len(fires')
    <3>1. Len(listeners[e]) \in Nat /\ f.evId = e
      BY <1>1 DEF IInv, TypeOK
    <3> QED
      BY <1>3, <1>4, <2>1, <3>1
  <2>2. CASE k # Len(fires')
    <3>1. k \in 1 .. Len(fires) /\ fires'[k] = fires[k]
      BY <1>4, <2>2
    <3>2. /\ Len(fires[k].called) <= Len(listeners[fires[k].evId])
          /\ \A i \in 1 .. Len(fires[k].called) :
                 fires[k].called[i] = listeners[fires[k].evId][i]
      BY <3>1 DEF IInv, Rounds
    <3> QED
      BY <3>1, <3>2
  <2> QED
    BY <2>1, <2>2
<1>8. ASSUME NEW id \in Ids, NEW st \in Stubs
      PROVE  [evId |-> id, stub |-> st] \in atStart' <=> stubListeners[st] = id
  <2>1. CASE IsFiring
    BY <1>2, <2>1 DEF IInv, Rounds
  <2>2. CASE ~IsFiring
    <3>1. delayedOps = <<>> /\ atStart' = asked
      BY <1>2, <2>2 DEF MayCall
    <3>2. InTheEnd(delayedOps, stubListeners[st] = id, id, st) <=> stubListeners[st] = id
      BY <3>1 DEF InTheEnd
    <3> QED
      BY <3>1, <3>2 DEF IInv, AskedIs
  <2> QED
    BY <2>1, <2>2
<1>9. Rounds'
  BY <1>2, <1>7, <1>8 DEF Rounds, indexVars
<1> QED
  BY <1>5, <1>6, <1>9 DEF IInv

LEMMA InvokeKeeps ==
    ASSUME IInv, Invoke
    PROVE  IInv'
<1>1. PICK n : n = Len(fires)
  OBVIOUS
<1>2. IsFiring /\ fires \in Seq(Fire) /\ n \in Nat /\ n \in 1 .. n
  BY <1>1, FiresAre DEF Invoke, IsFiring
<1>3. PICK f \in Fire : f = fires[n]
  BY <1>1, <1>2, FiresAre
<1>4. PICK m : m = Len(f.called) + 1
  OBVIOUS
<1>5. PICK l \in Seq(Stubs) : l = listeners[f.evId]
  BY FiresAre DEF IInv, TypeOK
<1>6. /\ m <= Len(l)
      /\ fires' = [fires EXCEPT ![n].called = Append(@, l[m])]
      /\ UNCHANGED <<indexVars, maxListenerStub, delayedOps, asked, atStart>>
  BY <1>1, <1>3, <1>4, <1>5 DEF Invoke, Last
<1>7. m \in 1 .. Len(l) /\ Len(f.called) \in Nat /\ Len(l) \in Nat /\ f.called \in Seq(Stubs)
  BY <1>4, <1>6, FiresAre
<1>8. PICK c : c = Append(f.called, l[m])
  OBVIOUS
<1>9. /\ c \in Seq(Stubs) /\ Len(c) = m /\ c[m] = l[m]
      /\ \A i \in 1 .. Len(f.called) : c[i] = f.called[i]
  BY <1>4, <1>7, <1>8
<1>10. PICK g : g = [evId |-> f.evId, called |-> c]
  OBVIOUS
<1>11. g \in Fire
  BY <1>9, <1>10, FiresAre DEF Fire
<1>12. fires' = [fires EXCEPT ![n] = g]
  <2>1. PICK h : h = [f EXCEPT !.called = c]
    OBVIOUS
  <2>2. h = g
    BY <1>3, <1>10, <2>1 DEF Fire
  <2>3. [fires[n] EXCEPT !.called = Append(@, l[m])] = h
    BY <1>3, <1>8, <2>1
  <2> QED
    BY <1>6, <2>2, <2>3
<1>13. /\ fires' \in Seq(Fire) /\ Len(fires') = n
       /\ fires'[n] = g /\ \A k \in 1 .. n : k # n => fires'[k] = fires[k]
  BY <1>1, <1>2, <1>11, <1>12
<1>14. TypeOK'
  BY <1>6, <1>13 DEF IInv, TypeOK, Fire, indexVars
<1>15. Matching' /\ Fresh' /\ AskedIs'
  BY <1>6 DEF IInv, Matching, Fresh, AskedIs, Used, indexVars
<1>16. ASSUME NEW k \in 1 .. Len(fires')
       PROVE  /\ Len(fires'[k].called) <= Len(listeners[fires'[k].evId])
              /\ \A i \in 1 .. Len(fires'[k].called) :
                     fires'[k].called[i] = listeners[fires'[k].evId][i]
  <2>1. CASE k = n
    <3>1. ASSUME NEW i \in 1 .. Len(c) PROVE c[i] = l[i]
      <4>1. CASE i = m
        BY <1>9, <4>1
      <4>2. CASE i # m
        <5>1. i \in 1 .. Len(f.called)
          BY <1>4, <1>7, <1>9, <4>2
        <5> QED
          BY <1>1, <1>2, <1>3, <1>5, <1>9, <5>1 DEF IInv, Rounds
      <4> QED
        BY <4>1, <4>2
    <3>2. fires'[k].called = c /\ listeners[fires'[k].evId] = l
      BY <1>5, <1>10, <1>13, <2>1
    <3> QED
      BY <1>6, <1>9, <3>1, <3>2
  <2>2. CASE k # n
    <3>1. k \in 1 .. Len(fires) /\ fires'[k] = fires[k]
      BY <1>1, <1>13, <2>2
    <3>2. /\ Len(fires[k].called) <= Len(listeners[fires[k].evId])
          /\ \A i \in 1 .. Len(fires[k].called) :
                 fires[k].called[i] = listeners[fires[k].evId][i]
      BY <3>1 DEF IInv, Rounds
    <3> QED
      BY <3>1, <3>2
  <2> QED
    BY <2>1, <2>2
<1>17. Rounds'
  <2>1. listeners' = listeners /\ stubListeners' = stubListeners /\ atStart' = atStart
    BY <1>6 DEF indexVars
  <2>2. \A id \in Ids, st \in Stubs :
            [evId |-> id, stub |-> st] \in atStart' <=> stubListeners'[st] = id
    BY <1>2, <2>1 DEF IInv, Rounds
  <2> QED
    BY <1>16, <2>1, <2>2 DEF Rounds
<1> QED
  BY <1>14, <1>15, <1>17 DEF IInv

LEMMA AfterFireEventKeeps ==
    ASSUME IInv, AfterFireEvent
    PROVE  IInv'
<1>1. /\ IsFiring /\ fires \in Seq(Fire) /\ Len(fires) \in Nat /\ Len(fires) >= 1
      /\ \A k \in 1 .. Len(fires) : fires[k] \in Fire
  BY FiresAre DEF AfterFireEvent, IsFiring
<1>2. PICK n \in Nat : Len(fires) = n + 1
  BY <1>1
<1>3. /\ fires' = SubSeq(fires, 1, n)
      /\ atStart' = (IF Len(fires) = 1 THEN {} ELSE atStart)
      /\ UNCHANGED <<indexVars, maxListenerStub, delayedOps, asked>>
  BY <1>2 DEF AfterFireEvent, Front
<1>4. /\ fires' \in Seq(Fire) /\ Len(fires') = n
      /\ \A k \in 1 .. n : k \in 1 .. Len(fires) /\ fires'[k] = fires[k]
  <2>1. \A k \in 1 .. n : k \in 1 .. Len(fires) /\ fires[k] \in Fire
    BY <1>1, <1>2
  <2>2. /\ SubSeq(fires, 1, n) \in Seq(Fire)
        /\ Len(SubSeq(fires, 1, n)) = IF 1 <= n THEN n - 1 + 1 ELSE 0
        /\ \A k \in 1 .. n - 1 + 1 : SubSeq(fires, 1, n)[k] = fires[1 + k - 1]
    BY <2>1, SubSeqProperties
  <2>3. n - 1 + 1 = n /\ (~(1 <= n) => n = 0) /\ \A k \in 1 .. n : 1 + k - 1 = k
    OBVIOUS
  <2> QED
    BY <1>3, <2>1, <2>2, <2>3
<1>5. TypeOK'
  BY <1>3, <1>4 DEF IInv, TypeOK, Fire, indexVars
<1>6. Matching' /\ Fresh' /\ AskedIs'
  BY <1>3 DEF IInv, Matching, Fresh, AskedIs, Used, indexVars
<1>7. IsFiring' => atStart' = atStart
  BY <1>2, <1>3, <1>4 DEF IsFiring
<1>8. Rounds'
  <2>1. listeners' = listeners /\ stubListeners' = stubListeners
    BY <1>3 DEF indexVars
  <2>2. ASSUME NEW k \in 1 .. Len(fires')
        PROVE  /\ Len(fires'[k].called) <= Len(listeners[fires'[k].evId])
               /\ \A i \in 1 .. Len(fires'[k].called) :
                      fires'[k].called[i] = listeners[fires'[k].evId][i]
    <3>1. k \in 1 .. Len(fires) /\ fires'[k] = fires[k]
      BY <1>4
    <3>2. /\ Len(fires[k].called) <= Len(listeners[fires[k].evId])
          /\ \A i \in 1 .. Len(fires[k].called) :
                 fires[k].called[i] = listeners[fires[k].evId][i]
      BY <3>1 DEF IInv, Rounds
    <3> QED
      BY <3>1, <3>2
  <2>3. IsFiring' => \A id \in Ids, st \in Stubs :
                         [evId |-> id, stub |-> st] \in atStart' <=> stubListeners'[st] = id
    BY <1>1, <1>7, <2>1 DEF IInv, Rounds
  <2> QED
    BY <2>1, <2>2, <2>3 DEF Rounds
<1> QED
  BY <1>5, <1>6, <1>8 DEF IInv

LEMMA ProcessDelayedKeeps ==
    ASSUME IInv, ProcessDelayed
    PROVE  IInv'
<1>1. /\ fires = <<>> /\ delayedOps # <<>> /\ delayedOps \in Seq(Op)
      /\ ProcessEventOperation(Head(delayedOps)) /\ delayedOps' = Tail(delayedOps)
      /\ UNCHANGED <<maxListenerStub, fires, asked, atStart>>
  BY DEF ProcessDelayed, IsFiring, IInv, TypeOK
<1>2. PICK op : op = Head(delayedOps)
  OBVIOUS
<1>3. PICK d : d = Tail(delayedOps)
  OBVIOUS
<1>4. /\ op \in Op /\ op = delayedOps[1] /\ d \in Seq(Op) /\ Len(d) \in Nat
      /\ Len(delayedOps) = Len(d) + 1
      /\ \A i \in 1 .. Len(d) : d[i] = delayedOps[i + 1]
  BY <1>1, <1>2, <1>3
<1>5. /\ 1 \in 1 .. Len(delayedOps)
      /\ \A i \in 1 .. Len(d) : i + 1 \in 1 .. Len(delayedOps) /\ i + 1 # 1
  BY <1>4
<1>6. WellFormed(op) /\ (op.addOp => stubListeners[op.stub] = NoId /\ Used(op.stub))
  BY <1>4, <1>5 DEF IInv, Fresh
<1>7. Indexed
  BY DEF IInv, TypeOK, Indexed
<1>8. /\ Indexed' /\ Matching'
      /\ \A id \in Ids, st \in Stubs :
             stubListeners'[st] = id
                 <=> Adds(op, id, st) \/ (stubListeners[st] = id /\ ~Removes(op, id, st))
  BY <1>1, <1>2, <1>4, <1>6, <1>7, ProcessIs DEF IInv
<1>9. TypeOK'
  BY <1>1, <1>3, <1>4, <1>8 DEF IInv, TypeOK, Indexed
<1>10. \A st \in Stubs : stubListeners[st] = NoId /\ ~(op.addOp /\ op.stub = st)
                             => stubListeners'[st] = NoId
  <2> SUFFICES ASSUME NEW st \in Stubs, stubListeners[st] = NoId, ~(op.addOp /\ op.stub = st),
                      stubListeners'[st] # NoId
               PROVE  FALSE
    OBVIOUS
  <2>1. PICK id \in Ids : stubListeners'[st] = id
    BY <1>8 DEF Indexed
  <2>2. Adds(op, id, st) \/ stubListeners[st] = id
    BY <1>8, <2>1
  <2> QED
    BY <2>2, IdsAreIds DEF Adds
<1>11. Fresh'
  <2>1. ASSUME NEW i \in 1 .. Len(d)
        PROVE  /\ WellFormed(d[i])
               /\ d[i].addOp => stubListeners'[d[i].stub] = NoId /\ Used(d[i].stub)'
    <3>1. PICK j \in 1 .. Len(delayedOps) : j # 1 /\ d[i] = delayedOps[j]
      BY <1>4, <1>5
    <3>2. /\ WellFormed(d[i])
          /\ d[i].addOp => stubListeners[d[i].stub] = NoId /\ Used(d[i].stub)
      BY <3>1 DEF IInv, Fresh
    <3>3. d[i].addOp => d[i].stub \in Stubs /\ ~(op.addOp /\ op.stub = d[i].stub)
      BY <1>4, <1>5, <3>1, <3>2 DEF IInv, Fresh, WellFormed
    <3> QED
      BY <1>1, <1>10, <3>2, <3>3 DEF Used
  <2>2. ASSUME NEW i \in 1 .. Len(d), NEW j \in 1 .. Len(d), d[i].addOp, d[j].addOp,
               d[i].stub = d[j].stub
        PROVE  i = j
    <3>1. i + 1 = j + 1
      BY <1>4, <1>5, <2>2 DEF IInv, Fresh
    <3> QED
      BY <3>1
  <2>3. ASSUME NEW st \in Stubs, stubListeners'[st] # NoId PROVE Used(st)'
    <3>1. CASE stubListeners[st] = NoId
      <4>1. op.addOp /\ op.stub = st
        BY <1>10, <2>3, <3>1
      <4> QED
        BY <1>1, <1>6, <4>1 DEF Used
    <3>2. CASE stubListeners[st] # NoId
      BY <1>1, <3>2 DEF IInv, Fresh, Used
    <3> QED
      BY <3>1, <3>2
  <2> QED
    BY <1>1, <1>3, <2>1, <2>2, <2>3 DEF Fresh
<1>12. AskedIs'
  <2> SUFFICES ASSUME NEW id \in Ids, NEW st \in Stubs
               PROVE  [evId |-> id, stub |-> st] \in asked
                          <=> InTheEnd(d, stubListeners'[st] = id, id, st)
    BY <1>1, <1>3 DEF AskedIs
  <2>1. PICK now \in BOOLEAN : now <=> stubListeners[st] = id
    OBVIOUS
  <2>2. PICK then \in BOOLEAN : then <=> stubListeners'[st] = id
    OBVIOUS
  <2>3. then <=> Adds(Head(delayedOps), id, st) \/ (now /\ ~Removes(Head(delayedOps), id, st))
    BY <1>2, <1>8, <2>1, <2>2
  <2>4. InTheEnd(delayedOps, now, id, st) <=> InTheEnd(d, then, id, st)
    BY <1>1, <1>3, <2>3, EndTail
  <2>5. InTheEnd(delayedOps, now, id, st) <=> [evId |-> id, stub |-> st] \in asked
    BY <2>1 DEF IInv, AskedIs, InTheEnd
  <2>6. InTheEnd(d, then, id, st) <=> InTheEnd(d, stubListeners'[st] = id, id, st)
    BY <2>2 DEF InTheEnd
  <2> QED
    BY <2>4, <2>5, <2>6
<1>13. Rounds'
  <2>1. fires' = <<>>
    BY <1>1
  <2> QED
    BY <2>1 DEF Rounds, IsFiring
<1> QED
  BY <1>8, <1>9, <1>11, <1>12, <1>13 DEF IInv

-----------------------------------------------------------------------------
LEMMA NextKeeps == ~Careless /\ IInv /\ [Next]_vars => IInv'
<1> SUFFICES ASSUME ~Careless, IInv, [Next]_vars PROVE IInv'
  OBVIOUS
<1>1. CASE \E id \in Ids, s \in Bindable \cup {NotBound} : AddListener(id, s)
  BY <1>1, AddListenerKeeps
<1>2. CASE \E id \in Ids : RemoveListeners(id)
  BY <1>2, RemoveListenersKeeps
<1>3. CASE \E id \in Ids : FireEvent(id)
  BY <1>3, FireEventKeeps
<1>4. CASE \E s \in Stubs : RemoveListener(s)
  BY <1>4, RemoveListenerKeeps
<1>5. CASE Invoke
  BY <1>5, InvokeKeeps
<1>6. CASE AfterFireEvent
  BY <1>6, AfterFireEventKeeps
<1>7. CASE ProcessDelayed
  BY <1>7, ProcessDelayedKeeps
<1>8. CASE UNCHANGED vars
  BY <1>8 DEF IInv, TypeOK, Matching, Fresh, AskedIs, Rounds, Used, IsFiring, vars, indexVars
<1> QED
  BY <1>1, <1>2, <1>3, <1>4, <1>5, <1>6, <1>7, <1>8 DEF Next

LEMMA Invariance == ASSUME ~Careless PROVE Spec => []IInv
<1>1. IInv /\ [Next]_vars => IInv'
  BY NextKeeps
<1> QED
  BY <1>1, InitIInv, PTL DEF Spec

(* The index, the operations put off and the stack of fires keep their     *)
(* types (EventManager.cpp): whatever is called from a callback.           *)
THEOREM TypeCorrect == ASSUME ~Careless PROVE Spec => []TypeOK
<1>1. IInv => TypeOK
  BY DEF IInv
<1> QED
  BY <1>1, Invariance, PTL

LEMMA IndexesAreRight == IInv => WhatWasAskedFor
<1> SUFFICES ASSUME IInv, ~IsFiring, delayedOps = <<>>
             PROVE  /\ \A id \in Ids : /\ Range(listeners[id]) = Of(asked, id)
                                       /\ IsInjective(listeners[id])
                    /\ asked = {r \in Registration : stubListeners[r.stub] = r.evId}
  BY DEF WhatWasAskedFor
<1>1. /\ \A id \in Ids : listeners[id] \in Seq(Stubs)
      /\ asked \subseteq Registration
  BY DEF IInv, TypeOK
<1>2. ASSUME NEW id \in Ids, NEW st \in Stubs
      PROVE  [evId |-> id, stub |-> st] \in asked <=> stubListeners[st] = id
  <2>1. InTheEnd(delayedOps, stubListeners[st] = id, id, st) <=> stubListeners[st] = id
    BY DEF InTheEnd
  <2> QED
    BY <2>1 DEF IInv, AskedIs
<1>3. ASSUME NEW id \in Ids
      PROVE  Range(listeners[id]) = Of(asked, id) /\ IsInjective(listeners[id])
  <2>1. \A st : st \in Range(listeners[id]) <=> st \in Stubs /\ stubListeners[st] = id
    BY <1>1 DEF Range, Contains, IInv, Matching
  <2>2. \A st : st \in Of(asked, id) <=> st \in Stubs /\ stubListeners[st] = id
    <3>1. ASSUME NEW st, st \in Of(asked, id) PROVE st \in Stubs /\ stubListeners[st] = id
      <4>1. PICK r \in asked : r.evId = id /\ r.stub = st
        BY <3>1 DEF Of
      <4>2. st \in Stubs /\ r = [evId |-> id, stub |-> st]
        BY <1>1, <4>1 DEF Registration
      <4> QED
        BY <1>2, <4>1, <4>2
    <3>2. ASSUME NEW st, st \in Stubs, stubListeners[st] = id PROVE st \in Of(asked, id)
      <4>1. [evId |-> id, stub |-> st] \in asked
        BY <1>2, <3>2
      <4> QED
        BY <4>1 DEF Of
    <3> QED
      BY <3>1, <3>2
  <2> QED
    BY <2>1, <2>2 DEF IInv, Matching
<1>4. asked = {r \in Registration : stubListeners[r.stub] = r.evId}
  <2>1. \A r \in Registration : r \in asked <=> stubListeners[r.stub] = r.evId
    BY <1>2 DEF Registration
  <2> QED
    BY <1>1, <2>1
<1> QED
  BY <1>3, <1>4

(* While nothing is fired, the lists and the index by stub hold exactly    *)
(* what the calls asked for, those put off in nested callbacks included:   *)
(* ProcessEventOperation and the loop of AfterFireEvent lose, repeat and   *)
(* swap nothing.                                                           *)
THEOREM IndexesCorrect == ASSUME ~Careless PROVE Spec => []WhatWasAskedFor
BY IndexesAreRight, Invariance, PTL

LEMMA RoundIsWhole == IInv /\ AfterFireEvent => WholeRound(Last(fires))
<1> SUFFICES ASSUME IInv, AfterFireEvent PROVE WholeRound(Last(fires))
  OBVIOUS
<1>1. PICK n : n = Len(fires)
  OBVIOUS
<1>2. IsFiring /\ fires \in Seq(Fire) /\ n \in Nat /\ n \in 1 .. n
  BY <1>1, FiresAre DEF AfterFireEvent, IsFiring
<1>3. PICK f \in Fire : f = fires[n]
  BY <1>1, <1>2, FiresAre
<1>4. f.evId \in Ids /\ f.called \in Seq(Stubs)
  BY FiresAre
<1>5. PICK l \in Seq(Stubs) : l = listeners[f.evId]
  BY <1>4 DEF IInv, TypeOK
<1>6. Len(f.called) = Len(l) /\ \A i \in 1 .. Len(l) : f.called[i] = l[i]
  BY <1>1, <1>2, <1>3, <1>5 DEF AfterFireEvent, Last, IInv, Rounds
<1>7. f.called = l
  BY <1>4, <1>6
<1>8. IsInjective(l) /\ \A st \in Stubs : Contains(l, st) <=> stubListeners[st] = f.evId
  BY <1>4, <1>5 DEF IInv, Matching
<1>9. /\ atStart \subseteq Registration
      /\ \A st \in Stubs : [evId |-> f.evId, stub |-> st] \in atStart <=> stubListeners[st] = f.evId
  BY <1>2, <1>4 DEF IInv, TypeOK, Rounds
<1>10. \A st : st \in Range(l) <=> st \in Stubs /\ stubListeners[st] = f.evId
  BY <1>8 DEF Range, Contains
<1>11. \A st : st \in Of(atStart, f.evId) <=> st \in Stubs /\ stubListeners[st] = f.evId
  <2>1. ASSUME NEW st, st \in Of(atStart, f.evId) PROVE st \in Stubs /\ stubListeners[st] = f.evId
    <3>1. PICK r \in atStart : r.evId = f.evId /\ r.stub = st
      BY <2>1 DEF Of
    <3>2. st \in Stubs /\ r = [evId |-> f.evId, stub |-> st]
      BY <1>9, <3>1 DEF Registration
    <3> QED
      BY <1>9, <3>1, <3>2
  <2>2. ASSUME NEW st, st \in Stubs, stubListeners[st] = f.evId PROVE st \in Of(atStart, f.evId)
    <3>1. [evId |-> f.evId, stub |-> st] \in atStart
      BY <1>9, <2>2
    <3> QED
      BY <3>1 DEF Of
  <2> QED
    BY <2>1, <2>2
<1>12. Range(l) = Of(atStart, f.evId)
  BY <1>10, <1>11
<1> QED
  BY <1>1, <1>3, <1>7, <1>8, <1>12 DEF WholeRound, Last

LEMMA RunningIsKept == IInv => \A i \in 1 .. Len(fires) : RunningKept(fires[i])
<1> SUFFICES ASSUME IInv, NEW k \in 1 .. Len(fires), fires[k].called # <<>>
             PROVE  Contains(listeners[fires[k].evId], Last(fires[k].called))
  BY DEF RunningKept
<1>1. PICK f \in Fire : f = fires[k] /\ f.evId \in Ids /\ f.called \in Seq(Stubs)
  BY FiresAre
<1>2. PICK l \in Seq(Stubs) : l = listeners[f.evId]
  BY <1>1 DEF IInv, TypeOK
<1>3. PICK m : m = Len(f.called)
  OBVIOUS
<1>4. m \in 1 .. m /\ m \in Nat /\ Len(l) \in Nat
  BY <1>1, <1>3
<1>5. m <= Len(l) /\ f.called[m] = l[m]
  BY <1>1, <1>2, <1>3, <1>4 DEF IInv, Rounds
<1>6. m \in 1 .. Len(l)
  BY <1>4, <1>5
<1> QED
  BY <1>1, <1>2, <1>3, <1>5, <1>6 DEF Contains, Last

LEMMA OnlyTheEndShortens ==
    ASSUME IInv, [Next]_vars, Len(fires') < Len(fires)
    PROVE  AfterFireEvent
<1>1. fires \in Seq([evId : Ids, called : Seq(Stubs)]) /\ Len(fires) \in Nat
  BY DEF IInv, TypeOK
<1>2. fires' # fires
  BY <1>1
<1>3. ASSUME NEW id \in Ids, FireEvent(id) PROVE FALSE
  <2>1. Len(fires') = Len(fires) + 1
    BY <1>1, <1>3 DEF FireEvent
  <2> QED
    BY <1>1, <2>1
<1>4. ASSUME Invoke PROVE FALSE
  <2>1. Len(fires') = Len(fires)
    BY <1>1, <1>4 DEF Invoke
  <2> QED
    BY <1>1, <2>1
<1> QED
  BY <1>2, <1>3, <1>4 DEF Next, vars, AddListener, RemoveListeners, RemoveListener, ProcessDelayed

(* FireEvent calls every listener that was registered when the outermost   *)
(* fire began, each once and no other, and no callback on the stack is     *)
(* freed, however deep callbacks fire, add and remove.                     *)
THEOREM RoundsCorrect == ASSUME ~Careless PROVE Spec => RoundsAreWhole
<1>1. IInv' => (\A i \in 1 .. Len(fires) : RunningKept(fires[i]))'
  BY RunningIsKept, PTL
<1>2. IInv /\ IInv' /\ [Next]_vars
          => [/\ Len(fires') < Len(fires) => WholeRound(Last(fires))
              /\ \A i \in 1 .. Len(fires') : RunningKept(fires[i])']_vars
  <2> SUFFICES ASSUME IInv, IInv', [Next]_vars
               PROVE  /\ Len(fires') < Len(fires) => WholeRound(Last(fires))
                      /\ \A i \in 1 .. Len(fires') : RunningKept(fires[i])'
    OBVIOUS
  <2>1. ASSUME Len(fires') < Len(fires) PROVE WholeRound(Last(fires))
    <3>1. AfterFireEvent
      BY <2>1, OnlyTheEndShortens
    <3> QED
      BY <3>1, RoundIsWhole
  <2>2. (\A i \in 1 .. Len(fires) : RunningKept(fires[i]))'
    BY <1>1
  <2> QED
    BY <2>1, <2>2
<1> QED
  BY <1>2, Invariance, PTL DEF Spec, RoundsAreWhole
=============================================================================
