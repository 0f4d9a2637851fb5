---------------------------- MODULE EventManager ----------------------------
(***************************************************************************)
(* EventManager (EventManager.cpp, EventManagerImpl.h): listeners of event *)
(* ids, called one after the other when an event is fired.  A callback may *)
(* add and remove listeners and fire events itself.  Changes asked for     *)
(* while an event is fired are put off to the end of the outermost fire,   *)
(* so that no list is changed, and no callback freed, under a loop that    *)
(* walks it.                                                               *)
(*                                                                         *)
(* One thread.  `fires' is its stack of FireEvent calls, _firing deep; the *)
(* callback of the topmost one runs between Invoke and the next step of    *)
(* that fire, and may call anything.  A callback is named by its stub.     *)
(***************************************************************************)
EXTENDS Naturals, Sequences, SequencesExt

CONSTANTS
    Ids,        \* event ids
    MaxStub,    \* bound on the stubs the manager numbers
    Bindable,   \* stubs that callers bind themselves
    Careless,   \* do callers bind a stub that a put off add has, too?
    MaxDepth,   \* bound on nested fires
    MaxPutOff   \* bound on the operations put off in one fire

NoId == 0          \* _evId of an operation that names a stub
NotBound == 0      \* FS_INVALID_LISTENER_STUB
Stubs == 1 .. MaxStub \cup Bindable

ASSUME EventAssumption ==
    /\ Ids \subseteq Nat \ {NoId}
    /\ MaxStub \in Nat /\ MaxDepth \in Nat /\ MaxPutOff \in Nat
    /\ Bindable \subseteq Nat \ {NotBound}
    /\ Careless \in BOOLEAN
    /\ ~Careless => Bindable \cap 1 .. MaxStub = {}

VARIABLES
    listeners,        \* _listeners: the stubs of each id, in order
    stubListeners,    \* _stubListeners: the id of each stub, NoId without
    maxListenerStub,  \* _maxListenerStub
    delayedOps,       \* _delayedOps
    fires,            \* the id of each fire and the callbacks it has called
    asked,            \* what is registered if every call took effect at once
    atStart           \* `asked' when the outermost fire began

indexVars == <<listeners, stubListeners>>
vars == <<indexVars, maxListenerStub, delayedOps, fires, asked, atStart>>

Op == [addOp : BOOLEAN, evId : Ids \cup {NoId}, stub : Stubs \cup {NotBound}]
Registration == [evId : Ids, stub : Stubs]

TypeOK ==
    /\ listeners \in [Ids -> Seq(Stubs)]
    /\ stubListeners \in [Stubs -> Ids \cup {NoId}]
    /\ maxListenerStub \in 0 .. MaxStub
    /\ delayedOps \in Seq(Op)
    /\ fires \in Seq([evId : Ids, called : Seq(Stubs)])
    /\ asked \subseteq Registration /\ atStart \subseteq Registration

Init ==
    /\ listeners = [id \in Ids |-> <<>>]
    /\ stubListeners = [s \in Stubs |-> NoId]
    /\ maxListenerStub = 0
    /\ delayedOps = <<>> /\ fires = <<>>
    /\ asked = {} /\ atStart = {}

IsFiring == fires # <<>>

(* The thread is in a callback or, while nothing is fired, in the logic.   *)
MayCall == IF IsFiring THEN Last(fires).called # <<>> ELSE delayedOps = <<>>

-----------------------------------------------------------------------------
(* ProcessEventOperation.  An add does not replace the entry of a stub     *)
(* that is in the index: std::map::insert.                                 *)
AddTo(op) ==
    /\ op.addOp
    /\ listeners' = [listeners EXCEPT ![op.evId] = Append(@, op.stub)]
    /\ stubListeners' = [stubListeners EXCEPT ![op.stub] = IF @ = NoId THEN op.evId ELSE @]

(* Mutant of RemoveOfId: the stubs stay in their index.                    *)
RemoveOfId_KeepsStubs(op) ==
    /\ ~op.addOp /\ op.evId # NoId
    /\ listeners' = [listeners EXCEPT ![op.evId] = <<>>]
    /\ UNCHANGED stubListeners

RemoveOfId(op) ==
    /\ ~op.addOp /\ op.evId # NoId
    /\ listeners' = [listeners EXCEPT ![op.evId] = <<>>]
    /\ stubListeners' = [s \in Stubs |-> IF Contains(listeners[op.evId], s) THEN NoId
                                                                            ELSE stubListeners[s]]

RemoveOfStub(op) ==
    /\ ~op.addOp /\ op.evId = NoId
    /\ LET evId == stubListeners[op.stub]
       IN  IF evId = NoId
           THEN UNCHANGED indexVars
           ELSE /\ listeners' = [listeners EXCEPT ![evId] = RemoveFirst(@, op.stub)]
                /\ stubListeners' = [stubListeners EXCEPT ![op.stub] = NoId]

ProcessEventOperation(op) == AddTo(op) \/ RemoveOfId(op) \/ RemoveOfStub(op)

(* How each call ends: at once, or put off while an event is fired.        *)
Submit(op) ==
    IF IsFiring
    THEN Len(delayedOps) < MaxPutOff /\ delayedOps' = Append(delayedOps, op) /\ UNCHANGED indexVars
    ELSE ProcessEventOperation(op) /\ UNCHANGED delayedOps

PutOffAdds == {delayedOps[i].stub : i \in {j \in 1 .. Len(delayedOps) : delayedOps[j].addOp}}

(* Mutant of NewStub: the numbers go on from a stub that a caller bound.   *)
NewStub_CountsBound(stub, bindedStub) ==
    /\ \/ bindedStub = NotBound /\ stub = maxListenerStub + 1 /\ stub <= MaxStub
       \/ bindedStub # NotBound /\ stub = bindedStub /\ stubListeners[stub] = NoId
    /\ Careless \/ stub \notin PutOffAdds
    /\ maxListenerStub' = stub

(* The stub of a new listener: the next number or, if the caller binds one *)
(* that is not in the index, that one.  A call with a stub in the index is *)
(* refused and changes nothing.                                            *)
NewStub(stub, bindedStub) ==
    \/ /\ bindedStub = NotBound
       /\ stub = maxListenerStub + 1 /\ stub <= MaxStub
       /\ maxListenerStub' = stub
    \/ /\ bindedStub # NotBound
       /\ stub = bindedStub /\ stubListeners[stub] = NoId
       /\ Careless \/ stub \notin PutOffAdds
       /\ UNCHANGED maxListenerStub

AddListener(id, bindedStub) ==
    /\ MayCall
    /\ \E stub \in Stubs :
        /\ NewStub(stub, bindedStub)
        /\ Submit([addOp |-> TRUE, evId |-> id, stub |-> stub])
        /\ asked' = IF \E r \in asked : r.stub = stub
                    THEN asked ELSE asked \cup {[evId |-> id, stub |-> stub]}
    /\ UNCHANGED <<fires, atStart>>

RemoveListeners(id) ==
    /\ MayCall
    /\ Submit([addOp |-> FALSE, evId |-> id, stub |-> NotBound])
    /\ asked' = {r \in asked : r.evId # id}
    /\ UNCHANGED <<maxListenerStub, fires, atStart>>

(* RemoveListener(stub) and RemoveListenerX.                               *)
RemoveListener(stub) ==
    /\ MayCall
    /\ Submit([addOp |-> FALSE, evId |-> NoId, stub |-> stub])
    /\ asked' = {r \in asked : r.stub # stub}
    /\ UNCHANGED <<maxListenerStub, fires, atStart>>

-----------------------------------------------------------------------------
(* FireEvent: the call, one callback of its loop, and what follows it.     *)
FireEvent(id) ==
    /\ MayCall /\ Len(fires) < MaxDepth
    /\ fires' = Append(fires, [evId |-> id, called |-> <<>>])
    /\ atStart' = IF IsFiring THEN atStart ELSE asked
    /\ UNCHANGED <<indexVars, maxListenerStub, delayedOps, asked>>

Invoke ==
    /\ IsFiring
    /\ LET fire == Last(fires)
           next == Len(fire.called) + 1
       IN  /\ next <= Len(listeners[fire.evId])
           /\ fires' = [fires EXCEPT ![Len(fires)].called = Append(@, listeners[fire.evId][next])]
    /\ UNCHANGED <<indexVars, maxListenerStub, delayedOps, asked, atStart>>

AfterFireEvent ==
    /\ IsFiring /\ Len(Last(fires).called) = Len(listeners[Last(fires).evId])
    /\ fires' = Front(fires)
    /\ atStart' = IF Len(fires) = 1 THEN {} ELSE atStart
    /\ UNCHANGED <<indexVars, maxListenerStub, delayedOps, asked>>

(* Mutant of ProcessDelayed: after a nested fire, too.                     *)
ProcessDelayed_Nested ==
    /\ delayedOps # <<>> /\ MayCall
    /\ ProcessEventOperation(Head(delayedOps))
    /\ delayedOps' = Tail(delayedOps)
    /\ UNCHANGED <<maxListenerStub, fires, asked, atStart>>

(* The loop of AfterFireEvent, one operation a step; nothing runs between. *)
ProcessDelayed ==
    /\ ~IsFiring /\ delayedOps # <<>>
    /\ ProcessEventOperation(Head(delayedOps))
    /\ delayedOps' = Tail(delayedOps)
    /\ UNCHANGED <<maxListenerStub, fires, asked, atStart>>

Next ==
    \/ \E id \in Ids : \/ \E s \in Bindable \cup {NotBound} : AddListener(id, s)
                       \/ RemoveListeners(id)
                       \/ FireEvent(id)
    \/ \E s \in Stubs : RemoveListener(s)
    \/ Invoke
    \/ AfterFireEvent
    \/ ProcessDelayed

Spec == Init /\ [][Next]_vars

-----------------------------------------------------------------------------
Of(registrations, id) == {r.stub : r \in {q \in registrations : q.evId = id}}

(* When no event is fired, both indexes hold exactly what the calls have   *)
(* asked for, in callbacks and outside, as if each had taken effect at     *)
(* once and in order; each listener once.                                  *)
WhatWasAskedFor ==
    ~IsFiring /\ delayedOps = <<>> =>
        /\ \A id \in Ids : /\ Range(listeners[id]) = Of(asked, id)
                           /\ IsInjective(listeners[id])
        /\ asked = {r \in Registration : stubListeners[r.stub] = r.evId}

(* A fire that ends has called each listener of its id that was registered *)
(* when the outermost fire began, once, and nobody else, whatever the      *)
(* callbacks added, removed and fired.                                     *)
WholeRound(fire) ==
    /\ Range(fire.called) = Of(atStart, fire.evId)
    /\ IsInjective(fire.called)

(* And no step frees a callback that runs: the one called last by each     *)
(* fire on the stack is registered.                                        *)
RunningKept(fire) ==
    fire.called # <<>> => Contains(listeners[fire.evId], Last(fire.called))

RoundsAreWhole ==
    [][ /\ Len(fires') < Len(fires) => WholeRound(Last(fires))
        /\ \A i \in 1 .. Len(fires') : RunningKept(fires[i])' ]_vars
=============================================================================
