---------------------------- MODULE AcceptPoller ----------------------------
(***************************************************************************)
(* The two threads of a listening port on Linux, FS_EpollAcceptPoller.cpp: *)
(* one waits for epoll, which tells an edge of the listening socket once,  *)
(* and wakes the other, which accepts until the socket has no more.  What  *)
(* becomes of an accepted socket is Connections'.                          *)
(*                                                                         *)
(* External: the kernel's accept queue (backlog) and the edge.  accept is  *)
(* taken to fail only with EAGAIN; with another error the code tries again *)
(* at once.  The end of the two threads is not modelled.                   *)
(***************************************************************************)
EXTENDS Naturals, ConditionLocker

CONSTANT MaxPeers   \* bound: connections the peers make

VARIABLES
    peers,            \* connections made so far
    backlog,          \* of those, the ones not accepted yet
    edge,             \* an edge of the listening socket to be told
    isEventArrived,   \* _isEventArrived
    guard,            \* _preHandlerGuard
    ppc               \* where the prehandling thread is

acceptPollerVars == <<peers, backlog, edge, isEventArrived, guard, ppc>>

Prehandler == "prehandler"

AcceptPollerTypeOK ==
    /\ peers \in 0 .. MaxPeers /\ backlog \in 0 .. peers
    /\ edge \in BOOLEAN /\ isEventArrived \in BOOLEAN
    /\ guard \in LockerType({Prehandler})
    /\ ppc \in {"test", "accept", "wait"}

AcceptPollerInit ==
    /\ peers = 0 /\ backlog = 0 /\ edge = FALSE /\ isEventArrived = FALSE
    /\ guard = NewLocker /\ ppc = "test"

PeerConnects ==
    /\ peers < MaxPeers
    /\ peers' = peers + 1 /\ backlog' = backlog + 1 /\ edge' = TRUE
    /\ UNCHANGED <<isEventArrived, guard, ppc>>

(* The monitor thread, back from its wait.                                 *)
Notify ==
    /\ edge
    /\ edge' = FALSE /\ isEventArrived' = TRUE
    /\ guard' \in Sinal(guard)
    /\ UNCHANGED <<peers, backlog, ppc>>

(* The prehandling thread, with its guard held: to accept ...              *)
TakeEvent ==
    /\ ppc = "test" /\ isEventArrived
    /\ isEventArrived' = FALSE /\ ppc' = "accept"
    /\ UNCHANGED <<peers, backlog, edge, guard>>

(* ... or to wait; DeadWait returns at once when the signal flag is up.    *)
WaitForEvent ==
    /\ ppc = "test" /\ ~isEventArrived
    /\ IF guard.isSinal
       THEN guard' = LeaveDeadWait(guard, Prehandler) /\ UNCHANGED ppc
       ELSE guard' = Sleep(guard, Prehandler) /\ ppc' = "wait"
    /\ UNCHANGED <<peers, backlog, edge, isEventArrived>>

(* pthread_cond_wait may return without a signal, which the loop does not  *)
(* mind: DeadWait is left either way.                                      *)
Awake ==
    /\ ppc = "wait" /\ guard.asleep # {}
    /\ guard' = WakeUp(guard, Prehandler)
    /\ UNCHANGED <<peers, backlog, edge, isEventArrived, ppc>>

Return ==
    /\ ppc = "wait" /\ guard.asleep = {}
    /\ guard' = LeaveDeadWait(guard, Prehandler) /\ ppc' = "test"
    /\ UNCHANGED <<peers, backlog, edge, isEventArrived>>

(* Mutant of AcceptOne: one socket for one event.                          *)
AcceptOne_Single ==
    /\ ppc = "accept" /\ backlog > 0
    /\ backlog' = backlog - 1 /\ ppc' = "test"
    /\ UNCHANGED <<peers, edge, isEventArrived, guard>>

(* accept gives a socket: Connections hands it over before the next one.   *)
AcceptOne ==
    /\ ppc = "accept" /\ backlog > 0
    /\ backlog' = backlog - 1
    /\ UNCHANGED <<peers, edge, isEventArrived, guard, ppc>>

(* accept fails with EAGAIN.                                               *)
AcceptNone ==
    /\ ppc = "accept" /\ backlog = 0
    /\ ppc' = "test"
    /\ UNCHANGED <<peers, backlog, edge, isEventArrived, guard>>
=============================================================================
