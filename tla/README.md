# FrightenStone: a TLA+ model of its message passing and its sessions

FrightenStone is a C++ framework for network servers. A server built on it is a
set of threads that talk through message queues:

```
 acceptor ----+                                   +--> dispatcher 1 (logic, timers)
 connector ---+--> ConcurrentMessageQueueNoThread +--> dispatcher 2
 transfers ---+      generators x consumers       +--> ...
    ^                                                     |
    |      MessageQueueNoThread (two mailboxes)           |
    +-----------------------------------------------------+
              posted receives and sends, cancels
```

A **dispatcher** is a thread that owns sessions and runs the business logic. A
**transfer** owns the sockets' io: one thread waits on epoll, one distributes its
events, one receives, one sends. A dispatcher lends a session's buffer to a transfer by
posting an io into one of its mailboxes; the transfer lends it back with a message. The
locks are few and short; what makes the system correct is the order in which flags,
lists and messages change hands. That is what the modules here are about.

All line numbers are those of the repository. The Linux build is the one modelled.

## 1. Inventory

Paths without a directory are under `src/frame/src/common/` or
`src/frame/include/FrightenStone/common/`. "Hard" lists what a test would hardly reach.

| Component | State it keeps | Operations | Talks to | Hard | Correct when |
|---|---|---|---|---|---|
| `ConditionLocker` (`asyn/Lock`) | mutex, condition, `_waitCnt`, `_isSinal` | `Wait`, `DeadWait`, `Sinal`, `Broadcast`, `ResetSinal` | every queue, the thread pool | stale `_isSinal`, signals with nobody asleep, spurious wake-ups | a waiter under the mutex misses no signal |
| `MessageQueueNoThread` (`component/.../MessageQueue`) | one list, a change flag, `_isWorking` | `Push` (message, list), `Notify`, `WaitForPoping`, `PopImmediately`, `BeforeClose`, `Close` | dispatchers push, a transfer thread pops | lists swapped instead of copied; close without the mutex | nothing lost, order kept, no lost wake-up, consumer can be joined |
| `ConcurrentMessageQueueNoThread` | a list per generator and consumer, a flag per generator, a flag and a locker per consumer | `Push`, `PushByConsumerId`, `WaitForPoping`, `PopImmediately`, `NotifyConsumerByGenerator`, `BeforeClose`, `Close` | transfers, acceptors, connectors push; dispatchers pop | two mutexes taken one after the other | no message stranded, order per generator and consumer |
| `MessageQueue`, `ConcurrentMessageQueue` | generator, exchange and consumer lists with a thread between them | as above | tests only | three hand-overs | as above |
| Transfer: `FS_EpollTransferPoller`, `IFS_MsgTransfer` (`net/Impl`) | status and io data per session and direction, two mailboxes | `OnWillConnect`, event distribution, recv/send loops, posted ios, cancels, `IsIoFinish` | epoll, dispatchers | edge-triggered events; end of stream behind data; cancel against completion | every posted io is answered once; no readiness forgotten |
| Dispatcher: `IFS_MsgDispatcher`, `FS_Session` | sessions with flags (posted, canceled, mask close), sets `_toPostRecv`, `_toPostSend`, `_toRemove` | the frame: wait, timers, heartbeat, messages, post, remove; shutdown | transfers, logic, timers | removal while ios are out; a full receive buffer; shutdown | receiving while the buffer has room; buffers outlive ios; removal and shutdown end |
| Accept poller: `FS_EpollAcceptPoller` | `_isEventArrived`, a locker; the kernel's accept queue | wait for epoll, wake, accept until the socket has no more | acceptor | an edge-triggered listening socket | no peer waits for the next one to come |
| Acceptor and connector: `IFS_AcceptorPoller`, `IFS_Connector` | `_curSessionCnt`, `_curMaxSessionId`, the ids each connected, the connector's queue | accept or connect under the limit, hand over, count down, answer | engine, dispatchers | the limit is shared by threads; the connector checks and counts in two sections | counts never drift, every request is answered, places come back |
| `IFS_NetEngine`, `IFS_MsgTransfer`'s counters | `_curSessionConnecting`, `_sessionCnt` of each transfer | `HandleCompEv_WillConnect`, `_ConnectFailure`, `_Disconnected`; staged start and close | all | counters read by one thread and changed by others; order of the stages | counters agree with the sessions; close ends |
| `NodeConnectionMgr` (service), `LogicSvc` | pending stubs, users of outgoing connections | `AsynConnect`, events of a session's connection and end | dispatcher | several ways for a connect to end | each stub is answered once |
| `FS_ThreadPool` | task list, `_waitNum`, `_curTotalNum`, limits | `AddTask`, thread loop, `Close`, `SetThreadLimit` | every component with threads | tasks counted against woken threads; full pool | every accepted task runs; close ends |
| `TimeWheel`, `FS_Timer` | ordered set of timers, deferred operations | `RotateWheel`, `Register`, `UnRegister`, `Schedule`, `Cancel` | dispatcher, logic | callbacks that change the wheel while it turns | a timer fires when due, a cancelled one never |
| Memory pool, object pool | free lists, reference counts | allocate, free | all | sharing between threads | no block twice |
| `EventManager` (`event`) | listeners of each event id, index by stub, operations put off, depth of fires | `AddListener`, `RemoveListener`, `FireEvent` | all of the logic | callbacks that add, remove and fire while lists are walked | a round calls who was registered, once; later every call has had its effect |
| Logic system, log, utilities, crash handling, leak monitor | - | - | - | start-up order or diagnostics | - |
| IOCP back end (Windows) | as the transfer | as the transfer | - | same life cycle with kernel completions | - |
| Service layer (`src/Service`), apps, tests, tools, `3rd` | business state | - | dispatcher | - | - |

`PROJECT.json` lists every one with its status, and every hazard with its line.

## 2. The modules

| Module | Models | Proofs |
|---|---|---|
| `ConditionLocker` | what each call does to a condition variable with its flag and waiter count (operators on a record) | `ConditionLockerProofs` |
| `MsgChannel` | the abstract specification of a queue: per source a prefix, in order, nothing twice, nothing invented | - |
| `MessageQueueNoThread` | the mailbox, its producers, its poller thread and its closer | `MessageQueueNoThreadProofs` |
| `ConcurrentMessageQueueNoThread` | the dispatchers' queue, its pushers, the dispatchers' loops and its closer | `ConcurrentMessageQueueNoThreadProofs` |
| `EpollSession` | one session across peer, epoll, transfer and dispatcher, from connect to free, and the shutdown | `EpollSessionProofs` |
| `AcceptPoller` | the two threads of a listening port and the kernel's accept queue | - |
| `Connections` | extends `AcceptPoller`: admission, hand-over, counts and answers across acceptor, connector, engine, transfers, dispatcher and `NodeConnectionMgr` | `ConnectionsProofs` |
| `TimeWheel` | the wheel, its timers, their callbacks and the clock | `TimeWheelProofs` |
| `EventManager` | listeners and nested fires of one manager | `EventManagerProofs` |
| `ThreadPool` | the pool every thread runs in: tasks, threads, `Close` | `ThreadPoolProofs` |
| `MC*` | instances for TLC | - |

`MessageQueueNoThread`, `ConcurrentMessageQueueNoThread`, `ThreadPool` and `AcceptPoller`
keep their condition variables with the operators of `ConditionLocker`; the two queues
implement `MsgChannel`.
`EpollSession` and `Connections` use their result: mailboxes, the dispatcher's queue and
the connector's queue are FIFOs. The two meet at the session: `Connections` follows all
sessions up to their connection and from their end on, `EpollSession` one of them in
between. The step `Disconnect` of `Connections`, the removal of a session that is being
closed, is not fair there: whether it comes is the matter of `EpollSession`
(`RemovalCompletes`), and with a burst it may not (finding 2).

### ConditionLocker

A locker is `[isSinal, waiting, asleep]`. `waiting` are the threads `_waitCnt` counts,
`asleep` those still inside `pthread_cond_wait`: a woken thread is waiting but no longer
asleep until it has the mutex back. `Sinal` wakes one sleeper, if any, and raises
`_isSinal` in any case; `Broadcast` leaves the flag alone; the untimed wait lowers it, the
timed one does not. The mutex is not in the record: a critical section is one action of
the module that uses the locker, except where the code relies on, or lacks, a mutex.

### MessageQueueNoThread

| Code | Model |
|---|---|
| `Push` (message / list): test of `_isWorking`, then the critical section | `BeginPush`, then `PushSingle` / `PushList` |
| the list given to `Push` and got back | `hand[p]` |
| `Notify` | `Notify` |
| `WaitForPoping`: test under the mutex / sleep / after it | `WaitForPoping`, `GoToSleep`, `ReturnFromWait` |
| the poller's loop around it | `ReadIsWorking`, `HandleMessages` |
| `BeforeClose`: flag, then broadcast | `ClearIsWorking`, `BroadcastConsumer` |
| `FS_EpollTransferPoller::Close`, the pool, then the queue | `ClosePool`, `Close` |

The test and the sleep of the poller are two steps because `BeforeClose` broadcasts
without taking the mutex; `cpc = "locked"` says the poller holds it in between, and no
push can run then. Lists are swapped as in the code: `queue` and `hand[p]` trade places
when the change flag is down.

### ConcurrentMessageQueueNoThread

A push is two critical sections: `Push` under the generator's mutex (list and
`genChange[g]`) and `SignalConsumer` under the consumer's (`conChange[c]` and the
signal). A consumer takes its flag under its own mutex (`TakeChange`) and then walks the
generators one at a time (`PopGenerator`), swapping lists. `HandleMessages` is the rest of
the dispatcher's frame; after its pool is closed the consumer takes one last frame
(`PopImmediately`). `NotifyConsumer` is the call `WillClose` makes. `TimeOut` lets a
timed wait end at any time: no property may rest on a timeout coming late.

### EpollSession

One session: ids are never used again and no handler touches a session other
than its own. The exception is the shutdown, which waits for the ios of every session of
every transfer (`IsIoFinish`); here it waits for those of the one. Data is counted in chunks. The two directions of the transfer are the same
code twice, so `status`, `io`, `failing` and `box` are functions of `Dirs`.

| Code | Model |
|---|---|
| `_sessionIdRefRecverEvStatus`: absent / false / true | `status[d]`: `"none"` / `"idle"` / `"ready"` |
| `_sessionIdRefRecverEvIoData`: absent / NULL / pointer | `io[d]`: `"none"` / `"null"` / `"posted"` |
| mailbox messages: event, posted io, cancel with and without an answer | `"ready"`, `"post"`, `"cancel"`, `"quiet"` |
| recv/send loop and what it reports | `Outcomes`, `FirstReport`, `DoIo`; data and the end of the stream are two messages, hence `Fail` |
| the frame | `WaitForPoping`, `Timers`, `HandleMessage`, `PostEvents`, `WillRemoveSessions` |
| `FS_Session::PostRecv`, `PostSend` | `PostRecv` (nothing is posted into a full buffer), `PostIo` |
| `IsFull` of the receive buffer, once the message handler is done | `recvFull`, drawn from `LeftInBuffer` |
| leaving the loop | `FrameEnds`, `LastFrame`, `CancelAllSessionIos`, `WaitForTransferIoFinish` |
| the logic, called back anywhere | `AfterLogic`: it may send, close the session, both, or nothing |
| epoll, edge-triggered; the peer | `Edge`, `PeerSends`, `PeerCloses`, `PeerResets`, `PeerReads`, `Distribute` |

The kernel and the peer are not code of the repository: their actions are the outcomes
the code handles. `Env` chooses which of them an instance has: FIN right behind data
("burst"), resets, closes by the server, shutdown, connections that come while the
engine is closing ("late"), and messages larger than the receive buffer ("oversize"): then
what the message handler leaves behind may fill the buffer. `PostRecv` returns success
without posting in that case, and nobody posts the receive again. The model lets the buffer
be full after any receive, the code only after one that ran out of room. The other way for
a post to come to nothing, a mailbox that refuses it (`FS_Session.cpp:133-140`, and
`IFS_MsgDispatcher.cpp:531-537` behind it), cannot happen while a dispatcher's thread runs:
the engine joins the dispatchers (`IFS_NetEngine.cpp:246`) before it closes the mailboxes
(249).

### ThreadPool

| Code | Model |
|---|---|
| `AddTask` under the mutex, with `_CreateThread` | `AddTask`, `CreateThread`; `Call` says what callers pass |
| the loop's test of `_isDestroy`, an atomic read without the mutex | `TestLoop`, a step of its own |
| a task taken and run | `TakeTask`, `RunEnds` (an endless task ends when the pool does not work) |
| `++_waitNum`, `DeadWait`, `--_waitNum`, `isEmpty` | `DeadWait`, `ReturnFromWait` |
| the end of `ThreadHandler` | `Leave` |
| `Close`: flags; signal; look; again | `BeginClose`, `SignalThreads`, `CheckThreads` |

`_waitNum > 0` is `HasWaiter(locker)`: both counters change together under the mutex.
`_isDestroy` and `_isPoolWorking` are opposites, set in one critical section; the one
thread that could see them apart, between its task and the loop's test, has `isEmpty`
down and goes round again whatever it reads. Pools begin without threads, as all of the
repository's do (`FS_ThreadPool(0, n)`). `pthread_create` succeeds: `AddTask` does not look
at the result of `_CreateThread` (`FS_ThreadPool.cpp:99`), so that a pool that cannot make
its first thread accepts tasks nobody runs, which no property could deny.

### AcceptPoller and Connections

| Code | Model |
|---|---|
| `_OnAcceptorEvMonitorPoller`: one event | `Notify` (flag and signal under the guard) |
| `_OnPreHandleAcceptEvPoller` | `TakeEvent`, `AcceptOne`, `AcceptNone`; `WaitForEvent`, `Return` |
| `_HandleSessionWillConnect` | `Accept` (one section of `_sessionlocker`), then `WillConnect("acceptor")` |
| `IFS_Connector::Connect` | `CheckConnect` (a section), `Connected` (another) or `ConnectFails`; then `WillConnect("connector")` or `ConnectFailure` |
| the connector's other message | `Gone` |
| `HandleCompEv_WillConnect`, `OnWillConnect` of the transfer | `WillConnect`: `IsMinTransfer`, the two counters, the message |
| `NodeConnectionMgr::AsynConnect` down to the connector's queue | `AsynConnect` |
| `_OnSessionConnected`, the logic's events | `HandleConnected`; a listener may close the session before it is announced |
| `_OnSessionDisconnectedNoFree` | `Disconnect` (delegates, logic), then `Leave` (engine, acceptor, transfer) |

`work[o]` is what the acceptor's and the connector's thread hold between two critical
sections. The acceptor's socket is handed over before the next `accept`, hence the guard
`work["acceptor"] = Idle` in `Accept` and `EndOfBacklog`. The scan for the transfer with
the fewest sessions is one step; no property depends on which transfer it finds. The two
paths of the code that undo an admission (`HandleCompEv_WillConnect` returns false) are
left out: `OnWillConnect` fails for a session id that is in use, and `_curMaxSessionId`
never gives one twice.

### TimeWheel

| Code | Model |
|---|---|
| `_timeDatas`, ordered by `TimeDataLess` | `timeDatas` with `Before`, `IsFirst` |
| `FS_Timer::Schedule`, `Cancel`, constructor and destructor | `Schedule`, `Cancel`, `Renew` |
| the same while the wheel turns: `_NewAsynTimeData` | the second disjuncts, with `PutOff` |
| `RotateWheel`: begin, one expired timer, back from its callback, the end of the loop | `BeginRotate`, `TimeOut`, `ErasePassed`, `Refresh` |
| `_AfterRotateWheel` | `RunPutOff`, one operation each, `EndRotate` |
| the clock | `Tick`, at any time, in callbacks too |

`scheduled`, `earliest` and `due` are not in the code: they remember what the logic asked
for and what a rotation owes, for the properties. A callback may schedule its own timer
or one that is not in the set: rescheduling another one that waits in the set moves an
element of a `std::set`, which has no meaning a model could give it, and no caller in the
repository does it. A timer is freed between rotations only, for the same kind of reason
(what a callback frees stays in `_asynData`).

### EventManager

| Code | Model |
|---|---|
| `_listeners`, `_stubListeners` | `listeners`, `stubListeners`; a callback is named by its stub |
| `AddListener`, both `RemoveListener` | `AddListener`, `RemoveListeners`, `RemoveListener`, ended by `Submit` |
| `FireEvent`: the call, one callback, the end of the loop | `FireEvent`, `Invoke`, `AfterFireEvent`, on the stack `fires` |
| the loop of `AfterFireEvent` over `_delayedOps` | `ProcessDelayed`, one operation a step |

`asked` and `atStart` are not in the code: they remember what would be registered if every
call took effect at once, and that when the outermost fire began. Callers that bind their
own stubs keep them apart from numbered ones and bind none twice in one fire; `Careless`
lifts that.

## 3. What is checked

Every property of a passing run has a mutant in `PROJECT.json`: a plausible slip in one
mapped definition that TLC finds to break it.

| Run | Instance | Shows |
|---|---|---|
| `mq` | 2 producers, 2 messages each, lists of up to 2 | nothing lost, doubled or reordered across the list swaps (`AllAccountedFor`, `ImplementsChannel`); the poller never sleeps on a message; while the queue works every accepted message is handled |
| `mq_close` | the same | **violated**, finding 1 |
| `cmq` | 2 generators, 2 consumers; one thread pushes lists and messages, another single messages, to one consumer; 2 and 1 messages | no message stranded between the two mutexes; exchange of lists loses nothing; order per generator and consumer, through the close; every accepted message is handled while the queue and the pool work |
| `session` | burst, reset, close, oversize; 2 chunks in, 1 out | the session goes deaf only when its receive buffer is full; no readiness forgotten; a clean close by the peer delivers all |
| `session_orderly` | close, shutdown, oversize; 1 chunk in, 2 out (partial sends) | nothing to send is left lying; a buffer is lent once per direction; every posted io is answered; no io outlives a removed session; a session to be removed is removed; a closed dispatcher ends |
| `pool` | 2 threads at most, one endless task and two that end, 1 or 2 threads asked for | no accepted task is forgotten by threads that wait, leave or are counted as waiting though signalled; every accepted task starts; `Close` ends and leaves nobody |
| `connections` | 2 peers and 2 connects of the logic, 2 transfers, limit 1 | the counts of acceptor, connector, engine and transfers agree with the sessions at every step; the limit is passed by one at most; each connect is answered once, in the end; the place of a session the dispatcher removes comes back; the accept queue is emptied |
| `wheel` | 3 timers, periods 0, 1, 2, times up to 3, 3 operations put off, 1 timer freed | `IsScheduling` and the set follow the last call; a rotation misses nobody that was due and calls nobody early; the wheel's own resolution makes a punctual loop |
| `wheel_late` | 2 timers | **violated**, finding 4 |
| `events` | 2 ids, 3 numbered stubs and a bound one, fires 2 deep, 3 operations put off | every fire calls those who were registered when the outermost began, once, and frees none that runs; afterwards both indexes hold what was asked for |
| `session_burst` | burst | **violated**, finding 2 |
| `session_shutdown` | shutdown | **violated**, finding 3 |

**Bounds.** Two messages per producer are enough for a push to meet a queue that is
empty, non-empty with the flag up, and mid-swap; with two producers each of these with
another's messages in the list. Two generators give a consumer one it has passed and one
it has not. (Two consumers with messages, and two threads that share a generator, were
tried once with TLC; the proofs cover every number.) Two chunks give a read that leaves data behind, a partial send, and an answer
that crosses a later post. Two pool threads and three tasks give a task queued behind an
endless one and a thread signalled twice; the third member of `Thread` is never needed
(no thread leaves before the close). A limit of one with two peers and two connects gives
a peer and a connect that are refused, the race that passes the limit, and a place used
twice; a second transfer gives a session and a failure that travel by different queues.
(The safety properties also hold with a limit of 2 and with 3 peers, tried once with
TLC.) Three timers give a callback one timer that was called before it and one that is
still to be called; times up to 3 give rotations that are late by more than a period. Two
nested fires, of the same id too, with three operations put off give a listener that is
added, removed and followed by another, or removed while two fires are inside it.
Every guard with a bound names it (`MaxSent`, `MaxBatch`, `MaxData`, `MaxOut`, `MaxPeers`,
`MaxTime`, `MaxCalls`, `MaxId`, `MaxStub`, `MaxDepth`, `MaxPutOff`); no other action is limited. The cfgs (but the event manager's) switch the deadlock check off
because each of these systems may really stop: closed queues, ended dispatchers, producers
that push no more.

**Fairness.** Only threads of the program that are able to run are assumed to run
(`WF` on the poller, consumers, the distributing thread, receive and send threads, the
dispatcher, a pool's threads, the two threads of the accept poller, the connector's, a
producer inside a call and a closer inside its sequence),
which is what an
operating system's scheduler gives. A timed wait is assumed to end, and a connect by its timeout. Nobody has to push, close, send, or
read: pushes, closes, the peer and the logic have no fairness. Neither has the removal of
a session in `Connections` (`Disconnect`), which depends on more than the dispatcher's being
scheduled: `SlotsReturn` begins with a session the dispatcher has begun to take leave of,
and one that is never removed (finding 2) keeps its place. Mutexes are not starved
because critical sections are single steps.

**What the runs hold back, and why.**
`session_orderly` has no resets and no bursts: `RemovalCompletes` is false with bursts
(finding 2) and `NoIoOutlivesRemoval` with resets: the 0-byte answer to a reset clears the
flag of a send posted after the reset, and the session is freed under it
(`Env <- MCReset` shows it for `NoIoOutlivesSession`). So is `OneIoPerDirection` (a 0-byte
report can follow a data report, and the first one's handler has posted again by then).
`NoIoOutlivesRemoval` speaks of the time before
shutdown (finding 3). `ShutdownCompletes` does not promise an end while every frame
brings messages, because the loop's condition `IsPoolWorking() || hasMsg` does not; and
it asks that nothing is accepted once the dispatchers close. The code does not give that:
`WillClose` of the accept poller sets a flag nobody reads
(`FS_EpollAcceptPoller.cpp:109`), and with `Env <- MCLateConnect` the property is false.
`AllAccountedFor` and `SwapGivesEmptyList` of the concurrent queue ask that the lists of a
generator go to one consumer: the flag that decides about a swap is one per generator,
and the repository uses the list form in that way only (in a test). `ThreadPool` is run
with callers that add no task that needs a thread to a full pool (`FullToo = FALSE`):
`AddTask` accepts such a task and tells nobody, so that `TaskHasTaker` is false with them;
each pool of the repository is as large as its tasks (transfer 4, accept poller 2,
dispatcher, connector, engine 1, log one per file). `events` is run with `Careless = FALSE`:
a bound stub is looked up in the index only, so that two adds in one fire give one stub
to two listeners, where `EventManager.h` promises that the second is refused; nobody in
the repository binds stubs.

### Findings

1. **A transfer's poller may sleep through the close of its queue**
   (`MessageQueue.cpp:531-532`). The broadcast that is to "wake the consumer threads"
   is sent without the mutex; a poller that has read `_isWorking` (without the mutex too)
   and found the change flag down, and is not yet in its wait, misses it, waits without a timeout, and the close waits for its thread.
2. **A session may never be removed** (`IFS_MsgDispatcher.cpp:593`). Data and the end of
   the stream handled in one frame: the receive is posted again between the message that
   marks the io as canceled and the removal, whose cancel is then skipped.
3. **The wait before the sessions are freed overlooks the mailboxes**
   (`FS_EpollTransferPoller.cpp:311`). A receive posted in the last frame is not in the
   maps `IsIoFinish` looks at.
4. **A timer rescheduled in its own callback expires one period late**
   (`TimeWheel.cpp:106`). `Schedule` sets start + period; the wheel, which puts every
   timer back that was called and is not cancelled, adds the period again.

Read, and not checked by a run: `GetModifiedResolution`, which only a test calls (the
dispatcher waits for the fixed resolution), gives 0 for a first timer whose period
exceeds the resolution, from start plus resolution on: punctual, and busy.
`_OnSessionConnectFail` passes the callback a session id that is not 0, where
`INodeConnectionMgr.h` says 0 for a failure. `IFS_Connector::Connect` leaves its socket
open on the two error paths at lines 155-172. The connector's passing of the limit
(`LimitHolds`) is by one session and for its lifetime.

## 4. What is proved

TLAPS proves the following for every value of the constants, from the named assumptions
of the modules (`QueueAssumption`: quantities are positive, ids are in range;
`PoolAssumption`: finitely many threads, a limit, positive requests; `WheelAssumption`:
periods and bounds are natural numbers; `ConnectionsAssumption`: finitely many transfers
and at least one, a limit, and a stub and an id that stand for none; `EventAssumption`: ids
and stubs are numbers, and the callers' own stubs are not among the numbered ones).

- `MessageQueueNoThreadProofs`: `TypeCorrect`, `NoLostWakeUp`, `ChangeIsTrue`,
  `SwapGivesEmptyList`. They all follow from one inductive invariant `IInv`
  (`Invariance`). `NeverSleepsOnMessages` alone is not inductive: to see that the poller
  goes to sleep on an empty queue one needs that the change flag is up exactly while the
  queue holds messages; to see that the flag is right after a pop one needs that the
  list the poller swaps in is empty (`HandledBeforePop`); that a push leaves nobody
  asleep needs that a sleeper is in `"waiting"` (`AsleepIsWaiting`); and the end of the
  story needs that nobody is left after the close (`NobodyAfterClose`).
  `OrderKept` (`AllAccountedFor`) is a second invariant on top of it: the list in a
  producer's hand is the next batch of its own numbers (`HandIsNext`), and a swap puts it
  into an empty queue, so that the numbers of each producer stay in one run over the
  handled, the popped and the queued list (`Regroup`).
  `IsChannel` proves the refinement of `MsgChannel`: both pushes map to `Accept`,
  `HandleMessages` to `Deliver`, `ClearIsWorking` to `CloseChan`, the rest to stutters. What
  it needs beyond `OrderKept` is that the handled messages of a producer count from 1
  (`GotInOrder`), that is, that a prefix of messages in order is in order
  (`PrefixInOrder`), and that taking their numbers gives `<<1, ..., m>>`
  (`NumbersInOrder`); for the proof the mapping takes the numbers by counting places
  (`NumbersOf`), not with the recursive `SelectSeq`.
- `ConcurrentMessageQueueNoThreadProofs`: `TypeCorrect`, `NothingStranded`, `OrderKept`
  and the refinement `IsChannel`. The first
  invariant is `TypeOK /\ HandledBeforePop /\ NoStrandedMessages`: `NoStrandedMessages`
  is inductive once it is known that the lists a consumer swaps in are empty
  (`HandledBeforePop`). The argument is the one the code leaves unsaid: a push raises the
  consumer's flag *after* its message is in the list, and a consumer lowers the flag
  *before* it looks at the lists, so that in the worst order a flag is raised for nothing.
  `OrderKept` rests on why the exchange of lists is safe although *any* consumer's pop
  lowers the generator's one flag: a generator whose lists are exchanged has one target
  (`OnlyTargets`), and its flag is up while the target's list is not empty
  (`FlagOfFullList`); `SwapGivesEmptyList` is the same fact. `IsChannel` maps `Push` to `Accept`, `HandleMessages` to `Deliver`
  and `ClearIsWorking` to `CloseChan` of `MsgChannel`; that a delivery is next in its
  pusher's order is `OrderKept`, that a last frame can follow the close is `ClosedIsDone`.
- `ThreadPoolProofs`: `TypeCorrect`, `EachTaskOnce`, `QuietWhenClosed` and, for callers that keep to the
  limit, `NoTaskForgotten`. `TaskHasTaker` holds after an `AddTask` because the locker
  counts exactly the threads in `DeadWait` (`WaitersWait`): one of them is awake after the
  signal; or because a thread was made, which begins with `isEmpty` down
  (`BusyLooksAgain`). That every step of a thread keeps a task's taker needs the same
  conjunct for the end of a task. `ClosedIsQuiet` needs that `_curTotalNum` counts the
  threads in the loop (`CountIsRight`, by cardinality), and that nobody adds one after the
  close began (`ClosingIsClosed`). `EachTaskOnce` is inductive on its own (`TasksOnce`): the
  list holds a task once, an accepted one, and what was accepted and left the list was run
  once; it needs that callers add a task once, as `FS_ThreadPool.h:62` asks them to. With
  the empty list of a closed pool it is the last conjunct of `ClosedIsQuiet`: no task was
  dropped by the close.
- `TimeWheelProofs`: `TypeCorrect`, `SchedulingCorrect`, `NobodyMissed`, `NeverEarly`
  (an action property), from one inductive invariant; and `LoopIsPunctual`
  (`PunctualWait`) from it and a second one (`Ids`: an id is given once). The first one's
  core is `Settled`: the last operation put off for a timer or, when none is, its place in
  the set, agrees with the last call to it. `SchedulingIsTrue` needs besides that the answers
  kept in the meantime (`asynFlag`) are those of the last call (`Flags`); `MissesNobody`
  that a timer that is owed a call is still in the set and expired (`DueThere`), so that
  the loop cannot end before it; `NotEarly` that the expiry is never ahead of what the
  periods allow, with one period in reserve for a timer that was called and not yet put
  back (`Early`). `LoopIsPunctual` is about the time the loop sleeps: the first of the set
  decides it, which exists because ids make the order of the set total (`FirstExists`).
- `ConnectionsProofs`: `LimitCorrect`, inductive with the types alone; `CountsCorrect` and
  `TypeCorrect` (that no counter passes below 0 needs that counters count something). The
  invariant says who may know a session id: it belongs to one session, is announced once
  and in one queue (`ComingOnce`, `QueuesOnce`), an id a thread holds between two sections
  is nobody else's (`HandsApart`), one session leaves at a time (`LeavingOne`), and the
  connector is told of the end of sessions that have left or are leaving (`GoneHasLeft`).
  The counters follow by cardinality. Two of these facts are theorems of their own:
  `SessionIdsDiffer`, and `IdsAreNew`, an action property: an id is drawn above all earlier
  ones, which is why a transfer never meets an id it still has.
  `AnswersCorrect` (`PendingIsOutstanding`) says that each connect has one answer. Its
  invariant (`AnswerInv`) has a stub that is pending in exactly one of three places: the
  connector's requests, its hand, the inbox of one transfer (`Placed`), each step of the
  way takes it from one place and puts it into the next; and the acceptor's hand never
  has a stub. The property's other half, that a node's users are sessions of its own
  connects that have not gone, is a conjunct of it (`UsersOfSessions`).
  `BacklogHasServer` is the safety half of `BacklogIsServed`: the edge, told once, is in
  one of three places until the accept queue is empty (`BacklogIsSeen`), and a signal
  leaves the prehandling thread awake while `_isEventArrived` is up (`ToldIsAwake`).
- `EpollSessionProofs`: `ServerHears` (`DeafWhenFullOnly`), `OutputIsPosted`
  (`NoStrandedOutput`) and `NoEdgeIsMissed` (`ReadinessRemembered`), for any amount of
  data, every behaviour of the peer and whatever the message handler leaves in the receive
  buffer. `ServerHears` is an equivalence: between frames an open session has a receive
  posted if its buffer has room, and only then. The first two follow from
  `Shape` (the types, without the bounds of the instances) and `Flow`. The two properties
  speak of the time between frames; inside a frame a session may lack a posted receive,
  and `Flow` says when: while it waits in `_toPostRecv` to be posted at the end of the
  frame, or is in the frame that begins to close it, or has a full buffer. So every handler
  that lowers `post["recv"]` must give one of these reasons; and nobody may post into a full
  buffer, nor fill one that is posted. `Told` adds to `ReadinessRemembered`
  what it needs to be inductive: that the error event, which discards the others, comes
  from a reset only, and that nobody is registered before his session exists.
- `EpollSessionProofs`, too: `OneBufferOneIo` (`OneIoPerDirection`), `PostedIsAnswered`
  (`PostedIoIsAnswered`) and `FreedIsUnused` (`NoIoOutlivesRemoval`), under `Orderly`: no
  resets and no bursts, without which the first and the last are false (section 3).
  `Ordered` has, for each direction of a live session, the relation `Side` between what
  the two threads hold: the io is in the mailbox, with the transfer, or answered, never in
  two of these; an answer without `c` (`_isCanceled`) is the only one and belongs to a
  posted io; a transfer that knows the session no longer has told so (`Ended`), or was
  told to forget it; and a cancel in a mailbox has no post behind it. That
  the removal is safe follows: `CanDisconnect` sees no posted io, so neither mailbox nor
  transfer has one. `PostedIoIsAnswered` needs the order inside the mailbox
  (`CancelIsLast`), since a cancel that overtakes a post would leave the post to a
  transfer that has forgotten the session.
- `EpollSessionProofs`, third: `TypeCorrect` (with the bounds of the instances) and
  `AllIsDelivered` (`CleanCloseDeliversAll`), for every behaviour of the peer. Neither is
  inductive: that all was handled at the end needs to know where the chunks are before
  it. `Books` keeps account: at most one report of data is on its way in a direction, not
  while an io of it is posted, and none comes behind an end of the stream (`Ways`); what
  is handled, what the socket holds and that report add up to what the peer sent, unless
  there was an error or the server closed (`Claims`, `Exact`); and every reason for which
  a session is masked, canceled or removed is one of three: the server's own close, an
  error, or an end of the stream behind which nothing is left (`Over`, `Ending`). The last
  is where a burst, data and the end at once, could lose data: the transfer reports the
  data first and the end as a second message, and `Behind` says that no data is ever after
  an end in the queue.
- `EpollSessionProofs`, last: `NoCloseIsStuck`, under `Orderly`, the safety half of
  `RemovalCompletes`. While the dispatcher waits, a session that is being closed has an io
  that is posted and canceled, and either its answer is in the queue or the cancel is in
  the mailbox of a thread that still knows the session and so must answer it. The
  invariant (`Leaving`) is that a masked session is to be removed in this frame or has both
  directions canceled and one of them posted, and that a cancel stays in the mailbox until
  the session is forgotten. It holds because only `WillRemoveSessions` cancels without
  removing, and only when `CanDisconnect` has just found a posted io.
- `EventManagerProofs`: `TypeCorrect`, `IndexesCorrect` (`WhatWasAskedFor`) and
  `RoundsCorrect` (`RoundsAreWhole`, an action property), for callers that are not
  `Careless` and for any depth of fires and any operations put off. `WhatWasAskedFor` says
  nothing while something is put off; `AskedIs` does: a registration is asked for exactly
  if the operations put off will leave it (`InTheEnd`). Putting one off appends to that
  history (`EndAppend`), the loop after the outermost fire takes its head (`EndTail`), and
  doing one at once is the same as both (`ProcessIs`). For an add to count, its stub must
  not be in the index when its turn comes, which is `Fresh`: the adds that are put off
  have stubs of their own, and a numbered stub is never given twice. `Rounds` says why
  rounds are whole: while events are fired the index stands still, and every fire has
  called the first of its list.
- `ConditionLockerProofs`: the types of the locker's calls and what a signal leaves.

Only model-checked: the liveness properties, `AcceptedIsHandled` of both queues,
`RemovalCompletes` and `ShutdownCompletes` of the session, `AcceptedStarts` and
`CloseCompletes` of the thread pool, `EachConnectIsAnswered`, `SlotsReturn` and
`BacklogIsServed` of the connections. They rest on fairness, and the prover has neither
`ENABLED` nor rules for it. What of them is safety is proved: nobody sleeps on messages
(`NeverSleepsOnMessages`, `NoStrandedMessages`), a task has a taker (`TaskHasTaker`), a
pending connect has an answer on its way (`PendingIsOutstanding`), a counted session
exists (`CountsAgree`), a session being closed has its answer on the way
(`ClosingIsAnswered`), a waiting peer has an alert acceptor (`BacklogIsSeen`,
`ToldIsAwake`), a task is run once (`TasksOnce`). Every other property of a passing run
is a theorem.

## 5. Not modelled

The contents of messages, buffers and protocols (that a receive buffer is full is
modelled, not what fills it); several sessions at a time in `EpollSession`; a
`pthread_create` that fails (see the hazards); logging; error returns of the other pthread
and socket calls that the code only logs; the Windows build; start-up; the
components marked `not_modelled` in `PROJECT.json`, each with its reason.

## 6. Plan

What is left, in this order:

1. The close of the whole engine: acceptors, connector, dispatchers, transfers and queues
   in the order of `IFS_NetEngine`, composed of `Connections`, `EpollSession` and
   `ThreadPool`.
2. Several dispatchers with the stubs of each; the log's hand-over and its end.
