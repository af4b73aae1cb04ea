------------------------------- MODULE Hotplug -------------------------------
(***************************************************************************)
(* The client's hotplug path: the reader thread of the monitor calls       *)
(* HotplugService::onEvent, which debounces per device on DelayedScheduler;*)
(* the scheduler's timer thread runs flush, which updates the model of     *)
(* DeviceService.  A refresh replaces the whole model from an enumeration: *)
(* the first one ends before the service is started.  The owner stops the  *)
(* service and the scheduler at the end.                                   *)
(*                                                                         *)
(* Every critical section is one step; schedule and cancel, which take the *)
(* scheduler's mutex inside the service's, are part of the caller's step.  *)
(* The window is the same for all devices and the clock is steady, so      *)
(* flushes fall due in the order they were scheduled.                      *)
(*                                                                         *)
(* Abstraction: the states of a device are numbered in the order it goes   *)
(* through them, and it is absent in every third one.  The model holds the *)
(* number of the state it shows, 0 for an absent device.                   *)
(***************************************************************************)
EXTENDS Monitor, FiniteSetsExt

CONSTANTS
    Devices,
    MaxChanges,     \* bound: the numbers of the devices' states, in all
    MaxRefreshes    \* bound: refreshes

ASSUME HotplugAssumption == MaxChanges \in Nat /\ MaxRefreshes \in Nat

VARIABLES
    world,          \* device -> number of its current state
    pending,        \* pending_: device -> the newest event and its flush
    outstanding,    \* outstandingFlushes_
    queue,          \* DelayedScheduler::queue_: the flushes not due yet
    ready,          \* the batch of flushes the timer thread dequeued
    nextId,         \* DelayedScheduler::nextId_
    worker,         \* the timer thread's flush in progress
    woken,          \* stop()'s wait on flushDone_ has been notified
    model,          \* DeviceService::model_: device -> state shown
    enumerated,     \* what a refresh enumerated and has not applied yet
    refreshes       \* refreshes begun

scheduler == <<queue, ready, nextId>>
machine == <<netlink, reader, handles, stopRequested, wake>>     \* all of monitor but owner
vars == <<world, monitor, pending, outstanding, queue, ready, nextId, worker, woken, model,
          enumerated, refreshes>>
service == <<pending, outstanding, scheduler, worker, woken, model, enumerated, refreshes>>

Absent == 0
Shown(v) == IF v % 3 = 0 THEN Absent ELSE v

Flushes == [handle : Nat, device : Devices]
Idle == [pc |-> "idle"]
Nothing == [d \in {} |-> Absent]
WithoutKey(f, d) == [x \in DOMAIN f \ {d} |-> f[x]]

Init ==
    /\ world \in [Devices -> {0, 1}]
    /\ InitMonitor
    /\ pending = Nothing /\ outstanding = 0
    /\ queue = {} /\ ready = {} /\ nextId = 1
    /\ worker = Idle
    /\ woken = FALSE
    /\ model = [d \in Devices |-> Shown(world[d])]
    /\ enumerated = Nothing /\ refreshes = 0

-----------------------------------------------------------------------------
(* The hardware and the reader thread.                                     *)

Change(d) ==
    /\ MapThenSumSet(LAMBDA x : world[x], Devices) < MaxChanges
    /\ world' = [world EXCEPT ![d] = @ + 1]
    /\ Send([device |-> d, state |-> world[d] + 1])
    /\ UNCHANGED <<reader, handles, stopRequested, wake, owner, service>>

\* What the mapped event of a message shows: a removal is a removal; otherwise
\* the attributes are read while the device may have moved on.
Readings(m) ==
    IF Shown(m.state) = Absent
    THEN {m.state}
    ELSE {v \in m.state .. world[m.device] : Shown(v) # Absent}

\* DelayedScheduler::cancel finds the flush only while it is queued.
Queued(d) == {q \in queue : d \in DOMAIN pending /\ q.handle = pending[d].handle}

Resolved(d) == IF Queued(d) # {} THEN 1 ELSE 0

\* Mutant: a device that has a flush pending keeps it and the older event.
OnEventKeepsFirst(d, v) ==
    /\ IF d \in DOMAIN pending
       THEN UNCHANGED <<pending, outstanding, queue, nextId>>
       ELSE /\ pending' = [x \in DOMAIN pending \cup {d} |->
                             IF x = d THEN [state |-> v, handle |-> nextId] ELSE pending[x]]
            /\ outstanding' = outstanding + 1
            /\ queue' = queue \cup {[handle |-> nextId, device |-> d]}
            /\ nextId' = nextId + 1

\* Mutant: the handle of the new flush is not stored.
OnEventOldHandle(d, v) ==
    /\ pending' = [x \in DOMAIN pending \cup {d} |->
                     IF x # d THEN pending[x]
                     ELSE [state |-> v, handle |-> IF d \in DOMAIN pending THEN pending[d].handle
                                                  ELSE nextId]]
    /\ outstanding' = outstanding - Resolved(d) + 1
    /\ queue' = (queue \ Queued(d)) \cup {[handle |-> nextId, device |-> d]}
    /\ nextId' = nextId + 1

\* onEvent: the newest event wins and gets a fresh window.
OnEvent(d, v) ==
    /\ pending' = [x \in DOMAIN pending \cup {d} |->
                     IF x = d THEN [state |-> v, handle |-> nextId] ELSE pending[x]]
    /\ outstanding' = outstanding - Resolved(d) + 1
    /\ queue' = (queue \ Queued(d)) \cup {[handle |-> nextId, device |-> d]}
    /\ nextId' = nextId + 1

\* The callback, on the reader thread.
Deliver ==
    /\ ReaderDelivered
    /\ OnEvent(reader.device, reader.state)
    /\ UNCHANGED <<world, ready, worker, woken, model, enumerated, refreshes>>

Reader ==
    \/ Deliver
    \/ /\ ReaderPoll \/ ReaderDrained \/ ReaderReceive(Readings(Head(netlink)))
       /\ UNCHANGED <<world, service>>

Burst == Overrun /\ UNCHANGED <<world, service>>

-----------------------------------------------------------------------------
(* The timer thread.                                                       *)

\* run(): everything due is dequeued at once.
Dequeue ==
    /\ owner # "shutdown" /\ worker = Idle /\ ready = {}
    /\ \E last \in queue :
         LET due == {q \in queue : q.handle <= last.handle}
         IN ready' = due /\ queue' = queue \ due
    /\ UNCHANGED <<world, monitor, pending, outstanding, nextId, worker, woken, model,
                   enumerated, refreshes>>

Oldest == {q \in ready : \A r \in ready : q.handle <= r.handle}

TakeGoesOn(d) == IF d \in DOMAIN pending THEN "apply" ELSE "resolve"

\* flush's first critical section takes the newest event of the device, if stop
\* or an earlier flush has not.
FlushTake ==
    /\ worker = Idle
    /\ \E q \in Oldest :
         /\ ready' = ready \ {q}
         /\ worker' = [pc |-> TakeGoesOn(q.device), device |-> q.device,
                       state |-> IF q.device \in DOMAIN pending THEN pending[q.device].state ELSE 0]
         /\ pending' = WithoutKey(pending, q.device)
    /\ UNCHANGED <<world, monitor, outstanding, queue, nextId, woken, model, enumerated,
                   refreshes>>

\* applyDelta: a removed device is erased, any other is added or replaced.
FlushApply ==
    /\ worker.pc = "apply"
    /\ model' = [model EXCEPT ![worker.device] = Shown(worker.state)]
    /\ worker' = [worker EXCEPT !.pc = "resolve"]
    /\ UNCHANGED <<world, monitor, pending, outstanding, scheduler, woken, enumerated,
                   refreshes>>

FlushResolve ==
    /\ worker.pc = "resolve"
    /\ outstanding' = outstanding - 1
    /\ worker' = [worker EXCEPT !.pc = "notify"]
    /\ UNCHANGED <<world, monitor, pending, scheduler, woken, model, enumerated, refreshes>>

\* flushDone_.notify_all, after the mutex was released.
FlushNotify ==
    /\ worker.pc = "notify"
    /\ worker' = Idle
    /\ woken' = (owner = "waiting")
    /\ UNCHANGED <<world, monitor, pending, outstanding, scheduler, model, enumerated,
                   refreshes>>

-----------------------------------------------------------------------------
(* Refresh, on a worker of the task scheduler.                             *)

RefreshEnumerate ==
    /\ owner = "running" /\ refreshes < MaxRefreshes /\ enumerated = Nothing
    /\ enumerated' = [d \in Devices |-> Shown(world[d])]
    /\ refreshes' = refreshes + 1
    /\ UNCHANGED <<world, monitor, pending, outstanding, scheduler, worker, woken, model>>

RefreshApply ==
    /\ enumerated # Nothing
    /\ model' = enumerated
    /\ enumerated' = Nothing
    /\ UNCHANGED <<world, monitor, pending, outstanding, scheduler, worker, woken,
                   refreshes>>

-----------------------------------------------------------------------------
(* The owner's teardown: stop(), then DelayedScheduler::shutdown().        *)

\* HotplugService::start and stop begin with the monitor's.
Start == MonitorStart /\ UNCHANGED <<world, service>>
Quit == StopRequest /\ UNCHANGED <<world, service>>
StopReader == (StopWrite \/ StopJoin) /\ UNCHANGED <<world, service>>

Cancelled == UNION {Queued(d) : d \in DOMAIN pending}

\* Every pending flush is cancelled; those still queued will never run.  The
\* predicate of the wait is looked at before sleeping.
StopCancel ==
    /\ owner = "cancel"
    /\ queue' = queue \ Cancelled
    /\ outstanding' = outstanding - Cardinality(Cancelled)
    /\ pending' = Nothing
    /\ owner' = IF outstanding' = 0 THEN "stopped" ELSE "waiting"
    /\ woken' = FALSE
    /\ UNCHANGED <<world, machine, ready, nextId, worker, model, enumerated, refreshes>>

StopWake ==
    /\ owner = "waiting" /\ woken
    /\ owner' = IF outstanding = 0 THEN "stopped" ELSE "waiting"
    /\ woken' = FALSE
    /\ UNCHANGED <<world, machine, pending, outstanding, scheduler, worker, model,
                   enumerated, refreshes>>

\* shutdown() lets the batch in progress end and joins the timer thread.
Shutdown ==
    /\ owner = "stopped" /\ worker = Idle /\ ready = {}
    /\ owner' = "shutdown"
    /\ UNCHANGED <<world, machine, pending, outstanding, scheduler, worker, woken, model,
                   enumerated, refreshes>>

Timer == Dequeue \/ FlushTake \/ FlushApply \/ FlushResolve \/ FlushNotify
Refresh == RefreshEnumerate \/ RefreshApply
Stop == StopReader \/ StopCancel \/ StopWake \/ Shutdown

Next ==
    \/ \E d \in Devices : Change(d)
    \/ Reader \/ Burst
    \/ Timer
    \/ Refresh
    \/ Start \/ Quit \/ Stop

Spec == Init /\ [][Next]_vars

\* The reader and the timer thread run, time passes, and a teardown goes on once
\* it has begun.
FairSpec == Spec /\ WF_vars(Reader) /\ WF_vars(Timer) /\ WF_vars(Stop)

-----------------------------------------------------------------------------
(* Properties.                                                             *)

Messages == [device : Devices, state : Nat]
FlushWork == [pc : {"apply", "resolve", "notify"}, device : Devices, state : Nat]

TypeOK ==
    /\ world \in [Devices -> Nat]
    /\ netlink \in Seq(Messages)
    /\ reader \in [pc : {"none", "poll", "drain", "done"}]
                  \cup [pc : {"deliver"}, device : Devices, state : Nat]
    /\ handles \in BOOLEAN /\ stopRequested \in BOOLEAN /\ wake \in BOOLEAN
    /\ DOMAIN pending \subseteq Devices
    /\ \A d \in DOMAIN pending : pending[d] \in [state : Nat, handle : Nat]
    /\ outstanding \in Nat
    /\ queue \subseteq Flushes /\ ready \subseteq Flushes
    /\ nextId \in Nat
    /\ worker \in {Idle} \cup FlushWork
    /\ owner \in {"starting", "running", "wake", "join", "cancel", "waiting", "stopped", "shutdown"}
    /\ woken \in BOOLEAN
    /\ model \in [Devices -> Nat]
    /\ enumerated \in {Nothing} \cup [Devices -> Nat]
    /\ refreshes \in Nat

\* No event is stranded: whatever is pending has its own flush still to come,
\* although a flush takes whichever event it finds.
NoStrandedEvent ==
    \A d \in DOMAIN pending : [handle |-> pending[d].handle, device |-> d] \in queue \cup ready

\* What stop() ends does not come back: the reader has ended before its handles are
\* closed and before the flushes are cancelled, so no event is claimed after that;
\* and when stop() has returned, no flush will ever use the service's state or the
\* model again.
StopBarrier ==
    /\ owner \in {"cancel", "waiting", "stopped", "shutdown"} => Ended
    /\ owner \in {"stopped", "shutdown"} =>
         queue \cup ready = {} /\ pending = Nothing /\ worker.pc \notin {"apply", "resolve"}

\* Nothing was lost so far: no device changed between the first enumeration and the
\* monitor's start, the monitor did start, and its socket was never overrun.
Lossless ==
    /\ owner = "starting" => \A d \in Devices : model[d] = Shown(world[d])
    /\ owner = "running" => ~Ended

\* Without a loss and a refresh, the model comes to show what the hardware is: the
\* newest event of each device is the last one applied, however the windows of one
\* device overlap and whenever the reader leaves its queue.
Converges ==
    (<>[](owner = "running") /\ [](refreshes = 0 /\ Lossless)) =>
        \A d \in Devices : <>[](model[d] = Shown(world[d]))

\* stop() returns from wherever the reader and the timer are: the reader wakes up or
\* sees the flag, a notification is not lost between a flush's last unlock and its
\* notify_all, and no claim outlives its flush.
StopReturns == owner \in {"wake", "cancel"} ~> owner = "stopped"
=============================================================================
