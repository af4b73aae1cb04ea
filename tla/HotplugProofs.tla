---------------------------- MODULE HotplugProofs ----------------------------
(***************************************************************************)
(* Proofs about Hotplug and the monitor below it, for any devices, any     *)
(* number of changes and refreshes, and any place where stop() may find    *)
(* the reader, the timer thread and the pending flushes.                   *)
(*                                                                         *)
(* The code counts the flushes it has scheduled and not finished in        *)
(* outstandingFlushes_.  The inductive invariant says what that number is: *)
(* the flushes queued, those the timer thread dequeued, and the one it is  *)
(* in the middle of (Claims).  It needs that a handle names one flush      *)
(* (Distinct), and that once stop() may cancel, nobody calls onEvent any   *)
(* more (ReaderEnds).                                                      *)
(***************************************************************************)
EXTENDS Hotplug, FiniteSetTheorems, SequenceTheorems, TLAPS

Scheduled == queue \cup ready

\* A handle names one flush, and cancel cannot mistake a dequeued one for a queued one.
Distinct ==
    /\ queue \cap ready = {}
    /\ \A q \in Scheduled : q.handle < nextId
    /\ \A q, r \in Scheduled : q.handle = r.handle => q = r

\* The timer thread holds a claim that it has yet to give back.
Working == IF worker.pc \in {"apply", "resolve"} THEN 1 ELSE 0

Claims ==
    /\ IsFiniteSet(queue) /\ IsFiniteSet(ready)
    /\ outstanding = Cardinality(queue) + Cardinality(ready) + Working

\* A reader without handles, or one that stop() has joined, has ended for good.
ReaderEnds ==
    /\ owner = "starting" => reader.pc = "none"
    /\ ~handles \/ owner \in {"cancel", "waiting", "stopped", "shutdown"} => Ended

\* From the cancels on nothing is pending, and a stopped service has no claim left.
Emptied ==
    /\ owner \in {"waiting", "stopped", "shutdown"} => pending = Nothing
    /\ owner \in {"stopped", "shutdown"} => outstanding = 0

HotplugInv ==
    TypeOK /\ Distinct /\ Claims /\ NoStrandedEvent /\ ReaderEnds /\ Emptied

-----------------------------------------------------------------------------
(* onEvent, the timer thread and stop() on the queue of flushes.           *)

QueueInv == Distinct /\ Claims /\ NoStrandedEvent
QueueVars == <<pending, outstanding, queue, ready, nextId, worker>>

\* Taking a part out of a finite set takes its number off.
LEMMA WithoutPart ==
    ASSUME NEW S, IsFiniteSet(S), NEW T \in SUBSET S
    PROVE  /\ IsFiniteSet(T) /\ IsFiniteSet(S \ T)
           /\ Cardinality(S) \in Nat /\ Cardinality(T) \in Nat
           /\ Cardinality(S \ T) = Cardinality(S) - Cardinality(T)
<1>1. S \cap T = T
  OBVIOUS
<1>2. IsFiniteSet(T) /\ Cardinality(S) \in Nat
  BY FS_Subset, FS_CardinalityType
<1>3. IsFiniteSet(S \ T) /\ Cardinality(S \ T) = Cardinality(S) - Cardinality(S \cap T)
  BY FS_Difference
<1> QED
  BY <1>1, <1>2, <1>3, FS_CardinalityType

\* What cancel finds queued is the flush of the pending event, if it finds any.
LEMMA QueuedIsOne ==
    ASSUME TypeOK, QueueInv, NEW d \in Devices
    PROVE  /\ Queued(d) \subseteq queue /\ IsFiniteSet(Queued(d))
           /\ Cardinality(Queued(d)) = Resolved(d)
           /\ \A q \in Queued(d) : d \in DOMAIN pending /\ q.device = d
<1>1. Queued(d) \subseteq queue
  BY DEF Queued
<1>2. ASSUME NEW q \in Queued(d)
      PROVE  d \in DOMAIN pending /\ q.device = d /\ Queued(d) = {q}
  <2>1. q \in queue /\ d \in DOMAIN pending /\ q.handle = pending[d].handle
    BY DEF Queued
  <2>2. [handle |-> pending[d].handle, device |-> d] \in Scheduled
    BY <2>1 DEF QueueInv, NoStrandedEvent, Scheduled
  <2>3. q = [handle |-> pending[d].handle, device |-> d]
    BY <2>1, <2>2 DEF QueueInv, Distinct, Scheduled
  <2>4. ASSUME NEW r \in Queued(d) PROVE r = q
    BY <2>1 DEF Queued, QueueInv, Distinct, Scheduled
  <2> QED
    BY <2>1, <2>3, <2>4
<1>3. IsFiniteSet(Queued(d)) /\ Cardinality(Queued(d)) = Resolved(d)
  <2>1. CASE Queued(d) = {}
    BY <2>1, FS_EmptySet DEF Resolved
  <2>2. CASE Queued(d) # {}
    <3>1. PICK q \in Queued(d) : Queued(d) = {q}
      BY <1>2, <2>2
    <3>2. IsFiniteSet({q}) /\ Cardinality({q}) = 1
      BY FS_Singleton
    <3> QED
      BY <2>2, <3>1, <3>2 DEF Resolved
  <2> QED
    BY <2>1, <2>2
<1> QED
  BY <1>1, <1>2, <1>3

LEMMA OnEventKeepsQueue ==
    ASSUME TypeOK, QueueInv, NEW d \in Devices, NEW v \in Nat,
           OnEvent(d, v), UNCHANGED <<ready, worker>>
    PROVE  QueueInv'
<1> DEFINE new == [handle |-> nextId, device |-> d]
<1>1. nextId \in Nat /\ nextId' = nextId + 1 /\ ready' = ready /\ worker' = worker
      /\ queue' = (queue \ Queued(d)) \cup {new}
  BY DEF OnEvent, TypeOK
<1>2. /\ Queued(d) \subseteq queue /\ IsFiniteSet(Queued(d))
      /\ Cardinality(Queued(d)) = Resolved(d)
      /\ \A q \in Queued(d) : d \in DOMAIN pending /\ q.device = d
  BY QueuedIsOne
<1>3. \A q \in Scheduled : q.handle \in Nat /\ q.handle < nextId
  BY DEF QueueInv, Distinct, TypeOK, Flushes, Scheduled
<1>4. new \notin Scheduled
  BY <1>1, <1>3
<1>5. Distinct'
  <2>1. Scheduled' \subseteq Scheduled \cup {new}
    BY <1>1 DEF Scheduled
  <2>2. queue' \cap ready' = {}
    BY <1>1, <1>4 DEF Scheduled, QueueInv, Distinct
  <2>3. \A q \in Scheduled' : q.handle < nextId'
    BY <1>1, <1>3, <2>1
  <2>4. \A q, r \in Scheduled' : q.handle = r.handle => q = r
    BY <1>1, <1>3, <2>1 DEF QueueInv, Distinct
  <2> QED
    BY <2>2, <2>3, <2>4 DEF Distinct
<1>6. Claims'
  <2>1. IsFiniteSet(queue) /\ IsFiniteSet(ready) /\ Cardinality(queue) \in Nat
        /\ Cardinality(ready) \in Nat
    BY FS_CardinalityType DEF QueueInv, Claims
  <2>2. IsFiniteSet(queue \ Queued(d))
        /\ Cardinality(queue \ Queued(d)) = Cardinality(queue) - Resolved(d)
    BY <1>2, <2>1, WithoutPart
  <2>3. new \notin queue \ Queued(d)
    BY <1>4 DEF Scheduled
  <2>4. IsFiniteSet(queue') /\ Cardinality(queue') = Cardinality(queue) - Resolved(d) + 1
    BY <1>1, <2>2, <2>3, FS_AddElement
  <2>5. outstanding' = outstanding - Resolved(d) + 1
    BY DEF OnEvent
  <2>6. outstanding = Cardinality(queue) + Cardinality(ready) + Working
        /\ Working' = Working /\ Working \in Nat /\ Resolved(d) \in Nat
    BY <1>1 DEF QueueInv, Claims, Working, Resolved
  <2> QED
    BY <1>1, <2>1, <2>4, <2>5, <2>6 DEF Claims
<1>7. NoStrandedEvent'
  <2> SUFFICES ASSUME NEW x \in DOMAIN pending'
               PROVE  [handle |-> pending'[x].handle, device |-> x] \in queue' \cup ready'
    BY DEF NoStrandedEvent
  <2>1. CASE x = d
    BY <1>1, <2>1 DEF OnEvent
  <2>2. CASE x # d
    <3>1. x \in DOMAIN pending /\ pending'[x] = pending[x]
      BY <2>2 DEF OnEvent
    <3>2. [handle |-> pending[x].handle, device |-> x] \in queue \cup ready
      BY <3>1 DEF QueueInv, NoStrandedEvent
    <3>3. [handle |-> pending[x].handle, device |-> x] \notin Queued(d)
      BY <1>2, <2>2
    <3> QED
      BY <1>1, <3>1, <3>2, <3>3
  <2> QED
    BY <2>1, <2>2
<1> QED
  BY <1>5, <1>6, <1>7 DEF QueueInv

LEMMA DequeueKeepsQueue == TypeOK /\ QueueInv /\ Dequeue => QueueInv'
<1> SUFFICES ASSUME TypeOK, QueueInv, Dequeue PROVE QueueInv'
  OBVIOUS
<1>1. PICK last \in queue :
        /\ ready' = {q \in queue : q.handle <= last.handle}
        /\ queue' = queue \ {q \in queue : q.handle <= last.handle}
  BY DEF Dequeue
<1>2. ready = {} /\ UNCHANGED <<pending, outstanding, nextId, worker>>
  BY DEF Dequeue
<1>3. Scheduled' = Scheduled /\ queue' \cap ready' = {} /\ ready' \subseteq queue
      /\ queue' = queue \ ready'
  BY <1>1, <1>2 DEF Scheduled
<1>4. Distinct'
  BY <1>2, <1>3 DEF QueueInv, Distinct
<1>5. Claims'
  <2>1. IsFiniteSet(queue) /\ Cardinality(queue) \in Nat
    BY FS_CardinalityType DEF QueueInv, Claims
  <2>2. IsFiniteSet(ready') /\ IsFiniteSet(queue') /\ Cardinality(ready') \in Nat
        /\ Cardinality(queue') = Cardinality(queue) - Cardinality(ready')
    BY <1>3, <2>1, WithoutPart
  <2>3. Cardinality(ready) = 0 /\ Working' = Working /\ Working \in Nat
    BY <1>2, FS_EmptySet DEF Working
  <2> QED
    BY <1>2, <2>1, <2>2, <2>3 DEF QueueInv, Claims
<1>6. NoStrandedEvent'
  BY <1>2, <1>3 DEF QueueInv, NoStrandedEvent, Scheduled
<1> QED
  BY <1>4, <1>5, <1>6 DEF QueueInv

LEMMA FlushTakeKeepsQueue == TypeOK /\ QueueInv /\ FlushTake => QueueInv'
<1> SUFFICES ASSUME TypeOK, QueueInv, FlushTake PROVE QueueInv'
  OBVIOUS
<1>1. PICK q \in Oldest :
        /\ ready' = ready \ {q}
        /\ worker'.pc = TakeGoesOn(q.device)
        /\ pending' = WithoutKey(pending, q.device)
  BY DEF FlushTake
<1>2. worker.pc = "idle" /\ q \in ready /\ UNCHANGED <<outstanding, queue, nextId>>
  BY DEF FlushTake, Oldest, Idle
<1>3. Distinct'
  BY <1>1, <1>2 DEF QueueInv, Distinct, Scheduled
<1>4. Claims'
  <2>1. IsFiniteSet(ready) /\ IsFiniteSet(queue) /\ Cardinality(ready) \in Nat
        /\ Cardinality(queue) \in Nat
    BY FS_CardinalityType DEF QueueInv, Claims
  <2>2. IsFiniteSet(ready') /\ Cardinality(ready') = Cardinality(ready) - 1
    BY <1>1, <1>2, <2>1, FS_RemoveElement
  <2>3. Working = 0 /\ Working' = 1
    BY <1>1, <1>2 DEF Working, TakeGoesOn
  <2> QED
    BY <1>2, <2>1, <2>2, <2>3 DEF QueueInv, Claims
<1>5. NoStrandedEvent'
  <2> SUFFICES ASSUME NEW x \in DOMAIN pending'
               PROVE  [handle |-> pending'[x].handle, device |-> x] \in queue' \cup ready'
    BY DEF NoStrandedEvent
  <2>1. x \in DOMAIN pending /\ pending'[x] = pending[x] /\ x # q.device
    BY <1>1 DEF WithoutKey
  <2>2. [handle |-> pending[x].handle, device |-> x] \in queue \cup ready
    BY <2>1 DEF QueueInv, NoStrandedEvent
  <2> QED
    BY <1>1, <1>2, <2>1, <2>2
<1> QED
  BY <1>3, <1>4, <1>5 DEF QueueInv

LEMMA FlushKeepsQueue ==
    TypeOK /\ QueueInv /\ (FlushApply \/ FlushResolve \/ FlushNotify) => QueueInv'
<1> SUFFICES ASSUME TypeOK, QueueInv, FlushApply \/ FlushResolve \/ FlushNotify
             PROVE  QueueInv'
  OBVIOUS
<1>1. UNCHANGED <<pending, queue, ready, nextId>>
  BY DEF FlushApply, FlushResolve, FlushNotify, scheduler
<1>2. outstanding' - Working' = outstanding - Working /\ outstanding \in Nat
      /\ outstanding' \in Int
  BY DEF FlushApply, FlushResolve, FlushNotify, Working, TypeOK, FlushWork, Idle
<1>3. Distinct' /\ NoStrandedEvent'
  BY <1>1 DEF QueueInv, Distinct, NoStrandedEvent, Scheduled
<1>4. Claims'
  <2>1. Cardinality(queue) \in Nat /\ Cardinality(ready) \in Nat
    BY FS_CardinalityType DEF QueueInv, Claims
  <2>2. Working \in Nat /\ Working' \in Nat
    BY DEF Working
  <2> QED
    BY <1>1, <1>2, <2>1, <2>2 DEF QueueInv, Claims
<1> QED
  BY <1>3, <1>4 DEF QueueInv

LEMMA StopCancelKeepsQueue == TypeOK /\ QueueInv /\ StopCancel => QueueInv'
<1> SUFFICES ASSUME TypeOK, QueueInv, StopCancel PROVE QueueInv'
  OBVIOUS
<1>1. /\ queue' = queue \ Cancelled /\ outstanding' = outstanding - Cardinality(Cancelled)
      /\ pending' = Nothing /\ UNCHANGED <<ready, nextId, worker>>
  BY DEF StopCancel
<1>2. Cancelled \subseteq queue
  BY DEF Cancelled, Queued
<1>3. Distinct'
  BY <1>1 DEF QueueInv, Distinct, Scheduled
<1>4. Claims'
  <2>1. IsFiniteSet(ready) /\ IsFiniteSet(queue) /\ Cardinality(ready) \in Nat
        /\ Cardinality(queue) \in Nat
    BY FS_CardinalityType DEF QueueInv, Claims
  <2>2. /\ IsFiniteSet(queue') /\ Cardinality(Cancelled) \in Nat
        /\ Cardinality(queue') = Cardinality(queue) - Cardinality(Cancelled)
    BY <1>1, <1>2, <2>1, WithoutPart
  <2>3. Working' = Working /\ Working \in Nat
    BY <1>1 DEF Working
  <2> QED
    BY <1>1, <2>1, <2>2, <2>3 DEF QueueInv, Claims
<1>5. NoStrandedEvent'
  BY <1>1 DEF NoStrandedEvent, Nothing
<1> QED
  BY <1>3, <1>4, <1>5 DEF QueueInv

-----------------------------------------------------------------------------
(* Types.                                                                  *)

ReaderType ==
    reader \in [pc : {"none", "poll", "drain", "done"}]
               \cup [pc : {"deliver"}, device : Devices, state : Nat]

MonitorType ==
    /\ netlink \in Seq(Messages)
    /\ ReaderType
    /\ handles \in BOOLEAN /\ stopRequested \in BOOLEAN /\ wake \in BOOLEAN
    /\ owner \in {"starting", "running", "wake", "join", "cancel", "waiting", "stopped", "shutdown"}

\* The monitor's own steps; Readings are numbers of states.
LEMMA MonitorKeepsType ==
    ASSUME MonitorType,
           \/ MonitorStart \/ StopRequest \/ StopWrite \/ StopJoin
           \/ ReaderPoll \/ Overrun \/ ReaderDrained \/ ReaderDelivered
           \/ \E states \in SUBSET Nat : ReaderReceive(states)
    PROVE  MonitorType'
<1>1. CASE MonitorStart
  <2>1. ReaderType'
    BY <1>1 DEF MonitorType, ReaderType, MonitorStart
  <2>2. handles' \in BOOLEAN /\ stopRequested' \in BOOLEAN
    BY <1>1 DEF MonitorType, MonitorStart
  <2> QED
    BY <1>1, <2>1, <2>2 DEF MonitorType, MonitorStart
<1>2. CASE StopRequest
  BY <1>2 DEF MonitorType, ReaderType, StopRequest
<1>3. CASE StopWrite
  BY <1>3 DEF MonitorType, ReaderType, StopWrite, WakeWritten
<1>4. CASE StopJoin
  BY <1>4, EmptySeq DEF MonitorType, ReaderType, StopJoin
<1>5. CASE ReaderPoll \/ Overrun \/ ReaderDrained \/ ReaderDelivered
  BY <1>5 DEF MonitorType, ReaderType, ReaderPoll, Overrun, ReaderDrained, Again, ReaderDelivered
<1>6. ASSUME NEW states \in SUBSET Nat, ReaderReceive(states) PROVE MonitorType'
  <2>1. netlink # <<>> /\ netlink' = Tail(netlink)
        /\ UNCHANGED <<handles, stopRequested, wake, owner>>
    BY <1>6 DEF ReaderReceive
  <2>2. Head(netlink) \in Messages /\ Tail(netlink) \in Seq(Messages)
    BY <2>1, HeadTailProperties DEF MonitorType
  <2>3. ReaderType'
    BY <1>6, <2>2 DEF ReaderReceive, ReaderType, Messages
  <2> QED
    BY <2>1, <2>2, <2>3 DEF MonitorType
<1> QED
  BY <1>1, <1>2, <1>3, <1>4, <1>5, <1>6

PendingType ==
    /\ DOMAIN pending \subseteq Devices
    /\ \A d \in DOMAIN pending : pending[d] \in [state : Nat, handle : Nat]

SchedulerType == queue \subseteq Flushes /\ ready \subseteq Flushes /\ nextId \in Nat

ServiceType ==
    /\ world \in [Devices -> Nat]
    /\ PendingType /\ outstanding \in Nat /\ SchedulerType
    /\ worker \in {Idle} \cup FlushWork
    /\ woken \in BOOLEAN
    /\ model \in [Devices -> Nat]
    /\ enumerated \in {Nothing} \cup [Devices -> Nat]
    /\ refreshes \in Nat

LEMMA TypeParts ==
    /\ TypeOK <=> MonitorType /\ ServiceType
    /\ TypeOK' <=> MonitorType' /\ ServiceType'
BY DEF TypeOK, MonitorType, ReaderType, ServiceType, PendingType, SchedulerType

LEMMA ShownType == \A v \in Nat : Shown(v) \in Nat
BY DEF Shown, Absent

LEMMA ReadingsType ==
    ASSUME MonitorType, ServiceType, netlink # <<>>
    PROVE  Readings(Head(netlink)) \in SUBSET Nat
<1>1. Head(netlink) \in Messages
  BY HeadTailProperties DEF MonitorType
<1> QED
  BY <1>1 DEF Readings, Messages, ServiceType

LEMMA ReaderKeepsType == TypeOK /\ QueueInv /\ Reader => TypeOK'
<1> SUFFICES ASSUME MonitorType, ServiceType, QueueInv, Reader PROVE MonitorType' /\ ServiceType'
  BY TypeParts
<1>1. CASE Deliver
  <2>1. ReaderDelivered /\ OnEvent(reader.device, reader.state)
        /\ UNCHANGED <<world, ready, worker, woken, model, enumerated, refreshes>>
    BY <1>1 DEF Deliver
  <2>2. reader.device \in Devices /\ reader.state \in Nat
    BY <2>1 DEF ReaderDelivered, MonitorType, ReaderType
  <2>3. PendingType'
    BY <2>1, <2>2 DEF OnEvent, PendingType, ServiceType, SchedulerType
  <2>4. SchedulerType'
    BY <2>1, <2>2 DEF OnEvent, SchedulerType, ServiceType, Flushes
  <2>5. outstanding' \in Nat
    <3>1. QueueInv'
      BY <2>1, <2>2, OnEventKeepsQueue, TypeParts
    <3> QED
      BY <3>1, FS_CardinalityType DEF QueueInv, Claims, Working
  <2> QED
    BY <2>1, <2>3, <2>4, <2>5, MonitorKeepsType DEF ServiceType
<1>2. CASE (ReaderPoll \/ ReaderDrained \/ ReaderReceive(Readings(Head(netlink))))
           /\ UNCHANGED <<world, service>>
  <2>1. MonitorType'
    BY <1>2, MonitorKeepsType, ReadingsType DEF ReaderReceive
  <2> QED
    BY <1>2, <2>1 DEF service, scheduler, ServiceType, PendingType, SchedulerType
<1> QED
  BY <1>1, <1>2 DEF Reader

LEMMA TimerKeepsType == TypeOK /\ QueueInv /\ Timer => TypeOK'
<1> SUFFICES ASSUME MonitorType, ServiceType, QueueInv, Timer PROVE MonitorType' /\ ServiceType'
  BY TypeParts
<1>1. MonitorType'
  BY DEF Timer, Dequeue, FlushTake, FlushApply, FlushResolve, FlushNotify, monitor,
         MonitorType, ReaderType
<1>2. CASE Dequeue
  <2>1. SchedulerType'
    BY <1>2 DEF Dequeue, ServiceType, SchedulerType
  <2> QED
    BY <1>1, <1>2, <2>1 DEF Dequeue, ServiceType, PendingType
<1>3. CASE FlushTake
  <2>1. PICK q \in Oldest :
          /\ ready' = ready \ {q}
          /\ worker' = [pc |-> TakeGoesOn(q.device), device |-> q.device,
                        state |-> IF q.device \in DOMAIN pending THEN pending[q.device].state ELSE 0]
          /\ pending' = WithoutKey(pending, q.device)
    BY <1>3 DEF FlushTake
  <2>2. q.device \in Devices
    BY DEF Oldest, ServiceType, SchedulerType, Flushes
  <2>3. worker' \in FlushWork
    BY <2>1, <2>2 DEF FlushWork, TakeGoesOn, ServiceType, PendingType
  <2>4. PendingType'
    BY <2>1 DEF WithoutKey, ServiceType, PendingType
  <2>5. SchedulerType'
    BY <1>3, <2>1 DEF FlushTake, ServiceType, SchedulerType
  <2> QED
    BY <1>1, <1>3, <2>3, <2>4, <2>5 DEF FlushTake, ServiceType
<1>4. CASE FlushApply
  <2>1. worker \in FlushWork /\ worker' = [worker EXCEPT !.pc = "resolve"]
        /\ model' = [model EXCEPT ![worker.device] = Shown(worker.state)]
    BY <1>4 DEF FlushApply, ServiceType, Idle
  <2>2. worker' \in FlushWork /\ model' \in [Devices -> Nat]
    BY <2>1, ShownType DEF FlushWork, ServiceType
  <2> QED
    BY <1>1, <1>4, <2>2 DEF FlushApply, scheduler, ServiceType, PendingType, SchedulerType
<1>5. CASE FlushResolve
  <2>1. worker \in FlushWork /\ worker' = [worker EXCEPT !.pc = "notify"]
    BY <1>5 DEF FlushResolve, ServiceType, Idle
  <2>2. worker' \in FlushWork
    BY <2>1 DEF FlushWork
  <2>3. outstanding' \in Nat
    <3>1. Cardinality(queue) \in Nat /\ Cardinality(ready) \in Nat /\ Working = 1
      BY <1>5, FS_CardinalityType DEF FlushResolve, QueueInv, Claims, Working
    <3> QED
      BY <1>5, <3>1 DEF FlushResolve, QueueInv, Claims
  <2> QED
    BY <1>1, <1>5, <2>2, <2>3 DEF FlushResolve, scheduler, ServiceType, PendingType, SchedulerType
<1>6. CASE FlushNotify
  BY <1>1, <1>6 DEF FlushNotify, scheduler, ServiceType, PendingType, SchedulerType
<1> QED
  BY <1>2, <1>3, <1>4, <1>5, <1>6 DEF Timer

LEMMA OwnerKeepsType ==
    TypeOK /\ QueueInv /\ (Start \/ Quit \/ Stop \/ Burst \/ Refresh) => TypeOK'
<1> SUFFICES ASSUME MonitorType, ServiceType, QueueInv, Start \/ Quit \/ Stop \/ Burst \/ Refresh
             PROVE  MonitorType' /\ ServiceType'
  BY TypeParts
<1>1. CASE Start \/ Quit \/ StopReader \/ Burst
  <2>1. MonitorType'
    BY <1>1, MonitorKeepsType DEF Start, Quit, StopReader, Burst
  <2>2. UNCHANGED <<world, service>>
    BY <1>1 DEF Start, Quit, StopReader, Burst
  <2> QED
    BY <2>1, <2>2 DEF service, scheduler, ServiceType, PendingType, SchedulerType
<1>2. CASE StopCancel
  <2>1. MonitorType'
    BY <1>2 DEF StopCancel, machine, MonitorType, ReaderType
  <2>2. QueueInv'
    BY <1>2, StopCancelKeepsQueue, TypeParts
  <2>3. outstanding' \in Nat
    BY <2>2, FS_CardinalityType DEF QueueInv, Claims, Working
  <2>4. PendingType' /\ SchedulerType'
    BY <1>2 DEF StopCancel, PendingType, SchedulerType, ServiceType, Nothing
  <2> QED
    BY <1>2, <2>1, <2>3, <2>4 DEF StopCancel, ServiceType
<1>3. CASE StopWake \/ Shutdown
  <2>1. MonitorType'
    BY <1>3 DEF StopWake, Shutdown, machine, MonitorType, ReaderType
  <2>2. woken' \in BOOLEAN
    BY <1>3 DEF StopWake, Shutdown, ServiceType
  <2> QED
    BY <1>3, <2>1, <2>2 DEF StopWake, Shutdown, scheduler, ServiceType, PendingType, SchedulerType
<1>4. CASE Refresh
  <2>1. MonitorType'
    BY <1>4 DEF Refresh, RefreshEnumerate, RefreshApply, monitor, MonitorType, ReaderType
  <2>2. model' \in [Devices -> Nat] /\ enumerated' \in {Nothing} \cup [Devices -> Nat]
    BY <1>4, ShownType DEF Refresh, RefreshEnumerate, RefreshApply, ServiceType
  <2> QED
    BY <1>4, <2>1, <2>2 DEF Refresh, RefreshEnumerate, RefreshApply, scheduler, ServiceType,
       PendingType, SchedulerType
<1> QED
  BY <1>1, <1>2, <1>3, <1>4 DEF Stop

LEMMA ChangeKeepsType ==
    ASSUME TypeOK, NEW d \in Devices, Change(d)
    PROVE  TypeOK'
<1>1. MonitorType /\ ServiceType
  BY TypeParts
<1>2. world' \in [Devices -> Nat] /\ [device |-> d, state |-> world[d] + 1] \in Messages
  BY <1>1 DEF Change, ServiceType, Messages
<1>3. netlink' \in Seq(Messages)
  BY <1>1, <1>2, AppendProperties DEF Change, Send, MonitorType
<1>4. MonitorType'
  BY <1>1, <1>3 DEF Change, MonitorType, ReaderType
<1>5. ServiceType'
  BY <1>1, <1>2 DEF Change, service, scheduler, ServiceType, PendingType, SchedulerType
<1> QED
  BY <1>4, <1>5, TypeParts

-----------------------------------------------------------------------------
(* The invariant.                                                          *)

LEMMA StepKeepsQueue == TypeOK /\ QueueInv /\ [Next]_vars => QueueInv'
<1> SUFFICES ASSUME TypeOK, QueueInv, [Next]_vars PROVE QueueInv'
  OBVIOUS
<1>1. CASE UNCHANGED QueueVars
  BY <1>1 DEF QueueVars, QueueInv, Distinct, Claims, NoStrandedEvent, Scheduled, Working
<1>2. CASE Deliver
  <2>1. reader.device \in Devices /\ reader.state \in Nat
    BY <1>2, TypeParts DEF Deliver, ReaderDelivered, MonitorType, ReaderType
  <2> QED
    BY <1>2, <2>1, OnEventKeepsQueue DEF Deliver
<1>3. CASE Timer
  BY <1>3, DequeueKeepsQueue, FlushTakeKeepsQueue, FlushKeepsQueue DEF Timer
<1>4. CASE StopCancel
  BY <1>4, StopCancelKeepsQueue
<1>5. Deliver \/ Timer \/ StopCancel \/ UNCHANGED QueueVars
  BY DEF Next, Change, Reader, Burst, Refresh, RefreshEnumerate, RefreshApply, Start, Quit, Stop,
         StopReader, StopWake, Shutdown, vars, service, scheduler, QueueVars
<1> QED
  BY <1>1, <1>2, <1>3, <1>4, <1>5

LEMMA StepKeepsType == TypeOK /\ QueueInv /\ [Next]_vars => TypeOK'
<1> SUFFICES ASSUME TypeOK, QueueInv, [Next]_vars PROVE TypeOK'
  OBVIOUS
<1>1. CASE UNCHANGED vars
  BY <1>1 DEF vars, monitor, scheduler, TypeOK
<1>2. CASE Next
  BY <1>2, ChangeKeepsType, ReaderKeepsType, TimerKeepsType, OwnerKeepsType DEF Next
<1> QED
  BY <1>1, <1>2

\* The reader starts once, while the owner starts, and ends for good.
LEMMA StepKeepsReader == TypeOK /\ ReaderEnds /\ [Next]_vars => ReaderEnds'
<1> SUFFICES ASSUME TypeOK, ReaderEnds, [Next]_vars PROVE ReaderEnds'
  OBVIOUS
<1>1. CASE UNCHANGED <<reader, handles, owner>>
  BY <1>1 DEF ReaderEnds, Ended
<1>2. CASE Reader \/ Burst
  BY <1>2 DEF Reader, Burst, Deliver, ReaderPoll, Overrun, ReaderDrained, ReaderReceive,
              ReaderDelivered, Again, ReaderEnds, Ended
<1>3. CASE Start
  BY <1>3 DEF Start, MonitorStart, ReaderEnds, Ended
<1>4. CASE Quit
  BY <1>4 DEF Quit, StopRequest, Started, ReaderEnds, Ended
<1>5. CASE StopReader
  BY <1>5 DEF StopReader, StopWrite, StopJoin, Joined, ReaderEnds, Ended
<1>6. CASE StopCancel \/ StopWake \/ Shutdown
  BY <1>6 DEF StopCancel, StopWake, Shutdown, machine, ReaderEnds, Ended
<1>7. Reader \/ Burst \/ Start \/ Quit \/ Stop \/ UNCHANGED <<reader, handles, owner>>
  BY DEF Next, Change, Timer, Dequeue, FlushTake, FlushApply, FlushResolve, FlushNotify,
         Refresh, RefreshEnumerate, RefreshApply, vars, monitor
<1> QED
  BY <1>1, <1>2, <1>3, <1>4, <1>5, <1>6, <1>7 DEF Stop

\* From the cancels on no event is claimed, since the reader has ended; and without
\* a claim left there is no flush that could give one back.
LEMMA StepKeepsEmptied ==
    TypeOK /\ QueueInv /\ ReaderEnds /\ Emptied /\ [Next]_vars => Emptied'
<1> SUFFICES ASSUME TypeOK, QueueInv, ReaderEnds, Emptied, [Next]_vars PROVE Emptied'
  OBVIOUS
<1>1. CASE UNCHANGED <<pending, outstanding, owner>>
  BY <1>1 DEF Emptied
<1>2. CASE Reader \/ Burst
  BY <1>2 DEF Reader, Burst, Deliver, ReaderPoll, Overrun, ReaderDrained, ReaderReceive,
              ReaderDelivered, service, ReaderEnds, Ended, Emptied
<1>3. CASE FlushTake
  BY <1>3 DEF FlushTake, WithoutKey, monitor, Emptied, Nothing
<1>4. CASE FlushResolve
  <2>1. outstanding # 0
    BY <1>4, FS_CardinalityType DEF FlushResolve, QueueInv, Claims, Working
  <2> QED
    BY <1>4, <2>1 DEF FlushResolve, monitor, Emptied
<1>5. CASE Start \/ Quit \/ StopReader
  BY <1>5 DEF Start, Quit, StopReader, MonitorStart, StopRequest, StopWrite, StopJoin, Emptied
<1>6. CASE StopCancel
  BY <1>6 DEF StopCancel, Emptied
<1>7. CASE StopWake \/ Shutdown
  BY <1>7 DEF StopWake, Shutdown, Emptied
<1>8. \/ Reader \/ Burst \/ FlushTake \/ FlushResolve \/ Start \/ Quit \/ Stop
      \/ UNCHANGED <<pending, outstanding, owner>>
  BY DEF Next, Change, Timer, Dequeue, FlushApply, FlushNotify, Refresh, RefreshEnumerate,
         RefreshApply, vars, monitor, service
<1> QED
  BY <1>1, <1>2, <1>3, <1>4, <1>5, <1>6, <1>7, <1>8 DEF Stop

LEMMA InitHotplug == Init => HotplugInv
<1> SUFFICES ASSUME Init PROVE HotplugInv
  OBVIOUS
<1> USE DEF Init, InitMonitor, NoReader
<1>1. TypeOK
  <2>1. MonitorType
    BY EmptySeq DEF MonitorType, ReaderType
  <2>2. PendingType /\ SchedulerType
    BY DEF PendingType, SchedulerType, Nothing
  <2>3. world \in [Devices -> Nat] /\ model \in [Devices -> Nat]
    BY DEF Shown, Absent
  <2> QED
    BY <2>1, <2>2, <2>3, TypeParts DEF ServiceType
<1>2. Distinct
  BY DEF Distinct, Scheduled
<1>3. Claims
  BY FS_EmptySet DEF Claims, Working, Idle
<1>4. NoStrandedEvent
  BY DEF NoStrandedEvent, Nothing
<1>5. ReaderEnds /\ Emptied
  BY DEF ReaderEnds, Ended, Emptied
<1> QED
  BY <1>1, <1>2, <1>3, <1>4, <1>5 DEF HotplugInv

LEMMA StepHotplug == HotplugInv /\ [Next]_vars => HotplugInv'
BY StepKeepsType, StepKeepsQueue, StepKeepsReader, StepKeepsEmptied DEF HotplugInv, QueueInv

\* outstandingFlushes_ counts the flushes that are queued, dequeued or under way, and
\* the types of the state are what the code declares.
THEOREM HotplugInvariant == Spec => []HotplugInv
BY InitHotplug, StepHotplug, PTL DEF Spec

\* Every variable of the hotplug path has its type.
THEOREM HotplugTypeCorrect == Spec => []TypeOK
<1>1. HotplugInv => TypeOK
  BY DEF HotplugInv
<1> QED
  BY <1>1, HotplugInvariant, PTL

\* No event of HotplugService::pending_ is stranded: its flush is still to come.
THEOREM NothingIsStranded == Spec => []NoStrandedEvent
<1>1. HotplugInv => NoStrandedEvent
  BY DEF HotplugInv
<1> QED
  BY <1>1, HotplugInvariant, PTL

\* HotplugService::stop is a barrier: the reader has ended before the flushes are
\* cancelled, and when it has returned no flush is queued, dequeued or about to use
\* the service or the model.
THEOREM StopIsABarrier == Spec => []StopBarrier
<1>1. HotplugInv => StopBarrier
  <2> SUFFICES ASSUME HotplugInv PROVE StopBarrier
    OBVIOUS
  <2>1. CASE owner \in {"stopped", "shutdown"}
    <3>1. Cardinality(queue) \in Nat /\ Cardinality(ready) \in Nat /\ Working \in Nat
      BY FS_CardinalityType DEF HotplugInv, Claims, Working
    <3>2. Cardinality(queue) = 0 /\ Cardinality(ready) = 0 /\ Working = 0
      BY <2>1, <3>1 DEF HotplugInv, Claims, Emptied
    <3>3. queue = {} /\ ready = {} /\ worker.pc \notin {"apply", "resolve"}
      BY <3>2, FS_EmptySet DEF HotplugInv, Claims, Working
    <3> QED
      BY <2>1, <3>3 DEF HotplugInv, ReaderEnds, Emptied, StopBarrier
  <2>2. CASE owner \notin {"stopped", "shutdown"}
    BY <2>2 DEF HotplugInv, ReaderEnds, StopBarrier
  <2> QED
    BY <2>1, <2>2
<1> QED
  BY <1>1, HotplugInvariant, PTL
=============================================================================
