------------------------------ MODULE Devices -------------------------------
(***************************************************************************)
(* The devices half of a client: the facade's refresh and device verbs on  *)
(* the worker threads, the flush of hotplug events on the timer thread,    *)
(* the events they publish, and the two view models that handle them on    *)
(* the publishing thread, DeviceListVM and StatusLineVM.                   *)
(*                                                                         *)
(* The devices are those that devmgrd disables by unbinding their driver:  *)
(* udev says nothing of it, so a row says "disabled" by devmgrd's list.    *)
(*                                                                         *)
(* DeviceListVM synchronises by two flags only, so each of their accesses  *)
(* is a step.                                                              *)
(***************************************************************************)
EXTENDS StatusLine

CONSTANTS
    Workers,        \* the threads of the TaskScheduler
    MaxChanges,     \* bound: changes of the hardware
    MaxTasks        \* bound: refreshes and verbs of the user

ASSUME DevicesAssumption ==
    /\ MaxChanges \in Nat /\ MaxTasks \in Nat
    /\ IsFiniteSet(Devs) /\ "timer" \notin Workers

VARIABLES
    sysfs,          \* the devices that are present
    changes,        \* changes of sysfs so far
    entries,        \* devmgrd: the devices it keeps disabled
    daemonError,    \* ApplicationFacade::daemonError_ is set
    noted,          \* BackendStatusVM has a note about devmgrd
    model,          \* DeviceService: the rows of the devices it knows
    pending,        \* HotplugService: the devices with an event to flush
    thread,         \* what each worker and the timer thread is at
    queued,         \* TaskScheduler: the tasks no worker has taken
    posted,         \* the closures posted to the user interface thread
    view,           \* DeviceListVM
    loop,           \* the event loop, then the teardown
    tasks           \* tasks of the user so far

world == <<sysfs, changes, entries>>
facade == <<daemonError, noted, model, pending>>
ui == <<posted, view, loop>>
deviceVars == <<world, facade, thread, queued, ui, tasks>>
vars == <<deviceVars, statusVars>>

Threads == Workers \cup {"timer"}

\* An idle thread, and one at a step of a task.  events are those still to be
\* published, "model" for a change of the model and "done" for a completed task.
Idle == [at |-> "idle", task |-> "none", seen |-> {}, failed |-> FALSE, events |-> <<>>]
At(t, step) == thread[t].at = step
Publishing(events) ==
    IF events = <<>> THEN Idle ELSE [Idle EXCEPT !.at = "publish", !.events = events]
Go(t, step) == thread' = [thread EXCEPT ![t].at = step]

\* A device of the list and its status; applyDisabledOverlay.
Row(d, status) == [device |-> d, status |-> status]
Rows(present, disabled) ==
    {Row(d, IF d \in disabled THEN "disabled" ELSE "active") : d \in present}
Known(d) == {row \in model : row.device = d}

Init ==
    /\ InitStatus
    /\ sysfs = Devs /\ entries = {} /\ model = Rows(sysfs, entries)
    /\ changes = 0
    /\ daemonError = FALSE /\ noted = FALSE /\ pending = {}
    /\ thread = [t \in Threads |-> Idle] /\ queued = <<>> /\ posted = <<>>
    /\ view = [rows |-> model, valid |-> TRUE, queued |-> FALSE, at |-> "idle"]
    /\ loop = "running" /\ tasks = 0

-----------------------------------------------------------------------------
(* The environment.                                                        *)

\* HotplugService::onEvent keeps the newest event of the device and schedules its
\* flush anew; a flush that outlived its own event is not cancelled.
OnEvent(d) ==
    /\ pending' = pending \cup {d}
    /\ timer' = [timer EXCEPT !.queue =
         Schedule(IF d \in pending /\ Queued(d) THEN Without(d) ELSE @, d)]

\* A device appears or goes.
Change(d) ==
    /\ loop = "running" /\ changes < MaxChanges
    /\ sysfs' = IF d \in sysfs THEN sysfs \ {d} ELSE sysfs \cup {d}
    /\ changes' = changes + 1
    /\ OnEvent(d)
    /\ UNCHANGED <<entries, daemonError, noted, model, thread, queued, ui, tasks, line>>

\* The user asks for a refresh, or confirms the verb that suits the device's row:
\* what is shown disabled can only be enabled, and the other way round.
Verb(row) == [verb |-> IF row.status = "disabled" THEN "enable" ELSE "disable", device |-> row.device]
Refresh == [verb |-> "refresh", device |-> "none"]
Submit(task) ==
    /\ loop = "running" /\ view.at = "idle" /\ tasks < MaxTasks
    /\ queued' = Append(queued, task) /\ tasks' = tasks + 1
    /\ UNCHANGED <<world, facade, thread, ui, statusVars>>

-----------------------------------------------------------------------------
(* The tasks.                                                              *)

\* workerLoop takes the oldest task.
Takes(w, task) ==
    /\ At(w, "idle") /\ queued # <<>> /\ Head(queued) = task
    /\ queued' = Tail(queued)

\* refresh: the enumeration, which may fail, ...
Enumerate(w) ==
    /\ Takes(w, Refresh)
    /\ \/ thread' = [thread EXCEPT ![w] =
            [Idle EXCEPT !.at = "ask", !.task = "refresh", !.seen = Rows(sysfs, {})]]
       \/ UNCHANGED thread
    /\ UNCHANGED <<world, facade, ui, tasks, statusVars>>

\* ... the disabled devices, which devmgrd may not tell, as in any call, ...
Ask(w) ==
    /\ At(w, "ask")
    /\ \/ thread' = [thread EXCEPT ![w].at = "observe",
                                   ![w].seen = Rows({row.device : row \in @}, entries)]
       \/ thread' = [thread EXCEPT ![w].at = "observe", ![w].failed = TRUE]
    /\ UNCHANGED <<world, facade, queued, ui, tasks, statusVars>>

\* ... and what this says about devmgrd: observeDaemonRead writes under the mutex, ...
Observe(w) ==
    /\ At(w, "observe")
    /\ daemonError' = thread[w].failed
    /\ Go(w, "note")
    /\ UNCHANGED <<world, noted, model, pending, queued, ui, tasks, statusVars>>

\* ... and reports to BackendStatusVM after it.
Note(w) ==
    /\ At(w, "note")
    /\ noted' = thread[w].failed
    /\ thread' = [thread EXCEPT ![w] =
         IF @.task = "refresh" THEN [@ EXCEPT !.at = "apply"] ELSE Publishing(<<"done">>)]
    /\ UNCHANGED <<world, daemonError, model, pending, queued, ui, tasks, statusVars>>

\* applyEnumeration: one event for each difference.
Apply(w) ==
    LET difference == {row.device : row \in (model \ thread[w].seen) \cup (thread[w].seen \ model)} IN
    /\ At(w, "apply")
    /\ model' = thread[w].seen
    /\ thread' = [thread EXCEPT ![w] = Publishing([i \in 1..Cardinality(difference) |-> "model"])]
    /\ UNCHANGED <<world, daemonError, noted, pending, queued, ui, tasks, statusVars>>

\* setDeviceEnabled: the device is resolved now.  devmgrd unbinds or binds the
\* driver, of which the kernel tells with an event, when that changes anything and
\* the reader still listens.  Success clears the error about devmgrd, failure says nothing about it.
DeviceVerb(w) ==
    LET task == Head(queued)
        kept == IF task.verb = "disable" THEN entries \cup {task.device} ELSE entries \ {task.device}
    IN
    /\ queued # <<>> /\ task.verb \in {"enable", "disable"} /\ Takes(w, task)
    /\ \/ thread' = [thread EXCEPT ![w] = Publishing(<<"refused">>)] /\ UNCHANGED <<entries, timer, pending>>
       \/ /\ Known(task.device) # {} /\ task.device \in sysfs
          /\ entries' = kept
          /\ IF kept # entries /\ loop = "running" THEN OnEvent(task.device)
             ELSE UNCHANGED <<timer, pending>>
          /\ thread' = [thread EXCEPT ![w] =
               IF daemonError THEN [Idle EXCEPT !.at = "observe", !.task = "verb"]
               ELSE Publishing(<<"done">>)]
    /\ UNCHANGED <<sysfs, changes, daemonError, noted, model, ui, tasks, line>>

\* flush, on the timer thread: applyDelta with the event kept for the device.  Every
\* change of the device has replaced it, so it describes the device as it is now.
\* Another flush, or stop, may have taken the event.
Flush ==
    /\ timer.batch # <<>> /\ Head(timer.batch) \in Devs
    /\ LET d == Head(timer.batch) IN
         /\ \/ /\ loop = "running" /\ d \in pending
               /\ model' = (model \ Known(d)) \cup Rows(sysfs \cap {d}, {})
               /\ pending' = pending \ {d}
            \/ /\ loop # "running" \/ d \notin pending
               /\ UNCHANGED <<model, pending>>
         /\ thread' = [thread EXCEPT !["timer"] = Publishing(IF model' = model THEN <<>> ELSE <<"model">>)]
    /\ timer' = [timer EXCEPT !.batch = Tail(@)]
    /\ UNCHANGED <<line, world, daemonError, noted, queued, ui, tasks>>

-----------------------------------------------------------------------------
(* Publication, on the thread of the task.                                 *)

\* DeviceListVM::onModelChanged invalidates, ...
Invalidate(t) ==
    /\ At(t, "publish") /\ Head(thread[t].events) = "model"
    /\ view' = [view EXCEPT !.valid = FALSE]
    /\ Go(t, "post")
    /\ UNCHANGED <<world, facade, queued, posted, loop, tasks, statusVars>>

\* ... and posts a rebuild unless one is posted.
PostRebuild(t) ==
    /\ At(t, "post")
    /\ view' = [view EXCEPT !.queued = TRUE]
    /\ posted' = IF view.queued THEN posted ELSE Append(posted, "rebuild")
    /\ Go(t, "message")
    /\ UNCHANGED <<world, facade, queued, loop, tasks, statusVars>>

\* StatusLineVM says what happened; refreshOnTaskDone follows a verb that succeeded.
Message(t) ==
    /\ At(t, "message") \/ (At(t, "publish") /\ Head(thread[t].events) # "model")
    /\ \/ SetMessage
       \/ line.generation = MaxMessages /\ UNCHANGED statusVars
    /\ thread' = [thread EXCEPT ![t] = Publishing(Tail(@.events))]
    /\ posted' = IF Head(thread[t].events) = "done" THEN Append(posted, "refresh") ELSE posted
    /\ UNCHANGED <<world, facade, queued, view, loop, tasks>>

-----------------------------------------------------------------------------
(* The user interface thread.                                              *)

UiIdle == loop = "running" /\ view.at = "idle"

\* The posted closure clears the flag first; a filter edit only rebuilds.
RunRebuild ==
    /\ UiIdle /\ posted # <<>> /\ Head(posted) = "rebuild"
    /\ posted' = Tail(posted)
    /\ view' = [view EXCEPT !.queued = FALSE, !.at = "claim"]
    /\ UNCHANGED <<world, facade, thread, queued, loop, tasks, statusVars>>

EditFilter ==
    /\ UiIdle /\ tasks < MaxTasks /\ tasks' = tasks + 1
    /\ view' = [view EXCEPT !.at = "claim"]
    /\ UNCHANGED <<world, facade, thread, queued, posted, loop, statusVars>>

\* rebuild: the snapshot is claimed valid, ...
Claim ==
    /\ view.at = "claim"
    /\ view' = [view EXCEPT !.valid = TRUE, !.at = IF view.valid THEN "idle" ELSE "fetch"]
    /\ UNCHANGED <<world, facade, thread, queued, posted, loop, tasks, statusVars>>

\* Mutant: the snapshot is fetched and claimed valid afterwards.
FetchLate ==
    /\ view.at \in {"fetch", "claimed"}
    /\ view' = IF view.at = "fetch" THEN [view EXCEPT !.rows = model, !.at = "claimed"]
               ELSE [view EXCEPT !.valid = TRUE, !.at = "idle"]
    /\ UNCHANGED <<world, facade, thread, queued, posted, loop, tasks, statusVars>>

\* ... then fetched.
Fetch ==
    /\ view.at = "fetch"
    /\ view' = [view EXCEPT !.rows = model, !.at = "idle"]
    /\ UNCHANGED <<world, facade, thread, queued, posted, loop, tasks, statusVars>>

\* The refresh after a verb.
RunRefresh ==
    /\ UiIdle /\ posted # <<>> /\ Head(posted) = "refresh"
    /\ posted' = Tail(posted) /\ queued' = Append(queued, Refresh)
    /\ UNCHANGED <<world, facade, thread, view, loop, tasks, statusVars>>

-----------------------------------------------------------------------------
(* Teardown: the loop ends, the hotplug service stops, the timer is shut    *)
(* down, the pending futures are waited for, and the view models are        *)
(* destroyed.                                                               *)

\* HotplugService::stop: the reader is joined, and flush finds its mutex taken
\* until every event is cleared.
Quit ==
    /\ UiIdle
    /\ loop' = "stopping"
    /\ UNCHANGED <<world, facade, thread, queued, posted, view, tasks, statusVars>>

\* The timer's mutex is taken for each flush, which may be in hand by now.
CancelFlush(d) ==
    /\ loop = "stopping" /\ d \in pending
    /\ pending' = pending \ {d}
    /\ timer' = [timer EXCEPT !.queue = IF Queued(d) THEN Without(d) ELSE @]
    /\ UNCHANGED <<world, daemonError, noted, model, thread, queued, ui, tasks, line>>

\* No flush is outstanding: those that could not be cancelled have run.
Flushes(scheduled) == {scheduled[i] : i \in DOMAIN scheduled} \cap Devs
FlushesDone ==
    pending = {} /\ Flushes(timer.queue) \cup Flushes(timer.batch) = {} /\ At("timer", "idle")

ShutTimer ==
    /\ loop = "stopping" /\ FlushesDone
    /\ loop' = "draining" /\ timer' = [timer EXCEPT !.stopping = TRUE]
    /\ UNCHANGED <<world, facade, thread, queued, posted, view, tasks, line>>

Drained == queued = <<>> /\ \A t \in Threads : At(t, "idle")

Unwind ==
    /\ loop = "draining" /\ TimerJoined /\ Drained
    /\ loop' = "closing"
    /\ CloseLine
    /\ UNCHANGED <<world, facade, thread, queued, posted, view, tasks>>

Close ==
    /\ loop = "closing" /\ LineClosed
    /\ loop' = "gone"
    /\ UNCHANGED <<world, facade, thread, queued, posted, view, tasks, statusVars>>

-----------------------------------------------------------------------------
Work(w) == Enumerate(w) \/ Ask(w) \/ Observe(w) \/ Note(w) \/ Apply(w) \/ DeviceVerb(w)
Publish(t) == Invalidate(t) \/ PostRebuild(t) \/ Message(t)
Timer ==
    /\ At("timer", "idle")
    /\ \/ Flush
       \/ TimerTake /\ UNCHANGED deviceVars
       \/ ClearFired /\ UNCHANGED deviceVars
Ui == RunRebuild \/ RunRefresh \/ Claim \/ Fetch
Teardown == (\E d \in Devs : CancelFlush(d)) \/ ShutTimer \/ Unwind \/ Close
Gone == loop = "gone" /\ UNCHANGED vars

Next ==
    \/ \E d \in Devs : Change(d)
    \/ Submit(Refresh) \/ \E row \in model : Submit(Verb(row))
    \/ EditFilter \/ Quit
    \/ \E w \in Workers : Work(w)
    \/ \E t \in Threads : Publish(t)
    \/ Timer \/ Ui \/ Teardown \/ Gone

Spec ==
    /\ Init /\ [][Next]_vars
    /\ \A w \in Workers : WF_vars(Work(w))
    /\ \A t \in Threads : WF_vars(Publish(t))
    /\ WF_vars(Timer) /\ WF_vars(Ui) /\ WF_vars(Teardown)

-----------------------------------------------------------------------------
\* The type invariant; the outstanding removals are exactly those that are queued or
\* in hand, which is what ~StatusLineVM waits for.
TypeOK ==
    /\ StatusTypeOK
    /\ sysfs \subseteq Devs /\ entries \subseteq Devs /\ pending \subseteq Devs
    /\ model \cup view.rows \subseteq [device : Devs, status : {"active", "disabled"}]
    /\ \A d \in Devs : Cardinality(Known(d)) <= 1
    /\ \A t \in Threads : thread[t].at \in
         {"idle", "ask", "observe", "note", "apply", "publish", "post", "message"}
    /\ posted \in Seq({"rebuild", "refresh"})
    /\ \A i \in DOMAIN queued : queued[i].verb \in {"refresh", "enable", "disable"}
    /\ loop \in {"running", "stopping", "draining", "closing", "gone"}

\* The rows are those of the model unless a rebuild is under way: an event that is
\* published while the list is being rebuilt is not lost.
RowsFollowModel ==
    \/ view.rows = model
    \/ view.at # "idle"
    \/ \E i \in DOMAIN posted : posted[i] = "rebuild"
    \/ \E t \in Threads : At(t, "publish") \/ At(t, "post")

\* A message leaves the line for a newer one or when its own time is up, never by
\* the removal of an older one that could no longer be cancelled.
MessageStays ==
    [][line.text # 0 /\ line'.text = 0 => Head(timer.batch) = line.text]_line

\* ~StatusLineVM returns: no removal stays outstanding for ever, even when a worker
\* shows a message after the timer was shut down.
TeardownEnds == loop = "stopping" ~> loop = "gone"

-----------------------------------------------------------------------------
\* disabled_overlay.hpp: "a device matching a desired-disabled entry renders
\* Disabled - including during the replug flicker while it is transiently bound".
\* The overlay is merged into an enumeration only: the flush of an event, that of
\* the unbinding itself too, puts the device back without it.
DisabledStaysShown ==
    [][\A row \in model : \/ row.status = "active" \/ row.device \notin entries'
                          \/ Row(row.device, "active") \notin model']_vars
=============================================================================
