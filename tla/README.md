# cross-device-manager in TLA+

This directory is a verification project for the device manager in `src/`: TLA+ modules translated
from its C++ code, TLC configurations that model-check them on small instances, and TLAPS proofs of
the properties that matter most for every value of the constants.  Every name in a module that
models code is the source's name where TLA+ allows it; `PROJECT.json` maps each definition to the
lines it stands for.

Tools: `tlc -config X.cfg M` checks a run, `tlapm M.tla` a proof module.  `PROJECT.json` lists which
configuration belongs to which module.

## 1. The system

An unprivileged front end (TUI, GUI or CLI) shows devices, kernel modules, driver updates and
snapshots.  Everything that changes the machine goes through **devmgrd**, a root daemon on the
system bus.

| Component | State | Operations | Talks to |
|---|---|---|---|
| StateStore (`daemon/src/state_store.cpp`) | `entries_`, `state.json` | load, upsert, remove, setGuardSuspended, setLastSysfsPath, replaceAll, findFor | file system |
| DeviceKey (`core/src/device_key.cpp`) | none | makeDeviceKey (serial or port form), matchesDevice | |
| RequestProcessor (`daemon/src/request_processor.cpp`) | none; holds the apply mutex during an action | the nine D-Bus verbs: validate, guard, authorize, lock, snapshot, act | guard, polkit, controller, stores |
| EnforcementService (`daemon/src/enforcement_service.cpp`) | none | sweep, onHotplug, maybeReapply | StateStore, guard, controller; shares the apply mutex |
| SnapshotService (`daemon/src/snapshot_service.cpp`) | none | create, restore (replace, re-enable removed, re-apply restored) | StateStore, JsonSnapshotStore, controller |
| JsonSnapshotStore (`daemon/src/snapshot_store.cpp`) | `<id>.json`, `.bad-*`, `HEAD` | put + prune, read, list, remove, head | atomic_file |
| UdevHotplugMonitor (`platform/linux/src/udev_hotplug_monitor.cpp`) | netlink socket, wake fd, worker thread | start, stop, readLoop, drainEvents | callback on its own thread |
| SysfsDeviceController, criticality prober, guard | sysfs | enable/disable/bind/unbind, probe, evaluateDisable, evaluateModuleUnload | kernel |
| KmodDriverManager (`platform/linux/src/kmod_driver_manager.cpp`) | none | listing, loadModule, unloadModule, devicesUsingModule | libkmod, sysfs |
| D-Bus channel and adaptor (`dbus_privileged_channel.cpp`, `manager_adaptor.cpp`) | the cached API version | one call per verb with a timeout, error names both ways | devmgrd's event loop |
| Snapshot history and diff (`core/src/snapshot_history.cpp`, `snapshot_diff.cpp`) | none | chain, markers, diffPayloads | both UIs, the CLI, SnapshotService |
| Command line client (`cli/src/cli.cpp`) | one process | snapshot list, history, diff, preview, create, restore, delete | D-Bus channel |
| Terminal and Qt UI (`tui/src/tui_app.cpp`, `gui/src/main_window.cpp`) | tab, modal or nested dialogs, kept futures | keys, actions, closures, teardown | view models, facade |
| EventBus (`core/include/devmgr/runtime/event_bus.hpp`) | handlers per event type, in-flight and running counters | subscribe, publish, unsubscribe (blocking) | every view model |
| DelayedScheduler (`core/src/delayed_scheduler.cpp`) | timed queue, worker | schedule, cancel, shutdown | HotplugService, StatusLineVM |
| HotplugService (`app/src/hotplug_service.cpp`) | pending flush per device, outstanding count | onEvent (debounce), flush, stop | monitor thread, scheduler worker, DeviceService |
| DeviceService (`app/src/device_service.cpp`) | the device model | applyEnumeration, applyDelta, snapshot | EventBus |
| ApplicationFacade (`app/src/application_facade.cpp`) | pending actions, install gate, daemon error, caches | refresh, module/update/snapshot queries and mutations on workers | services, EventBus |
| View models (`app/src/*_vm.cpp`) | what the UI shows | event handlers, marshalled rebuilds | EventBus, UI executor |
| TaskScheduler (`core/src/task_scheduler.cpp`) | job queue, worker threads | submit, workerLoop | ApplicationFacade |
| Update providers (fwupd, DKMS, CAB) | install flag, progress sink, D-Bus proxies | availability, enumerate, pendingActions, install, signals | external services, EventBus |

Threads: devmgrd has the D-Bus event loop thread (all verbs, the polkit prompt blocks inside one) and
the hotplug monitor thread (enforcement).  They share the store, sysfs and `applyMutex`.  A client
has the UI thread, the monitor's reader, the timer thread of DelayedScheduler, the workers of
TaskScheduler and the event loop thread of each D-Bus connection.

What is hard: enforcement reads the store and probes the guard **outside** the apply mutex; the
guard's verdict is older than the polkit prompt; a disable writes sysfs first and the store second,
an enable the other way round; the daemon can die between any two durable effects; a file may turn
out damaged; devices come and go at any moment, and the same address may later hold another device.
On the client side: blocking unsubscription from inside handlers, a debounce whose cancel races with
its flush, and workers whose results are applied in another order than they were requested.

What makes each part correct:

* **JsonSnapshotStore**: evidence is never destroyed; a successful put of a new state is readable;
  retention deletes only old, healthy, automatic snapshots; HEAD's file is never unlinked.
* **RequestProcessor + StateStore + EnforcementService + SnapshotService**: a critical device is
  never disabled; a reported disable is durable; an enabled device is not disabled again; every
  mutation has its snapshot; a disable sticks over replug and restart.
* **EventBus**: once `unsubscribe` has returned the handler never runs again; unsubscribing ends.
* **HotplugService + DelayedScheduler**: claims are counted exactly, no event is stranded, the newest
  event of each device reaches the model; `stop` returns, and nothing uses the model afterwards.
* **Guard**: what carries root or boot, and the last keyboard and pointer, stay, also when the target
  is a hub or a controller above them and the storage is a stack of mapped devices.
* **Front ends**: what is submitted is what the prompt on the screen named; rows and cursor follow the
  list; a message is never cleared by an older one's timer; no task outlives the facade.
* **Module verbs**: the guard's verdict holds outside the prompt's window; a verb that succeeded is
  shown; no signature fill outlives its view model.
* **CLI**: a prefix acts on its one match or on nothing, and the exit code tells what happened.
* **Updates (ApplicationFacade, fwupd provider, UpdatesVM)**: one install at a time and the slot is
  always given back; the view catches up with fwupd; no job outlives the facade; quitting ends.

## 2. Modules

| Module | Models | Lines of thought |
|---|---|---|
| `SnapshotStore` | JsonSnapshotStore, atomic_file | one action per durable effect, `Crash` between any two |
| `SnapshotHistory` | snapshot_history.cpp, the chain view | extends `SnapshotStore`: what any listing of its states says |
| `SnapshotDiff` | snapshot_diff.cpp | pure operators on payloads, with a reference (`SameEffect`) |
| `SnapshotVerbs` | the snapshot verbs of RequestProcessor and SnapshotService | composes `SnapshotStore`, `SnapshotDiff`, `Wire` |
| `Cli` | cli.cpp against `SnapshotVerbs` and other clients | one process |
| `DisabledSet` | (abstract) the set of disabled devices, saved and wanted, the call in hand and its answer | `Devmgrd` implements it |
| `DeviceKey` | device_key.cpp | pure operators |
| `Guard` | critical_device_guard.cpp | pure policy over the facts of a probe |
| `Disabling` | the criticality prober and the verbs between verdict and effect | extends `Guard`, on a tree of devices |
| `Devmgrd` | StateStore, RequestProcessor, EnforcementService, SnapshotService::restore, startup, hotplug | two threads and the environment; the action boundaries are the lock, the prompt, each store save and each sysfs write |
| `Wire` | error names, API versions, argument bounds | shared by `Requests` and `Cli` |
| `Requests` | channel, adaptor, guard, prompt and libkmod for one module verb | composes `Wire` and `Guard` |
| `Modules` | ModulesVM, the facade's module verbs, teardown | extends `Requests` |
| `EventBus` | event_bus.hpp | a stack of frames per thread; every critical section of the mutex is a step |
| `Monitor` | UdevHotplugMonitor | owner and reader around an eventfd and a netlink socket |
| `Hotplug` | HotplugService, DelayedScheduler, DeviceService, refresh, teardown | extends `Monitor`: the reader, the timer thread, a refresh worker and the owner |
| `StatusLine` | StatusLineVM over DelayedScheduler | generations and outstanding removals |
| `Devices` | refresh, the disable verb, flushes, DeviceListVM | extends `StatusLine`; each access to a flag is a step |
| `Updates` | refreshUpdates, installUpdate, FwupdUpdateProvider, TaskScheduler, UpdatesVM, teardown | workers, fwupd's signal thread, the UI thread and fwupd itself; each remote call and critical section is a step |
| `SnapshotsVM`, `FrontEnd` | SnapshotsVM with its workers; what both front ends share | state and steps the next three use |
| `Tui`, `Gui` | runTuiApp; MainWindow | keys and one modal; nested dialogs and gated actions |
| `Consoles` | the two over one client | states what a user may rely on |
| `Console` | (abstract) a verb is submitted from the prompt on the screen, with its target | `Tui` implements it |
| `SnapshotStoreProofs` | theorems on `SnapshotStore`, `SnapshotHistory`, `SnapshotVerbs`, `Cli` | section 4 |
| `GuardProofs` | theorems on `Disabling` and `Modules` | section 4 |
| `DevmgrdProofs`, `EventBusProofs`, `HotplugProofs`, `UpdatesProofs`, `DevicesProofs`, `ConsolesProofs` | theorems on the module of that name | section 4 |
| `MC...` | the constants of the runs | |

### SnapshotStore

The store's mutex is held from start to end of every public call, so the state between two effects
of a call is visible only to a crash.  `op` is that call (program counter, id, the parent or next
HEAD, the prune's victims), `files`/`bad`/`head` are the disk, `ret` is what the last call returned,
`kept` is a history variable (ids returned by a manual create and not yet deleted).  An id is the
SHA-256 of the canonical payload, so `Payloads` are their own ids.  A document has a health, a
parent, a timestamp and a trigger; text, names and counts are left out.

* `PutBegin` is the dedupe test and the choice between a new file and moving HEAD, `PutWriteFile`,
  `PutWriteHead`, `PruneScan`, `PruneDelete`, `PruneEnd` follow `put`.
* `Picks`, `Walks`, `NewerThan`, `VictimOrders` are `orderNewestFirst` and the prune's choice.  The
  directory order is unspecified in C++, so the entry that shadows another of the same id and the
  order of equal timestamps are nondeterministic.
* `Damage` is the environment; `FutureIds` are files a newer daemon left before a downgrade.

### Devmgrd

`at`/`off` are the hardware (which unit sits at a port, whether it is off: `authorized = 0` on USB, no
driver elsewhere), `mem`/`disk` are `entries_` and `state.json`, `snaps` the entry lists held by stored
snapshots, `enf` the re-apply in progress, `bus` the verb in progress, `lock` the apply mutex.
`seen`/`todo` are the enumeration and the entries a sweep or a restore still has to visit. Every early
return is a disjunct: refusals go through `Refuse` (before the mutex) or `ReplyLocked(FALSE)` (holding
it).  A save has `atomicWriteFile`'s three outcomes: stored, failed with the old file in place, and
"late": the rename is done, the fsync of the directory fails, and the caller is told of a failure
although `state.json` is the new one.  An event of the monitor carries the identity and the path udev
reported when it was sent; the device may be another by the time it is handled. `DisableAllowed` is
`evaluateDisable` on ports: root and boot, the only keyboard, the only pointer.  `UdevId` and `SysfsId`
are separate on purpose: the key of an entry is made from udev's identity, `applyEnable` compares it
with what `deviceFromSysfs` reads, and the two disagree on the serial of many devices.

### EventBus

`stack[t]` holds what thread `t` is in the middle of: a `publish` between two handlers ("loop"),
inside one ("body"), between endInvoke's unlock and its `notify_all` ("notify"), or an `unsubscribe`
asleep on `drained_` ("wait").  A thread with no frame, or whose innermost frame is a handler's body,
runs user code and may subscribe, publish or unsubscribe, which is how re-entrancy and nested
publishing arise.  `running[i]` is both the entry's `inFlight` counter and its vector of thread ids:
an invocation is a thread and a depth on its stack.  A handler that throws ends its `publish`
(`EndInvoke` with `rest = <<>>`).  `gone` is a history variable: the ids whose unsubscribe came back
through the barrier (a re-entrant one is excused from it by the code).

### Monitor and Hotplug

`Monitor` holds the netlink backlog, the eventfd (`wake`), `stopRequested` and the program counters of
the reader and of the owner.  `start` opens the handles and starts the reader; the reader polls,
drains one message at a time, runs the callback and looks at the flag again; `stop` sets the flag,
writes the eventfd, joins and closes.  `Overrun` is the POLLERR that ends `readLoop` for good.  The
reentrant `stop` (from inside the callback) is left out: no caller does it.

`Hotplug` puts the service behind the callback.  `pending`/`outstanding` are its map and claim
counter, `queue`/`ready` the scheduler's timed queue and the batch its thread dequeued, `worker` the
flush in progress, and the owner's program counter goes on through the teardown (`monitor_.stop`, the
cancels, the wait on `flushDone_`, `DelayedScheduler::shutdown`).  The first enumeration ends before the
monitor starts, as in both composition roots; a later refresh enumerates and applies in two steps, as
`ApplicationFacade::refresh` does without a lock.

### StatusLine and Devices

`line` is StatusLineVM (text, generation, outstanding removals), `timer` the DelayedScheduler with the
batch its thread has taken.  `Devices` has two workers and the timer thread publish events whose
handlers run on the publishing thread: DeviceListVM's is an exchange of a flag and a post, the UI
thread's rebuild reads the flag, takes a snapshot of the model and assigns the rows in separate steps.
A row's status comes from udev or from devmgrd's list: only `Ask` (in a refresh) knows the latter,
`Flush` puts a device back as udev describes it.  Any call to devmgrd may fail; that `Ask` was answered
is stored by `Observe` (under a mutex) and told to BackendStatusVM by `Note`, after it.  A disable raises
the uevent of its own unbinding.  `pending` is HotplugService's map: a newer event replaces the older and
its flush, and the teardown is that of `stop` (join, one cancel per pending event, the wait for the
flushes that could not be cancelled), then of the timer, the futures and the view models.
Devices on USB are left out there: their `authorized` attribute tells udev, so nothing can disagree.

### Guard and Disabling

A sysfs path is the sequence of the names on it, so a target is above what it is a prefix of.
`Guard` is the policy alone and is used twice: by `Requests` for the verdict on an unload (and in
`Modules` for the advice the client computes with the same code), and by `Disabling`.  There `off` is
the set of devices that are switched off, `mounts` and `inputs` what the prober reads; `MadeOf(b)` is
everything a block device is stacked on, and `expandBlock` the paths at the bottom of the stack.
`StartDisable`, `StartEnable` and `StartUnload` are the verbs up to the prompt, `Act` the rest: the
effect, an error, or a refusal by the user.  Switching a device off takes all below it away, and a
device that is off below one that is switched off later comes back with it.  `late` and `moved` are
history: what was mounted, and whether input devices changed, while a verb was in hand.  What devmgrd
stores and what enforcement re-applies is in `Devmgrd`.

### Requests and Modules

`queue` is the bus as devmgrd sees it: one call is served at a time, the rest waits, and a caller that
gave up (`Timeout`) is `Nobody` while its call stays.  `serving.at` goes idle, probe, prompt, act.
`Tick` is time passing during a prompt, the only slow step.  `LoadOutcomes` and `UnloadOutcomes` are
libkmod's: dependencies go in first and stay in when a later insertion fails.  Listing the modules,
their devices or the facts of the guard may fail too, before and after each other (`Begin`, `Probe`).
`cachedApi` is asked for once.  `Modules` adds ModulesVM (list, signature cells, the fill on a worker),
the events after a verb and the destructor's wait.  `lasting` is history: the devices that were bound
and critical all the time the call in hand took.

### SnapshotHistory, SnapshotDiff, SnapshotVerbs and Cli

`Listings` is every sequence `list` may return for the files on disk (the directory order is
unspecified); chain, markers and indents are functions of it.  A payload of `SnapshotDiff` is a set
of entries and a function from file names to lines; rows are keyed by labels, as in the code.
`SnapshotVerbs` steps one verb through validation, the prompt and the store's own steps, with crashes;
`live` is what `capturePayload` would capture.  `Cli` is a process that lists, resolves its words,
calls once and exits with a code; a word is the set of ids it is a prefix of.  `others` are calls of
other clients between its steps; `did` is history.

### SnapshotsVM, FrontEnd, Tui, Gui, Consoles

`jobs` are the tasks on workers, `posted` the closures for the UI thread.  `vm` holds the rows
(`metas`), the index of the selection, the filter and the two diff flags of SnapshotsVM.  A task that
lists snapshots makes five steps: the call, the store of the list, what it says of devmgrd, the event
with the exchange of the coalescing flag, the post.  The closures that work on what such a task touches
are cut the same way: one that was posted clears its flag in one step and reads the list, or submits,
in a later one (`vm.closure` is what the UI thread is in the middle of).  In `Tui` one
modal swallows every key that does not answer it.  In `Gui` a dialog runs a nested event loop:
`prompts` is a stack, and posted closures go on running under it; `restoreFor` is
`pendingPreviewRestoreId_`, and the verbs' enablement changes only where
`updateActionPresentation` is called.  On the other three tabs the selected row and the advisory
verdict are inputs.  `Unwind` is the teardown that `runTuiApp` and `runGuiApp` spell out in the same
order: hotplug, futures, view models, facade.

`Console` knows a prompt and what was submitted last: a submission takes its target from the prompt
on the screen.  `Consoles!TuiImplementsConsole` instantiates it with the modal of the terminal front
end.  The Qt front end does not implement it: the answer of a restore preview submits an id kept
elsewhere (`RestorePreviewed` fails).

### Updates

`fwupd` is the external daemon (whether it serves, what it offers, its history of unfinished actions,
what it flashes) and `signals` its undelivered change signals.  `queue` and `run` are TaskScheduler's
jobs; a job carries its program counter, what it has read so far and the holder of its future, since
custody of futures is what the teardown rests on.  An offer is no device, no release, a release to
download elsewhere, or one whose cab is on this machine, which is what `installUpdate`'s gate tells
apart.  `snapshot`, `pending`, `installActive` are the facade's, `sink` the provider's progress sink,
`posts`/`queued` the dispatcher's queue with the two coalescing flags, `shown`/`progress` what the view
shows.  A progress frame may come at any time, because fwupd's Percentage is a property of the whole
daemon.  `Enumerate` is GetDevices, `Upgrades` the query of each device after it; one that fails leaves
its device without a release and fails nothing else.  A posted closure clears its flag, copies the
snapshot and copies the pending record in three steps.  The handlers of UpdatesVM are an exchange of a
flag and a post, so they are part of the publisher's step; that the token they copy may be gone by then
is recorded in `tokenMisused`. The DKMS provider (status only) and the `Busy` answer of the provider
(unreachable while `SlotIsAnInstall` holds) are left out.

## 3. Runs

| Run | Configuration | Shows |
|---|---|---|
| `store` | `MCStore.cfg` | seven properties of the store and of what its listings say of HEAD and descent |
| `daemon` | `MCDaemon.cfg` | root stays on, an entry goes before its device is rebound, every change can be undone, and `Devmgrd` implements `DisabledSet`; all six verbs |
| `daemon_live` | `MCDaemonLive.cfg` | a queued device is enforced; a restart re-applies every entry whose path no other device took |
| `guard` | `MCDisabling.cfg` | root and boot keep every device they are made of; the last keyboard and pointer stay |
| `modules` | `MCModules.cfg` | the guard's verdict on an unload holds but for the prompt; success is shown; fills end in time |
| `event_bus` | `MCBus.cfg` | the unsubscribe barrier, and that unsubscribing ends |
| `hotplug` | `MCHotplug.cfg` | no stranded event, the stop barrier, convergence, `stop` returns |
| `devices` | `MCDevices.cfg` | no rebuild is lost, a message is never cleared early, the destructor's wait ends |
| `updates` | `MCUpdates.cfg` | one install at a time, no progress line after its end, custody of every job, convergence, quitting ends |
| `consoles` | `MCConsoles.cfg` | `Tui` implements `Console`; the Qt verbs but restore act on what was asked; rows and cursor follow; no task outlives the facade |
| `gui_restore` | `MCGuiRestore.cfg` | **violated**: confirming the preview of one snapshot restores another |
| `cli` | `MCCli.cfg` | prefixes, exit codes and empty diffs mean what they say |

Configurations to run by hand; each one is **violated** by what the code does (section 5):

| Configuration | Property | Shows |
|---|---|---|
| `MCStoreHead.cfg` | `MarkerIsHead` | the HEAD marker is on a child of HEAD (with `NoParentCycle` in its place: parent links run in a circle) |
| the same | `PutIsSafetyNet`, with `KeepAuto = 3` | a put deduplicated onto a HEAD whose file is gone reports success |
| the same | `ManualPersists`, with `KeepAuto = 1` | a manual create deduplicated onto an auto snapshot is pruned |
| `MCDaemonStray.cfg` | `NoStrayDisable` | a device enabled while enforcement waits for the mutex is disabled again |
| `MCUpdates.cfg` | `TokenOutlivesHandlers` | fwupd's signal runs UpdatesVM's handler after its token was destroyed |
| the same | `NoneIsTrue`, with `Offers = {"absent", "none", "local"}` | "(no updates available)" after an enumeration that failed |
| `MCDevices.cfg` | `DisabledStaysShown`, with `MaxChanges = 0`, `MaxTasks = 1` | a flush shows a disabled device as active |
| `MCCliUndo.cfg` | `RestoreUndoable` | a successful restore names a safety snapshot that does not exist (with `MaxDamage = 1` and the property `FullIdResolves`: the whole id is ambiguous; with `Commands <- Shows` and the invariant `NothingWouldChange`: an empty preview of a restore that moves a directive) |

The type invariants of `SnapshotStore`, `Devmgrd`, `EventBus`, `Disabling`, `Modules`, `Hotplug`,
`Updates`, `Devices` and `Consoles` are proved; no run repeats them.

Bounds and why they are enough:

* `store`: three payloads are the smallest number with a HEAD, a parent and an orphan; `KeepAuto = 1`
  makes the second automatic snapshot prune; `MaxFiles = 4` lets a deleted payload be written again
  (its file may then coexist with a `.bad` sibling of the same id and the parent links may form a
  cycle); one id is damaged; one payload is the file of a newer daemon.  Payloads are symmetric
  except that one.  The write and the quarantine rename may fail; a failing `unlink` is left to the
  proofs: all but `RetentionIsBounded` hold with it, and that one names it as its condition.
* `daemon`: one root disk, one keyboard and one mouse over three ports, of which one is USB; one plug
  event after any number of unplugs, three requests and one crash: enough for one thread to be overtaken
  by a verb of the other between any two of its steps, for a device to come back at another address, so
  that enforcement rewrites its entry, and for a restore to replace the store in between. udev knows a
  serial that sysfs does not.  No unit is a pointer there, so that a verb can take the mouse; in
  `daemon_live` both movable units are.  Saves may fail in both ways.  All that this run checks is also
  proved, and so is `DisableIsDurable`, which the run leaves out: `SetIsKept` says it of both verbs.
* `daemon_live`: udev and sysfs agree, without restore and faults, and without hotplug before the
  monitor runs.
* `guard`: a SATA controller with a disk and a USB controller with a hub above a keyboard, a mouse and
  a disk, and a second keyboard; root may be a mirror over a mapped partition and the USB disk, one
  disk, or a source that names no device; three verbs and two changes: two verbs can take the parts of
  a stack or the two keyboards one after the other, the third can be an enable in between, and a change
  can fall into a prompt and outside of one.
* `modules`: two keyboards on one driver and a module the kernel refuses after its dependency is in;
  two workers, two verbs, one change of the hardware, one restart (perhaps to another API version).
  A prompt lasts two ticks and a call three, so that a call behind a prompt times out, and a prompt
  outlives the caller of the next one.
* `event_bus`: three threads (one publishes, one unsubscribes, one more publishes the same handler),
  two subscriptions, three publishes, frames two deep: nested publishing, re-entrant unsubscribe, and
  an unsubscribe that waits for two invocations on different threads all occur.  `CrossReset` is
  FALSE: a handler drops only its own token, which is what every client of the bus does.
* `hotplug`: two devices with up to three states each (absent in the third), one refresh, an overrun,
  and the teardown at any moment: an event can overtake a queued, a dequeued and a running flush of
  its own device, and a dequeued batch can hold flushes of both.
* `devices`: one device, two workers, two tasks of the user, one change, failing calls, two messages
  (1.5 million states): two tasks and a flush publish in any order, a second message meets the first
  one's removal queued, dequeued and done, and `stop` meets a flush scheduled, dequeued and running.
* `updates`: one device, two workers, one change from outside (or one restart of fwupd), two requests
  of the user and one undelivered signal at a time.  Two requests let a second install meet the slot
  taken, and a refresh overlap an install or the view's own refresh; the flash may end before, during
  or after the timeout (550 thousand states).
* `consoles`: two snapshots, four keys or tab changes, two tasks at a time, one outage: a verb's prompt,
  a diff, a filter and a refresh can meet in any order in either front end (2.6 million states), and a
  second list task meets the closure of the first before, between and after its two steps.
* `cli`: three states of the machine, of which two differ by the order of files only; words that are
  one id, a prefix of two, empty and of none; three calls of other clients, one damaged file, failing
  writes and deaths of devmgrd.
* The violated configurations use the smallest instance that shows the disagreement.

Fairness: threads that have a step to take go on, and nothing else is fair.

* `Devmgrd`: startup, the enforcement thread and the verb in progress.  The apply mutex is a plain
  `std::mutex`; weak fairness of its waiter suffices for what is checked because the number of requests
  is bounded.  The user who answers a polkit prompt is not fair (it happens outside the mutex).
* `EventBus`: every thread inside the bus, and every handler ends (the bus can promise nothing about one
  that does not); whether anybody publishes or unsubscribes is free.
* `Hotplug`: the reader, the timer thread, a teardown that has begun.  `Devices`, `Modules`, `Updates`
  and `Consoles`: the workers, the timer or signal thread, the UI thread's queue, and a teardown that
  has begun.  In `Modules` devmgrd too, its prompt included: polkit answers or times out (110 s).
* Devices, users, fwupd, its flashes and the kernel do as they like, so `QuitEnds` rests on the timeout
  of the Install call and on nothing fwupd does.

## 4. Proofs

Proved for every value of the constants that satisfies the named assumption of the module (each module
that needs one declares it, `StoreAssumption`, `VerbsAssumption`, `CliAssumption`, `DaemonAssumption`,
`KeyAssumption`, `BusAssumption`, `DisablingAssumption`, `RequestsAssumption`, `HotplugAssumption`,
`UpdatesAssumption`, `StatusLineAssumption`, `DevicesAssumption`, `SnapshotsAssumption`,
`FrontEndAssumption`, and TLC evaluates each on a run).  Of the invariants and action properties that
runs check, all are proved; liveness is model-checked only.

**`SnapshotStoreProofs`, the store**: `StoreTypeCorrect`, `FreshPutIsReadable`, `EvidenceIsPreserved`,
`ManualLeavesOnRequest`, `HeadFileIsKept`.  `StoreInv` adds to the type that while a prune runs, the id
being put is HEAD, its file is healthy, and no victim is that id, a manual snapshot or unreadable.  That
HEAD is not a victim is the interesting part: HEAD's entry is met first on the chain, so at most
`KeepAuto - 1` candidates could precede it.  `RetentionIsBounded` adds `SparedInv`: the automatic
snapshots that are not among the victims still to go are at most `KeepAuto`.  A failing unlink leaves
more, so the theorem has the condition that unlinks do not fail.

**`SnapshotStoreProofs`, the history**: `HeadIsFound`, `HeadChainIsOnTop`.  Both follow from the type of
the store, for any listing.  The chain is the result of a climb along parent links.  That the climb from
HEAD exists, that it is the prefix of the rows, and that no other row is on it is by least
counterexample (`LeastOf`, from the well-foundedness of `<` on the naturals): the first step at which
two climbs differ cannot be.

**`SnapshotStoreProofs`, the verbs and the client**: `VerbsInvariant`, `VerbsKeepTheStore`,
`CliInvariant`, `ActsOnOneMatch`, `ExitCodesTell`, `DiffsTell`.  `VerbsKeepTheStore` is a refinement:
every behaviour of the client, the other clients, the verbs and the crashes is one of `SnapshotStore`,
so that all the theorems above hold for devmgrd as it uses the store.  `CallInv` says which operation
the store may have in hand at each point of a verb; `ClientInv` that a client past its resolution had
exactly one match for each word; `UntouchedInv` that nothing has been done while the answer can still be
a refusal; `WorkInv` what a verb has established by its last step.  A success then means what the exit
code says.

**`SnapshotStoreProofs`, the diff**: `EmptyDiffTells` is about two payloads and no behaviour, `DiffsTell`
about the client: what was compared are the payloads that the ids name (`CompareInv`: a file that passes
the hash check has the content it is named after, and the live state is read in the same step), so what
is shown is the diff of exactly those.  For devices, an empty diff makes the two maps from labels to
states equal, and a label stands for one entry, because keys are distinct and every key has a position
(`IsPayload` in `VerbsAssumption`; `StateStore::upsert` and `positionFor` give both).  For modules, the
state of a module is the sequence of its directives in the order read.  That the lines of finitely many
files can be put in that order, and that the order covers them all, is by least counterexample
(`OrderExists`, `OrderCovers`); so equal states hold the same directives.  The converse is false: a diff
may be non-empty although the effect is the same, e.g. when two directives change places.

**`DevmgrdProofs`**: `DaemonTypeCorrect`, `RootIsNeverDisabled`, `DisableStaysOnDisk`,
`EnableForgetsFirst`, `ChangesCanBeUndone`, `KeyIdentifiesDevice`, the refinement `DisabledSetIsKept`,
and `AnswersHold` by way of it.  The invariant ties each program counter to what has been established: a
port between guard and sysfs write holds no root unit (root units never move, so the stale verdict stays
right), the keys in memory are distinct, memory and disk have the same keys unless a save failed, and
once the safety snapshot is taken its keys are the keys in memory, because enforcement changes fields of
entries and never keys.

`DisabledSet` forgets entries, paths, locks and the hardware: `wanted` is the keys in memory (on disk
while the daemon is down), `saved` those on disk, `nets` those of the snapshots, and a call is asked,
done or none.  A save by enforcement is a stutter or takes along what an earlier verb failed to save
(`Flush`).  A call whose save failed late changes `saved` and fails, which `Commit` allows: `DisabledSet`
promises what a success means, and of a failure that the set is the old or the new one.  The refinement
needs that a verb has an entry of its own only from its write on (`WorkInv`),
so that the key it answers with is the one it changed.  `AnswersHold` says what a client may rely on:
after success and until the next request, what was disabled is on disk and what was enabled is not
(by the key the daemon made; section 5 has what sysfs serials do to that).

**`EventBusProofs`**: `BusInvariant`, `BusTypeCorrect`, `InvocationsBalanced`, `BarrierHolds`.  The
invariant says that the invocations counted are those on the stacks, that a waiting thread has
marked its handler, and that a handler whose unsubscribe returned has none in flight; `BeginInvoke`
keeps the last part because such a handler is marked and the mark is looked at under the mutex.
Nothing is assumed of `CrossReset`: cross resets can deadlock but never break the barrier.

**`GuardProofs`, the devices**: `DisablingTypeCorrect`, `StorageIsKept`, `InputIsKept`.  A verdict is
minutes old when it takes effect, so the invariants carry it over the prompt: no target of the verb in
hand is above anything that was mounted when it was judged (`Judged`), and one input device of each kind
is below none of them (`Spared`).  The facts name only the bottom of each stack; `DisablingAssumption`
(a stacked block device is virtual and lies below no device) closes the gap.  For an unload only storage
is proved there: the code judges each device of the module by itself, so two keyboards on one driver
both go.

**`GuardProofs`, the module verbs of a client**: `ModulesTypeCorrect`, whose parts worth having are that
a worker which waits has exactly one call in devmgrd's queue and no other worker has one (`OneCall`: a
call that was given up stays, but is nobody's), and that a module is never in the kernel without what it
needs (`Closed`, from `RequestsAssumption`: modules.dep is transitive); `NoFillOutlivesTheVm`, because
every outstanding fill is the one whose future ModulesVM holds (`OneFill`); `UnloadSparesCritical`,
because a device still counted as lasting is critical at this moment and, once the verdict is in, is not
driven by the module in hand (`LastingInv`).  Queueing, timeouts, restarts and hotplug only make
`lasting` smaller.

**`HotplugProofs`**: `HotplugTypeCorrect`, `NothingIsStranded`, `StopIsABarrier`.  `outstandingFlushes_`
is exactly the flushes queued, those dequeued and the one in hand (`Claims`), which needs that a handle
names one flush (`Distinct`) and that from the cancels on nobody calls `onEvent` (`ReaderEnds`).

**`UpdatesProofs`**: `UpdatesTypeCorrect`, `OneInstallAtATime`, `ProgressEndsWithTheInstall`,
`FacadeIsNotOutlived`.  `Slot` says where the one install is: nowhere, in the queue, or with one worker.
`SinkOfAnInstall` ties the progress sink to an install between its call and its Gate, because fwupd's
frames may come at any time.  `Custody` says what each step of the teardown has waited for, `Coalesced`
that a flag is set exactly while its closure is posted.

**`DevicesProofs`**: `DevicesTypeCorrect`, `NoChangeIsLost`, `MessagesStay`.  Rows that differ from the
model are about to be fetched, or some thread has yet to invalidate them, or they are invalid and the
rebuild is on its way (`Behind`): whatever order publishers, exchanges of the flag and the UI thread
take.  For the status line, every removal is of a message once shown and can run once (`Separate`), the
generation is that of the message on the line (`Current`), and `outstanding` is the number of
removals queued or dequeued (`Counted`).

**`ConsolesProofs`**: `ConsolesTypeCorrect`, `NothingOutlivesTheFacade`, `RowsFollowTheList`,
`CursorStaysOnItsSnapshot`, `DialogsNameTheirTarget`, and the refinement `ModalsAreTruthful`: `Tui`
implements `Console`.  Rows behind the facade's list have an update on its way: a list task
that has still to publish or to post, a posted rebuild, or one that has cleared the flag and has yet to
read (`Announced`, whose other half says that a set flag stands for a closure posted or about to be).
With the flag cleared after the read the last case fails: a list stored in between is never shown.  The
teardown
has waited for whoever holds a future (`Kept`), and a prompt other than a restore names the target that
its callback captured, while the terminal shows one modal at a time (`Truthful`).  For restore the
terminal needs the last part: behind the modal nothing else can be previewed.

Only model-checked: all liveness (the proof system has no rules for fairness and ENABLED here).  Where
the code loops to the first match, the model says `\E i \in First(S)`, so that no proof has to show that
a minimum exists; where it climbs or sorts, the proofs use the least counterexample above.

## 5. Known disagreements that are not runs

Storage of snapshots and the daemon:

* Dedupe trusts HEAD: a put of the state HEAD names succeeds although HEAD's file was pruned or
  deleted (`remove` moves HEAD to a parent without looking), so a verb, or a restore, goes on without
  its safety snapshot (`PutIsSafetyNet`, `RestoreUndoable`; `HeadFileKept` states the exception).  A
  manual create deduplicated onto an auto snapshot is pruned later (`ManualPersists`).
* `list` drops one of two documents of the same id when a `.bad` sibling shadows it; `resolveId` of the
  CLI counts a quarantined sibling as a second match, so that even the whole id is ambiguous
  (`FullIdResolves`); the last-good and HEAD markers go by id and mark such a sibling too.
* The HEAD marker goes to a child of HEAD after a put of an earlier state (`MarkerIsHead`).
  `snapshot_history.cpp` says cycles cannot occur; a deleted state stored again can close one
  (`NoParentCycle`).
* A diff is empty when only the order of directives changed, or when the device has drifted from its
  entry, and the preview then says nothing would change (`NothingWouldChange`).  A device with a serial
  that moved to another port is two rows.
* Enforcement reads the entry before it takes the mutex (`NoStrayDisable`); the sweep may spend an entry
  on another device at its stored path, and an entry is matched by path alone, so another device
  plugged into the port of a disabled one is disabled; a device plugged between the sweep's
  enumeration and `monitor.start` is not enforced (`RestartSticks` in place of `RestartEnforces` in
  `MCDaemonLive.cfg`, and with `PlugAtStartup = TRUE`).
* `applyEnable` compares the key with sysfs' serial while udev made it: with `UdevId` and `SysfsId`
  apart, enable reports success and leaves the entry (`EnableDeletesEntry` in `MCDaemonStray.cfg` with
  `SysfsId <- SysfsSerialless`).  A device replugged between the sysfs write of its disable and the
  upsert of its entry stays enabled, whatever `README.md:134-138` says of replugs.
* The guard does not look again after the prompt: a disk mounted or a keyboard unplugged meanwhile is
  not protected (`late`, `moved`).  `evaluateModuleUnload` judges each device alone (section 4).
  The prober fails open: a mount whose source does not begin with `/` (ZFS), or names one device
  of several (btrfs), yields no facts, although `README.md:187` says that a device backing the root
  filesystem is refused.
* A prompt blocks devmgrd's only event loop thread: other clients' calls wait, time out and still act
  later.  A failed `loadModule` leaves the dependencies it inserted, and no event says so.  The cached
  API version is never asked for again after an upgrade of devmgrd.  The CLI exits with 4
  ("unreachable") also when devmgrd was reached and polkit was not.
* A netlink overrun ends `readLoop` for good (`udev_hotplug_monitor.cpp:135`).

The client:

* The comment at `event_bus.hpp:83` says a handler "may freely (un)subscribe"; two handlers that drop
  each other's tokens wait for each other for ever (`UnsubscribeReturns` fails with `CrossReset`).
  A re-entrant unsubscribe returns while another thread may still be inside the same handler.
* A refresh that enumerated before an event and applies after its flush puts the older state back
  (`Converges` of `Hotplug` is stated for runs without a refresh for that reason); what changes between
  the first enumeration and the start of the monitor is not seen either.
* The disabled overlay is merged in `refresh` only; a flush loses it (`DisabledStaysShown`).
* The comments at `status_line_vm.cpp:49-64` and `status_line_vm.hpp:64-79` say that dropping a subscription
  does not, and cannot, wait for an invocation that a publisher has already snapshotted, so that
  `setMessage` may run on a destroyed object.  The code does wait: `unsubscribe` marks the entry and sleeps
  until its invocations are over, and `beginInvoke` looks at the mark (`event_bus.hpp:50-58` says so;
  `Barrier`).  The comments in StatusLineVM are those of an older bus.
* `status_line_vm.hpp:81-86` requires that the scheduler's `shutdown()` does not run before StatusLineVM's
  destructor completes, and says that `tui_app.cpp` honors it.  It does the reverse: `tui_app.cpp:1131`
  shuts the timer down, and the view models are destroyed after that.  The destructor returns all the
  same (`TeardownEnds`, whose model shuts down first): shutdown joins the thread, so that no removal is
  dequeued but not run, and the ones in the queue, also those scheduled after it, are still there to be
  cancelled.  With a `schedule` that drops them after shutdown it would wait for ever (the mutant).
* `HotplugService::stop` can return while a flush has yet to call `flushDone_.notify_all()`
  (`hotplug_service.cpp:100-101`): the claim it waits for is released before that call.
* Two overlapping refreshes of updates, and of snapshots (`application_facade.cpp:346-377`), may store
  the older result last.  `daemonError_` is set under the mutex and reported to BackendStatusVM after
  it (389-398), so the two may disagree.  A refresh that read fwupd's history before an install
  finished erases the record the install has just seeded (261); the next refresh puts it back.
* UpdatesVM, SnapshotsVM and ModulesVM declare their token after their subscriptions, so it dies first;
  only UpdatesVM's publisher (fwupd's signal thread) is known to run then (`TokenOutlivesHandlers`).
* ModulesVM caches "?" for a signature for ever, and modules loaded during a fill keep their ellipsis.
* Both front ends can show the diff of one snapshot under the title of another (`tui_app.cpp:938-943`);
  a stale diff's closure clears the pending flag of a newer request.  The Snapshots tab says that there
  are no snapshots before any query has completed.  In the terminal front end `i` opens nothing visible
  on a tab without diagnostics of its own (787-791) and the note about devmgrd is refreshed on tab entry
  only.  In the Qt one the verbs' enablement lags behind the banner on the first two tabs
  (`main_window.cpp:773-790`), and after a reset the current row is re-synchronised for devices only.

## 6. Not modelled, and the plan

Not modelled, and why:

* Serialization and hashing, the D-Bus marshalling, sysfs and module file parsing, fwupd's variants, DKMS
  status and cab archives: conversions of text and bytes, covered by unit tests; a payload is its own id.
* Rendering, layout, mouse, colours, wording, grouping and presentation in both front ends, and the
  printing of `list` and `info` in the CLI: no property of this project tells them apart.
* Argument and option parsing; SIGTERM of devmgrd (a crash covers what is left on disk); polkit itself,
  libkmod, the kernel and fwupd beyond what they answer (external definitions in the map).
* `UdevHotplugMonitor::stop` and `DelayedScheduler::shutdown` from inside a callback, and the destruction
  of TaskScheduler with queued work: no caller does either.
* The quarantine of a damaged `state.json`: the file is only ever replaced by a rename.
* A snapshot file whose content was altered so that it parses and carries another id than its name: the
  store names a file after the id in it, and damage here makes a file unreadable or wrong by its hash.
* What goes wrong and no property of a run can claim (section 5 has each): a netlink overrun beyond
  `stop`, overlapping refreshes of updates or of devices, a binding during the prompt of an unload, the
  overlay lost by a flush, the order of destruction in UpdatesVM.  `PROJECT.json` lists them as hazards
  without a property, or with the part that does hold.

Left of the plan: the abstract specification of an atomic snapshot store, and the proof that
`SnapshotStore` implements it.  Until then what the store promises is stated by its own properties.
