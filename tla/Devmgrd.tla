------------------------------- MODULE Devmgrd -------------------------------
(***************************************************************************)
(* devmgrd, the privileged daemon: the persisted set of disabled devices   *)
(* (StateStore), the verbs served on the D-Bus event loop thread           *)
(* (RequestProcessor, SnapshotService::restore), and EnforcementService,   *)
(* which runs as a sweep at startup and then on the hotplug monitor        *)
(* thread.  The two threads share the store, the hardware and applyMutex.  *)
(*                                                                         *)
(* Abstraction: the topology is flat (no hub holds another device), a      *)
(* device is a unit sitting at a port, and `off' stands for the mechanism  *)
(* of the port (authorized = 0 on USB, no bound driver elsewhere).  The    *)
(* snapshot store is what SnapshotStore promises of a put: a saved copy.   *)
(* The modprobe files a snapshot also carries are left out.                *)
(***************************************************************************)
EXTENDS DeviceKey, SequencesExt

CONSTANTS
    Units,          \* physical devices
    Nobody,         \* an empty port
    UdevId,         \* unit -> identity as udev reports it
    SysfsId,        \* unit -> identity as deviceFromSysfs reads it
    Home,           \* ports populated when the daemon first starts, port -> unit
    Movable,        \* units that can be unplugged and plugged anywhere
    Keyboards,      \* units that are keyboards
    Pointers,       \* units that are pointers
    RootUnits,      \* units that back the root or boot filesystem
    UsbPorts,       \* ports whose mechanism is the authorized attribute
    Verbs,          \* client verbs exercised
    MaxPlugs,       \* bound: plug events
    MaxRequests,    \* bound: client requests
    MaxCrashes,     \* bound: daemon crashes
    StoreFaults,    \* whether saving state.json or a snapshot may fail
    HwFaults,       \* whether a sysfs write, a probe or an enumeration may fail
    PlugAtStartup   \* whether hotplug may happen before the monitor runs

ASSUME DaemonAssumption ==
    /\ Nobody \notin Units
    /\ UdevId \in [Units -> Identity] /\ SysfsId \in [Units -> Identity]
    /\ Home \in [Ports -> Units \cup {Nobody}]
    /\ {Movable, Keyboards, Pointers, RootUnits} \subseteq SUBSET Units
    /\ Movable \cap RootUnits = {}
    /\ Verbs \subseteq {"disable", "enable", "bind", "unbind", "create", "restore"}
    /\ {StoreFaults, HwFaults, PlugAtStartup} \subseteq BOOLEAN
    /\ MaxPlugs \in Nat /\ MaxRequests \in Nat /\ MaxCrashes \in Nat

VARIABLES
    at,      \* port -> the unit plugged in there
    off,     \* port -> whether the device there is disabled
    events,  \* udev events the monitor has not read yet, with the record udev sent
    mem,     \* StateStore::entries_
    disk,    \* state.json
    snaps,   \* stored snapshots: the entry lists they hold
    phase,   \* main(): "down", "sweep" (before monitor.start), "up"
    seen,    \* the enumeration the sweep or a restore works from
    todo,    \* entries the sweep or a restore still has to visit
    enf,     \* EnforcementService: the re-apply in progress
    bus,     \* the D-Bus event loop thread: the verb in progress
    lock,    \* applyMutex: "free", "enf" or "bus"
    ret,     \* what the last finished verb returned
    budget   \* what is left of the bounds

hardware == <<at, off>>
store == <<mem, disk>>
vars == <<at, off, events, mem, disk, snaps, phase, seen, todo, enf, bus, lock, ret, budget>>

Entries == [key : DeviceKeys, path : Ports, suspended : BOOLEAN]
NoEntry == <<>>
EnfIdle == [pc |-> "idle"]
BusIdle == [pc |-> "idle"]
NoReturn == [verb |-> "none", ok |-> FALSE, entry |-> NoEntry]

PresentPorts == {p \in Ports : at[p] # Nobody}
\* udev's view of what is plugged in.
Present == [p \in PresentPorts |-> UdevId[at[p]]]

\* What one device looked like when it was enumerated or reported.
View(p) == [id |-> UdevId[at[p]], off |-> off[p]]
LiveView == [p \in PresentPorts |-> View(p)]
\* IDeviceEnumerator::enumerate, whose failure is read as "nothing there".
Enumerations == IF HwFaults THEN {LiveView, <<>>} ELSE {LiveView}

\* evaluateDisable over LinuxCriticalityProber's facts: a disabled keyboard or
\* pointer has no input device and is not counted.
LiveInputs(kind) == {p \in PresentPorts : at[p] \in kind /\ ~off[p]}

\* Mutant: the guard forgets what backs the root filesystem.
InputGuardOnly(p) == \A kind \in {Keyboards, Pointers} : LiveInputs(kind) # {p}

DisableAllowed(p) ==
    /\ at[p] \notin RootUnits
    /\ \A kind \in {Keyboards, Pointers} : LiveInputs(kind) # {p}

HwOutcomes == IF HwFaults THEN BOOLEAN ELSE {TRUE}
\* atomicWriteFile succeeds, fails with the old file in place, or fails after the
\* rename, when the directory cannot be synced.
SaveOutcomes == IF StoreFaults THEN {"ok", "fail", "late"} ELSE {"ok"}

-----------------------------------------------------------------------------
(* StateStore.                                                             *)

\* Every mutator changes entries_ first and saves second; a failed save may
\* leave the two apart.
Save(entries, out) ==
    /\ mem' = entries
    /\ disk' = IF out = "fail" THEN disk ELSE entries

KeysOf(entries) == {entries[i].key : i \in DOMAIN entries}
WithKey(entries, k) == {i \in DOMAIN entries : entries[i].key = k}

\* The first index of a set, as a set: what a loop that stops at a match finds.
First(S) == {i \in S : \A j \in S : i <= j}

Upsert(e, out) ==
    IF e.key \in KeysOf(mem)
    THEN \E i \in First(WithKey(mem, e.key)) : Save([mem EXCEPT ![i] = e], out)
    ELSE Save(Append(mem, e), out)

\* setGuardSuspended / setLastSysfsPath: one field of the entry with key k;
\* nothing is saved when there is no such entry.
Amend(k, new(_)) ==
    IF k \in KeysOf(mem)
    THEN \E out \in SaveOutcomes, i \in First(WithKey(mem, k)) :
           Save([mem EXCEPT ![i] = new(mem[i])], out)
    ELSE UNCHANGED store

SetSuspended(k, s) == LET new(e) == [e EXCEPT !.suspended = s] IN Amend(k, new)
SetLastPath(k, p) == LET new(e) == [e EXCEPT !.path = p] IN Amend(k, new)

\* Mutant: entries are matched by their stored path alone.
ConcernsPath(e, id, p) == e.path = p

\* The (key or stored path) test of findFor, sweep, restore and applyEnable.
Concerns(e, id, p) == Matches(e.key, id, p) \/ e.path = p

-----------------------------------------------------------------------------
Init ==
    /\ at = Home
    /\ off = [p \in Ports |-> FALSE]
    /\ events = <<>>
    /\ mem = <<>> /\ disk = <<>>
    /\ snaps = {}
    /\ phase = "down"
    /\ seen = <<>> /\ todo = {}
    /\ enf = EnfIdle /\ bus = BusIdle /\ lock = "free"
    /\ ret = NoReturn
    /\ budget = [plugs |-> MaxPlugs, requests |-> MaxRequests, crashes |-> MaxCrashes]

(* The environment.                                                        *)

\* What udev sends of unit u at port p: the identity travels with the event.
Reports == [id : Identity, port : Ports]
Report(u, p) == [id |-> UdevId[u], port |-> p]

\* Before the monitor runs, the kernel event goes nowhere.
Reported(u, p) == events' = IF phase = "up" THEN Append(events, Report(u, p)) ELSE events
CanPlug == phase = "up" \/ PlugAtStartup

Plug(u, p) ==
    /\ CanPlug /\ budget.plugs > 0
    /\ u \in Movable
    /\ at[p] = Nobody /\ \A q \in Ports : at[q] # u
    /\ at' = [at EXCEPT ![p] = u]
    /\ off' = [off EXCEPT ![p] = FALSE]
    /\ Reported(u, p)
    /\ budget' = [budget EXCEPT !.plugs = @ - 1]
    /\ UNCHANGED <<mem, disk, snaps, phase, seen, todo, enf, bus, lock, ret>>

\* onHotplug returns at once for a removal, so the event is not modelled.
Unplug(p) ==
    /\ CanPlug
    /\ at[p] \in Movable
    /\ at' = [at EXCEPT ![p] = Nobody]
    /\ off' = [off EXCEPT ![p] = FALSE]
    /\ UNCHANGED <<events, mem, disk, snaps, phase, seen, todo, enf, bus, lock, ret, budget>>

\* The daemon dies; hardware, state.json and the snapshots survive.
Crash ==
    /\ phase # "down" /\ budget.crashes > 0
    /\ phase' = "down"
    /\ mem' = <<>> /\ events' = <<>> /\ seen' = <<>> /\ todo' = {}
    /\ enf' = EnfIdle /\ bus' = BusIdle /\ lock' = "free" /\ ret' = NoReturn
    /\ budget' = [budget EXCEPT !.crashes = @ - 1]
    /\ UNCHANGED <<at, off, disk, snaps>>

-----------------------------------------------------------------------------
(* Startup: load, then the sweep on the main thread, then the monitor and  *)
(* the event loop.                                                         *)

\* Mutant: the entries to sweep are taken before state.json is loaded.
SweepBeforeLoad ==
    /\ phase = "down"
    /\ phase' = "sweep"
    /\ mem' = disk /\ todo' = Range(mem)
    /\ seen' \in Enumerations
    /\ UNCHANGED <<at, off, events, disk, snaps, enf, bus, lock, ret, budget>>

Load ==
    /\ phase = "down"
    /\ phase' = "sweep"
    /\ mem' = disk /\ todo' = Range(disk)
    /\ seen' \in Enumerations
    /\ UNCHANGED <<at, off, events, disk, snaps, enf, bus, lock, ret, budget>>

\* maybeReapply up to its first early return.
Consider(e, p, isOff) ==
    enf' = IF isOff THEN EnfIdle ELSE [pc |-> "probe", entry |-> e, port |-> p]

\* The device a visited entry resolves to: one that the enumeration lists,
\* else the stored path when a directory is still there.
Listed(e) == {p \in DOMAIN seen : Concerns(e, seen[p].id, p)}

SweepVisit ==
    /\ phase = "sweep" /\ enf.pc = "idle"
    /\ \E e \in todo :
         /\ \/ \E p \in Listed(e) : Consider(e, p, seen[p].off)
            \/ Listed(e) = {} /\ at[e.path] # Nobody /\ Consider(e, e.path, off[e.path])
            \/ Listed(e) = {} /\ at[e.path] = Nobody /\ UNCHANGED enf
         /\ todo' = todo \ {e}
    /\ UNCHANGED <<at, off, events, mem, disk, snaps, phase, seen, bus, lock, ret, budget>>

MonitorStart ==
    /\ phase = "sweep" /\ enf.pc = "idle" /\ todo = {}
    /\ phase' = "up"
    /\ seen' = <<>>
    /\ UNCHANGED <<at, off, events, mem, disk, snaps, todo, enf, bus, lock, ret, budget>>

-----------------------------------------------------------------------------
(* EnforcementService.  The store lookup, the guard probe and a suspension *)
(* happen outside applyMutex.                                              *)

\* drainEvents maps the event and calls onHotplug, which looks it up.  The identity
\* and the bound driver are those of the event, whoever sits at the port by now;
\* the authorized attribute is read live.
HotplugEvent ==
    /\ phase = "up" /\ enf.pc = "idle" /\ events # <<>>
    /\ events' = Tail(events)
    /\ LET e == Head(events)
           found == {i \in DOMAIN mem : Concerns(mem[i], e.id, e.port)}
       IN IF found = {} THEN UNCHANGED enf
          ELSE \E i \in First(found) :
                 Consider(mem[i], e.port, e.port \in UsbPorts /\ off[e.port])
    /\ UNCHANGED <<at, off, mem, disk, snaps, phase, seen, todo, bus, lock, ret, budget>>

EnfProbe ==
    /\ enf.pc = "probe"
    /\ \E probed \in HwOutcomes :
         enf' = CASE ~probed -> EnfIdle
                  [] probed /\ DisableAllowed(enf.port) -> [enf EXCEPT !.pc = "lock"]
                  [] OTHER -> [enf EXCEPT !.pc = "suspend"]
    /\ UNCHANGED <<at, off, events, mem, disk, snaps, phase, seen, todo, bus, lock, ret, budget>>

EnfSuspend ==
    /\ enf.pc = "suspend"
    /\ SetSuspended(enf.entry.key, TRUE)
    /\ enf' = EnfIdle
    /\ UNCHANGED <<at, off, events, snaps, phase, seen, todo, bus, lock, ret, budget>>

EnfLock ==
    /\ enf.pc = "lock" /\ lock = "free"
    /\ lock' = "enf"
    /\ enf' = [enf EXCEPT !.pc = "apply"]
    /\ UNCHANGED <<at, off, events, mem, disk, snaps, phase, seen, todo, bus, ret, budget>>

EnfRelease == enf' = EnfIdle /\ lock' = "free"

EnfApply ==
    /\ enf.pc = "apply"
    /\ \/ /\ at[enf.port] # Nobody
          /\ off' = [off EXCEPT ![enf.port] = TRUE]
          /\ enf' = [enf EXCEPT !.pc = "path"] /\ lock' = lock
       \/ (at[enf.port] = Nobody \/ HwFaults) /\ EnfRelease /\ UNCHANGED off
    /\ UNCHANGED <<at, events, mem, disk, snaps, phase, seen, todo, bus, ret, budget>>

\* Mutant: the entry that was read before the mutex is stored again.
EnfRecordPathUpserting ==
    /\ enf.pc = "path"
    /\ IF enf.entry.path # enf.port
       THEN \E out \in SaveOutcomes : Upsert([enf.entry EXCEPT !.path = enf.port], out)
       ELSE UNCHANGED store
    /\ enf' = [enf EXCEPT !.pc = "clear"]
    /\ UNCHANGED <<at, off, events, snaps, phase, seen, todo, bus, lock, ret, budget>>

EnfRecordPath ==
    /\ enf.pc = "path"
    /\ IF enf.entry.path # enf.port
       THEN SetLastPath(enf.entry.key, enf.port)
       ELSE UNCHANGED store
    /\ enf' = [enf EXCEPT !.pc = "clear"]
    /\ UNCHANGED <<at, off, events, snaps, phase, seen, todo, bus, lock, ret, budget>>

EnfClear ==
    /\ enf.pc = "clear"
    /\ IF enf.entry.suspended THEN SetSuspended(enf.entry.key, FALSE) ELSE UNCHANGED store
    /\ EnfRelease
    /\ UNCHANGED <<at, off, events, snaps, phase, seen, todo, bus, ret, budget>>

-----------------------------------------------------------------------------
(* RequestProcessor: validate, guard, authorize, lock, snapshot, act.      *)

\* `entry': the entry disable stores or enable dropped; `pre' and `target': the
\* entry lists restore replaces and restores.
NewBus(verb, p, target) ==
    [pc |-> "auth", verb |-> verb, port |-> p, entry |-> NoEntry, pre |-> <<>>, target |-> target]

\* A verb that ends before it took applyMutex, and one that ends holding it.
Refuse(verb) == bus' = BusIdle /\ ret' = [verb |-> verb, ok |-> FALSE, entry |-> NoEntry]
ReplyLocked(ok) ==
    /\ bus' = BusIdle /\ lock' = "free"
    /\ ret' = [verb |-> bus.verb, ok |-> ok, entry |-> bus.entry]

\* canonicalContained and, for the risky verbs, the guard.
Guarded(verb) == verb \in {"disable", "unbind"}
DeviceVerbs == {"disable", "enable", "bind", "unbind"}

Request(verb, p) ==
    /\ phase = "up" /\ bus.pc = "idle" /\ budget.requests > 0
    /\ verb \in DeviceVerbs
    /\ at[p] # Nobody
    /\ budget' = [budget EXCEPT !.requests = @ - 1]
    /\ \/ /\ Guarded(verb) => DisableAllowed(p)
          /\ bus' = NewBus(verb, p, <<>>) /\ ret' = NoReturn
       \/ /\ Guarded(verb) /\ (~DisableAllowed(p) \/ HwFaults)
          /\ Refuse(verb)
    /\ UNCHANGED <<at, off, events, mem, disk, snaps, phase, seen, todo, enf, lock>>

\* snapshotCreate and snapshotRestore; the target is any stored snapshot.
RequestSnapshot(verb, target) ==
    /\ phase = "up" /\ bus.pc = "idle" /\ budget.requests > 0
    /\ IF verb = "restore" THEN target \in snaps ELSE verb = "create" /\ target = <<>>
    /\ budget' = [budget EXCEPT !.requests = @ - 1]
    /\ bus' = NewBus(verb, Nobody, target)
    /\ ret' = NoReturn
    /\ UNCHANGED <<at, off, events, mem, disk, snaps, phase, seen, todo, enf, lock>>

\* The polkit prompt: anything may happen while the user answers it.
Authorize ==
    /\ bus.pc = "auth"
    /\ \/ bus' = [bus EXCEPT !.pc = "lock"] /\ ret' = ret
       \/ Refuse(bus.verb)
    /\ UNCHANGED <<at, off, events, mem, disk, snaps, phase, seen, todo, enf, lock, budget>>

BusLock ==
    /\ bus.pc = "lock" /\ lock = "free"
    /\ lock' = "bus"
    /\ bus' = [bus EXCEPT !.pc = "snapshot"]
    /\ UNCHANGED <<at, off, events, mem, disk, snaps, phase, seen, todo, enf, ret, budget>>

\* Mutant: a failed snapshot does not refuse the verb.
BusSnapshotUnchecked ==
    /\ bus.pc = "snapshot"
    /\ snaps' \in {snaps \cup {mem}, snaps}
    /\ bus' = [bus EXCEPT !.pc = bus.verb]
    /\ UNCHANGED <<at, off, events, mem, disk, phase, seen, todo, enf, lock, ret, budget>>

\* snapshotBefore, or restore's own safety snapshot; a failure refuses.
BusSnapshot ==
    /\ bus.pc = "snapshot"
    /\ \/ /\ snaps' = snaps \cup {mem}
          /\ IF bus.verb = "create"
             THEN ReplyLocked(TRUE)
             ELSE /\ bus' = [bus EXCEPT !.pc = bus.verb,
                                     !.pre = IF bus.verb = "restore" THEN mem ELSE <<>>]
                  /\ UNCHANGED <<lock, ret>>
       \/ StoreFaults /\ ReplyLocked(FALSE) /\ UNCHANGED snaps
    /\ UNCHANGED <<at, off, events, mem, disk, phase, seen, todo, enf, budget>>

\* applyDisable: the key is made from the live device set, then the hardware
\* is written; the entry is stored in the next step.  When the enumerator
\* misses the device its key comes from sysfs attributes.
KeysToStore(p) ==
    {MakeKey(UdevId[at[p]], p, Present)}
      \cup (IF HwFaults THEN {PlainKey(SysfsId[at[p]], p)} ELSE {})

BusDisable ==
    /\ bus.pc = "disable"
    /\ \/ /\ at[bus.port] # Nobody
          /\ \E k \in KeysToStore(bus.port) :
               bus' = [bus EXCEPT !.pc = "upsert",
                                  !.entry = [key |-> k, path |-> bus.port, suspended |-> FALSE]]
          /\ off' = [off EXCEPT ![bus.port] = TRUE]
          /\ UNCHANGED <<lock, ret>>
       \/ (at[bus.port] = Nobody \/ HwFaults) /\ ReplyLocked(FALSE) /\ UNCHANGED off
    /\ UNCHANGED <<at, events, mem, disk, snaps, phase, seen, todo, enf, budget>>

\* Mutant: the result of the save is not looked at.
BusUpsertUnchecked ==
    /\ bus.pc = "upsert"
    /\ \E out \in SaveOutcomes : Upsert(bus.entry, out) /\ ReplyLocked(TRUE)
    /\ UNCHANGED <<at, off, events, snaps, phase, seen, todo, enf, budget>>

BusUpsert ==
    /\ bus.pc = "upsert"
    /\ \E out \in SaveOutcomes : Upsert(bus.entry, out) /\ ReplyLocked(out = "ok")
    /\ UNCHANGED <<at, off, events, snaps, phase, seen, todo, enf, budget>>

\* applyEnable deletes the first entry that concerns the device, then rebinds.
\* The keys of the store are distinct, so erasing a key erases one entry.
EntriesToDrop(p) ==
    {i \in DOMAIN mem : \/ mem[i].path = p
                        \/ at[p] # Nobody /\ Matches(mem[i].key, SysfsId[at[p]], p)}

\* Mutant: the device is rebound although its entry is still in state.json.
BusDropUnchecked ==
    /\ bus.pc = "enable"
    /\ \E i \in First(EntriesToDrop(bus.port)), out \in SaveOutcomes :
         /\ Save(RemoveAt(mem, i), out)
         /\ bus' = [bus EXCEPT !.pc = "rebind", !.entry = mem[i]]
    /\ UNCHANGED <<at, off, events, snaps, phase, seen, todo, enf, lock, ret, budget>>

BusDropEntry ==
    /\ bus.pc = "enable"
    /\ IF EntriesToDrop(bus.port) = {}
       THEN /\ bus' = [bus EXCEPT !.pc = "rebind", !.entry = NoEntry]
            /\ UNCHANGED <<mem, disk, lock, ret>>
       ELSE \E i \in First(EntriesToDrop(bus.port)), out \in SaveOutcomes :
              /\ Save(RemoveAt(mem, i), out)
              /\ IF out = "ok"
                 THEN /\ bus' = [bus EXCEPT !.pc = "rebind", !.entry = mem[i]]
                      /\ UNCHANGED <<lock, ret>>
                 ELSE ReplyLocked(FALSE)
    /\ UNCHANGED <<at, off, events, snaps, phase, seen, todo, enf, budget>>

\* A driver bound outside USB is reported by the kernel as a change of the device.
SwitchOn(p) ==
    /\ off' = [off EXCEPT ![p] = FALSE]
    /\ IF p \notin UsbPorts /\ off[p] THEN Reported(at[p], p) ELSE UNCHANGED events

BusRebind ==
    /\ bus.pc = "rebind"
    /\ \/ at[bus.port] # Nobody /\ SwitchOn(bus.port) /\ ReplyLocked(TRUE)
       \/ (at[bus.port] = Nobody \/ HwFaults) /\ ReplyLocked(FALSE) /\ UNCHANGED <<off, events>>
    /\ UNCHANGED <<at, mem, disk, snaps, phase, seen, todo, enf, budget>>

\* Surgical verbs: the driver link only, never the store.
BusBind ==
    /\ bus.pc = "bind"
    /\ \/ /\ at[bus.port] # Nobody
          /\ IF bus.port \in UsbPorts THEN UNCHANGED <<off, events>> ELSE SwitchOn(bus.port)
          /\ ReplyLocked(TRUE)
       \/ ReplyLocked(FALSE) /\ UNCHANGED <<off, events>>
    /\ UNCHANGED <<at, mem, disk, snaps, phase, seen, todo, enf, budget>>

BusUnbind ==
    /\ bus.pc = "unbind"
    /\ \/ /\ at[bus.port] # Nobody
          /\ off' = IF bus.port \in UsbPorts THEN off ELSE [off EXCEPT ![bus.port] = TRUE]
          /\ ReplyLocked(TRUE)
       \/ ReplyLocked(FALSE) /\ UNCHANGED off
    /\ UNCHANGED <<at, events, mem, disk, snaps, phase, seen, todo, enf, budget>>

-----------------------------------------------------------------------------
(* SnapshotService::restore, after its safety snapshot.                    *)

\* The entries restore dropped.
Removed == {e \in Range(bus.pre) : e.key \notin KeysOf(bus.target)}

\* replaceAll, then the enumeration reEnableRemoved works from.
RestoreReplace ==
    /\ bus.pc = "restore"
    /\ \E out \in SaveOutcomes :
         /\ Save(bus.target, out)
         /\ IF out = "ok"
            THEN /\ bus' = [bus EXCEPT !.pc = "reenable"] /\ todo' = Removed
                 /\ seen' \in Enumerations
                 /\ UNCHANGED <<lock, ret>>
            ELSE ReplyLocked(FALSE) /\ UNCHANGED <<todo, seen>>
    /\ UNCHANGED <<at, off, events, snaps, phase, enf, budget>>

\* The ports an entry may resolve to: what the enumeration lists, else the
\* stored path.  It may have been unplugged since.
Resolved(e) == IF Listed(e) # {} THEN Listed(e) ELSE {e.path}

\* One item of reEnableRemoved; a failure is reported and skipped.
RestoreEnable ==
    /\ bus.pc = "reenable"
    /\ \E e \in todo :
         /\ todo' = todo \ {e}
         /\ \E p \in Resolved(e) :
              \/ at[p] # Nobody /\ SwitchOn(p)
              \/ (at[p] = Nobody \/ HwFaults) /\ UNCHANGED <<off, events>>
    /\ UNCHANGED <<at, mem, disk, snaps, phase, seen, enf, bus, lock, ret, budget>>

RestoreEnabled ==
    /\ bus.pc = "reenable" /\ todo = {}
    /\ bus' = [bus EXCEPT !.pc = "reapply"]
    /\ todo' = Range(mem) /\ seen' \in Enumerations
    /\ UNCHANGED <<at, off, events, mem, disk, snaps, phase, enf, lock, ret, budget>>

\* reApplyOne's record of where the device is and that it is enforced again;
\* the two saves are taken as one.
Reapplied(e, p) ==
    LET new(x) == [x EXCEPT !.path = p,
                            !.suspended = IF e.suspended THEN FALSE ELSE x.suspended]
    IN IF e.path # p \/ e.suspended THEN Amend(e.key, new) ELSE UNCHANGED store

\* One item of reApplyRestored: skipped when already off or gone, suspended
\* when the guard refuses, disabled otherwise.
RestoreReapply ==
    /\ bus.pc = "reapply"
    /\ \E e \in todo :
         /\ todo' = todo \ {e}
         /\ \E p \in Resolved(e) :
              LET isOff == IF p \in DOMAIN seen THEN seen[p].off ELSE off[p]
              IN \/ (isOff \/ at[p] = Nobody \/ HwFaults) /\ UNCHANGED <<off, mem, disk>>
                 \/ /\ ~isOff /\ ~DisableAllowed(p)
                    /\ SetSuspended(e.key, TRUE) /\ UNCHANGED off
                 \/ /\ ~isOff /\ DisableAllowed(p) /\ at[p] # Nobody
                    /\ off' = [off EXCEPT ![p] = TRUE]
                    /\ Reapplied(e, p)
    /\ UNCHANGED <<at, events, snaps, phase, seen, enf, bus, lock, ret, budget>>

RestoreEnd ==
    /\ bus.pc = "reapply" /\ todo = {}
    /\ ReplyLocked(TRUE)
    /\ seen' = <<>>
    /\ UNCHANGED <<at, off, events, mem, disk, snaps, phase, todo, enf, budget>>

-----------------------------------------------------------------------------
Environment ==
    \/ \E u \in Units, p \in Ports : Plug(u, p)
    \/ \E p \in Ports : Unplug(p)
    \/ Crash

Startup == Load \/ SweepVisit \/ MonitorStart

Enforcement ==
    HotplugEvent \/ EnfProbe \/ EnfSuspend \/ EnfLock \/ EnfApply \/ EnfRecordPath \/ EnfClear

Client ==
    \/ \E verb \in Verbs, p \in Ports : Request(verb, p)
    \/ \E verb \in Verbs, target \in snaps \cup {<<>>} : RequestSnapshot(verb, target)

\* The verb in progress, once the user has answered the polkit prompt.
Verb ==
    \/ BusLock \/ BusSnapshot
    \/ BusDisable \/ BusUpsert \/ BusDropEntry \/ BusRebind \/ BusBind \/ BusUnbind
    \/ RestoreReplace \/ RestoreEnable \/ RestoreEnabled \/ RestoreReapply \/ RestoreEnd

Next == Environment \/ Startup \/ Enforcement \/ Client \/ Authorize \/ Verb

Spec == Init /\ [][Next]_vars

\* The daemon's threads run.  Nothing obliges hardware to change, a client to
\* call, or a user to answer a prompt.
FairSpec == Spec /\ WF_vars(Startup) /\ WF_vars(Enforcement) /\ WF_vars(Verb)

-----------------------------------------------------------------------------
(* Properties.                                                             *)

EnfPcs == {"probe", "suspend", "lock", "apply", "path", "clear"}
BusPcs == {"auth", "lock", "snapshot", "disable", "upsert", "enable", "rebind", "bind", "unbind",
           "create", "restore", "reenable", "reapply"}

EnfWork == [pc : EnfPcs, entry : Entries, port : Ports]
BusWork == [pc : BusPcs, verb : Verbs, port : Ports \cup {Nobody},
            entry : {NoEntry} \cup Entries, pre : Seq(Entries), target : Seq(Entries)]
Returns == [verb : Verbs \cup {"none"}, ok : BOOLEAN, entry : {NoEntry} \cup Entries]

HardwareType ==
    /\ at \in [Ports -> Units \cup {Nobody}]
    /\ off \in [Ports -> BOOLEAN]
    /\ events \in Seq(Reports)
StoreType ==
    /\ mem \in Seq(Entries) /\ disk \in Seq(Entries)
    /\ snaps \subseteq Seq(Entries)
WorkType ==
    /\ phase \in {"down", "sweep", "up"}
    /\ DOMAIN seen \subseteq Ports
    /\ todo \subseteq Entries
    /\ enf \in {EnfIdle} \cup EnfWork
BusType ==
    /\ bus \in {BusIdle} \cup BusWork
    /\ ret \in Returns
VerbType ==
    bus.pc # "idle" =>
        /\ bus.verb \in DeviceVerbs => bus.port \in Ports
        /\ bus.pc \in DeviceVerbs => bus.verb = bus.pc
        /\ bus.pc = "upsert" => bus.verb = "disable" /\ bus.entry # NoEntry
        /\ bus.pc = "rebind" => bus.verb = "enable"
        /\ bus.pc \in {"restore", "reenable", "reapply"} => bus.verb = "restore"
LockType ==
    /\ lock \in {"free", "enf", "bus"}
    /\ lock = "enf" <=> enf.pc \in {"apply", "path", "clear"}
    /\ lock = "bus" <=> bus.pc \notin {"idle", "auth", "lock"}

\* Every variable stays in its type, and applyMutex is held exactly by the
\* thread that is between its lock and its release.
TypeOK == HardwareType /\ StoreType /\ WorkType /\ BusType /\ VerbType /\ LockType

\* The device behind the root or boot filesystem is never disabled: not by a
\* verb whose guard ran before the prompt, not by enforcement matching it by a
\* stale path, not by a restore, with any faults, replugs and crashes.
RootStaysOn == \A p \in Ports : at[p] \in RootUnits => ~off[p]

\* "Universal, persistent enable/disable": a disable that reported success is
\* in state.json, whatever enforcement saves or fails to save afterwards.
DisableIsDurable ==
    ret.verb = "disable" /\ ret.ok => ret.entry.key \in KeysOf(disk)

\* applyEnable deletes the entry first, then rebinds: by the time the device is
\* rebound its entry is gone from memory and from state.json, so the bind event
\* the rebind causes, or a crash, cannot bring the disable back.
EntryGoneBeforeRebind ==
    bus.pc = "rebind" /\ bus.entry # NoEntry =>
        bus.entry.key \notin KeysOf(mem) \cup KeysOf(disk)

\* No mutation without its safety net: whenever the set of disabled devices
\* changes, the set it replaces is held by a stored snapshot, whatever
\* enforcement did between the capture and the change.
UndoStep ==
    phase = "up" /\ phase' = "up" /\ KeysOf(mem') # KeysOf(mem) =>
        \E s \in snaps : KeysOf(s) = KeysOf(mem)
UndoPossible == [][UndoStep]_vars

\* The set of disabled devices, in memory and in state.json, is the one DisabledSet
\* promises: only the verb that holds applyMutex changes it, whatever fails, and
\* enforcement, which rewrites entries between the verbs, adds none and drops none.
CallAt ==
    CASE bus.pc = "idle" -> "none"
      [] bus.pc \in {"rebind", "reenable", "reapply"} -> "done"
      [] OTHER -> "asked"
KeyOf(entry) == IF entry = NoEntry THEN NoEntry ELSE entry.key
CallNow ==
    IF bus.pc = "idle" THEN [at |-> "none", verb |-> "none", key |-> NoEntry, target |-> {}]
    ELSE [at |-> CallAt, verb |-> bus.verb, target |-> KeysOf(bus.target),
          key |-> IF CallAt = "done" THEN KeyOf(bus.entry) ELSE NoEntry]
AnswerNow ==
    [verb |-> ret.verb, ok |-> ret.ok, key |-> IF ret.ok THEN KeyOf(ret.entry) ELSE NoEntry]
PersistedSet == INSTANCE DisabledSet
    WITH Keys <- DeviceKeys, NoKey <- NoEntry, call <- CallNow, answer <- AnswerNow,
         wanted <- KeysOf(IF phase = "down" THEN disk ELSE mem), saved <- KeysOf(disk),
         nets <- {KeysOf(s) : s \in snaps}
SetIsKept == PersistedSet!Spec

\* An entry in force covers the device at p, which is enabled and which the
\* guard would let be disabled.
Covered(p) ==
    /\ at[p] # Nobody /\ ~off[p] /\ DisableAllowed(p)
    /\ \E i \in DOMAIN mem : ~mem[i].suspended /\ Matches(mem[i].key, UdevId[at[p]], p)
InForce(p) == phase = "up" /\ Covered(p)

\* A device that reappears while its event is queued is disabled again (or its
\* entry goes or is suspended, or the guard comes to refuse, or the device
\* leaves), however the verbs contend for applyMutex.
Queued(p) == InForce(p) /\ \E i \in DOMAIN events : events[i] = Report(at[p], p)
QueuedDeviceIsEnforced == \A p \in Ports : Queued(p) ~> ~InForce(p)

\* The startup sweep disables every device its entries cover, unless the entry
\* of that device still stores a path where another device sits now.
Shadowed(p) ==
    \E i \in DOMAIN mem :
        /\ Matches(mem[i].key, UdevId[at[p]], p)
        /\ mem[i].path # p /\ at[mem[i].path] # Nobody
RestartEnforces ==
    \A p \in Ports : (phase = "sweep" /\ Covered(p) /\ ~Shadowed(p)) ~> ~Covered(p)

-----------------------------------------------------------------------------
(* Statements of the repository's documents that the code does not meet.   *)

\* "The apply mutex serializes every controller/store ACTION with
\* EnforcementService": at rest every disabled device has an entry.  The entry
\* is read before the mutex is taken, so a device enabled meanwhile is disabled
\* again without one.
AtRest == phase = "up" /\ bus.pc = "idle" /\ enf.pc = "idle" /\ events = <<>>
NoStrayDisable ==
    AtRest => \A p \in PresentPorts : off[p] =>
        \E i \in DOMAIN mem : Concerns(mem[i], UdevId[at[p]], p)

\* README: a disabled device stays disabled across daemon restarts.  The sweep
\* takes the first device that has the key or sits at the stored path, so a
\* device that moved while another took its place is not disabled.
RestartSticks == \A p \in Ports : (phase = "sweep" /\ Covered(p)) ~> ~Covered(p)

\* "Enabling a device deletes its entry": only the first entry that concerns
\* the device is deleted, and the key is compared with the serial sysfs shows,
\* which is not the one udev made the key from.
EnableStep ==
    bus.pc = "rebind" /\ ret' # ret /\ ret'.ok =>
        \A i \in DOMAIN mem : ~Matches(mem[i].key, UdevId[at[bus.port]], bus.port)
EnableDeletesEntry == [][EnableStep]_vars
=============================================================================
