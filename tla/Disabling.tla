----------------------------- MODULE Disabling ------------------------------
(***************************************************************************)
(* What the guard protects, on a tree of devices: the criticality prober,  *)
(* the verbs that switch devices off (disable, unbind, unload) between     *)
(* their guard and their effect, and the mounts and input devices that     *)
(* change meanwhile.                                                       *)
(*                                                                         *)
(* Switching a device off takes everything below it away: the hub's ports, *)
(* the controller's disks.  What devmgrd stores of it is in Devmgrd.       *)
(***************************************************************************)
EXTENDS Guard

CONSTANTS
    Devices,        \* the paths of the devices a verb may name
    Blocks,         \* the block devices
    Slaves,         \* those each one is stacked on; partitions and disks have none
    BlockDir,       \* the path of each one
    Sources,        \* what may be mounted: a block device, or something unnamed
    KeyboardInputs, PointerInputs,  \* the paths of the input devices of each kind
    Drivers, Drives,        \* modules, and the devices each one drives
    MaxEvents, MaxVerbs     \* bounds

\* A stacked block device is virtual: it lies below no device.
ASSUME DisablingAssumption ==
    /\ Slaves \in [Blocks -> SUBSET Blocks]
    /\ Drives \in [Drivers -> SUBSET Devices]
    /\ MaxEvents \in Nat /\ MaxVerbs \in Nat
    /\ \A b \in Blocks, d \in Devices : Slaves[b] # {} => ~isUnder(BlockDir[b], d)

VARIABLES
    off,            \* the devices that are switched off
    mounts,         \* /proc/self/mounts: [source, target]
    inputs,         \* the input devices that are plugged in
    events,         \* changes of mounts and inputs so far
    request,        \* the verb devmgrd has in hand
    verbs,          \* verbs so far
    late,           \* history: mounts that were made while a verb was in hand
    moved           \* history: inputs changed since the verb in hand began

disablingVars == <<off, mounts, inputs, events, request, verbs, late, moved>>

\* The mounts the prober looks for; others are anybody's.
RootTargets == {"/"}
BootTargets == {"/boot", "/boot/efi"}
Protected == RootTargets \cup BootTargets
Mounts == [source : Sources, target : Protected]
NoRequest == [at |-> "idle", verb |-> "none", targets |-> {}]
OneDevice == {"disable", "unbind"}

\* What is below a device that is off is not there.
GoneIn(s, path) == \E d \in s : isUnder(path, d)
IsGone(path) == GoneIn(off, path)
LiveIn(paths, s) == {p \in paths : ~GoneIn(s, p)}
Live(paths) == LiveIn(paths, off)

\* The block devices b is made of, b included.
MadeOf(b) ==
    {c \in Blocks : \A S \in SUBSET Blocks :
        (b \in S /\ \A x \in S : Slaves[x] \subseteq S) => c \in S}
Working(b) == \A c \in MadeOf(b) : ~IsGone(BlockDir[c])

InitDisabling ==
    /\ off = {}
    /\ mounts \in {{m} : m \in {x \in Mounts : x.target \in RootTargets}}
    /\ inputs = KeyboardInputs \cup PointerInputs
    /\ events = 0 /\ request = NoRequest /\ verbs = 0 /\ late = {} /\ moved = FALSE

-----------------------------------------------------------------------------
(* LinuxCriticalityProber.                                                 *)

\* Mutant: the first level of the stack is not descended.
ExpandOneLevel(b) ==
    IF Slaves[b] = {} THEN {BlockDir[b]} ELSE {BlockDir[c] : c \in Slaves[b]}

\* The paths of the bottom of the stack.
expandBlock(b) == {BlockDir[c] : c \in {x \in MadeOf(b) : Slaves[x] = {}}}

\* A source that names no block device is passed over.
collectStorageFacts(targets) ==
    UNION {expandBlock(m.source) : m \in {x \in mounts : x.target \in targets /\ x.source \in Blocks}}

collectInputFacts(kind) == Live(inputs \cap kind)

probe ==
    NewFacts(collectStorageFacts(RootTargets), collectStorageFacts(BootTargets),
             collectInputFacts(KeyboardInputs), collectInputFacts(PointerInputs))

-----------------------------------------------------------------------------
(* The environment.                                                        *)

Changed == events < MaxEvents /\ events' = events + 1
Pending == request # NoRequest

\* Something is mounted, by hand or when /boot is looked into, ...
Mount(m) ==
    /\ Changed
    /\ m \notin mounts
    /\ m.source \in Blocks => Working(m.source)
    /\ mounts' = mounts \cup {m}
    /\ late' = IF Pending THEN late \cup {m} ELSE late \ {m}
    /\ UNCHANGED <<off, inputs, request, verbs, moved>>

\* ... or unmounted, ...
Unmount(m) ==
    /\ Changed
    /\ m \in mounts /\ m.target \notin RootTargets
    /\ mounts' = mounts \ {m}
    /\ UNCHANGED <<off, inputs, request, verbs, late, moved>>

\* ... and a keyboard is plugged in or out.
Replug(p) ==
    /\ Changed
    /\ inputs' = (inputs \ {p}) \cup ({p} \ inputs)
    /\ moved' = (moved \/ Pending)
    /\ UNCHANGED <<off, mounts, request, verbs, late>>

-----------------------------------------------------------------------------
(* RequestProcessor: the guard, then the prompt, then the effect.          *)

\* The directory of a device is there unless one above it is off.
Exists(d) == ~GoneIn(off \ {d}, d)
Driven(m) == {d \in Drives[m] : d \notin off /\ Exists(d)}

Start(verb, targets) ==
    /\ ~Pending /\ verbs < MaxVerbs
    /\ verbs' = verbs + 1
    /\ request' = [at |-> "prompt", verb |-> verb, targets |-> targets]
    /\ moved' = FALSE
    /\ UNCHANGED <<off, mounts, inputs, events, late>>

\* setDeviceEnabled and unbindDriver; what the guard refuses changes nothing.
StartDisable(verb, d) ==
    /\ verb \in OneDevice /\ Exists(d)
    /\ evaluateDisable(probe, d)
    /\ Start(verb, {d})

StartEnable(d) == Exists(d) /\ Start("enable", {d})

\* unloadModule; the use count is whatever the kernel says.
StartUnload(m) ==
    /\ \E used \in BOOLEAN : evaluateModuleUnload(probe, used, Driven(m))
    /\ Start("unload", Driven(m))

\* A device that is switched off takes its children with it; they come back with it.
BelowIn(s, d) == {c \in s : c # d /\ isUnder(c, d)}
Switched ==
    IF request.verb = "enable" THEN off \ request.targets
    ELSE request.targets \cup (off \ UNION {BelowIn(off, d) : d \in request.targets})

\* After the prompt, the lock and the snapshot: the verb takes effect, or it fails,
\* or the user declines.
Effect ==
    /\ Pending
    /\ off' \in {off, Switched}
    /\ request' = NoRequest
    /\ UNCHANGED <<mounts, inputs, events, verbs, late, moved>>

-----------------------------------------------------------------------------
DisablingNext ==
    \/ \E m \in Mounts : Mount(m) \/ Unmount(m)
    \/ \E p \in KeyboardInputs \cup PointerInputs : Replug(p)
    \/ \E d \in Devices : StartEnable(d) \/ \E verb \in OneDevice : StartDisable(verb, d)
    \/ \E m \in Drivers : StartUnload(m)
    \/ Effect

DisablingSpec == InitDisabling /\ [][DisablingNext]_disablingVars

-----------------------------------------------------------------------------
\* The type invariant.
DisablingTypeOK ==
    /\ off \subseteq Devices
    /\ mounts \subseteq Mounts /\ late \subseteq Mounts
    /\ inputs \subseteq KeyboardInputs \cup PointerInputs
    /\ request \in [at : {"idle", "prompt"}, verb : OneDevice \cup {"none", "enable", "unload"},
                    targets : SUBSET Devices]
    /\ events \in Nat /\ verbs \in Nat /\ moved \in BOOLEAN

\* critical_device_guard.hpp, over any sequence of verbs: what is mounted as root or
\* boot keeps every device it is made of, down through the stack and wherever the
\* target of a verb is in the tree, but for what is mounted during a prompt.
StorageStays == \A m \in mounts \ late : m.source \in Blocks => Working(m.source)

\* No verb on a device takes the last keyboard or the last pointer away, also when it
\* is a hub that holds all of them; a prompt during which input devices come and go
\* is the only exception.
InputKept ==
    [][\A kind \in {KeyboardInputs, PointerInputs} :
         (Pending /\ request.verb \in OneDevice /\ ~moved /\ Live(inputs \cap kind) # {})
           => LiveIn(inputs \cap kind, off') # {}]_disablingVars
=============================================================================
