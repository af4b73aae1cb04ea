------------------------------ MODULE Requests ------------------------------
(***************************************************************************)
(* A module verb from a client's worker thread to the kernel: the D-Bus    *)
(* channel with its cached API version and its timeouts, the calls that    *)
(* wait for devmgrd's one event loop thread, the guard, the prompt, and    *)
(* what libkmod does.                                                      *)
(*                                                                         *)
(* devmgrd answers one call at a time, and a call that waits for the       *)
(* user's password holds up every other one.                               *)
(***************************************************************************)
EXTENDS Wire, Guard

CONSTANTS
    Modules,        \* the kernel modules
    Deps,           \* the modules each one needs
    Rejected,       \* the modules the kernel refuses to insert, unsigned ones
    Blacklisted, Ruled, \* those modprobe.d blacklists, or gives an install rule
    Devs, DriverOf, \* the paths of the devices, and the module of each one's driver
    Keyboards, Roots,   \* the keyboards, the disks behind the root file system
    Workers,        \* the threads of the client's TaskScheduler
    CallBudget,     \* how long a client waits for a verb (2 minutes)
    PromptBudget,   \* how long devmgrd waits for polkit (110 s)
    MaxChanges, MaxRequests, MaxRestarts    \* bounds

\* A caller that gave up.
Nobody == "nobody"

\* modules.dep lists for a module all that it needs, at any remove.
ASSUME RequestsAssumption ==
    /\ Deps \in [Modules -> SUBSET Modules] /\ DriverOf \in [Devs -> Modules]
    /\ \A m \in Modules : \A d \in Deps[m] : Deps[d] \subseteq Deps[m]
    /\ Nobody \notin Workers
    /\ {CallBudget, PromptBudget, MaxChanges, MaxRequests, MaxRestarts} \subseteq Nat
    /\ 0 < PromptBudget /\ PromptBudget < CallBudget

VARIABLES
    loaded,         \* the modules in the kernel
    present,        \* the devices that are plugged in
    inUse,          \* the modules with a use count
    changes,        \* changes of present and inUse so far
    api,            \* the ApiVersion of the devmgrd that runs
    restarts,       \* restarts of devmgrd so far
    queue,          \* the calls devmgrd has not finished, the first one in hand
    serving,        \* how far it is with the first one
    lasting,        \* the devices that were bound and critical since it began
    cachedApi,      \* DbusPrivilegedChannel::cachedApi_, 0 when not set
    thread,         \* what each worker of the client is at
    tasks,          \* TaskScheduler: the tasks no worker has taken
    requests        \* verbs of the user so far

kernel == <<loaded, present, inUse, changes>>
daemon == <<api, restarts, queue, serving, lasting>>
client == <<cachedApi, thread, tasks, requests>>
requestVars == <<kernel, daemon, client>>

\* left is the time a call has left, told the API version it was answered.
Idle == [at |-> "idle", verb |-> "none", name |-> "none", left |-> 0, told |-> 0, code |-> "none"]
At(w, step) == thread[w].at = step
NotServing == [at |-> "idle", left |-> 0, used |-> FALSE, affected |-> {}]

\* At the start what goes with a rejected module is not in the kernel.
Needed(m) == {m} \cup Deps[m]
InitRequests ==
    /\ loaded = {m \in Modules : \A r \in Rejected \cap Modules : Needed(m) \cap Needed(r) = {}}
    /\ present = Devs /\ inUse = {} /\ changes = 0
    /\ api \in {1, 4} /\ restarts = 0 /\ queue = <<>> /\ serving = NotServing /\ lasting = {}
    /\ cachedApi = 0 /\ thread = [w \in Workers |-> Idle] /\ tasks = <<>> /\ requests = 0

-----------------------------------------------------------------------------
(* The kernel.                                                             *)

Holders(m) == {h \in loaded : m \in Deps[h]}
Bound(mods, devs) == {d \in devs : DriverOf[d] \in mods}
Using(m) == {d \in Bound(loaded, present) : DriverOf[d] = m}

\* LinuxCriticalityProber::probe; a device without its driver has no children.
Facts(mods, devs) == NewFacts(Bound(mods, devs) \cap Roots, {}, Bound(mods, devs) \cap Keyboards, {})
Critical(mods, devs) == {d \in Bound(mods, devs) : ~evaluateDisable(Facts(mods, devs), d)}

\* A device is plugged in or out, or a module is put to use or released.
Touch ==
    /\ changes < MaxChanges /\ changes' = changes + 1
    /\ \/ /\ \E d \in Devs : present' = (present \ {d}) \cup ({d} \ present)
          /\ UNCHANGED inUse
       \/ /\ \E m \in loaded : inUse' = (inUse \ {m}) \cup ({m} \ inUse)
          /\ UNCHANGED present
    /\ lasting' = lasting \cap Critical(loaded, present')
    /\ UNCHANGED <<loaded, api, restarts, queue, serving, client>>

\* KmodDriverManager::loadModule: the modules in the kernel after it and the code it
\* answers.  Dependencies go in first, and stay in when a later insertion fails.
Fine(mods) == [loaded |-> mods, code |-> "ok"]
Failed(code) == [loaded |-> loaded, code |-> code]
LoadOutcomes(m) ==
    LET wanted == Needed(m) \ loaded IN
    CASE m \notin Modules -> {Failed("NotFound")}
      [] m \in Ruled -> {Failed("Unsupported")}
      [] m \in Modules \ Ruled /\ m \in loaded -> {Fine(loaded)}
      [] m \in Blacklisted \ (Ruled \cup loaded) -> {Failed("Unsupported")}
      [] m \in Modules \ (Ruled \cup loaded \cup Blacklisted) ->
           IF wanted \cap Rejected = {} THEN {Fine(loaded \cup wanted)}
           ELSE {[loaded |-> loaded \cup some, code |-> "Permission"] :
                   some \in {s \in SUBSET (wanted \ (Rejected \cup {m})) :
                               \A d \in s : Deps[d] \subseteq loaded \cup s}}

\* KmodDriverManager::unloadModule: the kernel refuses a module that is in use.  One
\* that is built in is in no list of loaded modules, and Begin has refused it already.
UnloadOutcomes(m) ==
    CASE m \notin loaded -> {Failed("NotFound")}
      [] m \in loaded /\ (Holders(m) # {} \/ m \in inUse) -> {Failed("Busy")}
      [] OTHER -> {Fine(loaded \ {m})}

-----------------------------------------------------------------------------
(* devmgrd.                                                                *)

Call == Head(queue)
Serving(step) == queue # <<>> /\ serving.at = step

\* The answer; the caller may have given up.
Answer(reply) ==
    /\ queue' = Tail(queue) /\ serving' = NotServing /\ lasting' = {}
    /\ thread' = IF Call.caller = Nobody THEN thread ELSE [thread EXCEPT ![Call.caller] = reply]
Caller == thread[Call.caller]
Failure(t, code) == [t EXCEPT !.at = "publish", !.code = code, !.left = 0]
Refuse(code) == Answer(Failure(Caller, CoreError(ErrorName(code))))
Ask == serving' = [serving EXCEPT !.at = "prompt", !.left = PromptBudget]
Stay == UNCHANGED <<queue, lasting, thread>>

\* The property ApiVersion.
AnswerApi ==
    /\ Serving("idle") /\ Call.verb = "ApiVersion"
    /\ Answer([Caller EXCEPT !.at = "told", !.told = api, !.left = 0])
    /\ UNCHANGED <<kernel, api, restarts, cachedApi, tasks, requests>>

\* loadModule and unloadModule look at the argument first; an unload then lists
\* the loaded modules and the devices that use this one, either of which may fail, ...
Begin ==
    /\ Serving("idle") /\ Call.verb # "ApiVersion"
    /\ LET m == Call.name IN
         \/ m = "strange" /\ Refuse("InvalidArgs")
         \/ m # "strange" /\ Call.verb = "load" /\ Ask /\ Stay
         \/ m # "strange" /\ Call.verb = "unload" /\ m \notin loaded /\ Refuse("NotFound")
         \/ m # "strange" /\ Call.verb = "unload" /\ Refuse("Io")
         \/ /\ Call.verb = "unload" /\ m \in loaded
            /\ serving' = [serving EXCEPT !.at = "probe", !.affected = Using(m),
                             !.used = Holders(m) # {} \/ m \in inUse]
            /\ lasting' = Critical(loaded, present)
            /\ UNCHANGED <<queue, thread>>
    /\ UNCHANGED <<kernel, api, restarts, cachedApi, tasks, requests>>

\* Mutant: only what backs the root file system counts.
VerdictRootsOnly == ~serving.used /\ serving.affected \cap Roots = {}

\* ... evaluateModuleUnload with what the prober says after that, if it can, ...
Verdict == evaluateModuleUnload(Facts(loaded, present), serving.used, serving.affected)
Probe ==
    /\ Serving("probe")
    /\ \/ IF Verdict THEN Ask /\ Stay ELSE Refuse("Conflict")
       \/ Refuse("Io")
    /\ UNCHANGED <<kernel, api, restarts, cachedApi, tasks, requests>>

\* ... then polkit: the user answers in time, or nobody does, ...
Authorize ==
    /\ Serving("prompt")
    /\ \/ serving' = [serving EXCEPT !.at = "act"] /\ Stay
       \/ Refuse("Permission")
       \/ serving.left = 0 /\ Refuse("Io")
    /\ UNCHANGED <<kernel, api, restarts, cachedApi, tasks, requests>>

\* ... then, under the apply mutex, the snapshot, which may fail, and the kernel.
Outcomes == IF Call.verb = "load" THEN LoadOutcomes(Call.name) ELSE UnloadOutcomes(Call.name)
Act ==
    /\ Serving("act")
    /\ \E o \in Outcomes \cup {Failed("Io")} :
         /\ loaded' = o.loaded /\ inUse' = inUse \cap o.loaded
         /\ IF o.code = "ok" THEN Answer([Caller EXCEPT !.at = "publish", !.code = "ok", !.left = 0])
                             ELSE Refuse(o.code)
    /\ UNCHANGED <<present, changes, api, restarts, cachedApi, tasks, requests>>

\* Time passes while a prompt is open; everything else is quick.
Waiting(w) == At(w, "asking") \/ At(w, "calling")
Tick ==
    /\ Serving("prompt") /\ serving.left > 0
    /\ \A w \in Workers : Waiting(w) => thread[w].left > 0
    /\ serving' = [serving EXCEPT !.left = @ - 1]
    /\ thread' = [w \in Workers |->
         IF Waiting(w) THEN [thread[w] EXCEPT !.left = @ - 1] ELSE thread[w]]
    /\ UNCHANGED <<kernel, api, restarts, queue, lasting, cachedApi, tasks, requests>>

\* devmgrd is restarted, perhaps by an upgrade, and its callers hear of it.
Restart ==
    /\ restarts < MaxRestarts /\ restarts' = restarts + 1
    /\ api' \in {api, 4}
    /\ queue' = <<>> /\ serving' = NotServing /\ lasting' = {}
    /\ thread' = [w \in Workers |->
         IF Waiting(w) THEN Failure(thread[w], CoreError("NoReply")) ELSE thread[w]]
    /\ UNCHANGED <<kernel, cachedApi, tasks, requests>>

-----------------------------------------------------------------------------
(* The channel, on the worker of the verb.                                 *)

\* A property read is given up sooner than a verb.
Send(w, t, step, verb, budget) ==
    /\ queue' = Append(queue, [caller |-> w, verb |-> verb, name |-> t.name])
    /\ thread' = [thread EXCEPT ![w] = [t EXCEPT !.at = step, !.left = budget]]

\* ensureApi with the version v it knows: too old, or the verb is called.
Checked(w, t, v) ==
    IF v < ApiNeeded(t.verb)
    THEN thread' = [thread EXCEPT ![w] = Failure(t, "Unsupported")] /\ UNCHANGED queue
    ELSE Send(w, t, "calling", t.verb, CallBudget)

\* runChannelTask: the version is asked for once, ...
TakeVerb(w) ==
    /\ At(w, "idle") /\ tasks # <<>> /\ Head(tasks).verb \in {"load", "unload"}
    /\ tasks' = Tail(tasks)
    /\ LET t == [Idle EXCEPT !.verb = Head(tasks).verb, !.name = Head(tasks).name] IN
         IF cachedApi = 0 THEN Send(w, t, "asking", "ApiVersion", 1) ELSE Checked(w, t, cachedApi)
    /\ UNCHANGED <<kernel, api, restarts, serving, lasting, cachedApi, requests>>

\* ... and kept for as long as the client runs.
KeepApi(w) ==
    /\ At(w, "told")
    /\ cachedApi' = thread[w].told
    /\ Checked(w, thread[w], thread[w].told)
    /\ UNCHANGED <<kernel, api, restarts, serving, lasting, tasks, requests>>

\* A call is given up; devmgrd does not know.
Timeout(w) ==
    /\ Waiting(w) /\ thread[w].left = 0
    /\ thread' = [thread EXCEPT ![w] = Failure(@, CoreError("Timeout"))]
    /\ queue' = [i \in DOMAIN queue |->
         IF queue[i].caller = w THEN [queue[i] EXCEPT !.caller = Nobody] ELSE queue[i]]
    /\ UNCHANGED <<kernel, api, restarts, serving, lasting, cachedApi, tasks, requests>>

Devmgrd == AnswerApi \/ Begin \/ Probe \/ Authorize \/ Act
Channel(w) == TakeVerb(w) \/ KeepApi(w) \/ Timeout(w)
=============================================================================
