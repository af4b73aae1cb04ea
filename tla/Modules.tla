------------------------------ MODULE Modules -------------------------------
(***************************************************************************)
(* The modules half of a client: ModulesVM, its signature fill on a worker *)
(* thread, the facade's module verbs and the events they publish, and the  *)
(* teardown.                                                               *)
(***************************************************************************)
EXTENDS Requests

CONSTANTS Names     \* what a user may ask to load

VARIABLES
    vm,             \* ModulesVM; fill names the fill sigFill_ is the future of
    fills,          \* the outstanding fills and the worker each one is on
    posted,         \* the closures posted to the user interface thread
    loop            \* the event loop, then the teardown

vars == <<requestVars, vm, fills, posted, loop>>

Init ==
    /\ InitRequests
    /\ vm = [list |-> {}, cells |-> {}, queued |-> FALSE, fill |-> 0, alive |-> TRUE]
    /\ fills = {} /\ posted = <<>> /\ loop = "running"

-----------------------------------------------------------------------------
(* The user.                                                               *)

UiIdle == loop = "running"
MayAsk == UiIdle /\ requests < MaxRequests /\ requests' = requests + 1

AskLoad(name) ==
    /\ MayAsk
    /\ tasks' = Append(tasks, [verb |-> "load", name |-> name])
    /\ UNCHANGED <<kernel, daemon, cachedApi, thread, vm, fills, posted, loop>>

\* canUnloadModule, the client's own advisory, has the rules of devmgrd's guard.
Advised(m) ==
    evaluateModuleUnload(Facts(loaded, present), Holders(m) # {} \/ m \in inUse, Using(m))
AskUnload(m) ==
    /\ MayAsk /\ m \in vm.list /\ Advised(m)
    /\ tasks' = Append(tasks, [verb |-> "unload", name |-> m])
    /\ UNCHANGED <<kernel, daemon, cachedApi, thread, vm, fills, posted, loop>>

\* fillSignatures: nothing while a fill is outstanding, else one for the modules
\* of the list that have no cell.
Outstanding(id) == \E f \in fills : f.id = id
StartFill(v, id) ==
    /\ vm' = [v EXCEPT !.fill = id]
    /\ fills' = fills \cup {[id |-> id, names |-> v.list \ v.cells, by |-> Nobody]}
    /\ tasks' = Append(tasks, [verb |-> "fill", name |-> "none"])
Filled(v) == vm' = v /\ UNCHANGED <<fills, tasks>>

\* Mutant: a fill that is outstanding is not looked for.
FillSignaturesAnyway(v, id) ==
    IF v.list \subseteq v.cells THEN Filled([v EXCEPT !.fill = 0]) ELSE StartFill(v, id)

FillSignatures(v, id) ==
    IF Outstanding(v.fill) THEN Filled(v)
    ELSE IF v.list \subseteq v.cells THEN Filled([v EXCEPT !.fill = 0])
    ELSE StartFill(v, id)

\* Entering the tab rebuilds the list and fills the signatures.
OpenView ==
    /\ MayAsk
    /\ FillSignatures([vm EXCEPT !.list = loaded], requests + 1)
    /\ UNCHANGED <<kernel, daemon, cachedApi, thread, posted, loop>>

-----------------------------------------------------------------------------
(* The workers.                                                            *)

TakeFill(w) ==
    /\ At(w, "idle") /\ tasks # <<>> /\ Head(tasks).verb = "fill"
    /\ tasks' = Tail(tasks)
    /\ thread' = [thread EXCEPT ![w].at = "filling"]
    /\ \E f \in fills :
         /\ f.by = Nobody /\ \A g \in fills : g.by = Nobody => f.id <= g.id
         /\ fills' = (fills \ {f}) \cup {[f EXCEPT !.by = w]}
    /\ UNCHANGED <<kernel, daemon, cachedApi, requests, vm, posted, loop>>

\* The worker has read the modules' files and posts what it found.
FillDone(w) ==
    /\ At(w, "filling")
    /\ thread' = [thread EXCEPT ![w] = Idle]
    /\ \E f \in fills :
         /\ f.by = w /\ fills' = fills \ {f}
         /\ posted' = Append(posted, f.names)
    /\ UNCHANGED <<kernel, daemon, cachedApi, tasks, requests, vm, loop>>

\* A verb that succeeded is followed by ModulesChangedEvent: onModulesChanged posts
\* a rebuild, without modules to merge, unless one is posted.
Publish(w) ==
    /\ At(w, "publish")
    /\ thread' = [thread EXCEPT ![w] = Idle]
    /\ IF thread[w].code = "ok"
       THEN /\ vm' = [vm EXCEPT !.queued = TRUE]
            /\ posted' = IF vm.queued THEN posted ELSE Append(posted, {})
       ELSE UNCHANGED <<vm, posted>>
    /\ UNCHANGED <<kernel, daemon, cachedApi, tasks, requests, fills, loop>>

-----------------------------------------------------------------------------
(* The user interface thread.                                              *)

\* Mutant: the closure does not clear the flag.
RunPostedOnce ==
    /\ UiIdle /\ posted # <<>>
    /\ posted' = Tail(posted)
    /\ vm' = [vm EXCEPT !.cells = @ \cup Head(posted), !.list = loaded]
    /\ UNCHANGED <<requestVars, fills, loop>>

\* A posted closure merges what the fill found, or clears the flag; both rebuild.
RunPosted ==
    /\ UiIdle /\ posted # <<>>
    /\ posted' = Tail(posted)
    /\ vm' = [vm EXCEPT !.cells = @ \cup Head(posted), !.list = loaded,
                        !.queued = @ /\ Head(posted) # {}]
    /\ UNCHANGED <<requestVars, fills, loop>>

-----------------------------------------------------------------------------
(* Teardown: the verbs' futures are waited for, then ~ModulesVM clears the  *)
(* liveness token and waits for its fill.                                   *)

VerbsDone ==
    /\ \A i \in DOMAIN tasks : tasks[i].verb = "fill"
    /\ \A w \in Workers : At(w, "idle") \/ At(w, "filling")

Quit ==
    /\ UiIdle /\ loop' = "stopping"
    /\ UNCHANGED <<requestVars, vm, fills, posted>>
Unwind ==
    /\ loop = "stopping" /\ VerbsDone
    /\ loop' = "closing" /\ vm' = [vm EXCEPT !.alive = FALSE]
    /\ UNCHANGED <<requestVars, fills, posted>>
Close ==
    /\ loop = "closing" /\ ~Outstanding(vm.fill)
    /\ loop' = "gone"
    /\ UNCHANGED <<requestVars, vm, fills, posted>>
Gone == loop = "gone" /\ UNCHANGED vars

-----------------------------------------------------------------------------
Request(A) == A /\ UNCHANGED <<vm, fills, posted, loop>>
Work(w) == Request(Channel(w)) \/ TakeFill(w) \/ FillDone(w) \/ Publish(w)

Next ==
    \/ \E name \in Names : AskLoad(name)
    \/ \E m \in Modules : AskUnload(m)
    \/ OpenView \/ Quit
    \/ Request(Touch) \/ Request(Tick) \/ Request(Restart)
    \/ Request(Devmgrd)
    \/ \E w \in Workers : Work(w)
    \/ RunPosted \/ Unwind \/ Close \/ Gone

Spec ==
    /\ Init /\ [][Next]_vars
    /\ WF_vars(Request(Devmgrd)) /\ \A w \in Workers : WF_vars(Work(w))
    /\ WF_vars(RunPosted) /\ WF_vars(Unwind \/ Close)

-----------------------------------------------------------------------------
\* The type invariant.
Words == Names \cup Modules \cup {"none"}
Calls == [caller : Workers \cup {Nobody}, verb : {"ApiVersion", "load", "unload"}, name : Words]
Threads ==
    [at : {"idle", "asking", "told", "calling", "publish", "filling"},
     verb : {"none", "load", "unload"}, name : Words, left : Nat, told : Nat,
     code : Codes \cup {"none", "ok"}]
Tasks == [verb : {"load", "unload", "fill"}, name : Words]
KernelType == loaded \subseteq Modules /\ inUse \subseteq loaded /\ present \subseteq Devs
DaemonType ==
    /\ api \in Nat /\ queue \in Seq(Calls)
    /\ serving \in [at : {"idle", "probe", "prompt", "act"}, left : Nat, used : BOOLEAN,
                    affected : SUBSET Devs]
ClientType ==
    /\ cachedApi \in Nat /\ thread \in [Workers -> Threads] /\ requests \in Nat
    /\ tasks \in Seq(Tasks)
    /\ \A w \in Workers : thread[w].at \in {"asking", "told", "calling"} => thread[w].verb # "none"
VmType ==
    /\ vm \in [list : SUBSET Modules, cells : SUBSET Modules, queued : BOOLEAN, fill : Nat,
               alive : BOOLEAN]
    /\ fills \subseteq [id : Nat, names : SUBSET Modules, by : Workers \cup {Nobody}]
    /\ posted \in Seq(SUBSET Modules) /\ loop \in {"running", "stopping", "closing", "gone"}

\* A module is in the kernel with all that it needs; every worker that waits has one
\* call in the queue of devmgrd, and nobody else has one.
Closed == \A m \in loaded : Deps[m] \subseteq loaded
Called(w) == {i \in DOMAIN queue : queue[i].caller = w}
OneCall == \A w \in Workers : IF Waiting(w) THEN \E i \in DOMAIN queue : Called(w) = {i} ELSE Called(w) = {}
TypeOK ==
    /\ KernelType /\ DaemonType /\ ClientType /\ VmType
    /\ Closed /\ OneCall /\ (queue = <<>> => serving = NotServing)

\* No fill, which holds a plain pointer to ModulesVM, runs once that is destroyed,
\* although the destructor waits for one future only.
VmOutlivesFill == loop = "gone" => fills = {}

\* What an unload takes away was not bound and critical for as long as devmgrd had
\* the call in hand: the time of the prompt is the only window.
GuardHolds == [][Request(Devmgrd) => lasting \subseteq Bound(loaded', present)]_vars

\* The list shows what the client's own verb did, or something undid it since.
Shows(m) == m \in vm.list <=> m \in loaded
SuccessShown ==
    \A w \in Workers, m \in Modules :
      (At(w, "publish") /\ thread[w].code = "ok" /\ thread[w].name = m)
        ~> (Shows(m) \/ loop # "running")
=============================================================================
