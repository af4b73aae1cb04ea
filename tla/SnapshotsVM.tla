----------------------------- MODULE SnapshotsVM -----------------------------
(***************************************************************************)
(* The snapshots half of a client: ApplicationFacade's snapshot calls on   *)
(* the worker threads, devmgrd behind them, and SnapshotsVM, whose state   *)
(* the user interface thread owns.  Workers hand their results over as     *)
(* closures posted to the user interface thread, which runs them one after *)
(* the other.  The two front ends, Tui and Gui, add the user.              *)
(*                                                                         *)
(* A snapshot is a number, newer ones are larger, and a list shows the     *)
(* newest first.  The user interface thread waits for a future by not      *)
(* taking the step that needs it.  A closure that workers can interleave   *)
(* with is cut where they can: vm.closure is the one it is in the middle   *)
(* of, and a list task has a step for each thing it does to shared state.  *)
(***************************************************************************)
EXTENDS Naturals, Sequences, FiniteSets, SequencesExt

CONSTANTS
    MaxSnapshots,   \* bound: snapshots that ever exist
    First,          \* those that exist when the client starts
    Damaged,        \* the snapshots whose health is not Ok
    Newer,          \* those among them that a newer devmgrd wrote (Unsupported)
    Matching,       \* the snapshots the one filter text in use matches
    MaxOutages,     \* bound: changes of devmgrd's reachability
    None

ASSUME SnapshotsAssumption ==
    /\ MaxSnapshots \in Nat /\ MaxOutages \in Nat
    /\ First \subseteq 1..MaxSnapshots
    /\ Newer \subseteq Damaged /\ Damaged \subseteq 1..MaxSnapshots
    /\ Matching \subseteq 1..MaxSnapshots
    /\ None \notin 1..MaxSnapshots

Snapshots == 1..MaxSnapshots

VARIABLES
    stored,         \* devmgrd: the snapshots in its store
    reachable,      \* devmgrd answers on the bus
    outages,        \* changes of reachability so far
    list,           \* ApplicationFacade::snapshots_
    daemonError,    \* ApplicationFacade::daemonError_ is set
    diff,           \* ApplicationFacade::diff_: its base, None when it is cleared
    jobs,           \* the tasks submitted to the TaskScheduler and not done
    posted,         \* the closures the user interface thread has not run
    vm              \* SnapshotsVM

facadeVars == <<stored, reachable, outages, list, daemonError, diff>>
modelVars == <<facadeVars, jobs, posted, vm>>

\* A custody is where the future of a task is kept: in the front end's pending
\* set, or in the view model.
Custody == {"pending", "vm"}
JobKinds == {"list", "diff", "restore", "delete", "create", "verb", "install", "refresh", "updates"}
Steps == {"call", "store", "observe", "publish", "post"}
NoAnswer == {0}     \* a list call that failed, told apart from every list
Task(kind, id, holder) ==
    [kind |-> kind, id |-> id, holder |-> holder, answer |-> None, at |-> "call"]
Running(kinds, holder) == \E i \in DOMAIN jobs : jobs[i].kind \in kinds /\ jobs[i].holder = holder

NewVM ==
    [metas |-> {}, filtered |-> FALSE, selected |-> 1, empty |-> "none",
     rebuildQueued |-> FALSE, refreshQueued |-> FALSE, closure |-> "none",
     preview |-> None, previewPending |-> FALSE]

\* The first refresh, which reads the disabled devices, is over before the user
\* can do anything.
InitSnapshots ==
    /\ stored = First
    /\ reachable \in BOOLEAN /\ outages = 0
    /\ list = {} /\ daemonError = ~reachable /\ diff = None
    /\ jobs = <<>> /\ posted = <<>>
    /\ vm = NewVM

-----------------------------------------------------------------------------
(* The rows of the list.                                                   *)

Shown(v) == IF v.filtered THEN v.metas \cap Matching ELSE v.metas

\* rowRefs_: the row of a snapshot, the newest on the first.
RowOf(v, s) == Cardinality({t \in Shown(v) : t >= s})

\* selectedMeta: nothing on a row that is no snapshot.
Selected(v) ==
    IF \E s \in Shown(v) : RowOf(v, s) = v.selected
    THEN CHOOSE s \in Shown(v) : RowOf(v, s) = v.selected
    ELSE None

\* selectedRestore, selectedDelete: what the view model refuses locally.
Restorable(v) == IF Selected(v) \in Damaged THEN None ELSE Selected(v)
Deletable(v) == IF Selected(v) \in Newer THEN None ELSE Selected(v)

\* pushEmptyStateRow: a completed query may say there is nothing.
EmptyRow(v, failed) ==
    IF Shown(v) # {} THEN "none"
    ELSE IF v.filtered THEN "no match"
    ELSE IF failed THEN "none" ELSE "no snapshots"

RowCount(v) == IF v.empty = "none" THEN Cardinality(Shown(v)) ELSE 1

\* The nearest row that still exists.
Nearest(v) ==
    IF RowCount(v) = 0 THEN 1 ELSE IF v.selected <= RowCount(v) THEN v.selected ELSE RowCount(v)

\* Mutant: the cursor keeps its place instead of its snapshot.
KeepPlace(v, kept) == Nearest(v)

\* restoreSelection: the same snapshot if it is still listed, else the nearest row.
KeepSelection(v, kept) == IF kept \in Shown(v) THEN RowOf(v, kept) ELSE Nearest(v)

\* rebuild: the snapshot to keep is the one of the rows that are replaced.
Rebuild(v) ==
    LET next == [v EXCEPT !.metas = list, !.empty = EmptyRow([v EXCEPT !.metas = list], daemonError)]
    IN [next EXCEPT !.selected = KeepSelection(next, Selected(vm))]

\* setFilter
SetFilter(on) ==
    /\ vm' = Rebuild([vm EXCEPT !.filtered = on])
    /\ UNCHANGED <<facadeVars, jobs, posted>>

Select(row) ==
    /\ row \in 1..RowCount(vm)
    /\ vm' = [vm EXCEPT !.selected = row]
    /\ UNCHANGED <<facadeVars, jobs, posted>>

-----------------------------------------------------------------------------
(* The workers.                                                            *)

Finished(i) == jobs' = RemoveAt(jobs, i)

\* What the handlers of a published event post: queueRefresh coalesces, the diff's
\* closure and the refresh after a verb do not.
RefreshPost == IF vm.refreshQueued THEN <<>> ELSE <<"refresh">>

Listing(i, step) == jobs[i].kind = "list" /\ jobs[i].at = step
Goes(i, step) == jobs' = [jobs EXCEPT ![i].at = step]

\* refreshSnapshots: the call, ...
ListCall(i) ==
    /\ Listing(i, "call")
    /\ jobs' = [jobs EXCEPT ![i].answer = IF reachable THEN stored ELSE NoAnswer,
                            ![i].at = IF reachable THEN "store" ELSE "observe"]
    /\ UNCHANGED <<facadeVars, posted, vm>>

\* ... the list it answered, which a failed call keeps as it was, ...
ListStore(i) ==
    /\ Listing(i, "store")
    /\ list' = jobs[i].answer
    /\ Goes(i, "observe")
    /\ UNCHANGED <<stored, reachable, outages, daemonError, diff, posted, vm>>

\* ... what it says of devmgrd, ...
ListObserve(i) ==
    /\ Listing(i, "observe")
    /\ daemonError' = (jobs[i].answer = NoAnswer)
    /\ Goes(i, "publish")
    /\ UNCHANGED <<stored, reachable, outages, list, diff, posted, vm>>

\* ... the event, whose handler queueRebuild has nothing to post while its flag is
\* set, ...
ListPublish(i) ==
    /\ Listing(i, "publish")
    /\ vm' = [vm EXCEPT !.rebuildQueued = TRUE]
    /\ IF vm.rebuildQueued THEN Finished(i) ELSE Goes(i, "post")
    /\ UNCHANGED <<facadeVars, posted>>

\* ... and the post of the closure.
ListPost(i) ==
    /\ Listing(i, "post")
    /\ posted' = Append(posted, "rebuild")
    /\ Finished(i)
    /\ UNCHANGED <<facadeVars, vm>>

\* refreshSnapshotDiff against the live system; a failed one clears the diff.
DiffDone(i) ==
    /\ jobs[i].kind = "diff"
    /\ diff' = IF reachable /\ jobs[i].id \in stored THEN jobs[i].id ELSE None
    /\ posted' = Append(posted, "diffReady")
    /\ Finished(i)
    /\ UNCHANGED <<stored, reachable, outages, list, daemonError, vm>>

\* What devmgrd's store holds after a call that succeeded.  A create and a restore
\* save the current state, which may be stored already.
StoredAfter(job) ==
    IF job.kind = "delete" THEN {stored \ {job.id}}
    ELSE {stored} \cup {stored \cup {n} : n \in {m \in Snapshots : \A s \in stored : s < m}}

\* devmgrd refuses again what the view model refuses.
Accepted(job) ==
    \/ job.kind = "create"
    \/ job.kind = "restore" /\ job.id \in stored \ Damaged
    \/ job.kind = "delete" /\ job.id \in stored \ Newer

\* runSnapshotMutation: one completion; success is proof that devmgrd answers,
\* failure is not proof of the opposite.
MutationDone(i) ==
    /\ jobs[i].kind \in {"restore", "delete", "create"}
    /\ \/ /\ reachable /\ Accepted(jobs[i])
          /\ stored' \in StoredAfter(jobs[i])
          /\ daemonError' = FALSE
          /\ posted' = posted \o <<"refreshAll">> \o RefreshPost
          /\ vm' = [vm EXCEPT !.refreshQueued = TRUE]
       \/ UNCHANGED <<stored, daemonError, posted, vm>>
    /\ Finished(i)
    /\ UNCHANGED <<reachable, outages, list, diff>>

\* A device, module or update verb, whose success refreshes the devices, and the
\* reads that feed the other views.  refresh() reads the disabled devices from devmgrd.
OtherDone(i) ==
    /\ \/ /\ jobs[i].kind \in {"verb", "install"}
          /\ posted' \in {posted, Append(posted, "refreshAll")}
          /\ UNCHANGED daemonError
       \/ jobs[i].kind = "refresh" /\ daemonError' = ~reachable /\ UNCHANGED posted
       \/ jobs[i].kind = "updates" /\ UNCHANGED <<daemonError, posted>>
    /\ Finished(i)
    /\ UNCHANGED <<stored, reachable, outages, list, diff, vm>>

Worker == \E i \in DOMAIN jobs :
    \/ ListCall(i) \/ ListStore(i) \/ ListObserve(i) \/ ListPublish(i) \/ ListPost(i)
    \/ DiffDone(i) \/ MutationDone(i) \/ OtherDone(i)

\* devmgrd stops or comes back.
Outage ==
    /\ outages < MaxOutages
    /\ reachable' = ~reachable /\ outages' = outages + 1
    /\ UNCHANGED <<stored, list, daemonError, diff, jobs, posted, vm>>

-----------------------------------------------------------------------------
(* The user interface thread.                                              *)

\* requestPreview: the previous diff is waited for, so that one is in flight.
RequestPreview(id) ==
    /\ ~Running({"diff"}, "vm")
    /\ vm' = [vm EXCEPT !.preview = id, !.previewPending = TRUE]
    /\ jobs' = Append(jobs, Task("diff", id, "vm"))

\* The thread is in no closure; Next on the queue is the closure c.
InNoClosure == vm.closure = "none"
NextPosted(c) == InNoClosure /\ posted # <<>> /\ Head(posted) = c

\* Mutant: the rows are read first and the flag is cleared second.
RunRebuildSwapped ==
    \/ /\ NextPosted("rebuild")
       /\ posted' = Tail(posted)
       /\ vm' = [Rebuild(vm) EXCEPT !.closure = "rebuild"]
       /\ UNCHANGED <<facadeVars, jobs>>
    \/ /\ vm.closure = "rebuild"
       /\ vm' = [vm EXCEPT !.rebuildQueued = FALSE, !.closure = "none"]
       /\ UNCHANGED <<facadeVars, jobs, posted>>

\* The closure queueRebuild posted clears its flag, and then reads the list.
RunRebuild ==
    \/ /\ NextPosted("rebuild")
       /\ posted' = Tail(posted)
       /\ vm' = [vm EXCEPT !.rebuildQueued = FALSE, !.closure = "rebuild"]
       /\ UNCHANGED <<facadeVars, jobs>>
    \/ /\ vm.closure = "rebuild"
       /\ vm' = Rebuild([vm EXCEPT !.closure = "none"])
       /\ UNCHANGED <<facadeVars, jobs, posted>>

\* The closure queueRefresh posted clears its flag, and then waits for the previous
\* refresh before it starts one.
RunRefresh ==
    \/ /\ NextPosted("refresh")
       /\ posted' = Tail(posted)
       /\ vm' = [vm EXCEPT !.refreshQueued = FALSE, !.closure = "refresh"]
       /\ UNCHANGED <<facadeVars, jobs>>
    \/ /\ vm.closure = "refresh" /\ ~Running({"list"}, "vm")
       /\ vm' = [vm EXCEPT !.closure = "none"]
       /\ jobs' = Append(jobs, Task("list", None, "vm"))
       /\ UNCHANGED <<facadeVars, posted>>

\* The closure of SnapshotDiffRefreshedEvent, before the front end's hook.
DropPending(v) == [v EXCEPT !.previewPending = FALSE]

\* refreshOnTaskDone: the device list is refreshed after a verb.
RunRefreshAll ==
    /\ NextPosted("refreshAll")
    /\ posted' = Tail(posted)
    /\ jobs' = Append(jobs, Task("refresh", None, "pending"))
    /\ UNCHANGED <<facadeVars, vm>>

SnapshotsTypeOK ==
    /\ stored \subseteq Snapshots /\ list \subseteq Snapshots
    /\ diff \in Snapshots \cup {None}
    /\ \A i \in DOMAIN jobs :
         jobs[i].kind \in JobKinds /\ jobs[i].holder \in Custody /\ jobs[i].at \in Steps
    /\ posted \in Seq({"rebuild", "refresh", "diffReady", "refreshAll"})
    /\ vm.metas \subseteq Snapshots /\ vm.rebuildQueued \in BOOLEAN /\ vm.refreshQueued \in BOOLEAN
    /\ vm.closure \in {"none", "rebuild", "refresh"}
    /\ vm.selected = 1 \/ vm.selected \in 1..RowCount(vm)
    /\ vm.empty \in {"none", "no match", "no snapshots"}
    /\ vm.preview \in Snapshots \cup {None}
=============================================================================
