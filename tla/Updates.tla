------------------------------- MODULE Updates --------------------------------
(***************************************************************************)
(* The client's update path: ApplicationFacade's refreshUpdates and        *)
(* installUpdate as jobs of the TaskScheduler's workers, the fwupd         *)
(* provider they call, UpdatesVM on the UI thread, and the teardown.       *)
(*                                                                         *)
(* Every remote call and every critical section of a job is one step.  A   *)
(* handler of UpdatesVM (an exchange of a flag and a post) is part of the  *)
(* step of the thread that publishes the event, and so is a critical       *)
(* section of the provider's progress mutex.                               *)
(*                                                                         *)
(* Abstraction: there is one provider that can install, and the daemon     *)
(* answers whatever it is asked while it is up; it may go down between two *)
(* calls of one job. Of a device and the releases for it an offer is kept: *)
(* the device is absent, has no release, has one to download elsewhere     *)
(* only, or one whose cab is on this machine. The pending record keeps the *)
(* devices with an unfinished action; texts and versions are left out.     *)
(* A future is the `holder' of its job: the view model's lastRefresh_, the *)
(* application's list of pending futures, or nobody any more.              *)
(***************************************************************************)
EXTENDS Naturals, Sequences, FiniteSets

CONSTANTS
    Devices,
    Offers,         \* the offers fwupd may have for a device
    Workers,        \* the scheduler's threads
    MaxChanges,     \* bound: changes of fwupd's state from outside
    MaxRequests,    \* bound: installs and refreshes the user asks for
    MaxSignals      \* bound: undelivered change signals; fwupd is slower than that

ASSUME UpdatesAssumption ==
    /\ Workers # {} /\ "none" \in Offers /\ Offers \subseteq {"absent", "none", "remote", "local"}
    /\ MaxChanges \in Nat /\ MaxRequests \in Nat /\ MaxSignals \in Nat \ {0}

VARIABLES
    fwupd,          \* the daemon: what it offers, its history, what it is flashing
    signals,        \* its change signals not yet delivered
    queue, run,     \* TaskScheduler: queue_, and the job of each worker
    snapshot,       \* updatesSnapshot_: what the last refresh found, and how
    pending,        \* pending_
    installActive,  \* installActive_
    sink,           \* the provider's progressSink_ is set
    posts,          \* the dispatcher's queue
    queued,         \* which of rebuildQueued_ and refreshQueued_ are set
    ui,             \* where the UI thread is in a posted closure
    shown,          \* the view model's snapshot_ and pending_
    progress,       \* progressText_ is not empty
    owner,          \* where the application is in its teardown
    tokenMisused,   \* history: alive_ was copied after its destruction
    bounds          \* counters of the bounded actions

daemon == <<fwupd, signals>>
facade == <<snapshot, pending, installActive>>
view == <<posts, queued, ui, shown, tokenMisused>>
vars == <<daemon, queue, run, facade, sink, view, progress, owner, bounds>>

Idle == [kind |-> "none"]

\* What a refresh found: whether the provider has reported, was down, failed to
\* enumerate, or answered; and the candidates.
Unreported == [checked |-> "no", of |-> [d \in Devices |-> "absent"]]

RefreshJob(h) == [kind |-> "refresh", holder |-> h, pc |-> "availability", found |-> Unreported,
                  reported |-> {}]
InstallJob(d) == [kind |-> "install", holder |-> "user", pc |-> "begin", dev |-> d, outcome |-> "none"]

Running == {run[w] : w \in Workers} \ {Idle}
Outstanding == {queue[n] : n \in DOMAIN queue} \cup Running
Held(h) == {j \in Outstanding : j.holder = h}

Init ==
    /\ fwupd \in [up : BOOLEAN, offers : [Devices -> Offers], history : {{}}, flashing : {{}}]
    /\ signals = 0
    /\ queue = <<>> /\ run = [w \in Workers |-> Idle]
    /\ snapshot = Unreported /\ pending = {} /\ installActive = FALSE
    /\ sink = FALSE
    /\ posts = <<>> /\ queued = {} /\ ui = "loop"
    /\ shown = [snapshot |-> Unreported, pending |-> {}] /\ progress = FALSE
    /\ owner = "loop" /\ tokenMisused = FALSE
    /\ bounds = [changes |-> 0, installs |-> 0, refreshes |-> 0]

-----------------------------------------------------------------------------
(* The handlers of UpdatesVM.                                              *)

Subscribed == owner \in {"loop", "drain", "wait", "noToken"}

\* queueRebuild and queueRefresh, run by whatever thread publishes: bursts coalesce.
Queue(k) ==
    /\ IF Subscribed /\ k \notin queued
       THEN /\ queued' = queued \cup {k}
            /\ posts' = Append(posts, k)
            /\ tokenMisused' = (tokenMisused \/ owner = "noToken")
       ELSE UNCHANGED <<queued, posts, tokenMisused>>
    /\ UNCHANGED <<ui, shown>>

-----------------------------------------------------------------------------
(* fwupd and its signals, handled on the provider's D-Bus thread.          *)

Alive == owner # "done"

Signal == signals < MaxSignals /\ signals' = signals + 1

\* From outside: a device or a release appears or goes, an action is settled.
Change(d) ==
    /\ Alive /\ fwupd.up /\ d \notin fwupd.flashing /\ bounds.changes < MaxChanges
    /\ bounds' = [bounds EXCEPT !.changes = @ + 1]
    /\ \/ \E o \in Offers \ {fwupd.offers[d]} : fwupd' = [fwupd EXCEPT !.offers[d] = o]
       \/ d \in fwupd.history /\ fwupd' = [fwupd EXCEPT !.history = @ \ {d}]
    /\ Signal
    /\ UNCHANGED <<queue, run, facade, sink, view, progress, owner>>

\* The jobs after the flash of one of ds ended with r: the Install call returns.
Replied(ds, r) ==
    [w \in Workers |->
        IF run[w].kind = "install" /\ run[w].pc = "wait" /\ run[w].dev \in ds
        THEN [run[w] EXCEPT !.outcome = r, !.pc = IF r = "failed" THEN "gate" ELSE "finalize"]
        ELSE run[w]]

\* The daemon stops, failing what it flashes, or comes back: NameOwnerChanged.
Restart ==
    /\ Alive /\ bounds.changes < MaxChanges
    /\ bounds' = [bounds EXCEPT !.changes = @ + 1]
    /\ fwupd' = [fwupd EXCEPT !.up = ~@, !.flashing = {}]
    /\ run' = Replied(fwupd.flashing, "failed")
    /\ Signal
    /\ UNCHANGED <<queue, facade, sink, view, progress, owner>>

\* A flash ends: applied, recorded in the history until a reboot, or failed.
Flashed(d) ==
    /\ Alive /\ d \in fwupd.flashing
    /\ \E r \in {"applied", "pending", "failed"} :
         /\ fwupd' = [fwupd EXCEPT !.flashing = @ \ {d},
                        !.offers[d] = IF r = "failed" THEN @ ELSE "none",
                        !.history = IF r = "pending" THEN @ \cup {d} ELSE @]
         /\ run' = Replied({d}, r)
    /\ Signal
    /\ UNCHANGED <<queue, facade, sink, view, progress, owner, bounds>>

\* onDeviceListSignal, onNameOwnerChanged.
OnChanged ==
    /\ Alive /\ signals > 0
    /\ signals' = signals - 1
    /\ Queue("refresh")
    /\ UNCHANGED <<fwupd, queue, run, facade, sink, progress, owner, bounds>>

\* onProgress shows whatever is forwarded; a completion clears it.
Progressed == progress \/ (sink /\ Subscribed)
Cleared == progress /\ ~Subscribed

\* onPropertiesChanged forwards to the sink under progressMutex_.  Percentage is a
\* property of the whole daemon: a frame of an older flash, or of another client's,
\* may come at any time.
OnFrame ==
    /\ Alive
    /\ progress' = Progressed
    /\ UNCHANGED <<daemon, queue, run, facade, sink, view, owner, bounds>>

-----------------------------------------------------------------------------
(* Refresh jobs.                                                           *)

At(w, kind, pc) == run[w].kind = kind /\ run[w].pc = pc
Goto(w, j) == run' = [run EXCEPT ![w] = j]

LastGood(w, how) == [run[w] EXCEPT !.found = [checked |-> how, of |-> snapshot.of]]

\* buildProviderState: an unreachable provider keeps its last good candidates, and so
\* does one that fails to enumerate.
Availability(w) ==
    /\ At(w, "refresh", "availability")
    /\ Goto(w, IF fwupd.up THEN [run[w] EXCEPT !.pc = "enumerate"]
               ELSE [LastGood(w, "down") EXCEPT !.pc = "swap"])
    /\ UNCHANGED <<daemon, queue, facade, sink, view, progress, owner, bounds>>

\* Every device is a candidate, whatever it is offered; GetDevices says which there are.
Enumerated == [checked |-> "yes", of |-> fwupd.offers]
Listed == [checked |-> "yes",
           of |-> [d \in Devices |-> IF fwupd.offers[d] = "absent" THEN "absent" ELSE "none"]]

Enumerate(w) ==
    /\ At(w, "refresh", "enumerate")
    /\ Goto(w, IF fwupd.up THEN [run[w] EXCEPT !.pc = "upgrades", !.found = Listed]
               ELSE [LastGood(w, "failed") EXCEPT !.pc = "history"])
    /\ UNCHANGED <<daemon, queue, facade, sink, view, progress, owner, bounds>>

\* What a device is offered, asked after it was listed.
Upgrade(listed, d) ==
    IF listed[d] = "absent" \/ fwupd.offers[d] = "absent" THEN listed[d] ELSE fwupd.offers[d]

\* GetUpgrades of one device after the other: a query that fails, because the daemon
\* has gone down meanwhile, leaves its device without a release and fails nothing else.
Upgrades(w) ==
    /\ At(w, "refresh", "upgrades")
    /\ \E answered \in SUBSET Devices :
         /\ fwupd.up => answered = Devices
         /\ Goto(w, [run[w] EXCEPT !.pc = "history",
                       !.found.of = [d \in Devices |->
                                       IF d \in answered THEN Upgrade(@, d) ELSE @[d]]])
    /\ UNCHANGED <<daemon, queue, facade, sink, view, progress, owner, bounds>>

\* reconcilePending: without a report there is no evidence.
ReadHistory(w) ==
    /\ At(w, "refresh", "history")
    /\ Goto(w, IF fwupd.up
               THEN [run[w] EXCEPT !.pc = "upsert", !.reported = fwupd.history]
               ELSE [run[w] EXCEPT !.pc = "swap"])
    /\ UNCHANGED <<daemon, queue, facade, sink, view, progress, owner, bounds>>

\* upsertPending for every reported action; clearing needs a good enumerate too.
Upsert(w) ==
    /\ At(w, "refresh", "upsert")
    /\ pending' = pending \cup run[w].reported
    /\ Goto(w, [run[w] EXCEPT !.pc = IF run[w].found.checked = "yes" THEN "erase" ELSE "swap"])
    /\ UNCHANGED <<daemon, queue, snapshot, installActive, sink, view, progress, owner, bounds>>

\* erasePendingNotIn.
StillReported(w) == pending \cap run[w].reported

Erase(w) ==
    /\ At(w, "refresh", "erase")
    /\ pending' = StillReported(w)
    /\ Goto(w, [run[w] EXCEPT !.pc = "swap"])
    /\ UNCHANGED <<daemon, queue, snapshot, installActive, sink, view, progress, owner, bounds>>

Swap(w) ==
    /\ At(w, "refresh", "swap")
    /\ snapshot' = run[w].found
    /\ Goto(w, [run[w] EXCEPT !.pc = "publish"])
    /\ UNCHANGED <<daemon, queue, pending, installActive, sink, view, progress, owner, bounds>>

PublishRefreshed(w) ==
    /\ At(w, "refresh", "publish")
    /\ Queue("rebuild")
    /\ Goto(w, Idle)
    /\ UNCHANGED <<daemon, queue, facade, sink, progress, owner, bounds>>

Refresh(w) ==
    \/ Availability(w) \/ Enumerate(w) \/ Upgrades(w) \/ ReadHistory(w) \/ Upsert(w) \/ Erase(w)
    \/ Swap(w) \/ PublishRefreshed(w)

-----------------------------------------------------------------------------
(* Install jobs.                                                           *)

\* fetchDevice and fetchRelease: a release of the one that was confirmed is there.
StillOffered(d) == fwupd.up /\ fwupd.offers[d] \in {"remote", "local"}

\* FwupdUpdateProvider::install asks again before it starts.
Preflight(w) ==
    /\ At(w, "install", "begin")
    /\ Goto(w, IF StillOffered(run[w].dev)
               THEN [run[w] EXCEPT !.pc = "open"]
               ELSE [run[w] EXCEPT !.pc = "gate", !.outcome = "failed"])
    /\ UNCHANGED <<daemon, queue, facade, sink, view, progress, owner, bounds>>

\* The cab is opened, if it is on this machine; then the sink is set and Install is
\* called.
Open(w) ==
    /\ At(w, "install", "open")
    /\ \/ /\ Goto(w, [run[w] EXCEPT !.pc = "gate", !.outcome = "failed"])
          /\ sink' = sink
       \/ /\ fwupd.up /\ fwupd.offers[run[w].dev] = "local"
          /\ Goto(w, [run[w] EXCEPT !.pc = "call"])
          /\ sink' = TRUE
    /\ UNCHANGED <<daemon, queue, facade, view, progress, owner, bounds>>

Call(w) ==
    /\ At(w, "install", "call")
    /\ LET d == run[w].dev
       IN IF fwupd.up /\ d \notin fwupd.flashing
          THEN /\ fwupd' = [fwupd EXCEPT !.flashing = @ \cup {d}]
               /\ Goto(w, [run[w] EXCEPT !.pc = "wait"])
          ELSE /\ Goto(w, [run[w] EXCEPT !.pc = "gate", !.outcome = "failed"])
               /\ UNCHANGED fwupd
    /\ UNCHANGED <<signals, queue, facade, sink, view, progress, owner, bounds>>

\* Mutant: the reply is waited for without a timeout.
WaitForever(w) == FALSE
\* The call runs into its timeout, which leaves the flash going.
CallTimeout(w) ==
    /\ At(w, "install", "wait")
    /\ Goto(w, [run[w] EXCEPT !.pc = "gate", !.outcome = "failed"])
    /\ UNCHANGED <<daemon, queue, facade, sink, view, progress, owner, bounds>>

\* finalize: GetResults is authoritative.
Finalize(w) ==
    /\ At(w, "install", "finalize")
    /\ Goto(w, [run[w] EXCEPT !.pc = "gate", !.outcome = IF fwupd.up THEN @ ELSE "failed"])
    /\ UNCHANGED <<daemon, queue, facade, sink, view, progress, owner, bounds>>

\* Mutant: the sink outlives the install.
SinkAfterKept == sink
SinkAfter == FALSE

\* The provider's Gate is destroyed on every way out of install().
LeaveProvider(w) ==
    /\ At(w, "install", "gate")
    /\ sink' = SinkAfter
    /\ Goto(w, [run[w] EXCEPT !.pc = "seed"])
    /\ UNCHANGED <<daemon, queue, facade, view, progress, owner, bounds>>

\* An unfinished action enters the durable record at once; TaskCompleted then clears
\* the progress line.
Complete(w) ==
    /\ At(w, "install", "seed")
    /\ pending' = IF run[w].outcome = "pending" THEN pending \cup {run[w].dev} ELSE pending
    /\ progress' = Cleared
    /\ Goto(w, [run[w] EXCEPT !.pc = "publish"])
    /\ UNCHANGED <<daemon, queue, snapshot, installActive, sink, view, owner, bounds>>

PublishChanged(w) ==
    /\ At(w, "install", "publish")
    /\ Queue("refresh")
    /\ Goto(w, [run[w] EXCEPT !.pc = "release"])
    /\ UNCHANGED <<daemon, queue, facade, sink, progress, owner, bounds>>

\* Mutant: the slot is released after a success only.
ReleasedOnSuccess(w) == IF run[w].outcome = "failed" THEN installActive ELSE FALSE
\* InstallActiveGuard.
Released(w) == FALSE

Release(w) ==
    /\ At(w, "install", "release")
    /\ installActive' = Released(w)
    /\ Goto(w, Idle)
    /\ UNCHANGED <<daemon, queue, snapshot, pending, sink, view, progress, owner, bounds>>

Install(w) ==
    \/ Preflight(w) \/ Open(w) \/ Call(w) \/ CallTimeout(w) \/ Finalize(w) \/ LeaveProvider(w)
    \/ Complete(w) \/ PublishChanged(w) \/ Release(w)

\* workerLoop takes the oldest job.
Take(w) ==
    /\ run[w] = Idle /\ queue # <<>>
    /\ run' = [run EXCEPT ![w] = Head(queue)]
    /\ queue' = Tail(queue)
    /\ UNCHANGED <<daemon, facade, sink, view, progress, owner, bounds>>

Work(w) == Take(w) \/ Refresh(w) \/ Install(w)

-----------------------------------------------------------------------------
(* The UI thread.                                                          *)

UiFree == owner = "loop" /\ ui = "loop"

\* Mutant: the flag of a closure that ran stays set.
StaysFlagged(k) == queued
Unflagged(k) == queued \ {k}

\* A posted closure clears its flag first; ...
RunPost ==
    /\ UiFree /\ posts # <<>>
    /\ posts' = Tail(posts)
    /\ queued' = Unflagged(Head(posts))
    /\ ui' = IF Head(posts) = "rebuild" THEN "snapshot" ELSE "submit"
    /\ UNCHANGED <<daemon, queue, run, facade, sink, shown, progress, owner, tokenMisused, bounds>>

\* ... a rebuild then copies the snapshot, and after it the pending record.
RebuildSnapshot ==
    /\ ui = "snapshot"
    /\ shown' = [shown EXCEPT !.snapshot = snapshot]
    /\ ui' = "pending"
    /\ UNCHANGED <<daemon, queue, run, facade, sink, posts, queued, progress, owner, tokenMisused,
                   bounds>>

RebuildPending ==
    /\ ui = "pending"
    /\ shown' = [shown EXCEPT !.pending = pending]
    /\ ui' = "loop"
    /\ UNCHANGED <<daemon, queue, run, facade, sink, posts, queued, progress, owner, tokenMisused,
                   bounds>>

\* Custody: whoever holds the last handle of a refresh waits for it before dropping it.
RefreshEnded == Held("vm") = {}

\* Mutant: the previous handle is dropped, not waited for.
Dropped(j) == IF j.kind = "refresh" /\ j.holder = "vm" THEN [j EXCEPT !.holder = "nobody"] ELSE j
SubmitUnwaited ==
    /\ ui = "submit"
    /\ queue' = Append([n \in DOMAIN queue |-> Dropped(queue[n])], RefreshJob("vm"))
    /\ run' = [w \in Workers |-> Dropped(run[w])]
    /\ ui' = "loop"
    /\ UNCHANGED <<daemon, facade, sink, posts, queued, shown, progress, owner, tokenMisused, bounds>>

\* queueRefresh's closure waits for the previous worker, then submits.
Submit ==
    /\ ui = "submit" /\ RefreshEnded
    /\ queue' = Append(queue, RefreshJob("vm"))
    /\ ui' = "loop"
    /\ UNCHANGED <<daemon, run, facade, sink, posts, queued, shown, progress, owner, tokenMisused,
                   bounds>>

\* The refresh key; or entering the tab, which also shows what the facade has.
UserRefresh ==
    /\ UiFree /\ bounds.installs + bounds.refreshes < MaxRequests
    /\ bounds' = [bounds EXCEPT !.refreshes = @ + 1]
    /\ shown' \in {shown, [snapshot |-> snapshot, pending |-> pending]}
    /\ queue' = Append(queue, RefreshJob("user"))
    /\ UNCHANGED <<daemon, run, facade, sink, posts, queued, ui, progress, owner, tokenMisused>>

\* The row of a device with a release on this machine; a placeholder, a device without
\* a release and one to download elsewhere are refused.
selectedInstall(d) == shown.snapshot.of[d] = "local"

\* installUpdate on an installable row: the slot is claimed before the job exists.
\* A refusal completes the same task, which clears the progress line.
UserInstall(d) ==
    /\ UiFree /\ selectedInstall(d) /\ bounds.installs + bounds.refreshes < MaxRequests
    /\ bounds' = [bounds EXCEPT !.installs = @ + 1]
    /\ IF installActive
       THEN progress' = Cleared /\ UNCHANGED <<queue, installActive>>
       ELSE /\ installActive' = TRUE
            /\ queue' = Append(queue, InstallJob(d))
            /\ UNCHANGED progress
    /\ UNCHANGED <<daemon, run, snapshot, pending, sink, view, owner>>

-----------------------------------------------------------------------------
(* Teardown: the loop has ended, so no closure runs any more.              *)

Quit ==
    /\ UiFree
    /\ owner' = "drain"
    /\ UNCHANGED <<daemon, queue, run, facade, sink, view, progress, bounds>>

\* drainPending waits for the application's futures; ~UpdatesVM for its own; then
\* its members go in reverse order, the token before the subscriptions; then the
\* facade; then the provider, which stops its signals.
Teardown ==
    /\ \/ owner = "drain" /\ Held("user") = {} /\ owner' = "wait"
       \/ owner = "wait" /\ RefreshEnded /\ owner' = "noToken"
       \/ owner = "noToken" /\ owner' = "unsubscribed"
       \/ owner = "unsubscribed" /\ owner' = "noFacade"
       \/ owner = "noFacade" /\ owner' = "done"
    /\ UNCHANGED <<daemon, queue, run, facade, sink, view, progress, bounds>>

Ui == RunPost \/ RebuildSnapshot \/ RebuildPending \/ Submit
User == UserRefresh \/ (\E d \in Devices : UserInstall(d)) \/ Quit

Next ==
    \/ \E d \in Devices : Change(d) \/ Flashed(d)
    \/ Restart \/ OnChanged \/ OnFrame
    \/ \E w \in Workers : Work(w)
    \/ Ui \/ User \/ Teardown

Spec == Init /\ [][Next]_vars

\* The client's threads run; the daemon, the user and the device do as they like.
FairSpec ==
    /\ Spec /\ WF_vars(OnChanged) /\ WF_vars(Ui) /\ WF_vars(Teardown)
    /\ \A w \in Workers : WF_vars(Work(w))

-----------------------------------------------------------------------------
(* Properties.                                                             *)

Found == [checked : {"no", "down", "failed", "yes"}, of : [Devices -> Offers \cup {"absent"}]]

Jobs ==
    [kind : {"refresh"}, holder : {"vm", "user"},
     pc : {"availability", "enumerate", "upgrades", "history", "upsert", "erase", "swap", "publish"},
     found : Found, reported : SUBSET Devices]
    \cup
    [kind : {"install"}, holder : {"user"}, dev : Devices,
     pc : {"begin", "open", "call", "wait", "finalize", "gate", "seed", "publish",
           "release"},
     outcome : {"none", "applied", "pending", "failed"}]

TypeOK ==
    /\ fwupd \in [up : BOOLEAN, offers : [Devices -> Offers], history : SUBSET Devices,
                  flashing : SUBSET Devices]
    /\ signals \in 0..MaxSignals
    /\ queue \in Seq(Jobs) /\ run \in [Workers -> Jobs \cup {Idle}]
    /\ snapshot \in Found /\ pending \subseteq Devices
    /\ installActive \in BOOLEAN /\ sink \in BOOLEAN
    /\ posts \in UNION {[1..n -> {"rebuild", "refresh"}] : n \in 0..2}
    /\ queued \subseteq {"rebuild", "refresh"}
    /\ ui \in {"loop", "snapshot", "pending", "submit"}
    /\ shown \in [snapshot : Found, pending : SUBSET Devices]
    /\ progress \in BOOLEAN /\ tokenMisused \in BOOLEAN
    /\ owner \in {"loop", "drain", "wait", "noToken", "unsubscribed", "noFacade", "done"}

InstallsAt(pcs) == {w \in Workers : run[w].kind = "install" /\ run[w].pc \in pcs}
InstallsQueued == {n \in DOMAIN queue : queue[n].kind = "install"}

\* The install slot is taken exactly while one install is queued or under way, on
\* every way out of the job: the provider never sees two, and a failed install does
\* not lock the others out.
SlotIsAnInstall ==
    Cardinality(InstallsQueued) + Cardinality({w \in Workers : run[w].kind = "install"})
      = (IF installActive THEN 1 ELSE 0)

\* A progress frame that arrives late never revives the progress line of an install
\* that has completed: the line is shown only before the completion is published.
ProgressOfAnInstall ==
    progress /\ Subscribed =>
        InstallsAt({"call", "wait", "finalize", "gate", "seed"}) # {}

\* Future custody: no worker runs, or will run, a job that uses the facade after
\* the facade was destroyed.
FacadeOutlivesJobs == owner \in {"noFacade", "done"} => Outstanding = {}

Refreshes ==
    Cardinality({n \in DOMAIN queue : queue[n].kind = "refresh"})
      + Cardinality({w \in Workers : run[w].kind = "refresh"})

\* When fwupd rests and serves, the view comes to show what it offers and what it
\* has pending, however signals, installs and refreshes overlapped.  Only for runs
\* in which no user refresh overlaps another: two at once may store their results
\* in the wrong order, and nothing corrects it.
Converges ==
    (<>[](owner = "loop" /\ fwupd.up /\ fwupd.flashing = {}) /\ [](Refreshes <= 1)) =>
        <>[](bounds.changes > 0 => shown = [snapshot |-> Enumerated, pending |-> fwupd.history])

\* Quitting ends, whatever is being installed.
QuitEnds == owner = "drain" ~> owner = "done"

-----------------------------------------------------------------------------
(* Statements of the repository that the code does not meet.               *)

\* "Stop event sources before the VMs/dispatcher unwind": fwupd's signals go on, and
\* the token that the handlers copy is destroyed before they are unsubscribed.
TokenOutlivesHandlers == ~tokenMisused

\* The row the view shows when there is no candidate.
Placeholder(s) ==
    IF s.checked = "no" THEN "loading" ELSE IF s.checked = "down" THEN "withheld" ELSE "none"

\* "(no updates available) only when every provider reported availability and
\* returned zero candidates": one that reported and then failed to enumerate shows it.
NoneIsTrue ==
    LET s == shown.snapshot
    IN (\A d \in Devices : s.of[d] = "absent") /\ Placeholder(s) = "none" => s.checked = "yes"
=============================================================================
