---------------------------- MODULE UpdatesProofs ----------------------------
(***************************************************************************)
(* Proofs about Updates, for any devices, offers and workers and any       *)
(* bounds: one install at a time, a progress line only while one is under  *)
(* way, and no job left when the facade goes.                              *)
(*                                                                         *)
(* installActive_ is claimed on the UI thread and given back by a worker   *)
(* that may have been anywhere meanwhile; the invariant says where the one *)
(* install is (Slot).  A frame of fwupd's progress may come at any time:   *)
(* the sink is set only while an install is between its call and the       *)
(* destruction of its Gate (SinkOfAnInstall).                              *)
(***************************************************************************)
EXTENDS Updates, FiniteSetTheorems, SequenceTheorems, TLAPS

NoneQueued == \A n \in DOMAIN queue : queue[n].kind # "install"
OneQueued ==
    \E n \in DOMAIN queue :
        queue[n].kind = "install" /\ \A m \in DOMAIN queue \ {n} : queue[m].kind # "install"
NoneRuns == \A w \in Workers : run[w].kind # "install"
OneRuns ==
    \E w \in Workers :
        run[w].kind = "install" /\ \A v \in Workers \ {w} : run[v].kind # "install"

\* The slot is free, or its install waits in the queue, or a worker has it.
Slot ==
    \/ ~installActive /\ NoneQueued /\ NoneRuns
    \/ installActive /\ OneQueued /\ NoneRuns
    \/ installActive /\ NoneQueued /\ OneRuns

InstallAt(pcs) == \E w \in Workers : run[w].kind = "install" /\ run[w].pc \in pcs

SinkOfAnInstall == sink => InstallAt({"call", "wait", "finalize", "gate"})
ProgressInv ==
    /\ SinkOfAnInstall
    /\ progress /\ Subscribed => InstallAt({"call", "wait", "finalize", "gate", "seed"})

\* Nobody holds a job as h.
NobodyHolds(h) ==
    /\ \A n \in DOMAIN queue : queue[n].holder # h
    /\ \A w \in Workers : run[w] # Idle => run[w].holder # h

\* Once the loop has ended no closure runs; drainPending and ~UpdatesVM have waited
\* for what they hold, and nothing new is submitted.
Custody ==
    /\ owner # "loop" => ui = "loop"
    /\ owner \notin {"loop", "drain"} => NobodyHolds("user")
    /\ owner \notin {"loop", "drain", "wait"} => NobodyHolds("vm")

\* A flag is set exactly while its closure is posted.
Coalesced ==
    \/ posts = <<>> /\ queued = {}
    \/ \E k \in {"rebuild", "refresh"} : posts = <<k>> /\ queued = {k}
    \/ posts = <<"rebuild", "refresh">> /\ queued = {"rebuild", "refresh"}
    \/ posts = <<"refresh", "rebuild">> /\ queued = {"rebuild", "refresh"}

UpdatesInv == TypeOK /\ Slot /\ ProgressInv /\ Custody /\ Coalesced

-----------------------------------------------------------------------------
(* Types.                                                                  *)

RefreshPcs ==
    {"availability", "enumerate", "upgrades", "history", "upsert", "erase", "swap", "publish"}
InstallPcs ==
    {"begin", "open", "call", "wait", "finalize", "gate", "seed", "publish", "release"}
Outcomes == {"none", "applied", "pending", "failed"}

RefreshJobs ==
    [kind : {"refresh"}, holder : {"vm", "user"}, pc : RefreshPcs, found : Found,
     reported : SUBSET Devices]
InstallJobs ==
    [kind : {"install"}, holder : {"user"}, dev : Devices, pc : InstallPcs, outcome : Outcomes]

FwupdType ==
    /\ fwupd \in [up : BOOLEAN, offers : [Devices -> Offers], history : SUBSET Devices,
                  flashing : SUBSET Devices]
    /\ signals \in 0..MaxSignals
JobsType == queue \in Seq(Jobs) /\ run \in [Workers -> Jobs \cup {Idle}]
FacadeType ==
    /\ snapshot \in Found /\ pending \subseteq Devices
    /\ installActive \in BOOLEAN /\ sink \in BOOLEAN
PostsType ==
    posts \in UNION {[1..n -> {"rebuild", "refresh"}] : n \in 0..2} /\ queued \subseteq {"rebuild", "refresh"}
UiType ==
    /\ ui \in {"loop", "snapshot", "pending", "submit"}
    /\ shown \in [snapshot : Found, pending : SUBSET Devices]
    /\ progress \in BOOLEAN /\ tokenMisused \in BOOLEAN
OwnerType == owner \in {"loop", "drain", "wait", "noToken", "unsubscribed", "noFacade", "done"}

LEMMA TypeParts ==
    /\ TypeOK <=> FwupdType /\ JobsType /\ FacadeType /\ PostsType /\ UiType /\ OwnerType
    /\ TypeOK' <=> FwupdType' /\ JobsType' /\ FacadeType' /\ PostsType' /\ UiType' /\ OwnerType'
BY DEF TypeOK, FwupdType, JobsType, FacadeType, PostsType, UiType, OwnerType

LEMMA JobParts == Jobs = RefreshJobs \cup InstallJobs
BY DEF Jobs, RefreshJobs, InstallJobs, RefreshPcs, InstallPcs, Outcomes

LEMMA RefreshTo ==
    ASSUME NEW j \in RefreshJobs, NEW p \in RefreshPcs
    PROVE  [j EXCEPT !.pc = p] \in RefreshJobs /\ [j EXCEPT !.pc = p].holder = j.holder
BY DEF RefreshJobs

LEMMA RefreshFound ==
    ASSUME NEW j \in RefreshJobs, NEW p \in RefreshPcs, NEW f \in Found
    PROVE  /\ [j EXCEPT !.pc = p, !.found = f] \in RefreshJobs
           /\ [j EXCEPT !.pc = p, !.found = f].holder = j.holder
BY DEF RefreshJobs

LEMMA RefreshFoundFirst ==
    ASSUME NEW j \in RefreshJobs, NEW p \in RefreshPcs, NEW f \in Found
    PROVE  /\ [[j EXCEPT !.found = f] EXCEPT !.pc = p] \in RefreshJobs
           /\ [[j EXCEPT !.found = f] EXCEPT !.pc = p].holder = j.holder
BY DEF RefreshJobs

LEMMA RefreshReported ==
    ASSUME NEW j \in RefreshJobs, NEW p \in RefreshPcs, NEW r \in SUBSET Devices
    PROVE  /\ [j EXCEPT !.pc = p, !.reported = r] \in RefreshJobs
           /\ [j EXCEPT !.pc = p, !.reported = r].holder = j.holder
BY DEF RefreshJobs

LEMMA InstallTo ==
    ASSUME NEW j \in InstallJobs, NEW p \in InstallPcs, NEW o \in Outcomes
    PROVE  /\ [j EXCEPT !.outcome = o, !.pc = p] \in InstallJobs
           /\ [j EXCEPT !.outcome = o, !.pc = p].pc = p
BY DEF InstallJobs

LEMMA InstallToGate ==
    ASSUME NEW j \in InstallJobs, NEW o \in Outcomes
    PROVE  /\ [j EXCEPT !.pc = "gate", !.outcome = o] \in InstallJobs
           /\ [j EXCEPT !.pc = "gate", !.outcome = o].pc = "gate"
BY DEF InstallJobs, InstallPcs

\* A worker is idle or runs a job of one of the two kinds.
LEMMA RunKinds ==
    ASSUME JobsType, NEW w \in Workers
    PROVE  /\ run[w] = Idle \/ run[w] \in RefreshJobs \/ run[w] \in InstallJobs
           /\ run[w].kind = "refresh" <=> run[w] \in RefreshJobs
           /\ run[w].kind = "install" <=> run[w] \in InstallJobs
           /\ run[w] = Idle <=> run[w].kind = "none"
<1>1. run[w] \in RefreshJobs \cup InstallJobs \cup {Idle}
  BY JobParts DEF JobsType
<1> QED
  BY <1>1 DEF RefreshJobs, InstallJobs, Idle

\* What a step of a job does to the workers: the job goes on with its kind and its
\* holder, or it ends.
GoesOn(w, j) ==
    /\ run' = [run EXCEPT ![w] = j] /\ UNCHANGED queue
    /\ \/ j = Idle
       \/ run[w] \in RefreshJobs /\ j \in RefreshJobs /\ j.holder = run[w].holder
       \/ run[w] \in InstallJobs /\ j \in InstallJobs

LEMMA FoundType ==
    ASSUME FwupdType, FacadeType, NEW how \in {"no", "down", "failed", "yes"}
    PROVE  [checked |-> how, of |-> snapshot.of] \in Found /\ Listed \in Found
BY UpdatesAssumption DEF FwupdType, FacadeType, Found, Listed

LEMMA RefreshGoesOn ==
    ASSUME FwupdType, JobsType, FacadeType, NEW w \in Workers, Refresh(w)
    PROVE  run[w] \in RefreshJobs /\ \E j : GoesOn(w, j) /\ (j = Idle \/ j \in RefreshJobs)
<1>0. run[w] \in RefreshJobs
  BY RunKinds DEF Refresh, Availability, Enumerate, Upgrades, ReadHistory, Upsert, Erase, Swap,
                  PublishRefreshed, At
<1>p. {"enumerate", "upgrades", "history", "upsert", "swap"} \subseteq RefreshPcs
  BY DEF RefreshPcs
<1>f. /\ [checked |-> "down", of |-> snapshot.of] \in Found
      /\ [checked |-> "failed", of |-> snapshot.of] \in Found
      /\ Listed \in Found
  BY FoundType
<1>1. CASE Availability(w)
  <2>1. CASE fwupd.up
    <3> DEFINE j == [run[w] EXCEPT !.pc = "enumerate"]
    <3>1. run' = [run EXCEPT ![w] = j] /\ UNCHANGED queue
      BY <1>1, <2>1 DEF Availability, Goto
    <3>2. j \in RefreshJobs /\ j.holder = run[w].holder
      BY <1>0, <1>p, RefreshTo
    <3> QED
      BY <1>0, <3>1, <3>2 DEF GoesOn
  <2>2. CASE ~fwupd.up
    <3> DEFINE f == [checked |-> "down", of |-> snapshot.of]
               j == [[run[w] EXCEPT !.found = f] EXCEPT !.pc = "swap"]
    <3>1. run' = [run EXCEPT ![w] = j] /\ UNCHANGED queue
      BY <1>1, <2>2 DEF Availability, Goto, LastGood
    <3>2. j \in RefreshJobs /\ j.holder = run[w].holder
      BY <1>0, <1>p, <1>f, RefreshFoundFirst
    <3> QED
      BY <1>0, <3>1, <3>2 DEF GoesOn
  <2> QED
    BY <2>1, <2>2
<1>2. CASE Enumerate(w)
  <2>1. CASE fwupd.up
    <3> DEFINE j == [run[w] EXCEPT !.pc = "upgrades", !.found = Listed]
    <3>1. run' = [run EXCEPT ![w] = j] /\ UNCHANGED queue
      BY <1>2, <2>1 DEF Enumerate, Goto
    <3>2. j \in RefreshJobs /\ j.holder = run[w].holder
      BY <1>0, <1>p, <1>f, RefreshFound
    <3> QED
      BY <1>0, <3>1, <3>2 DEF GoesOn
  <2>2. CASE ~fwupd.up
    <3> DEFINE f == [checked |-> "failed", of |-> snapshot.of]
               j == [[run[w] EXCEPT !.found = f] EXCEPT !.pc = "history"]
    <3>1. run' = [run EXCEPT ![w] = j] /\ UNCHANGED queue
      BY <1>2, <2>2 DEF Enumerate, Goto, LastGood
    <3>2. j \in RefreshJobs /\ j.holder = run[w].holder
      BY <1>0, <1>p, <1>f, RefreshFoundFirst
    <3> QED
      BY <1>0, <3>1, <3>2 DEF GoesOn
  <2> QED
    BY <2>1, <2>2
<1>6. CASE Upgrades(w)
  <2>1. PICK answered \in SUBSET Devices :
          run' = [run EXCEPT ![w] = [run[w] EXCEPT !.pc = "history",
                    !.found.of = [d \in Devices |->
                                    IF d \in answered THEN Upgrade(@, d) ELSE @[d]]]]
    BY <1>6 DEF Upgrades, Goto
  <2> DEFINE g == [d \in Devices |-> IF d \in answered THEN Upgrade(run[w].found.of, d)
                                    ELSE run[w].found.of[d]]
             f == [run[w].found EXCEPT !.of = g]
             j == [run[w] EXCEPT !.pc = "history", !.found = f]
  <2>2. run[w].found \in Found
    BY <1>0 DEF RefreshJobs
  <2>3. g \in [Devices -> Offers \cup {"absent"}]
    BY <2>2 DEF Found, Upgrade, FwupdType
  <2>4. run' = [run EXCEPT ![w] = j] /\ UNCHANGED queue
    <3>1. j = [run[w] EXCEPT !.pc = "history", !.found.of = g]
      BY <1>0 DEF RefreshJobs
    <3> QED
      BY <1>6, <2>1, <3>1 DEF Upgrades
  <2> HIDE DEF g
  <2>5. f \in Found
    BY <2>2, <2>3 DEF Found
  <2> HIDE DEF f
  <2>6. j \in RefreshJobs /\ j.holder = run[w].holder
    BY <1>0, <1>p, <2>5, RefreshFound
  <2> QED
    BY <1>0, <2>4, <2>6 DEF GoesOn
<1>3. CASE ReadHistory(w)
  <2>1. CASE fwupd.up
    <3> DEFINE j == [run[w] EXCEPT !.pc = "upsert", !.reported = fwupd.history]
    <3>1. run' = [run EXCEPT ![w] = j] /\ UNCHANGED queue
      BY <1>3, <2>1 DEF ReadHistory, Goto
    <3>2. fwupd.history \in SUBSET Devices
      BY DEF FwupdType
    <3>3. j \in RefreshJobs /\ j.holder = run[w].holder
      BY <1>0, <1>p, <3>2, RefreshReported
    <3> QED
      BY <1>0, <3>1, <3>3 DEF GoesOn
  <2>2. CASE ~fwupd.up
    <3> DEFINE j == [run[w] EXCEPT !.pc = "swap"]
    <3>1. run' = [run EXCEPT ![w] = j] /\ UNCHANGED queue
      BY <1>3, <2>2 DEF ReadHistory, Goto
    <3>2. j \in RefreshJobs /\ j.holder = run[w].holder
      BY <1>0, <1>p, RefreshTo
    <3> QED
      BY <1>0, <3>1, <3>2 DEF GoesOn
  <2> QED
    BY <2>1, <2>2
<1>4. CASE Upsert(w) \/ Erase(w) \/ Swap(w)
  <2>1. PICK p \in RefreshPcs : run' = [run EXCEPT ![w] = [run[w] EXCEPT !.pc = p]]
    BY <1>4 DEF Upsert, Erase, Swap, Goto, RefreshPcs
  <2>2. UNCHANGED queue
    BY <1>4 DEF Upsert, Erase, Swap
  <2>3. [run[w] EXCEPT !.pc = p] \in RefreshJobs /\ [run[w] EXCEPT !.pc = p].holder = run[w].holder
    BY <1>0, RefreshTo
  <2> QED
    BY <1>0, <2>1, <2>2, <2>3 DEF GoesOn
<1>5. CASE PublishRefreshed(w)
  BY <1>0, <1>5 DEF PublishRefreshed, Goto, GoesOn
<1> QED
  BY <1>0, <1>1, <1>2, <1>3, <1>4, <1>5, <1>6 DEF Refresh

\* What a step of an install does: the sink is set on the way to the call only and
\* cleared at the gate, the completion clears the progress line, the end of the job
\* gives the slot back.
InstallStep(w, j) ==
    /\ GoesOn(w, j)
    /\ sink' => (sink /\ run[w].pc # "gate") \/ (j # Idle /\ j.pc = "call")
    /\ run[w].pc \in {"call", "wait", "finalize"} => j # Idle /\ j.pc \in {"wait", "finalize", "gate"}
    /\ run[w].pc = "gate" => j # Idle /\ j.pc = "seed"
    /\ progress' = IF run[w].pc = "seed" THEN Cleared ELSE progress
    /\ IF j = Idle THEN ~installActive' ELSE installActive' = installActive

LEMMA InstallGoesOn ==
    ASSUME JobsType, NEW w \in Workers, Install(w)
    PROVE  run[w] \in InstallJobs /\ \E j : InstallStep(w, j) /\ (j = Idle \/ j \in InstallJobs)
<1>0. run[w] \in InstallJobs
  BY RunKinds DEF Install, Preflight, Open, Call, CallTimeout, Finalize, LeaveProvider, Complete,
                  PublishChanged, Release, At
<1>j. \A j \in InstallJobs : j # Idle
  BY DEF InstallJobs, Idle
<1> DEFINE to(p) == [run[w] EXCEPT !.pc = p]
           failed == [run[w] EXCEPT !.pc = "gate", !.outcome = "failed"]
<1>t. \A p \in InstallPcs : to(p) \in InstallJobs /\ to(p).pc = p
  BY <1>0 DEF InstallJobs
<1>f. failed \in InstallJobs /\ failed.pc = "gate"
  BY <1>0, InstallToGate DEF Outcomes
<1>1. CASE Preflight(w)
  <2>1. PICK j \in InstallJobs : run' = [run EXCEPT ![w] = j]
    <3>1. run' = [run EXCEPT ![w] = to("open")] \/ run' = [run EXCEPT ![w] = failed]
      BY <1>1 DEF Preflight, Goto
    <3> HIDE DEF to, failed
    <3> QED
      BY <3>1, <1>t, <1>f DEF InstallPcs
  <2>2. run[w].pc = "begin" /\ UNCHANGED <<queue, sink, progress, installActive>>
    BY <1>1 DEF Preflight, At, facade
  <2> QED
    BY <1>0, <1>j, <2>1, <2>2 DEF GoesOn, InstallStep
<1>2. CASE Open(w)
  <2>1. PICK j \in InstallJobs :
          run' = [run EXCEPT ![w] = j] /\ (sink' => j.pc = "call" \/ sink)
    <3>1. \/ run' = [run EXCEPT ![w] = failed] /\ sink' = sink
          \/ run' = [run EXCEPT ![w] = to("call")]
      BY <1>2 DEF Open, Goto
    <3> HIDE DEF to, failed
    <3> QED
      BY <3>1, <1>t, <1>f DEF InstallPcs
  <2>2. run[w].pc = "open" /\ UNCHANGED <<queue, progress, installActive>>
    BY <1>2 DEF Open, At, facade
  <2> QED
    BY <1>0, <1>j, <2>1, <2>2 DEF GoesOn, InstallStep
<1>3. CASE Call(w)
  <2>1. PICK j \in InstallJobs : run' = [run EXCEPT ![w] = j] /\ j.pc \in {"wait", "gate"}
    <3>1. run' = [run EXCEPT ![w] = to("wait")] \/ run' = [run EXCEPT ![w] = failed]
      BY <1>3 DEF Call, Goto
    <3> HIDE DEF to, failed
    <3> QED
      BY <3>1, <1>t, <1>f DEF InstallPcs
  <2>2. run[w].pc = "call" /\ UNCHANGED <<queue, sink, progress, installActive>>
    BY <1>3 DEF Call, At, facade
  <2> QED
    BY <1>0, <1>j, <2>1, <2>2 DEF GoesOn, InstallStep
<1>4. CASE CallTimeout(w)
  <2>1. PICK j \in InstallJobs : run' = [run EXCEPT ![w] = j] /\ j.pc = "gate"
    <3>1. run' = [run EXCEPT ![w] = failed]
      BY <1>4 DEF CallTimeout, Goto
    <3> HIDE DEF failed
    <3> QED
      BY <3>1, <1>f
  <2>2. run[w].pc = "wait" /\ UNCHANGED <<queue, sink, progress, installActive>>
    BY <1>4 DEF CallTimeout, At, facade
  <2> QED
    BY <1>0, <1>j, <2>1, <2>2 DEF GoesOn, InstallStep
<1>5. CASE Finalize(w)
  <2>1. PICK j \in InstallJobs : run' = [run EXCEPT ![w] = j] /\ j.pc = "gate"
    <3> DEFINE o == IF fwupd.up THEN run[w].outcome ELSE "failed"
               j == [run[w] EXCEPT !.pc = "gate", !.outcome = o]
    <3>1. o \in Outcomes
      BY <1>0 DEF InstallJobs, Outcomes
    <3>2. j \in InstallJobs /\ j.pc = "gate"
      BY <1>0, <3>1, InstallToGate
    <3>3. run' = [run EXCEPT ![w] = j]
      BY <1>5 DEF Finalize, Goto
    <3> QED
      BY <3>2, <3>3
  <2>2. run[w].pc = "finalize" /\ UNCHANGED <<queue, sink, progress, installActive>>
    BY <1>5 DEF Finalize, At, facade
  <2> QED
    BY <1>0, <1>j, <2>1, <2>2 DEF GoesOn, InstallStep
<1>6. CASE LeaveProvider(w)
  <2>1. PICK j \in InstallJobs : run' = [run EXCEPT ![w] = j] /\ j.pc = "seed"
    <3>1. run' = [run EXCEPT ![w] = to("seed")]
      BY <1>6 DEF LeaveProvider, Goto
    <3> HIDE DEF to
    <3> QED
      BY <3>1, <1>t DEF InstallPcs
  <2>2. run[w].pc = "gate" /\ ~sink' /\ UNCHANGED <<queue, progress, installActive>>
    BY <1>6 DEF LeaveProvider, SinkAfter, At, facade
  <2> QED
    BY <1>0, <1>j, <2>1, <2>2 DEF GoesOn, InstallStep
<1>7. CASE Complete(w)
  <2>1. PICK j \in InstallJobs : run' = [run EXCEPT ![w] = j]
    <3>1. run' = [run EXCEPT ![w] = to("publish")]
      BY <1>7 DEF Complete, Goto
    <3> HIDE DEF to
    <3> QED
      BY <3>1, <1>t DEF InstallPcs
  <2>2. run[w].pc = "seed" /\ progress' = Cleared /\ UNCHANGED <<queue, sink, installActive>>
    BY <1>7 DEF Complete, At
  <2> QED
    BY <1>0, <1>j, <2>1, <2>2 DEF GoesOn, InstallStep
<1>8. CASE PublishChanged(w)
  <2>1. PICK j \in InstallJobs : run' = [run EXCEPT ![w] = j]
    <3>1. run' = [run EXCEPT ![w] = to("release")]
      BY <1>8 DEF PublishChanged, Goto
    <3> HIDE DEF to
    <3> QED
      BY <3>1, <1>t DEF InstallPcs
  <2>2. run[w].pc = "publish" /\ UNCHANGED <<queue, sink, progress, installActive>>
    BY <1>8 DEF PublishChanged, At, facade
  <2> QED
    BY <1>0, <1>j, <2>1, <2>2 DEF GoesOn, InstallStep
<1>9. CASE Release(w)
  <2>1. run' = [run EXCEPT ![w] = Idle] /\ run[w].pc = "release" /\ ~installActive'
        /\ UNCHANGED <<queue, sink, progress>>
    BY <1>9 DEF Release, Released, Goto, At
  <2> QED
    BY <1>0, <2>1 DEF GoesOn, InstallStep
<1> QED
  BY <1>0, <1>1, <1>2, <1>3, <1>4, <1>5, <1>6, <1>7, <1>8, <1>9 DEF Install

\* The jobs whose flash ended leave their wait, and nothing else moves.
LEMMA RepliedGoesOn ==
    ASSUME JobsType, NEW ds, NEW r \in {"applied", "pending", "failed"}, run' = Replied(ds, r)
    PROVE  /\ run' \in [Workers -> Jobs \cup {Idle}]
           /\ \A w \in Workers :
                \/ run'[w] = run[w]
                \/ /\ run[w] \in InstallJobs /\ run[w].pc = "wait"
                   /\ run'[w] \in InstallJobs /\ run'[w].pc \in {"finalize", "gate"}
<1>1. ASSUME NEW w \in Workers
      PROVE  \/ run'[w] = run[w]
             \/ /\ run[w] \in InstallJobs /\ run[w].pc = "wait"
                /\ run'[w] \in InstallJobs /\ run'[w].pc \in {"finalize", "gate"}
  <2>1. CASE run[w].kind = "install" /\ run[w].pc = "wait" /\ run[w].dev \in ds
    <3> DEFINE p == IF r = "failed" THEN "gate" ELSE "finalize"
               j == [run[w] EXCEPT !.outcome = r, !.pc = p]
    <3>1. run'[w] = j
      BY <2>1 DEF Replied
    <3>2. run[w] \in InstallJobs
      BY <2>1, RunKinds
    <3>3. p \in InstallPcs /\ r \in Outcomes /\ p \in {"finalize", "gate"}
      BY DEF InstallPcs, Outcomes
    <3>4. j \in InstallJobs /\ j.pc = p
      <4> HIDE DEF p
      <4>1. r \in Outcomes /\ p \in InstallPcs
        BY <3>3
      <4> QED
        BY <3>2, <4>1, InstallTo
    <3> QED
      BY <2>1, <3>1, <3>2, <3>3, <3>4
  <2>2. CASE ~(run[w].kind = "install" /\ run[w].pc = "wait" /\ run[w].dev \in ds)
    BY <2>2 DEF Replied
  <2> QED
    BY <2>1, <2>2
<1>2. DOMAIN run' = Workers /\ run' = [w \in Workers |-> run'[w]]
  BY DEF Replied
<1>3. \A w \in Workers : run[w] \in Jobs \cup {Idle}
  BY DEF JobsType
<1>4. \A w \in Workers : run'[w] \in Jobs \cup {Idle}
  BY <1>1, <1>3, JobParts
<1> QED
  BY <1>1, <1>2, <1>4

LEMMA AppendJob ==
    ASSUME queue \in Seq(Jobs), NEW j \in Jobs, queue' = Append(queue, j)
    PROVE  /\ queue' \in Seq(Jobs)
           /\ \A n \in DOMAIN queue : n \in DOMAIN queue' /\ queue'[n] = queue[n]
           /\ \A n \in DOMAIN queue' : n \in DOMAIN queue \/ n = Len(queue) + 1
           /\ Len(queue) + 1 \in DOMAIN queue' \ DOMAIN queue /\ queue'[Len(queue) + 1] = j
<1>1. queue' \in Seq(Jobs) /\ Len(queue') = Len(queue) + 1 /\ Len(queue) \in Nat
  BY AppendProperties, LenProperties
<1>2. DOMAIN queue = 1 .. Len(queue) /\ DOMAIN queue' = 1 .. Len(queue) + 1
  BY <1>1, LenProperties
<1> QED
  BY <1>1, <1>2, AppendProperties

LEMMA TakeJob ==
    ASSUME queue \in Seq(Jobs), queue # <<>>, queue' = Tail(queue)
    PROVE  /\ queue' \in Seq(Jobs) /\ Head(queue) \in Jobs
           /\ 1 \in DOMAIN queue /\ queue[1] = Head(queue)
           /\ \A n \in DOMAIN queue' : n + 1 \in DOMAIN queue \ {1} /\ queue'[n] = queue[n + 1]
           /\ \A n \in DOMAIN queue \ {1} : n - 1 \in DOMAIN queue' /\ queue'[n - 1] = queue[n]
<1>1. /\ Head(queue) \in Jobs /\ Tail(queue) \in Seq(Jobs) /\ Len(Tail(queue)) = Len(queue) - 1
      /\ \A i \in 1 .. Len(Tail(queue)) : Tail(queue)[i] = queue[i + 1]
  BY HeadTailProperties
<1>2. DOMAIN queue = 1 .. Len(queue) /\ DOMAIN queue' = 1 .. Len(queue) - 1
      /\ Len(queue) \in Nat \ {0}
  BY <1>1, LenProperties, EmptySeq
<1>3. queue[1] = Head(queue)
  OBVIOUS
<1> QED
  BY <1>1, <1>2, <1>3

LEMMA NewJobs ==
    /\ \A h \in {"vm", "user"} : RefreshJob(h) \in RefreshJobs /\ RefreshJob(h).holder = h
    /\ \A d \in Devices : InstallJob(d) \in InstallJobs
<1>1. Unreported \in Found
  BY DEF Unreported, Found
<1> QED
  BY <1>1 DEF RefreshJob, InstallJob, RefreshJobs, InstallJobs, RefreshPcs, InstallPcs, Outcomes

-----------------------------------------------------------------------------
(* Every step keeps the types.                                             *)

LEMMA StepKeepsJobs ==
    ASSUME FwupdType, JobsType, FacadeType, Next PROVE JobsType'
<1>1. CASE UNCHANGED <<queue, run>>
  BY <1>1 DEF JobsType
<1>2. ASSUME NEW w \in Workers, NEW j, GoesOn(w, j), j = Idle \/ j \in Jobs PROVE JobsType'
  BY <1>2 DEF JobsType, GoesOn
<1>3. ASSUME NEW w \in Workers, Work(w) PROVE JobsType'
  <2>1. CASE Take(w)
    <3>1. queue' \in Seq(Jobs) /\ Head(queue) \in Jobs
      BY <2>1, TakeJob DEF Take, JobsType
    <3> QED
      BY <2>1, <3>1 DEF Take, JobsType
  <2>2. CASE Refresh(w)
    BY <1>2, <2>2, RefreshGoesOn, JobParts
  <2>3. CASE Install(w)
    <3>1. \E j : GoesOn(w, j) /\ (j = Idle \/ j \in Jobs)
      BY <2>3, InstallGoesOn, JobParts DEF InstallStep
    <3> QED
      BY <1>2, <3>1
  <2> QED
    BY <1>3, <2>1, <2>2, <2>3 DEF Work
<1>4. CASE Restart
  BY <1>4, RepliedGoesOn DEF Restart, JobsType
<1>5. ASSUME NEW d \in Devices, Flashed(d) PROVE JobsType'
  <2>1. PICK r \in {"applied", "pending", "failed"} : run' = Replied({d}, r)
    BY <1>5 DEF Flashed
  <2> QED
    BY <1>5, <2>1, RepliedGoesOn DEF Flashed, JobsType
<1>6. CASE \/ Submit \/ UserRefresh \/ \E d \in Devices : UserInstall(d)
  <2>1. run' = run
    BY <1>6 DEF Submit, UserRefresh, UserInstall
  <2>2. queue' = queue \/ \E j \in Jobs : queue' = Append(queue, j)
    BY <1>6, NewJobs, JobParts DEF Submit, UserRefresh, UserInstall
  <2>3. queue' \in Seq(Jobs)
    BY <2>2, AppendJob DEF JobsType
  <2> QED
    BY <2>1, <2>3 DEF JobsType
<1>7. \/ UNCHANGED <<queue, run>>
      \/ \E w \in Workers : Work(w)
      \/ Restart \/ \E d \in Devices : Flashed(d)
      \/ Submit \/ UserRefresh \/ \E d \in Devices : UserInstall(d)
  BY DEF Next, Change, OnChanged, OnFrame, Ui, RunPost, RebuildSnapshot, RebuildPending, User,
         Quit, Teardown
<1> QED
  BY <1>1, <1>3, <1>4, <1>5, <1>6, <1>7

LEMMA StepKeepsFwupd ==
    ASSUME FwupdType, JobsType, Next, UpdatesAssumption PROVE FwupdType'
<1> DEFINE FwupdRecords ==
      [up : BOOLEAN, offers : [Devices -> Offers], history : SUBSET Devices, flashing : SUBSET Devices]
<1>1. CASE UNCHANGED daemon
  BY <1>1 DEF FwupdType, daemon
<1>2. ASSUME Signal PROVE signals' \in 0..MaxSignals
  BY <1>2 DEF Signal, FwupdType, UpdatesAssumption
<1>3. ASSUME NEW d \in Devices, Change(d) PROVE FwupdType'
  <2>1. fwupd' \in FwupdRecords
    <3>1. CASE \E o \in Offers : fwupd' = [fwupd EXCEPT !.offers[d] = o]
      BY <3>1 DEF FwupdType
    <3>2. CASE fwupd' = [fwupd EXCEPT !.history = @ \ {d}]
      BY <3>2 DEF FwupdType
    <3> QED
      BY <1>3, <3>1, <3>2 DEF Change
  <2> QED
    BY <1>2, <1>3, <2>1 DEF Change, FwupdType
<1>4. CASE Restart
  <2>1. fwupd' \in FwupdRecords
    BY <1>4 DEF Restart, FwupdType
  <2> QED
    BY <1>2, <1>4, <2>1 DEF Restart, FwupdType
<1>5. ASSUME NEW d \in Devices, Flashed(d) PROVE FwupdType'
  <2>1. PICK r \in {"applied", "pending", "failed"} :
          fwupd' = [fwupd EXCEPT !.flashing = @ \ {d},
                      !.offers[d] = IF r = "failed" THEN @ ELSE "none",
                      !.history = IF r = "pending" THEN @ \cup {d} ELSE @]
    BY <1>5 DEF Flashed
  <2>2. fwupd' \in FwupdRecords
    BY <2>1 DEF FwupdType, UpdatesAssumption
  <2> QED
    BY <1>2, <1>5, <2>2 DEF Flashed, FwupdType
<1>6. CASE OnChanged
  BY <1>6 DEF OnChanged, FwupdType, UpdatesAssumption
<1>7. ASSUME NEW w \in Workers, Call(w) PROVE FwupdType'
  <2>1. run[w].dev \in Devices
    BY <1>7, RunKinds DEF Call, At, InstallJobs
  <2>2. fwupd' = fwupd \/ fwupd' = [fwupd EXCEPT !.flashing = @ \cup {run[w].dev}]
    BY <1>7 DEF Call
  <2>3. fwupd' \in FwupdRecords
    BY <2>1, <2>2 DEF FwupdType
  <2> QED
    BY <1>7, <2>3 DEF Call, FwupdType
<1>8. \/ UNCHANGED daemon \/ \E d \in Devices : Change(d) \/ Flashed(d)
      \/ Restart \/ OnChanged \/ \E w \in Workers : Call(w)
  BY DEF Next, OnFrame, Work, Take, Refresh, Availability, Enumerate, Upgrades, ReadHistory,
         Upsert, Erase,
         Swap, PublishRefreshed, Install, Preflight, Open, CallTimeout, Finalize, LeaveProvider,
         Complete, PublishChanged, Release, Ui, RunPost, RebuildSnapshot, RebuildPending, Submit,
         User, UserRefresh,
         UserInstall, Quit, Teardown
<1> QED
  BY <1>1, <1>3, <1>4, <1>5, <1>6, <1>7, <1>8

LEMMA StepKeepsFacade ==
    ASSUME FwupdType, JobsType, FacadeType, Next PROVE FacadeType'
<1>1. CASE UNCHANGED <<facade, sink>>
  BY <1>1 DEF FacadeType, facade
<1>2. ASSUME NEW w \in Workers, Upsert(w) \/ Erase(w) \/ Swap(w) PROVE FacadeType'
  <2>1. run[w].found \in Found /\ run[w].reported \subseteq Devices
    BY <1>2, RunKinds DEF Upsert, Erase, Swap, At, RefreshJobs
  <2> QED
    BY <1>2, <2>1 DEF Upsert, Erase, Swap, StillReported, FacadeType
<1>3. ASSUME NEW w \in Workers, Complete(w) PROVE FacadeType'
  <2>1. run[w].dev \in Devices
    BY <1>3, RunKinds DEF Complete, At, InstallJobs
  <2> QED
    BY <1>3, <2>1 DEF Complete, FacadeType
<1>4. ASSUME NEW w \in Workers, Open(w) \/ LeaveProvider(w) \/ Release(w) PROVE FacadeType'
  BY <1>4 DEF Open, LeaveProvider, SinkAfter, Release, Released, facade, FacadeType
<1>5. ASSUME NEW d \in Devices, UserInstall(d) PROVE FacadeType'
  BY <1>5 DEF UserInstall, FacadeType
<1>6. \/ UNCHANGED <<facade, sink>>
      \/ \E w \in Workers : \/ Upsert(w) \/ Erase(w) \/ Swap(w) \/ Complete(w)
                            \/ Open(w) \/ LeaveProvider(w) \/ Release(w)
      \/ \E d \in Devices : UserInstall(d)
  BY DEF Next, Change, Restart, Flashed, OnChanged, OnFrame, Work, Take, Refresh, Availability,
         Enumerate, Upgrades, ReadHistory, PublishRefreshed, Install, Preflight, Call, CallTimeout,
         Finalize,
         PublishChanged, Ui, RunPost, RebuildSnapshot, RebuildPending, Submit, User, UserRefresh,
         Quit, Teardown
<1> QED
  BY <1>1, <1>2, <1>3, <1>4, <1>5, <1>6

\* Queueing a closure and running the oldest keep the flags in step with the posts.
LEMMA StepKeepsPosts ==
    ASSUME Coalesced, Next
    PROVE  Coalesced' /\ PostsType'
<1>1. ASSUME UNCHANGED <<posts, queued>> PROVE Coalesced'
  BY <1>1 DEF Coalesced
<1>2. ASSUME NEW k \in {"rebuild", "refresh"}, Queue(k) PROVE Coalesced'
  <2>1. CASE UNCHANGED <<posts, queued>>
    BY <1>1, <2>1
  <2>2. CASE posts = <<>> /\ queued = {} /\ ~UNCHANGED <<posts, queued>>
    <3>1. posts' = <<k>> /\ queued' = {k}
      BY <1>2, <2>2 DEF Queue
    <3> QED
      BY <3>1 DEF Coalesced
  <2>3. ASSUME NEW l \in {"rebuild", "refresh"}, posts = <<l>>, queued = {l},
               ~UNCHANGED <<posts, queued>>
        PROVE Coalesced'
    <3>1. k # l /\ posts' = <<l, k>> /\ queued' = {"rebuild", "refresh"}
      BY <1>2, <2>3 DEF Queue
    <3>2. posts' = <<"rebuild", "refresh">> \/ posts' = <<"refresh", "rebuild">>
      BY <3>1
    <3> QED
      BY <3>1, <3>2 DEF Coalesced
  <2>4. CASE queued = {"rebuild", "refresh"}
    BY <1>1, <1>2, <2>4 DEF Queue
  <2> QED
    BY <2>1, <2>2, <2>3, <2>4 DEF Coalesced
<1>3. ASSUME RunPost PROVE Coalesced'
  <2>1. ASSUME NEW k \in {"rebuild", "refresh"}, posts = <<k>>, queued = {k} PROVE Coalesced'
    <3>1. posts' = <<>> /\ queued' = {}
      BY <1>3, <2>1 DEF RunPost, Unflagged
    <3> QED
      BY <3>1 DEF Coalesced
  <2>2. ASSUME NEW k \in {"rebuild", "refresh"}, NEW l \in {"rebuild", "refresh"}, k # l,
               posts = <<k, l>>, queued = {"rebuild", "refresh"}
        PROVE Coalesced'
    <3>1. posts' = <<l>> /\ queued' = {l}
      BY <1>3, <2>2 DEF RunPost, Unflagged
    <3> QED
      BY <3>1 DEF Coalesced
  <2>3. posts # <<>>
    BY <1>3 DEF RunPost
  <2> QED
    BY <2>1, <2>2, <2>3 DEF Coalesced
<1>4. UNCHANGED <<posts, queued>> \/ (\E k \in {"rebuild", "refresh"} : Queue(k)) \/ RunPost
  <2>1. CASE \E w \in Workers : Work(w)
    <3>1. PICK w \in Workers : Work(w)
      BY <2>1
    <3>2. PublishRefreshed(w) \/ PublishChanged(w) \/ UNCHANGED <<posts, queued>>
      BY <3>1 DEF Work, Take, Refresh, Availability, Enumerate, Upgrades, ReadHistory, Upsert,
                  Erase, Swap,
                  Install, Preflight, Open, Call, CallTimeout, Finalize, LeaveProvider, Complete,
                  Release, view
    <3> QED
      BY <3>2 DEF PublishRefreshed, PublishChanged
  <2>2. CASE OnChanged
    BY <2>2 DEF OnChanged
  <2>3. CASE RebuildSnapshot \/ RebuildPending \/ Submit \/ User
    BY <2>3 DEF RebuildSnapshot, RebuildPending, Submit, User, UserRefresh, UserInstall, Quit, view
  <2>4. CASE (\E d \in Devices : Change(d) \/ Flashed(d)) \/ Restart \/ OnFrame \/ Teardown
    BY <2>4 DEF Change, Restart, Flashed, OnFrame, Teardown, view
  <2> QED
    BY <2>1, <2>2, <2>3, <2>4 DEF Next, Ui
<1>5. Coalesced'
  BY <1>1, <1>2, <1>3, <1>4
<1>6. Coalesced' => PostsType'
  <2> DEFINE Closures == {"rebuild", "refresh"}
             Short == UNION {[1..n -> Closures] : n \in 0..2}
  <2>1. <<>> \in Short
    <3>1. <<>> \in [1..0 -> Closures] /\ 0 \in 0..2
      OBVIOUS
    <3> QED
      BY <3>1
  <2>2. \A k \in Closures : <<k>> \in Short
    <3>1. \A k \in Closures : <<k>> \in [1..1 -> Closures]
      OBVIOUS
    <3>2. 1 \in 0..2
      OBVIOUS
    <3> QED
      BY <3>1, <3>2
  <2>3. \A k, l \in Closures : <<k, l>> \in Short
    <3>1. \A k, l \in Closures : <<k, l>> \in [1..2 -> Closures]
      OBVIOUS
    <3>2. 2 \in 0..2
      OBVIOUS
    <3> QED
      BY <3>1, <3>2
  <2> HIDE DEF Short
  <2>4. Coalesced' => posts' \in Short
    BY <2>1, <2>2, <2>3 DEF Coalesced
  <2>5. Coalesced' => queued' \subseteq Closures
    BY DEF Coalesced
  <2> QED
    BY <2>4, <2>5 DEF PostsType, Short
<1> QED
  BY <1>5, <1>6

LEMMA StepKeepsUi ==
    ASSUME FacadeType, UiType, Next PROVE UiType'
<1>1. tokenMisused' \in BOOLEAN
  <2>1. tokenMisused' = tokenMisused \/ \E k \in {"rebuild", "refresh"} : Queue(k)
    BY DEF Next, Change, Restart, Flashed, OnChanged, OnFrame, Work, Take, Refresh, Availability,
           Enumerate, Upgrades, ReadHistory, Upsert, Erase, Swap, PublishRefreshed, Install,
           Preflight, Open,
           Call, CallTimeout, Finalize, LeaveProvider, Complete, PublishChanged, Release, Ui,
           RunPost, RebuildSnapshot,
           RebuildPending, Submit, User, UserRefresh, UserInstall, Quit, Teardown, view
  <2> QED
    BY <2>1 DEF Queue, UiType
<1>2. progress' \in BOOLEAN
  <2>1. progress' = progress \/ progress' = Cleared \/ progress' = Progressed
    BY DEF Next, Change, Restart, Flashed, OnChanged, OnFrame, Work, Take, Refresh, Availability,
           Enumerate, Upgrades, ReadHistory, Upsert, Erase, Swap, PublishRefreshed, Install,
           Preflight, Open,
           Call, CallTimeout, Finalize, LeaveProvider, Complete, PublishChanged, Release, Ui,
           RunPost, RebuildSnapshot,
           RebuildPending, Submit, User, UserRefresh, UserInstall, Quit, Teardown
  <2> QED
    BY <2>1 DEF Cleared, Progressed, UiType
<1>3. /\ ui' \in {"loop", "snapshot", "pending", "submit"}
      /\ shown' \in [snapshot : Found, pending : SUBSET Devices]
  <2>1. CASE UNCHANGED <<ui, shown>>
    BY <2>1 DEF UiType
  <2>2. CASE RunPost \/ RebuildSnapshot \/ RebuildPending \/ Submit \/ UserRefresh
    BY <2>2 DEF RunPost, RebuildSnapshot, RebuildPending, Submit, UserRefresh, UiType, FacadeType
  <2>3. \/ UNCHANGED <<ui, shown>>
        \/ RunPost \/ RebuildSnapshot \/ RebuildPending \/ Submit \/ UserRefresh
    <3>1. ASSUME NEW w \in Workers, Work(w) PROVE UNCHANGED <<ui, shown>>
      BY <3>1 DEF Work, Take, Refresh, Availability, Enumerate, Upgrades, ReadHistory, Upsert, Erase,
             Swap, PublishRefreshed, Install, Preflight, Open, Call, CallTimeout, Finalize,
             LeaveProvider, Complete, PublishChanged, Release, Queue, view
    <3> QED
      BY <3>1 DEF Next, Change, Restart, Flashed, OnChanged, OnFrame, Ui, User, UserInstall, Quit,
             Teardown, Queue, view
  <2> QED
    BY <2>1, <2>2, <2>3
<1> QED
  BY <1>1, <1>2, <1>3 DEF UiType

LEMMA StepKeepsOwner ==
    ASSUME OwnerType, Next PROVE OwnerType' /\ (Subscribed' => Subscribed)
<1>1. CASE UNCHANGED owner
  BY <1>1 DEF OwnerType, Subscribed
<1>2. CASE Quit \/ Teardown
  BY <1>2 DEF Quit, UiFree, Teardown, OwnerType, Subscribed
<1>3. UNCHANGED owner \/ Quit \/ Teardown
  BY DEF Next, Change, Restart, Flashed, OnChanged, OnFrame, Work, Take, Refresh, Availability,
         Enumerate, Upgrades, ReadHistory, Upsert, Erase, Swap, PublishRefreshed, Install,
         Preflight, Open,
         Call, CallTimeout, Finalize, LeaveProvider, Complete, PublishChanged, Release, Ui,
         RunPost, RebuildSnapshot,
         RebuildPending, Submit, User, UserRefresh, UserInstall
<1> QED
  BY <1>1, <1>2, <1>3

-----------------------------------------------------------------------------
(* Every step keeps the slot.                                              *)

\* Nothing happened to the install: the same jobs wait, the same workers install.
LEMMA SameInstalls ==
    ASSUME Slot, UNCHANGED <<queue, installActive>>,
           \A w \in Workers : run'[w].kind = "install" <=> run[w].kind = "install"
    PROVE  Slot'
<1>1. (NoneQueued' <=> NoneQueued) /\ (OneQueued' <=> OneQueued)
  BY DEF NoneQueued, OneQueued
<1>2. (NoneRuns' <=> NoneRuns) /\ (OneRuns' <=> OneRuns)
  BY DEF NoneRuns, OneRuns
<1> QED
  BY <1>1, <1>2 DEF Slot

LEMMA TakeKeepsSlot ==
    ASSUME JobsType, Slot, NEW w \in Workers, Take(w) PROVE Slot'
<1>1. /\ run[w] = Idle /\ run'[w] = queue[1]
      /\ \A v \in Workers \ {w} : run'[v] = run[v]
      /\ installActive' = installActive
  BY TakeJob DEF Take, JobsType, facade
<1>2. run[w].kind # "install"
  BY <1>1 DEF Idle
<1>3. /\ 1 \in DOMAIN queue
      /\ \A n \in DOMAIN queue' : n + 1 \in DOMAIN queue \ {1} /\ queue'[n] = queue[n + 1]
      /\ \A n \in DOMAIN queue \ {1} : n - 1 \in DOMAIN queue' /\ queue'[n - 1] = queue[n]
  BY TakeJob DEF Take, JobsType
<1>4. CASE ~installActive
  BY <1>1, <1>3, <1>4 DEF Slot, NoneQueued, NoneRuns
<1>5. CASE installActive /\ OneQueued /\ NoneRuns
  <2>1. PICK n \in DOMAIN queue :
          queue[n].kind = "install" /\ \A m \in DOMAIN queue \ {n} : queue[m].kind # "install"
    BY <1>5 DEF OneQueued
  <2>2. CASE n = 1
    <3>1. NoneQueued'
      BY <1>3, <2>1, <2>2 DEF NoneQueued
    <3>2. OneRuns'
      BY <1>1, <1>5, <2>1, <2>2 DEF OneRuns, NoneRuns
    <3> QED
      BY <1>1, <1>5, <3>1, <3>2 DEF Slot
  <2>3. CASE n # 1
    <3>1. n - 1 \in DOMAIN queue' /\ queue'[n - 1].kind = "install"
      BY <1>3, <2>1, <2>3
    <3>2. \A m \in DOMAIN queue' \ {n - 1} : queue'[m].kind # "install"
      <4>1. TAKE m \in DOMAIN queue' \ {n - 1}
      <4>2. DOMAIN queue \subseteq Nat /\ DOMAIN queue' \subseteq Nat
        <5>1. queue' \in Seq(Jobs)
          BY TakeJob DEF Take, JobsType
        <5> QED
          BY <5>1, LenProperties DEF JobsType
      <4>3. m + 1 \in DOMAIN queue \ {n} /\ queue'[m] = queue[m + 1]
        BY <1>3, <4>1, <4>2
      <4> QED
        BY <2>1, <4>3
    <3>3. OneQueued'
      BY <3>1, <3>2 DEF OneQueued
    <3>4. NoneRuns'
      BY <1>1, <1>3, <1>5, <2>1, <2>3 DEF NoneRuns
    <3> QED
      BY <1>1, <1>5, <3>3, <3>4 DEF Slot
  <2> QED
    BY <2>2, <2>3
<1>6. CASE installActive /\ NoneQueued /\ OneRuns
  <2>1. NoneQueued' /\ run'[w].kind # "install"
    BY <1>1, <1>3, <1>6 DEF NoneQueued
  <2>2. OneRuns'
    BY <1>1, <1>2, <1>6, <2>1 DEF OneRuns
  <2> QED
    BY <1>1, <1>6, <2>1, <2>2 DEF Slot
<1> QED
  BY <1>4, <1>5, <1>6 DEF Slot

\* A refresh job queued behind the others changes nothing; an install may be queued
\* when the slot was free.
LEMMA AppendKeepsSlot ==
    ASSUME JobsType, Slot, NEW j \in Jobs, queue' = Append(queue, j), UNCHANGED run,
           \/ j.kind # "install" /\ UNCHANGED installActive
           \/ j.kind = "install" /\ ~installActive /\ installActive'
    PROVE  Slot'
<1> DEFINE last == Len(queue) + 1
<1>1. /\ \A n \in DOMAIN queue : n \in DOMAIN queue' /\ queue'[n] = queue[n]
      /\ \A n \in DOMAIN queue' : n \in DOMAIN queue \/ n = last
      /\ last \in DOMAIN queue' \ DOMAIN queue /\ queue'[last] = j
  BY AppendJob DEF JobsType
<1> HIDE DEF last
<1>2. (NoneRuns' <=> NoneRuns) /\ (OneRuns' <=> OneRuns)
  BY DEF NoneRuns, OneRuns
<1>3. CASE j.kind # "install" /\ UNCHANGED installActive
  <2>1. NoneQueued => NoneQueued'
    BY <1>1, <1>3 DEF NoneQueued
  <2>2. ASSUME OneQueued PROVE OneQueued'
    <3>1. PICK n \in DOMAIN queue :
            queue[n].kind = "install" /\ \A m \in DOMAIN queue \ {n} : queue[m].kind # "install"
      BY <2>2 DEF OneQueued
    <3>2. n \in DOMAIN queue' /\ queue'[n].kind = "install"
      BY <1>1, <3>1
    <3>3. \A m \in DOMAIN queue' \ {n} : queue'[m].kind # "install"
      BY <1>1, <1>3, <3>1
    <3> QED
      BY <3>2, <3>3 DEF OneQueued
  <2> QED
    BY <1>2, <1>3, <2>1, <2>2 DEF Slot
<1>4. CASE j.kind = "install" /\ ~installActive /\ installActive'
  <2>1. NoneQueued /\ NoneRuns
    BY <1>4 DEF Slot
  <2>2. OneQueued'
    BY <1>1, <1>4, <2>1 DEF NoneQueued, OneQueued
  <2> QED
    BY <1>2, <1>4, <2>1, <2>2 DEF Slot
<1> QED
  BY <1>3, <1>4

LEMMA InstallKeepsSlot ==
    ASSUME JobsType, Slot, NEW w \in Workers, Install(w) PROVE Slot'
<1>1. PICK j : InstallStep(w, j) /\ (j = Idle \/ j \in InstallJobs)
  BY InstallGoesOn
<1>2. run[w].kind = "install"
  BY InstallGoesOn, RunKinds
<1>3. UNCHANGED queue /\ run'[w] = j /\ \A v \in Workers \ {w} : run'[v] = run[v]
  BY <1>1 DEF InstallStep, GoesOn, JobsType
<1>4. CASE j \in InstallJobs
  <2>1. j.kind = "install" /\ j # Idle
    BY <1>4 DEF InstallJobs, Idle
  <2>2. installActive' = installActive
    BY <1>1, <2>1 DEF InstallStep
  <2> QED
    BY <1>2, <1>3, <2>1, <2>2, SameInstalls
<1>5. CASE j = Idle
  <2>1. installActive /\ NoneQueued /\ OneRuns
    BY <1>2 DEF Slot, NoneRuns
  <2>2. ~installActive'
    BY <1>1, <1>5 DEF InstallStep
  <2>3. NoneRuns'
    BY <1>2, <1>3, <1>5, <2>1 DEF OneRuns, NoneRuns, Idle
  <2>4. NoneQueued'
    BY <1>3, <2>1 DEF NoneQueued
  <2> QED
    BY <2>2, <2>3, <2>4 DEF Slot
<1> QED
  BY <1>1, <1>4, <1>5

LEMMA StepKeepsSlot ==
    ASSUME TypeOK, Slot, Next PROVE Slot'
<1>0. FwupdType /\ JobsType /\ FacadeType
  BY TypeParts
<1>1. ASSUME UNCHANGED <<queue, run, installActive>> PROVE Slot'
  BY <1>1, SameInstalls
<1>2. ASSUME NEW w \in Workers, Work(w) PROVE Slot'
  <2>1. CASE Refresh(w)
    <3>1. PICK j : GoesOn(w, j) /\ (j = Idle \/ j \in RefreshJobs)
      BY <1>0, <2>1, RefreshGoesOn
    <3>2. run[w].kind # "install" /\ j.kind # "install"
      BY <1>0, <2>1, <3>1, RefreshGoesOn DEF RefreshJobs, Idle
    <3>3. run'[w] = j /\ \A v \in Workers \ {w} : run'[v] = run[v]
      BY <1>0, <3>1 DEF GoesOn, JobsType
    <3>4. UNCHANGED <<queue, installActive>>
      BY <2>1 DEF Refresh, Availability, Enumerate, Upgrades, ReadHistory, Upsert, Erase, Swap,
                  PublishRefreshed, facade
    <3> QED
      BY <3>2, <3>3, <3>4, SameInstalls
  <2> QED
    BY <1>0, <1>2, <2>1, TakeKeepsSlot, InstallKeepsSlot DEF Work
<1>3. ASSUME NEW ds, NEW r \in {"applied", "pending", "failed"}, run' = Replied(ds, r),
             UNCHANGED <<queue, installActive>>
      PROVE  Slot'
  <2>1. \A w \in Workers : run'[w].kind = "install" <=> run[w].kind = "install"
    BY <1>0, <1>3, RepliedGoesOn DEF InstallJobs
  <2> QED
    BY <1>3, <2>1, SameInstalls
<1>4. CASE Restart
  BY <1>3, <1>4 DEF Restart, facade
<1>5. ASSUME NEW d \in Devices, Flashed(d) PROVE Slot'
  <2>1. PICK r \in {"applied", "pending", "failed"} : run' = Replied({d}, r)
    BY <1>5 DEF Flashed
  <2>2. UNCHANGED <<queue, installActive>>
    BY <1>5 DEF Flashed, facade
  <2> QED
    BY <1>3, <2>1, <2>2
<1>6. ASSUME NEW h \in {"vm", "user"}, queue' = Append(queue, RefreshJob(h)),
             UNCHANGED <<run, installActive>>
      PROVE  Slot'
  <2>1. RefreshJob(h) \in Jobs /\ RefreshJob(h).kind # "install"
    BY NewJobs, JobParts DEF RefreshJob
  <2> QED
    BY <1>0, <1>6, <2>1, AppendKeepsSlot
<1>7. CASE Submit \/ UserRefresh
  BY <1>6, <1>7 DEF Submit, UserRefresh, facade
<1>8. ASSUME NEW d \in Devices, UserInstall(d) PROVE Slot'
  <2>1. CASE installActive
    BY <1>1, <1>8, <2>1 DEF UserInstall
  <2>2. CASE ~installActive
    <3>1. InstallJob(d) \in Jobs /\ InstallJob(d).kind = "install"
      BY NewJobs, JobParts DEF InstallJob
    <3>2. queue' = Append(queue, InstallJob(d)) /\ installActive' /\ UNCHANGED run
      BY <1>8, <2>2 DEF UserInstall
    <3> QED
      BY <1>0, <2>2, <3>1, <3>2, AppendKeepsSlot
  <2> QED
    BY <2>1, <2>2
<1>9. \/ UNCHANGED <<queue, run, installActive>>
      \/ \E w \in Workers : Work(w)
      \/ Restart \/ \E d \in Devices : Flashed(d)
      \/ Submit \/ UserRefresh \/ \E d \in Devices : UserInstall(d)
  BY DEF Next, Change, OnChanged, OnFrame, Ui, RunPost, RebuildSnapshot, RebuildPending, User,
         Quit, Teardown, facade
<1> QED
  BY <1>1, <1>2, <1>4, <1>5, <1>7, <1>8, <1>9

-----------------------------------------------------------------------------
(* Every step keeps the sink and the progress line with an install.        *)

LEMMA InstallKeepsProgress ==
    ASSUME JobsType, ProgressInv, NEW w \in Workers, Install(w), Subscribed' => Subscribed
    PROVE  ProgressInv'
<1>1. PICK j : InstallStep(w, j)
  BY InstallGoesOn
<1>2. run[w].kind = "install" /\ (j = Idle \/ j.kind = "install")
  <2>1. run[w] \in InstallJobs /\ (j = Idle \/ j \in InstallJobs)
    BY <1>1, InstallGoesOn DEF InstallStep, GoesOn, RefreshJobs, InstallJobs
  <2> QED
    BY <2>1 DEF InstallJobs
<1>3. run'[w] = j /\ \A v \in Workers \ {w} : run'[v] = run[v]
  BY <1>1 DEF InstallStep, GoesOn, JobsType
<1>4. SinkOfAnInstall'
  <2> DEFINE Between == {"call", "wait", "finalize", "gate"}
  <2>1. CASE j # Idle /\ j.pc \in Between
    BY <1>2, <1>3, <2>1 DEF SinkOfAnInstall, InstallAt
  <2>2. ASSUME sink', ~(j # Idle /\ j.pc \in Between) PROVE InstallAt(Between)'
    <3>1. sink /\ run[w].pc \notin Between
      BY <1>1, <2>2 DEF InstallStep
    <3>2. PICK v \in Workers : run[v].kind = "install" /\ run[v].pc \in Between
      BY <3>1 DEF ProgressInv, SinkOfAnInstall, InstallAt
    <3> QED
      BY <1>3, <3>1, <3>2 DEF InstallAt
  <2> QED
    BY <2>1, <2>2 DEF SinkOfAnInstall
<1>5. ASSUME progress', Subscribed' PROVE InstallAt({"call", "wait", "finalize", "gate", "seed"})'
  <2>1. progress /\ run[w].pc # "seed"
    BY <1>1, <1>5 DEF InstallStep, Cleared
  <2>2. PICK v \in Workers :
          run[v].kind = "install" /\ run[v].pc \in {"call", "wait", "finalize", "gate", "seed"}
    BY <1>5, <2>1 DEF ProgressInv, InstallAt
  <2>3. CASE v = w
    <3>1. j # Idle /\ j.pc \in {"wait", "finalize", "gate", "seed"}
      BY <1>1, <2>1, <2>2, <2>3 DEF InstallStep
    <3> QED
      BY <1>2, <1>3, <3>1 DEF InstallAt
  <2>4. CASE v # w
    BY <1>3, <2>2, <2>4 DEF InstallAt
  <2> QED
    BY <2>3, <2>4
<1> QED
  BY <1>4, <1>5 DEF ProgressInv

\* Installs under way stay so, and a line appears with the sink only.
InstallsGoOn ==
    \A w \in Workers :
        run[w].kind = "install" /\ run[w].pc \in {"call", "wait", "finalize", "gate", "seed"} =>
            /\ run'[w].kind = "install"
            /\ \/ run'[w].pc = run[w].pc
               \/ run[w].pc = "wait" /\ run'[w].pc \in {"finalize", "gate"}
LineOfSink == progress' => progress \/ (sink /\ Subscribed)

LEMMA StepKeepsProgress ==
    ASSUME TypeOK, ProgressInv, Next PROVE ProgressInv'
<1> DEFINE Shown == {"call", "wait", "finalize", "gate", "seed"}
<1>0. FwupdType /\ JobsType /\ FacadeType /\ (Subscribed' => Subscribed)
  BY TypeParts, StepKeepsOwner
<1>1. ASSUME UNCHANGED sink, LineOfSink, InstallsGoOn PROVE ProgressInv'
  <2>1. InstallAt({"call", "wait", "finalize", "gate"}) => InstallAt({"call", "wait", "finalize", "gate"})'
    BY <1>1 DEF InstallAt, InstallsGoOn
  <2>2. InstallAt(Shown) => InstallAt(Shown)'
    BY <1>1 DEF InstallAt, InstallsGoOn
  <2>3. InstallAt({"call", "wait", "finalize", "gate"}) => InstallAt(Shown)
    BY DEF InstallAt
  <2> HIDE DEF Shown
  <2>4. progress /\ Subscribed => InstallAt(Shown)
    BY DEF ProgressInv, Shown
  <2>5. sink => InstallAt({"call", "wait", "finalize", "gate"})
    BY DEF ProgressInv, SinkOfAnInstall
  <2>6. sink' => InstallAt({"call", "wait", "finalize", "gate"})'
    BY <1>1, <2>1, <2>5
  <2>7. progress' /\ Subscribed' => InstallAt(Shown)'
    BY <1>0, <1>1, <2>2, <2>3, <2>4, <2>5 DEF LineOfSink
  <2> QED
    BY <2>6, <2>7 DEF ProgressInv, SinkOfAnInstall, Shown
<1>2. ASSUME NEW w \in Workers, Take(w) \/ Refresh(w) PROVE ProgressInv'
  <2>1. run[w].kind # "install"
    BY <1>0, <1>2, RefreshGoesOn DEF Take, Idle, RefreshJobs
  <2>2. \A v \in Workers \ {w} : run'[v] = run[v]
    <3>1. \E j : run' = [run EXCEPT ![w] = j]
      BY <1>0, <1>2, RefreshGoesOn DEF Take, GoesOn
    <3> QED
      BY <1>0, <3>1 DEF JobsType
  <2>3. UNCHANGED <<sink, progress>>
    BY <1>2 DEF Take, Refresh, Availability, Enumerate, Upgrades, ReadHistory, Upsert, Erase, Swap,
                PublishRefreshed
  <2>4. LineOfSink
    BY <2>3 DEF LineOfSink
  <2>5. InstallsGoOn
    BY <2>1, <2>2 DEF InstallsGoOn
  <2> QED
    BY <1>1, <2>3, <2>4, <2>5
<1>3. ASSUME NEW ds, NEW r \in {"applied", "pending", "failed"}, run' = Replied(ds, r),
             UNCHANGED <<sink, progress>>
      PROVE  ProgressInv'
  <2>1. \A w \in Workers :
          \/ run'[w] = run[w]
          \/ run[w].pc = "wait" /\ run'[w].kind = "install" /\ run'[w].pc \in {"finalize", "gate"}
    BY <1>0, <1>3, RepliedGoesOn DEF InstallJobs
  <2>2. InstallsGoOn
    BY <2>1 DEF InstallsGoOn
  <2>3. LineOfSink
    BY <1>3 DEF LineOfSink
  <2> QED
    BY <1>1, <1>3, <2>2, <2>3
<1>4. CASE Restart
  BY <1>3, <1>4 DEF Restart
<1>5. ASSUME NEW d \in Devices, Flashed(d) PROVE ProgressInv'
  <2>1. PICK r \in {"applied", "pending", "failed"} : run' = Replied({d}, r)
    BY <1>5 DEF Flashed
  <2> QED
    BY <1>3, <1>5, <2>1 DEF Flashed
<1>6. CASE UNCHANGED <<run, sink>> /\ LineOfSink
  BY <1>1, <1>6 DEF InstallsGoOn
<1>7. \/ UNCHANGED <<run, sink>> /\ LineOfSink
      \/ \E w \in Workers : Work(w)
      \/ Restart \/ \E d \in Devices : Flashed(d)
  <2>1. CASE OnFrame
    BY <2>1 DEF OnFrame, Progressed, LineOfSink
  <2>2. CASE User
    BY <2>2 DEF User, UserRefresh, UserInstall, Cleared, Quit, LineOfSink
  <2>3. CASE (\E d \in Devices : Change(d)) \/ OnChanged \/ Ui \/ Teardown
    BY <2>3 DEF Change, OnChanged, Ui, RunPost, RebuildSnapshot, RebuildPending, Submit, Teardown,
                LineOfSink
  <2> QED
    BY <2>1, <2>2, <2>3 DEF Next
<1> QED
  BY <1>0, <1>2, <1>4, <1>5, <1>6, <1>7, InstallKeepsProgress DEF Work

-----------------------------------------------------------------------------
(* Every step keeps the custody of the futures.                            *)

\* Jobs move from the queue to a worker and on, and keep their holders.
LEMMA NobodyNew ==
    ASSUME JobsType, FwupdType, FacadeType, NEW h, NobodyHolds(h),
           \/ \E w \in Workers : Work(w)
           \/ /\ \E ds : \E r \in {"applied", "pending", "failed"} : run' = Replied(ds, r)
              /\ UNCHANGED queue
           \/ UNCHANGED <<queue, run>>
    PROVE  NobodyHolds(h)'
<1>1. ASSUME NEW w \in Workers, NEW j, GoesOn(w, j) PROVE NobodyHolds(h)'
  <2>1. run'[w] = j /\ UNCHANGED queue /\ \A v \in Workers \ {w} : run'[v] = run[v]
    BY <1>1 DEF GoesOn, JobsType
  <2>2. j # Idle => run[w] # Idle /\ j.holder = run[w].holder
    BY <1>1 DEF GoesOn, RefreshJobs, InstallJobs, Idle
  <2> QED
    BY <2>1, <2>2 DEF NobodyHolds
<1>2. ASSUME NEW w \in Workers, Take(w) PROVE NobodyHolds(h)'
  <2>1. run'[w] = queue[1] /\ \A v \in Workers \ {w} : run'[v] = run[v]
    BY <1>2, TakeJob DEF Take, JobsType
  <2>2. /\ 1 \in DOMAIN queue
        /\ \A n \in DOMAIN queue' : n + 1 \in DOMAIN queue /\ queue'[n] = queue[n + 1]
    BY <1>2, TakeJob DEF Take, JobsType
  <2> QED
    BY <2>1, <2>2 DEF NobodyHolds
<1>3. ASSUME NEW ds, NEW r \in {"applied", "pending", "failed"}, run' = Replied(ds, r),
             UNCHANGED queue
      PROVE  NobodyHolds(h)'
  <2>1. \A w \in Workers :
          \/ run'[w] = run[w]
          \/ run[w] # Idle /\ run'[w].holder = run[w].holder
    BY <1>3, RepliedGoesOn DEF InstallJobs, Idle
  <2> QED
    BY <1>3, <2>1 DEF NobodyHolds
<1>4. CASE UNCHANGED <<queue, run>>
  BY <1>4 DEF NobodyHolds
<1> QED
  BY <1>1, <1>2, <1>3, <1>4, RefreshGoesOn, InstallGoesOn DEF Work, InstallStep

\* A future that nobody waits for any more belongs to no job.
LEMMA NothingHeld ==
    ASSUME NEW h, Held(h) = {} PROVE NobodyHolds(h)
BY DEF Held, Outstanding, Running, NobodyHolds

LEMMA StepKeepsCustody ==
    ASSUME TypeOK, Custody, Next PROVE Custody'
<1>0. FwupdType /\ JobsType /\ FacadeType /\ OwnerType
  BY TypeParts
<1>1. CASE Teardown
  <2>1. UNCHANGED <<queue, run, ui>> /\ owner # "loop" /\ owner' # "loop" /\ owner' # "drain"
    BY <1>1 DEF Teardown, view
  <2>2. \A h \in {"vm", "user"} : NobodyHolds(h) => NobodyHolds(h)'
    BY <2>1 DEF NobodyHolds
  <2>3. owner = "drain" => NobodyHolds("user") /\ owner' = "wait"
    BY <1>1, NothingHeld DEF Teardown
  <2>4. owner = "wait" => NobodyHolds("vm")
    BY <1>1, NothingHeld DEF Teardown, RefreshEnded
  <2>5. NobodyHolds("user")'
    BY <1>0, <2>1, <2>2, <2>3 DEF Custody, OwnerType
  <2>6. owner' # "wait" => NobodyHolds("vm")'
    BY <1>0, <2>1, <2>2, <2>3, <2>4 DEF Custody, OwnerType
  <2> QED
    BY <2>1, <2>5, <2>6 DEF Custody
<1>2. CASE Quit
  BY <1>2 DEF Quit, UiFree, view, Custody
<1>3. CASE \/ RunPost \/ RebuildSnapshot \/ RebuildPending \/ Submit \/ UserRefresh
           \/ \E d \in Devices : UserInstall(d)
  <2>1. owner' = "loop"
    BY <1>3 DEF RunPost, RebuildSnapshot, RebuildPending, Submit, UserRefresh, UserInstall, UiFree,
                Custody
  <2> QED
    BY <2>1 DEF Custody
<1>4. CASE /\ UNCHANGED <<owner, ui>>
           /\ \/ \E w \in Workers : Work(w)
              \/ /\ \E ds : \E r \in {"applied", "pending", "failed"} : run' = Replied(ds, r)
                 /\ UNCHANGED queue
              \/ UNCHANGED <<queue, run>>
  BY <1>0, <1>4, NobodyNew DEF Custody
<1>5. \/ Teardown \/ Quit \/ RunPost \/ RebuildSnapshot \/ RebuildPending \/ Submit \/ UserRefresh
      \/ \E d \in Devices : UserInstall(d)
      \/ /\ UNCHANGED <<owner, ui>>
         /\ \/ \E w \in Workers : Work(w)
            \/ /\ \E ds : \E r \in {"applied", "pending", "failed"} : run' = Replied(ds, r)
               /\ UNCHANGED queue
            \/ UNCHANGED <<queue, run>>
  <2>1. ASSUME NEW w \in Workers, Work(w) PROVE UNCHANGED <<owner, ui>>
    <3>1. PublishRefreshed(w) \/ PublishChanged(w) \/ UNCHANGED <<owner, ui>>
      BY <2>1 DEF Work, Take, Refresh, Availability, Enumerate, Upgrades, ReadHistory, Upsert,
                  Erase, Swap,
                  Install, Preflight, Open, Call, CallTimeout, Finalize, LeaveProvider, Complete,
                  Release, view
    <3> QED
      BY <3>1 DEF PublishRefreshed, PublishChanged, Queue
  <2>2. CASE Restart
    BY <2>2 DEF Restart, view
  <2>3. ASSUME NEW d \in Devices, Flashed(d)
        PROVE  /\ UNCHANGED <<owner, ui, queue>>
               /\ \E r \in {"applied", "pending", "failed"} : run' = Replied({d}, r)
    BY <2>3 DEF Flashed, view
  <2>4. CASE OnFrame \/ \E d \in Devices : Change(d)
    BY <2>4 DEF OnFrame, Change, view
  <2>5. CASE OnChanged
    BY <2>5 DEF OnChanged, Queue
  <2> QED
    BY <2>1, <2>2, <2>3, <2>4, <2>5 DEF Next, Ui, User
<1> QED
  BY <1>1, <1>2, <1>3, <1>4, <1>5

-----------------------------------------------------------------------------
(* The theorems.                                                           *)

\* In particular the sink is set only while an install is under way, a flag is set
\* exactly while its closure is posted, and the one install is where Slot says.
THEOREM UpdatesInvariant == Spec => []UpdatesInv
<1>1. Init => UpdatesInv
  <2> SUFFICES ASSUME Init PROVE UpdatesInv
    OBVIOUS
  <2>1. queue = <<>> /\ DOMAIN queue = {} /\ queue \in Seq(Jobs)
    BY DEF Init
  <2>2. Unreported \in Found
    BY DEF Unreported, Found
  <2>3. FwupdType
    <3>1. fwupd \in [up : BOOLEAN, offers : [Devices -> Offers], history : {{}}, flashing : {{}}]
      BY DEF Init
    <3>2. signals = 0 /\ 0 \in 0..MaxSignals
      BY UpdatesAssumption DEF Init
    <3> QED
      BY <3>1, <3>2 DEF FwupdType
  <2>8. FacadeType /\ UiType /\ OwnerType
    BY <2>2 DEF Init, FacadeType, UiType, OwnerType
  <2>4. JobsType
    BY <2>1 DEF Init, JobsType
  <2>5. PostsType /\ Coalesced
    <3>1. <<>> \in [1..0 -> {"rebuild", "refresh"}] /\ 0 \in 0..2
      OBVIOUS
    <3> QED
      BY <3>1 DEF Init, PostsType, Coalesced
  <2>6. Slot
    BY <2>1 DEF Init, Slot, NoneQueued, NoneRuns, Idle
  <2>7. ProgressInv /\ Custody
    BY DEF Init, ProgressInv, SinkOfAnInstall, Custody
  <2> QED
    BY <2>3, <2>4, <2>5, <2>6, <2>7, <2>8, TypeParts DEF UpdatesInv
<1>2. UpdatesInv /\ [Next]_vars => UpdatesInv'
  <2> SUFFICES ASSUME UpdatesInv, [Next]_vars PROVE UpdatesInv'
    OBVIOUS
  <2>1. CASE Next
    <3>1. TypeOK'
      BY <2>1, TypeParts, UpdatesAssumption, StepKeepsJobs, StepKeepsFwupd, StepKeepsFacade,
         StepKeepsPosts, StepKeepsUi, StepKeepsOwner DEF UpdatesInv
    <3> QED
      BY <2>1, <3>1, StepKeepsSlot, StepKeepsProgress, StepKeepsCustody, StepKeepsPosts
         DEF UpdatesInv
  <2>2. CASE UNCHANGED vars
    <3> USE <2>2 DEF vars, daemon, facade, view
    <3>1. TypeOK'
      BY DEF UpdatesInv, TypeOK
    <3>2. Slot'
      BY DEF UpdatesInv, Slot, NoneQueued, OneQueued, NoneRuns, OneRuns
    <3>3. ProgressInv'
      BY DEF UpdatesInv, ProgressInv, SinkOfAnInstall, InstallAt, Subscribed
    <3>4. Custody' /\ Coalesced'
      BY DEF UpdatesInv, Custody, NobodyHolds, Coalesced
    <3> QED
      BY <3>1, <3>2, <3>3, <3>4 DEF UpdatesInv
  <2> QED
    BY <2>1, <2>2
<1> QED
  BY <1>1, <1>2, PTL DEF Spec

\* Every variable keeps its type: jobs, posts, the view and the provider's state.
THEOREM UpdatesTypeCorrect == Spec => []TypeOK
<1>1. UpdatesInv => TypeOK
  BY DEF UpdatesInv
<1> QED
  BY <1>1, UpdatesInvariant, PTL

LEMMA SlotCounts ==
    ASSUME JobsType, FacadeType, Slot PROVE SlotIsAnInstall
<1> DEFINE Q == InstallsQueued
           R == {w \in Workers : run[w].kind = "install"}
<1>0. \A x : Cardinality({x}) = 1 /\ Cardinality({}) = 0
  BY FS_Singleton, FS_EmptySet
<1>1. NoneQueued => Cardinality(Q) = 0
  <2>1. NoneQueued => Q = {}
    BY DEF NoneQueued, InstallsQueued
  <2> QED
    BY <1>0, <2>1
<1>2. NoneRuns => Cardinality(R) = 0
  <2>1. NoneRuns => R = {}
    BY DEF NoneRuns
  <2> QED
    BY <1>0, <2>1
<1>3. OneQueued => Cardinality(Q) = 1
  <2>1. OneQueued => \E n : Q = {n}
    BY DEF OneQueued, InstallsQueued
  <2> QED
    BY <1>0, <2>1
<1>4. OneRuns => Cardinality(R) = 1
  <2>1. OneRuns => \E w : R = {w}
    BY DEF OneRuns
  <2> QED
    BY <1>0, <2>1
<1> HIDE DEF Q, R
<1>5. Cardinality(Q) + Cardinality(R) = (IF installActive THEN 1 ELSE 0)
  BY <1>1, <1>2, <1>3, <1>4 DEF Slot
<1> QED
  BY <1>5 DEF SlotIsAnInstall, Q, R

\* installActive_ is set exactly while one install is queued or under way: it is
\* claimed before the job exists and given back on every way out of it.
THEOREM OneInstallAtATime == Spec => []SlotIsAnInstall
<1>1. UpdatesInv => SlotIsAnInstall
  BY SlotCounts, TypeParts DEF UpdatesInv
<1> QED
  BY <1>1, UpdatesInvariant, PTL

\* A late progress frame never revives the line of an install that has completed: the
\* sink is gone before the completion is published.
THEOREM ProgressEndsWithTheInstall == Spec => []ProgressOfAnInstall
<1>1. UpdatesInv => ProgressOfAnInstall
  BY DEF UpdatesInv, ProgressInv, InstallAt, ProgressOfAnInstall, InstallsAt
<1> QED
  BY <1>1, UpdatesInvariant, PTL

\* drainPending and ~UpdatesVM leave no job that could use the facade after its end.
THEOREM FacadeIsNotOutlived == Spec => []FacadeOutlivesJobs
<1>1. UpdatesInv => FacadeOutlivesJobs
  <2> SUFFICES ASSUME UpdatesInv, owner \in {"noFacade", "done"} PROVE Outstanding = {}
    BY DEF FacadeOutlivesJobs
  <2>1. NobodyHolds("user") /\ NobodyHolds("vm") /\ JobsType
    BY TypeParts DEF UpdatesInv, Custody
  <2>2. \A j \in Jobs : j.holder \in {"vm", "user"}
    BY DEF Jobs
  <2>3. \A n \in DOMAIN queue : queue[n] \in Jobs
    BY <2>1, LenProperties, ElementOfSeq DEF JobsType
  <2>4. DOMAIN queue = {}
    BY <2>1, <2>2, <2>3 DEF NobodyHolds
  <2>5. \A w \in Workers : run[w] = Idle
    BY <2>1, <2>2 DEF NobodyHolds, JobsType
  <2> QED
    BY <2>4, <2>5 DEF Outstanding, Running
<1> QED
  BY <1>1, UpdatesInvariant, PTL
=============================================================================
