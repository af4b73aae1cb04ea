---------------------------- MODULE GuardProofs -----------------------------
(***************************************************************************)
(* What the guard protects stays, for any tree of devices, any stack of    *)
(* block devices, any mounts and any bounds.                               *)
(*                                                                         *)
(* The guard's verdict is minutes old when its verb takes effect, so the   *)
(* inductive invariants carry it across the prompt: while a verb is in     *)
(* hand, none of its targets is above what was mounted when it was judged  *)
(* (Judged), and some input device of each kind is below none of them      *)
(* (Spared).  Paths are opaque: the argument needs only that every verb    *)
(* switches off its targets and nothing else.                              *)
(*                                                                         *)
(* The second half is about the module verbs of a client: there the        *)
(* verdict travels through devmgrd's queue and its prompt.                 *)
(***************************************************************************)
EXTENDS Disabling, Modules, TLAPS

RequestType ==
    request \in [at : {"idle", "prompt"}, verb : OneDevice \cup {"none", "enable", "unload"},
                 targets : SUBSET Devices]
MountsType == mounts \subseteq Mounts
OffType == off \subseteq Devices

\* No target of a verb that switches off is above a part of what is mounted.
Clear(b, targets) == \A c \in MadeOf(b), t \in targets : ~isUnder(BlockDir[c], t)
Judged ==
    (Pending /\ request.verb # "enable") =>
        \A m \in mounts \ late : m.source \in Blocks => Clear(m.source, request.targets)

\* Some device of the kind is left when the targets are gone.
Left(kind, targets) ==
    \E p \in Live(inputs \cap kind) : \A t \in targets : ~isUnder(p, t)
Spared ==
    (Pending /\ request.verb \in OneDevice /\ ~moved) =>
        \A kind \in {KeyboardInputs, PointerInputs} :
            Live(inputs \cap kind) # {} => Left(kind, request.targets)

StorageInv == RequestType /\ MountsType /\ OffType /\ Judged /\ StorageStays

-----------------------------------------------------------------------------
(* Types of the devices' half.                                             *)

\* Mounts, replugged inputs and verbs keep the types.
LEMMA DisablingTypeStep ==
    DisablingTypeOK /\ [DisablingNext]_disablingVars => DisablingTypeOK'
<1> SUFFICES ASSUME DisablingTypeOK, [DisablingNext]_disablingVars PROVE DisablingTypeOK'
  OBVIOUS
<1> USE DEF DisablingTypeOK
<1>1. ASSUME NEW m \in Mounts, Mount(m) \/ Unmount(m) PROVE DisablingTypeOK'
  BY <1>1 DEF Mount, Unmount, Changed
<1>2. ASSUME NEW p \in KeyboardInputs \cup PointerInputs, Replug(p) PROVE DisablingTypeOK'
  BY <1>2 DEF Replug, Changed, Pending
<1>3. ASSUME NEW verb \in OneDevice \cup {"enable", "unload"}, NEW targets \in SUBSET Devices,
             Start(verb, targets)
      PROVE  DisablingTypeOK'
  <2>1. request' \in [at : {"idle", "prompt"}, verb : OneDevice \cup {"none", "enable", "unload"},
                      targets : SUBSET Devices]
    BY <1>3 DEF Start
  <2>2. UNCHANGED <<off, mounts, inputs, events, late>> /\ verbs' = verbs + 1 /\ moved' = FALSE
    BY <1>3 DEF Start
  <2>3. off' \subseteq Devices /\ mounts' \subseteq Mounts /\ late' \subseteq Mounts
        /\ inputs' \subseteq KeyboardInputs \cup PointerInputs /\ moved' \in BOOLEAN
    BY <2>2
  <2>4. events' \in Nat /\ verbs' \in Nat
    BY <2>2
  <2> QED
    BY <2>1, <2>3, <2>4
<1>4. ASSUME NEW d \in Devices, StartEnable(d) PROVE DisablingTypeOK'
  BY <1>3, <1>4 DEF StartEnable
<1>5. ASSUME NEW verb \in OneDevice, NEW d \in Devices, StartDisable(verb, d) PROVE DisablingTypeOK'
  BY <1>3, <1>5 DEF StartDisable
<1>6. ASSUME NEW k \in Drivers, StartUnload(k) PROVE DisablingTypeOK'
  <2>1. Driven(k) \subseteq Devices
    BY DisablingAssumption DEF Driven
  <2> QED
    BY <1>3, <1>6, <2>1 DEF StartUnload
<1>7. CASE Effect
  <2>1. Switched \subseteq Devices
    BY DEF Switched, BelowIn
  <2>2. NoRequest \in [at : {"idle", "prompt"}, verb : OneDevice \cup {"none", "enable", "unload"},
                       targets : SUBSET Devices]
    BY DEF NoRequest
  <2> QED
    BY <1>7, <2>1, <2>2 DEF Effect
<1>8. CASE UNCHANGED disablingVars
  BY <1>8 DEF disablingVars
<1> QED
  BY <1>1, <1>2, <1>4, <1>5, <1>6, <1>7, <1>8 DEF DisablingNext

\* Devices, mounts and inputs stay within what exists, and the verb in hand is one of
\* RequestProcessor's with targets that are devices.
THEOREM DisablingTypeCorrect == DisablingSpec => []DisablingTypeOK
<1>1. InitDisabling => DisablingTypeOK
  <2> SUFFICES ASSUME InitDisabling PROVE DisablingTypeOK
    OBVIOUS
  <2>1. PICK m \in Mounts : mounts = {m}
    BY DEF InitDisabling
  <2>2. mounts \subseteq Mounts
    BY <2>1
  <2> QED
    BY <2>2 DEF InitDisabling, DisablingTypeOK, NoRequest
<1> QED
  BY <1>1, DisablingTypeStep, PTL DEF DisablingSpec

-----------------------------------------------------------------------------
(* The guard and the verbs.                                                *)

\* A verdict that a device may be switched off clears it of all that is mounted: the
\* facts hold the bottom of every stack, and what is stacked is below no device.
LEMMA VerdictClears ==
    ASSUME MountsType, NEW d \in Devices, evaluateDisable(probe, d),
           NEW m \in mounts, m.source \in Blocks
    PROVE  Clear(m.source, {d})
<1> SUFFICES ASSUME NEW c \in MadeOf(m.source) PROVE ~isUnder(BlockDir[c], d)
  BY DEF Clear
<1>1. c \in Blocks
  BY DEF MadeOf
<1>2. CASE Slaves[c] # {}
  BY <1>1, <1>2, DisablingAssumption
<1>3. CASE Slaves[c] = {}
  <2>1. BlockDir[c] \in expandBlock(m.source)
    BY <1>3 DEF expandBlock
  <2>2. m.target \in RootTargets \/ m.target \in BootTargets
    BY DEF MountsType, Mounts, Protected
  <2>3. BlockDir[c] \in probe.root \/ BlockDir[c] \in probe.boot
    BY <2>1, <2>2 DEF probe, NewFacts, collectStorageFacts
  <2> QED
    BY <2>3 DEF evaluateDisable, anyUnder
<1> QED
  BY <1>2, <1>3

\* A verdict spares an input device of each kind that has any.
LEMMA VerdictSpares ==
    ASSUME NEW d, evaluateDisable(probe, d), NEW kind \in {KeyboardInputs, PointerInputs},
           Live(inputs \cap kind) # {}
    PROVE  Left(kind, {d})
<1>1. Live(inputs \cap KeyboardInputs) = probe.keyboards /\ Live(inputs \cap PointerInputs) = probe.pointers
  BY DEF probe, NewFacts, collectInputFacts
<1>2. kind = KeyboardInputs => ~wouldRemoveAll(Live(inputs \cap kind), d)
  BY <1>1 DEF evaluateDisable
<1>3. kind = PointerInputs => ~wouldRemoveAll(Live(inputs \cap kind), d)
  BY <1>1 DEF evaluateDisable
<1> QED
  BY <1>2, <1>3 DEF wouldRemoveAll, Left

\* Judging every device a module drives by itself clears all of them.
LEMMA UnloadClears ==
    ASSUME MountsType, NEW k \in Drivers, NEW used, evaluateModuleUnload(probe, used, Driven(k)),
           NEW m \in mounts, m.source \in Blocks
    PROVE  Clear(m.source, Driven(k))
<1> SUFFICES ASSUME NEW d \in Driven(k) PROVE Clear(m.source, {d})
  BY DEF Clear
<1>1. d \in Devices
  BY DisablingAssumption DEF Driven
<1>2. evaluateDisable(probe, d)
  BY DEF evaluateModuleUnload
<1> QED
  BY <1>1, <1>2, VerdictClears

\* What a verb that takes effect switches off are its targets, and enabling none.
LEMMA OnlyTargets ==
    ASSUME Effect
    PROVE  /\ off' \subseteq off \cup request.targets
           /\ request.verb = "enable" => off' \subseteq off
BY DEF Effect, Switched

-----------------------------------------------------------------------------
(* Storage.                                                                *)

LEMMA InitStorage == InitDisabling => StorageInv
<1> SUFFICES ASSUME InitDisabling PROVE StorageInv
  OBVIOUS
<1>1. RequestType
  BY DEF InitDisabling, RequestType, NoRequest, OneDevice
<1>2. MountsType /\ OffType
  BY DEF InitDisabling, MountsType, OffType
<1>3. Judged
  BY DEF InitDisabling, Judged, Pending
<1>4. StorageStays
  BY DEF InitDisabling, StorageStays, Working, IsGone, GoneIn
<1> QED
  BY <1>1, <1>2, <1>3, <1>4 DEF StorageInv

\* The three ways a step leaves the mounts it counts alone.
LEMMA StartStorage ==
    ASSUME StorageInv, NEW verb \in OneDevice \cup {"enable", "unload"},
           NEW targets \in SUBSET Devices, Start(verb, targets),
           verb # "enable" =>
               \A m \in mounts : m.source \in Blocks => Clear(m.source, targets)
    PROVE  StorageInv'
<1> USE DEF StorageInv, Start
<1>1. request'.targets = targets /\ request'.verb = verb /\ RequestType'
  BY DEF RequestType
<1>2. MountsType' /\ OffType'
  BY DEF MountsType, OffType
<1>3. Judged'
  BY <1>1 DEF Judged, Pending, Clear
<1>4. StorageStays'
  BY DEF StorageStays, Working, IsGone, GoneIn
<1> QED
  BY <1>1, <1>2, <1>3, <1>4

LEMMA StepStorage == StorageInv /\ [DisablingNext]_disablingVars => StorageInv'
<1> SUFFICES ASSUME StorageInv, [DisablingNext]_disablingVars PROVE StorageInv'
  OBVIOUS
<1> USE DEF StorageInv
<1>1. ASSUME NEW m \in Mounts, Mount(m) PROVE StorageInv'
  <2> USE <1>1 DEF Mount, Changed
  <2>1. RequestType' /\ MountsType' /\ OffType'
    BY DEF RequestType, MountsType, OffType
  <2>2. \A x \in mounts' \ late' : x \in mounts \ late \/ (x = m /\ ~Pending)
    OBVIOUS
  <2>3. Judged'
    BY <2>2 DEF Judged, Pending, Clear
  <2>4. StorageStays'
    BY <2>2 DEF StorageStays, Working, IsGone, GoneIn
  <2> QED
    BY <2>1, <2>3, <2>4
<1>2. ASSUME NEW m \in Mounts, Unmount(m) PROVE StorageInv'
  <2> USE <1>2 DEF Unmount
  <2>1. RequestType' /\ MountsType' /\ OffType'
    BY DEF RequestType, MountsType, OffType
  <2>2. Judged'
    BY DEF Judged, Pending, Clear
  <2>3. StorageStays'
    BY DEF StorageStays, Working, IsGone, GoneIn
  <2> QED
    BY <2>1, <2>2, <2>3
<1>3. ASSUME NEW p, Replug(p) PROVE StorageInv'
  BY <1>3 DEF Replug, RequestType, MountsType, OffType, Judged, Pending, Clear,
              StorageStays, Working, IsGone, GoneIn
<1>4. ASSUME NEW verb \in OneDevice, NEW d \in Devices, StartDisable(verb, d) PROVE StorageInv'
  <2>1. Start(verb, {d}) /\ evaluateDisable(probe, d)
    BY <1>4 DEF StartDisable
  <2>2. \A m \in mounts : m.source \in Blocks => Clear(m.source, {d})
    BY <2>1, VerdictClears
  <2> QED
    BY <2>1, <2>2, StartStorage
<1>5. ASSUME NEW d \in Devices, StartEnable(d) PROVE StorageInv'
  BY <1>5, StartStorage DEF StartEnable
<1>6. ASSUME NEW k \in Drivers, StartUnload(k) PROVE StorageInv'
  <2>1. PICK used \in BOOLEAN : evaluateModuleUnload(probe, used, Driven(k))
    BY <1>6 DEF StartUnload
  <2>2. \A m \in mounts : m.source \in Blocks => Clear(m.source, Driven(k))
    BY <2>1, UnloadClears
  <2>3. Driven(k) \in SUBSET Devices
    BY DisablingAssumption DEF Driven
  <2>4. Start("unload", Driven(k))
    BY <1>6 DEF StartUnload
  <2> QED
    BY <2>2, <2>3, <2>4, StartStorage
<1>7. CASE Effect
  <2>1. RequestType' /\ MountsType' /\ OffType'
    <3>1. request.targets \subseteq Devices
      BY DEF RequestType
    <3> QED
      BY <1>7, <3>1, OnlyTargets DEF Effect, RequestType, NoRequest, MountsType, OffType
  <2>2. Judged'
    BY <1>7 DEF Effect, Judged, Pending
  <2>3. StorageStays'
    <3> SUFFICES ASSUME NEW m \in mounts' \ late', m.source \in Blocks, NEW c \in MadeOf(m.source),
                        NEW d \in off', isUnder(BlockDir[c], d)
                 PROVE  FALSE
      BY DEF StorageStays, Working, IsGone, GoneIn
    <3>1. m \in mounts \ late
      BY <1>7 DEF Effect
    <3>2. d \notin off
      BY <3>1 DEF StorageStays, Working, IsGone, GoneIn
    <3>3. d \in request.targets /\ request.verb # "enable"
      BY <1>7, <3>2, OnlyTargets
    <3>4. Clear(m.source, request.targets)
      BY <1>7, <3>1, <3>3 DEF Effect, Judged
    <3> QED
      BY <3>3, <3>4 DEF Clear
  <2> QED
    BY <2>1, <2>2, <2>3
<1>8. CASE UNCHANGED disablingVars
  BY <1>8 DEF disablingVars, RequestType, MountsType, OffType, Judged, Pending, Clear,
              StorageStays, Working, IsGone, GoneIn
<1> QED
  BY <1>1, <1>2, <1>3, <1>4, <1>5, <1>6, <1>7, <1>8 DEF DisablingNext

\* What is mounted as root or boot keeps every device it is made of, through any
\* sequence of disable, unbind, enable and unload and the changes meanwhile.
THEOREM StorageIsKept == DisablingSpec => []StorageStays
<1>1. StorageInv => StorageStays
  BY DEF StorageInv
<1> QED
  BY <1>1, InitStorage, StepStorage, PTL DEF DisablingSpec

-----------------------------------------------------------------------------
(* Input devices.                                                          *)

LEMMA InitSpared == InitDisabling => Spared
BY DEF InitDisabling, Spared, Pending

LEMMA StepSpared == Spared /\ [DisablingNext]_disablingVars => Spared'
<1> SUFFICES ASSUME Spared, [DisablingNext]_disablingVars PROVE Spared'
  OBVIOUS
<1>1. ASSUME NEW m \in Mounts, Mount(m) \/ Unmount(m) PROVE Spared'
  BY <1>1 DEF Mount, Unmount, Spared, Pending, Live, LiveIn, Left
<1>2. ASSUME NEW p, Replug(p) PROVE Spared'
  BY <1>2 DEF Replug, Spared, Pending
<1>3. ASSUME NEW verb \in OneDevice, NEW d \in Devices, StartDisable(verb, d) PROVE Spared'
  <2>1. evaluateDisable(probe, d) /\ request'.targets = {d} /\ off' = off /\ inputs' = inputs
    BY <1>3 DEF StartDisable, Start
  <2>2. \A kind \in {KeyboardInputs, PointerInputs} : Live(inputs \cap kind) # {} => Left(kind, {d})
    BY <2>1, VerdictSpares
  <2> QED
    BY <2>1, <2>2 DEF Spared, Live, LiveIn, Left
<1>4. ASSUME NEW d \in Devices, StartEnable(d) PROVE Spared'
  BY <1>4 DEF StartEnable, Start, Spared, OneDevice
<1>5. ASSUME NEW k \in Drivers, StartUnload(k) PROVE Spared'
  BY <1>5 DEF StartUnload, Start, Spared, OneDevice
<1>6. CASE Effect
  BY <1>6 DEF Effect, Spared, Pending
<1>7. CASE UNCHANGED disablingVars
  BY <1>7 DEF disablingVars, Spared, Pending, Live, LiveIn, Left
<1> QED
  BY <1>1, <1>2, <1>3, <1>4, <1>5, <1>6, <1>7 DEF DisablingNext

\* The last keyboard and the last pointer survive every verb on a device during whose
\* prompt no input device came or went.
THEOREM InputIsKept == DisablingSpec => InputKept
<1> DEFINE Kept ==
      \A kind \in {KeyboardInputs, PointerInputs} :
        (Pending /\ request.verb \in OneDevice /\ ~moved /\ Live(inputs \cap kind) # {})
          => LiveIn(inputs \cap kind, off') # {}
<1>1. ASSUME Spared, DisablingNext PROVE Kept
  <2> SUFFICES ASSUME NEW kind \in {KeyboardInputs, PointerInputs}, Pending, request.verb \in OneDevice,
                      ~moved, Live(inputs \cap kind) # {}
               PROVE  LiveIn(inputs \cap kind, off') # {}
    OBVIOUS
  <2>1. PICK p \in Live(inputs \cap kind) : \A t \in request.targets : ~isUnder(p, t)
    BY <1>1 DEF Spared, Left
  <2>2. off' \subseteq off \cup request.targets
    <3>1. CASE Effect
      BY <3>1, OnlyTargets
    <3>2. CASE ~Effect
      BY <1>1, <3>2 DEF DisablingNext, Mount, Unmount, Replug, StartDisable, StartEnable, StartUnload, Start
    <3> QED
      BY <3>1, <3>2
  <2>3. p \in inputs \cap kind /\ \A d \in off : ~isUnder(p, d)
    BY <2>1 DEF Live, LiveIn, GoneIn
  <2>4. p \in LiveIn(inputs \cap kind, off')
    BY <2>1, <2>2, <2>3 DEF LiveIn, GoneIn
  <2> QED
    BY <2>4
<1>2. Spared /\ [DisablingNext]_disablingVars => [Kept]_disablingVars
  BY <1>1
<1>3. DisablingSpec => [][Kept]_disablingVars
  BY <1>2, InitSpared, StepSpared, PTL DEF DisablingSpec
<1> QED
  BY <1>3 DEF InputKept

-----------------------------------------------------------------------------
(* Types of a client's half: calls, closures, fills.                       *)

\* What a worker is at with a verb in hand, and what it may call.
Asked == {"asking", "told", "calling"}
CallVerbs == {"ApiVersion", "load", "unload"}

\* At the start no module is loaded without what it needs.
LEMMA ModulesTypeInit == Init => TypeOK
<1> SUFFICES ASSUME Init PROVE TypeOK
  OBVIOUS
<1> USE DEF Init, InitRequests
<1>1. Closed
  <2> SUFFICES ASSUME NEW m \in loaded, NEW d \in Deps[m] PROVE d \in loaded
    BY DEF Closed
  <2>1. Needed(d) \subseteq Needed(m) /\ d \in Modules
    BY RequestsAssumption DEF Needed
  <2> QED
    BY <2>1
<1>2. KernelType /\ DaemonType /\ VmType
  BY DEF KernelType, DaemonType, VmType, NotServing
<1>3. Idle \in Threads
  BY DEF Idle, Threads, Words
<1>4. ClientType
  BY <1>3 DEF ClientType, Idle
<1>5. OneCall
  BY DEF OneCall, Called, Waiting, At, Idle
<1> QED
  BY <1>1, <1>2, <1>4, <1>5 DEF TypeOK

\* The first call is answered: its caller, if it still waits, has none any more.
LEMMA AnswerType ==
    ASSUME TypeOK, queue # <<>>, NEW reply, Answer(reply),
           Call.caller # Nobody =>
             /\ reply \in Threads /\ reply.at \notin {"asking", "calling"}
             /\ reply.at = "told" => reply.verb # "none"
    PROVE  /\ queue' \in Seq(Calls) /\ thread' \in [Workers -> Threads] /\ OneCall'
           /\ \A w \in Workers : thread'[w].at \in Asked => thread'[w].verb # "none"
           /\ serving' = NotServing
<1> USE DEF TypeOK, DaemonType, ClientType, Asked
<1>1. queue' = Tail(queue) /\ serving' = NotServing
  BY DEF Answer
<1>2. queue' \in Seq(Calls)
  BY <1>1
<1>3. 1 \in DOMAIN queue /\ Call = queue[1] /\ Call \in Calls
  BY DEF Call
<1>4. Call.caller \in Workers \cup {Nobody}
  BY <1>3 DEF Calls
<1>5. thread' \in [Workers -> Threads]
  BY <1>4 DEF Answer
<1>6. \A w \in Workers : thread'[w] = IF w = Call.caller THEN reply ELSE thread[w]
  <2>1. CASE Call.caller = Nobody
    BY <2>1, RequestsAssumption DEF Answer
  <2>2. CASE Call.caller # Nobody
    BY <1>4, <2>2 DEF Answer
  <2> QED
    BY <2>1, <2>2
<1>7. DOMAIN queue' = 1 .. Len(queue) - 1 /\ \A i \in DOMAIN queue' : queue'[i] = queue[i + 1]
  BY <1>1
<1>8. ASSUME NEW w \in Workers PROVE Called(w)' = {i \in 1 .. Len(queue) - 1 : queue[i + 1].caller = w}
  BY <1>7 DEF Called
<1>9. ASSUME NEW w \in Workers
      PROVE  IF Waiting(w)' THEN \E i \in DOMAIN queue' : Called(w)' = {i} ELSE Called(w)' = {}
  <2>1. IF Waiting(w) THEN \E i \in DOMAIN queue : Called(w) = {i} ELSE Called(w) = {}
    BY DEF OneCall
  <2>2. CASE w = Call.caller
    <3>1. ~Waiting(w)'
      BY <1>6, <2>2, RequestsAssumption DEF Waiting, At
    <3>2. 1 \in Called(w)
      BY <1>3, <2>2 DEF Called
    <3>3. Called(w) = {1}
      BY <2>1, <3>2
    <3>4. ASSUME NEW i \in 1 .. Len(queue) - 1 PROVE queue[i + 1].caller # w
      BY <3>3, i + 1 \in DOMAIN queue, i + 1 # 1 DEF Called
    <3> QED
      BY <1>8, <3>1, <3>4
  <2>3. CASE w # Call.caller
    <3>1. Waiting(w)' <=> Waiting(w)
      BY <1>6, <2>3 DEF Waiting, At
    <3>2. CASE ~Waiting(w)
      <4>1. \A i \in DOMAIN queue : queue[i].caller # w
        BY <2>1, <3>2 DEF Called
      <4>2. \A i \in 1 .. Len(queue) - 1 : i + 1 \in DOMAIN queue
        OBVIOUS
      <4> QED
        BY <1>8, <3>1, <3>2, <4>1, <4>2
    <3>3. CASE Waiting(w)
      <4>1. PICK i \in DOMAIN queue : Called(w) = {i}
        BY <2>1, <3>3
      <4>2. i # 1 /\ queue[i].caller = w
        BY <1>3, <2>3, <4>1 DEF Called
      <4>3. i - 1 \in 1 .. Len(queue) - 1 /\ i \in Nat
        BY <4>2
      <4>4. ASSUME NEW j \in 1 .. Len(queue) - 1 PROVE queue[j + 1].caller = w <=> j = i - 1
        <5>1. j + 1 \in DOMAIN queue
          OBVIOUS
        <5>2. queue[j + 1].caller = w <=> j + 1 = i
          BY <4>1, <5>1 DEF Called
        <5> QED
          BY <4>3, <5>2
      <4>5. Called(w)' = {i - 1}
        <5>1. \A j \in 1 .. Len(queue) - 1 : queue[j + 1].caller = w <=> j = i - 1
          BY <4>4
        <5>2. Called(w)' = {j \in 1 .. Len(queue) - 1 : queue[j + 1].caller = w}
          BY <1>8
        <5> QED
          BY <4>3, <5>1, <5>2
      <4> QED
        BY <1>7, <3>1, <3>3, <4>3, <4>5
    <3> QED
      BY <3>2, <3>3
  <2> QED
    BY <2>2, <2>3
<1>10. OneCall'
  BY <1>9 DEF OneCall
<1>11. \A w \in Workers : thread'[w].at \in Asked => thread'[w].verb # "none"
  BY <1>6, RequestsAssumption
<1> QED
  BY <1>1, <1>2, <1>5, <1>10, <1>11

\* A worker that does not wait sends a call.
LEMMA SendType ==
    ASSUME TypeOK, NEW w \in Workers, ~Waiting(w), NEW t \in Threads, t.verb # "none",
           NEW step \in {"asking", "calling"}, NEW verb \in CallVerbs, NEW budget \in Nat,
           Send(w, t, step, verb, budget)
    PROVE  /\ queue' \in Seq(Calls) /\ queue' # <<>> /\ thread' \in [Workers -> Threads] /\ OneCall'
           /\ \A u \in Workers : thread'[u].at \in Asked => thread'[u].verb # "none"
<1> USE DEF TypeOK, DaemonType, ClientType, Asked, CallVerbs
<1> DEFINE c == [caller |-> w, verb |-> verb, name |-> t.name]
           r == [t EXCEPT !.at = step, !.left = budget]
<1>1. c \in Calls
  BY DEF Calls, Threads
<1>2. r \in Threads /\ r.at = step /\ r.verb = t.verb
  BY DEF Threads
<1>a. queue' = Append(queue, c) /\ thread' = [thread EXCEPT ![w] = r] /\ c.caller = w
  BY DEF Send
<1> HIDE DEF c, r
<1>3. queue' \in Seq(Calls) /\ queue' # <<>>
  BY <1>1, <1>a
<1>4. thread' \in [Workers -> Threads]
  BY <1>2, <1>a
<1>5. DOMAIN queue' = 1 .. Len(queue) + 1 /\ queue'[Len(queue) + 1] = c
      /\ \A i \in 1 .. Len(queue) : queue'[i] = queue[i]
  BY <1>1, <1>a
<1>6. ASSUME NEW u \in Workers
      PROVE  IF Waiting(u)' THEN \E i \in DOMAIN queue' : Called(u)' = {i} ELSE Called(u)' = {}
  <2>1. IF Waiting(u) THEN \E i \in DOMAIN queue : Called(u) = {i} ELSE Called(u) = {}
    BY DEF OneCall
  <2>2. CASE u = w
    <3>1. \A i \in 1 .. Len(queue) : queue[i].caller # w
      BY <2>1, <2>2 DEF Called
    <3>2. Called(w)' = {Len(queue) + 1}
      BY <1>5, <1>a, <3>1 DEF Called
    <3>3. Waiting(w)'
      BY <1>2, <1>a DEF Waiting, At
    <3> QED
      BY <1>5, <2>2, <3>2, <3>3
  <2>3. CASE u # w
    <3>1. Called(u)' = Called(u)
      BY <1>5, <1>a, <2>3 DEF Called
    <3>2. Waiting(u)' <=> Waiting(u)
      BY <1>a, <2>3 DEF Waiting, At
    <3> QED
      BY <1>5, <2>1, <3>1, <3>2
  <2> QED
    BY <2>2, <2>3
<1>7. \A u \in Workers : thread'[u].at \in Asked => thread'[u].verb # "none"
  BY <1>2, <1>a
<1> QED
  BY <1>3, <1>4, <1>6, <1>7 DEF OneCall

\* A failure carries an error of core::Error or of the bus.
LEMMA FailureType ==
    ASSUME NEW t \in Threads, NEW code
    PROVE  Failure(t, CoreError(code)) \in Threads /\ Failure(t, "Unsupported") \in Threads
           /\ Failure(t, code).at = "publish"
<1>1. CoreError(code) \in Codes /\ "Unsupported" \in Codes
  BY DEF CoreError, Codes
<1> QED
  BY <1>1 DEF Failure, Threads

\* A worker that does not wait goes on to what is no call either.
LEMMA QuietType ==
    ASSUME TypeOK, NEW w \in Workers, ~Waiting(w), NEW r \in Threads, r.at \notin Asked,
           thread' = [thread EXCEPT ![w] = r], queue' = queue
    PROVE  /\ queue' \in Seq(Calls) /\ thread' \in [Workers -> Threads] /\ OneCall'
           /\ \A u \in Workers : thread'[u].at \in Asked => thread'[u].verb # "none"
<1> USE DEF TypeOK, DaemonType, ClientType, Asked
<1>1. \A u \in Workers : thread'[u] = IF u = w THEN r ELSE thread[u]
  OBVIOUS
<1>2. \A u \in Workers : (Waiting(u)' <=> Waiting(u)) /\ Called(u)' = Called(u)
  BY <1>1 DEF Waiting, At, Called
<1>3. OneCall'
  BY <1>2 DEF OneCall
<1> QED
  BY <1>1, <1>3

\* ensureApi: the verb is called, or it fails.
LEMMA CheckedType ==
    ASSUME TypeOK, NEW w \in Workers, ~Waiting(w), NEW t \in Threads, t.verb # "none",
           NEW v \in Nat, Checked(w, t, v)
    PROVE  /\ queue' \in Seq(Calls) /\ (queue' = <<>> => queue = <<>>)
           /\ thread' \in [Workers -> Threads] /\ OneCall'
           /\ \A u \in Workers : thread'[u].at \in Asked => thread'[u].verb # "none"
<1>1. CASE v < ApiNeeded(t.verb)
  <2>1. thread' = [thread EXCEPT ![w] = Failure(t, "Unsupported")] /\ queue' = queue
    BY <1>1 DEF Checked
  <2>2. Failure(t, "Unsupported") \in Threads /\ Failure(t, "Unsupported").at \notin Asked
    BY FailureType DEF Asked
  <2> QED
    BY <2>1, <2>2, QuietType
<1>2. CASE ~(v < ApiNeeded(t.verb))
  <2>1. Send(w, t, "calling", t.verb, CallBudget)
    BY <1>2 DEF Checked
  <2>2. t.verb \in CallVerbs /\ CallBudget \in Nat
    BY RequestsAssumption DEF Threads, CallVerbs
  <2> QED
    BY <2>1, <2>2, SendType
<1> QED
  BY <1>1, <1>2

\* Whatever libkmod answers, a module is in the kernel with all that it needs.
LEMMA OutcomesClosed ==
    ASSUME KernelType, Closed, NEW o \in Outcomes \cup {Failed("Io")}
    PROVE  o.loaded \subseteq Modules /\ \A m \in o.loaded : Deps[m] \subseteq o.loaded
<1> DEFINE name == Call.name
<1>1. CASE o.loaded = loaded
  BY <1>1 DEF KernelType, Closed
<1>2. CASE Call.verb # "load" /\ o \in UnloadOutcomes(name) /\ o.loaded # loaded
  <2>1. o.loaded = loaded \ {name} /\ Holders(name) = {}
    BY <1>2 DEF UnloadOutcomes, Failed, Fine
  <2>2. \A m \in loaded : name \notin Deps[m]
    BY <2>1 DEF Holders
  <2> QED
    BY <2>1, <2>2 DEF KernelType, Closed
<1>3. CASE Call.verb = "load" /\ o \in LoadOutcomes(name) /\ o.loaded # loaded
  <2> DEFINE wanted == Needed(name) \ loaded
  <2>1. name \in Modules
    BY <1>3 DEF LoadOutcomes, Failed
  <2>2. \/ o.loaded = loaded \cup wanted
        \/ \E s \in SUBSET (wanted \ (Rejected \cup {name})) :
             /\ o.loaded = loaded \cup s
             /\ \A d \in s : Deps[d] \subseteq loaded \cup s
    BY <1>3, <2>1 DEF LoadOutcomes, Failed, Fine
  <2>3. Needed(name) \subseteq Modules /\ \A d \in Needed(name) : Deps[d] \subseteq Needed(name)
    BY <2>1, RequestsAssumption DEF Needed
  <2>4. CASE o.loaded = loaded \cup wanted
    BY <2>3, <2>4 DEF KernelType, Closed
  <2>5. CASE \E s \in SUBSET (wanted \ (Rejected \cup {name})) :
             /\ o.loaded = loaded \cup s
             /\ \A d \in s : Deps[d] \subseteq loaded \cup s
    BY <2>3, <2>5 DEF KernelType, Closed
  <2> QED
    BY <2>2, <2>4, <2>5
<1> QED
  BY <1>1, <1>2, <1>3 DEF Outcomes, Failed

\* devmgrd's loop.
LEMMA DevmgrdType ==
    ASSUME TypeOK, Devmgrd, UNCHANGED <<vm, fills, posted, loop>>
    PROVE  TypeOK'
<1> USE DEF kernel
<1>0. VmType'
  BY DEF TypeOK, VmType
<1>1. queue # <<>>
  BY DEF Devmgrd, AnswerApi, Begin, Probe, Authorize, Act, Serving
<1>2. Call \in Calls
  BY <1>1 DEF TypeOK, DaemonType, Call
<1>3. Call.caller # Nobody => Caller \in Threads /\ Waiting(Call.caller) /\ Caller.verb # "none"
  <2> SUFFICES ASSUME Call.caller # Nobody
               PROVE  Caller \in Threads /\ Waiting(Call.caller) /\ Caller.verb # "none"
    OBVIOUS
  <2>1. Call.caller \in Workers
    BY <1>2 DEF Calls
  <2>2. 1 \in Called(Call.caller)
    BY <1>1 DEF TypeOK, DaemonType, Called, Call
  <2>3. Waiting(Call.caller)
    BY <2>1, <2>2 DEF TypeOK, OneCall
  <2> QED
    BY <2>1, <2>3 DEF TypeOK, ClientType, Caller, Waiting, At
<1>4. ASSUME NEW reply, Answer(reply),
             Call.caller # Nobody =>
               /\ reply \in Threads /\ reply.at \notin {"asking", "calling"}
               /\ reply.at = "told" => reply.verb # "none",
             KernelType', Closed', UNCHANGED <<api, cachedApi, tasks, requests>>
      PROVE  TypeOK'
  <2>1. /\ queue' \in Seq(Calls) /\ thread' \in [Workers -> Threads] /\ OneCall'
        /\ \A w \in Workers : thread'[w].at \in Asked => thread'[w].verb # "none"
        /\ serving' = NotServing
    BY <1>1, <1>4, AnswerType
  <2>2. DaemonType'
    BY <1>4, <2>1 DEF TypeOK, DaemonType, NotServing
  <2>3. ClientType'
    BY <1>4, <2>1 DEF TypeOK, ClientType, Asked
  <2> QED
    BY <1>0, <1>4, <2>1, <2>2, <2>3 DEF TypeOK
<1>5. ASSUME NEW code, Refuse(code), KernelType', Closed', UNCHANGED <<api, cachedApi, tasks, requests>>
      PROVE  TypeOK'
  <2> DEFINE reply == Failure(Caller, CoreError(ErrorName(code)))
  <2>1. Answer(reply)
    BY <1>5 DEF Refuse
  <2>2. Call.caller # Nobody => reply \in Threads /\ reply.at = "publish"
    BY <1>3, FailureType DEF Failure
  <2> HIDE DEF reply
  <2> QED
    BY <1>4, <1>5, <2>1, <2>2
<1>6. UNCHANGED kernel => KernelType' /\ Closed'
  BY DEF TypeOK, KernelType, Closed
<1>7. ASSUME UNCHANGED <<queue, thread, api, cachedApi, tasks, requests>>, UNCHANGED kernel,
             serving' \in [at : {"idle", "probe", "prompt", "act"}, left : Nat, used : BOOLEAN,
                           affected : SUBSET Devs]
      PROVE  TypeOK'
  <2>1. OneCall'
    BY <1>7 DEF TypeOK, OneCall, Called, Waiting, At
  <2>2. DaemonType' /\ ClientType'
    BY <1>7 DEF TypeOK, DaemonType, ClientType
  <2> QED
    BY <1>0, <1>1, <1>6, <1>7, <2>1, <2>2 DEF TypeOK
<1>8. CASE AnswerApi
  <2> DEFINE reply == [Caller EXCEPT !.at = "told", !.told = api, !.left = 0]
  <2>1. Answer(reply) /\ UNCHANGED <<kernel, api, cachedApi, tasks, requests>>
    BY <1>8 DEF AnswerApi
  <2>2. Call.caller # Nobody => reply \in Threads /\ reply.at = "told" /\ reply.verb # "none"
    BY <1>3 DEF Threads, TypeOK, DaemonType
  <2> HIDE DEF reply
  <2> QED
    BY <1>4, <1>6, <2>1, <2>2
<1>9. serving \in [at : {"idle", "probe", "prompt", "act"}, left : Nat, used : BOOLEAN,
                   affected : SUBSET Devs] /\ PromptBudget \in Nat
  BY RequestsAssumption DEF TypeOK, DaemonType
<1>10. CASE Begin
  <2>1. UNCHANGED <<kernel, api, cachedApi, tasks, requests>>
    BY <1>10 DEF Begin
  <2>2. CASE \E code : Refuse(code)
    BY <1>5, <1>6, <2>1, <2>2
  <2>3. CASE Ask /\ Stay
    BY <1>7, <1>9, <2>1, <2>3 DEF Ask, Stay
  <2>4. CASE /\ serving' = [serving EXCEPT !.at = "probe", !.affected = Using(Call.name),
                              !.used = Holders(Call.name) # {} \/ Call.name \in inUse]
             /\ UNCHANGED <<queue, thread>>
    <3>1. Using(Call.name) \subseteq Devs
      BY DEF Using, Bound, TypeOK, KernelType
    <3> QED
      BY <1>7, <1>9, <2>1, <2>4, <3>1
  <2> QED
    BY <1>10, <2>2, <2>3, <2>4 DEF Begin
<1>11. CASE Probe
  <2>1. UNCHANGED <<kernel, api, cachedApi, tasks, requests>>
    BY <1>11 DEF Probe
  <2>2. CASE \E code : Refuse(code)
    BY <1>5, <1>6, <2>1, <2>2
  <2>3. CASE Ask /\ Stay
    BY <1>7, <1>9, <2>1, <2>3 DEF Ask, Stay
  <2> QED
    BY <1>11, <2>2, <2>3 DEF Probe
<1>12. CASE Authorize
  <2>1. UNCHANGED <<kernel, api, cachedApi, tasks, requests>>
    BY <1>12 DEF Authorize
  <2>2. CASE \E code : Refuse(code)
    BY <1>5, <1>6, <2>1, <2>2
  <2>3. CASE serving' = [serving EXCEPT !.at = "act"] /\ Stay
    BY <1>7, <1>9, <2>1, <2>3 DEF Stay
  <2> QED
    BY <1>12, <2>2, <2>3 DEF Authorize
<1>13. CASE Act
  <2>1. PICK o \in Outcomes \cup {Failed("Io")} :
          /\ loaded' = o.loaded /\ inUse' = inUse \cap o.loaded
          /\ IF o.code = "ok" THEN Answer([Caller EXCEPT !.at = "publish", !.code = "ok", !.left = 0])
                              ELSE Refuse(o.code)
    BY <1>13 DEF Act
  <2>2. UNCHANGED <<present, api, cachedApi, tasks, requests>>
    BY <1>13 DEF Act
  <2>3. KernelType' /\ Closed'
    BY <2>1, <2>2, OutcomesClosed DEF TypeOK, KernelType, Closed
  <2>4. CASE o.code # "ok"
    BY <1>5, <2>1, <2>2, <2>3, <2>4
  <2>5. CASE o.code = "ok"
    <3> DEFINE reply == [Caller EXCEPT !.at = "publish", !.code = "ok", !.left = 0]
    <3>1. Answer(reply)
      BY <2>1, <2>5
    <3>2. Call.caller # Nobody => reply \in Threads /\ reply.at = "publish"
      BY <1>3 DEF Threads
    <3> HIDE DEF reply
    <3> QED
      BY <1>4, <2>2, <2>3, <3>1, <3>2
  <2> QED
    BY <2>4, <2>5
<1> QED
  BY <1>8, <1>10, <1>11, <1>12, <1>13 DEF Devmgrd

\* A worker's part of a verb.
LEMMA ChannelType ==
    ASSUME TypeOK, NEW w \in Workers, Channel(w), UNCHANGED <<vm, fills, posted, loop>>
    PROVE  TypeOK'
<1> USE DEF kernel
<1>0. VmType'
  BY DEF TypeOK, VmType
<1>1. KernelType' /\ Closed' /\ UNCHANGED <<api, serving, requests>>
  BY DEF TypeOK, KernelType, Closed, Channel, TakeVerb, KeepApi, Timeout
<1>2. thread[w] \in Threads /\ queue \in Seq(Calls)
  BY DEF TypeOK, ClientType, DaemonType
<1>3. ASSUME queue' \in Seq(Calls), queue' = <<>> => queue = <<>>, thread' \in [Workers -> Threads], OneCall',
             \A u \in Workers : thread'[u].at \in Asked => thread'[u].verb # "none",
             cachedApi' \in Nat, tasks' \in {tasks, Tail(tasks)}, tasks # <<>> \/ tasks' = tasks
      PROVE  TypeOK'
  <2>1. DaemonType'
    BY <1>1, <1>3 DEF TypeOK, DaemonType
  <2>2. tasks' \in Seq(Tasks)
    <3>1. tasks \in Seq(Tasks)
      BY DEF TypeOK, ClientType
    <3>2. CASE tasks' = tasks
      BY <3>1, <3>2
    <3>3. CASE tasks' = Tail(tasks) /\ tasks # <<>>
      BY <3>1, <3>3
    <3>4. tasks' = tasks \/ (tasks' = Tail(tasks) /\ tasks # <<>>)
      BY <1>3
    <3> QED
      BY <3>2, <3>3, <3>4
  <2>3. requests' \in Nat
    BY <1>1 DEF TypeOK, ClientType
  <2>4. ClientType'
    BY <1>3, <2>2, <2>3 DEF ClientType, Asked
  <2> QED
    BY <1>0, <1>1, <1>3, <2>1, <2>4 DEF TypeOK
<1>4. CASE TakeVerb(w)
  <2> DEFINE t == [Idle EXCEPT !.verb = Head(tasks).verb, !.name = Head(tasks).name]
  <2>1. /\ thread[w].at = "idle" /\ tasks # <<>> /\ tasks' = Tail(tasks) /\ cachedApi' = cachedApi
        /\ Head(tasks).verb \in {"load", "unload"}
        /\ IF cachedApi = 0 THEN Send(w, t, "asking", "ApiVersion", 1) ELSE Checked(w, t, cachedApi)
    BY <1>4 DEF TakeVerb, At
  <2>2. Head(tasks).name \in Words
    <3>1. Head(tasks) \in Tasks
      BY <2>1 DEF TypeOK, ClientType
    <3> QED
      BY <3>1 DEF Tasks
  <2>3. t \in Threads /\ t.verb # "none"
    BY <2>1, <2>2 DEF Threads, Idle
  <2>4. ~Waiting(w)
    BY <2>1 DEF Waiting, At
  <2>5. cachedApi \in Nat
    BY DEF TypeOK, ClientType
  <2> HIDE DEF t
  <2>6. CASE Send(w, t, "asking", "ApiVersion", 1)
    BY <1>3, <2>1, <2>3, <2>4, <2>5, <2>6, SendType DEF CallVerbs
  <2>7. CASE Checked(w, t, cachedApi)
    BY <1>3, <2>1, <2>3, <2>4, <2>5, <2>7, CheckedType
  <2> QED
    BY <2>1, <2>6, <2>7
<1>5. CASE KeepApi(w)
  <2>1. /\ thread[w].at = "told" /\ cachedApi' = thread[w].told /\ tasks' = tasks
        /\ Checked(w, thread[w], thread[w].told)
    BY <1>5 DEF KeepApi, At
  <2>2. ~Waiting(w) /\ thread[w].verb # "none" /\ thread[w].told \in Nat
    BY <1>2, <2>1 DEF Waiting, At, TypeOK, ClientType, Threads
  <2> QED
    BY <1>2, <1>3, <2>1, <2>2, CheckedType
<1>6. CASE Timeout(w)
  <2> DEFINE r == Failure(thread[w], CoreError("Timeout"))
             Given(i) == IF queue[i].caller = w THEN [queue[i] EXCEPT !.caller = Nobody] ELSE queue[i]
  <2>1. /\ thread' = [thread EXCEPT ![w] = r]
        /\ queue' = [i \in DOMAIN queue |-> Given(i)]
        /\ UNCHANGED <<cachedApi, tasks>>
    BY <1>6 DEF Timeout, TypeOK, ClientType
  <2>2. r \in Threads /\ r.at = "publish"
    BY <1>2, FailureType DEF Failure
  <2>3. \A i \in DOMAIN queue : Given(i) \in Calls
    <3>1. \A c \in Calls : [c EXCEPT !.caller = Nobody] \in Calls
      BY DEF Calls
    <3> QED
      BY <1>2, <3>1
  <2>4. \A i \in DOMAIN queue : Given(i).caller = IF queue[i].caller = w THEN Nobody ELSE queue[i].caller
    BY <1>2 DEF Calls
  <2> HIDE DEF r, Given
  <2>5. queue' \in Seq(Calls) /\ DOMAIN queue' = DOMAIN queue
    <3>1. queue' \in [1 .. Len(queue) -> Calls]
      BY <1>2, <2>1, <2>3
    <3> QED
      BY <1>2, <3>1
  <2>6. queue' = <<>> => queue = <<>>
    BY <1>2, <2>5
  <2>7. \A u \in Workers : thread'[u] = IF u = w THEN r ELSE thread[u]
    BY <2>1 DEF TypeOK, ClientType
  <2>8. thread' \in [Workers -> Threads]
    BY <2>1, <2>2 DEF TypeOK, ClientType
  <2>9. ASSUME NEW u \in Workers
        PROVE  IF Waiting(u)' THEN \E i \in DOMAIN queue' : Called(u)' = {i} ELSE Called(u)' = {}
    <3>1. Called(u)' = {i \in DOMAIN queue : Given(i).caller = u}
      BY <2>1, <2>5 DEF Called
    <3>2. CASE u = w
      <4>1. Called(u)' = {}
        BY <2>4, <3>1, <3>2, RequestsAssumption
      <4> QED
        BY <2>2, <2>7, <3>2, <4>1 DEF Waiting, At
    <3>3. CASE u # w
      <4>1. Called(u)' = Called(u)
        BY <2>4, <3>1, <3>3, RequestsAssumption DEF Called
      <4>2. Waiting(u)' <=> Waiting(u)
        BY <2>7, <3>3 DEF Waiting, At
      <4> QED
        BY <2>5, <4>1, <4>2 DEF TypeOK, OneCall
    <3> QED
      BY <3>2, <3>3
  <2>10. OneCall'
    BY <2>9 DEF OneCall
  <2>11. \A u \in Workers : thread'[u].at \in Asked => thread'[u].verb # "none"
    BY <2>2, <2>7 DEF TypeOK, ClientType, Asked
  <2> QED
    BY <1>3, <2>1, <2>5, <2>6, <2>8, <2>10, <2>11 DEF TypeOK, ClientType
<1> QED
  BY <1>4, <1>5, <1>6 DEF Channel

\* The kernel, the clock and restarts.
LEMMA EnvironmentType ==
    ASSUME TypeOK, Touch \/ Tick \/ Restart, UNCHANGED <<vm, fills, posted, loop>>
    PROVE  TypeOK'
<1> USE DEF kernel, client
<1>0. VmType'
  BY DEF TypeOK, VmType
<1>1. CASE Touch
  <2>1. KernelType'
    BY <1>1 DEF Touch, TypeOK, KernelType
  <2>2. UNCHANGED <<loaded, api, queue, serving, cachedApi, thread, tasks, requests>>
    BY <1>1 DEF Touch
  <2>3. OneCall' /\ Closed'
    BY <2>2 DEF TypeOK, OneCall, Called, Waiting, At, Closed
  <2>4. DaemonType' /\ ClientType'
    BY <2>2 DEF TypeOK, DaemonType, ClientType
  <2> QED
    BY <1>0, <2>1, <2>2, <2>3, <2>4 DEF TypeOK
<1>2. CASE Tick
  <2> DEFINE Older(w) == [thread[w] EXCEPT !.left = @ - 1]
  <2>1. /\ serving.left > 0 /\ \A w \in Workers : Waiting(w) => thread[w].left > 0
        /\ serving' = [serving EXCEPT !.left = @ - 1]
        /\ thread' = [w \in Workers |-> IF Waiting(w) THEN Older(w) ELSE thread[w]]
        /\ UNCHANGED <<kernel, api, queue, cachedApi, tasks, requests>> /\ queue # <<>>
    BY <1>2 DEF Tick, Serving
  <2>2. ASSUME NEW w \in Workers, Waiting(w)
        PROVE  Older(w) \in Threads /\ Older(w).at = thread[w].at /\ Older(w).verb = thread[w].verb
    <3>1. thread[w] \in Threads /\ thread[w].left > 0
      BY <2>1, <2>2 DEF TypeOK, ClientType
    <3> QED
      BY <3>1 DEF Threads
  <2> HIDE DEF Older
  <2>3. \A w \in Workers : thread'[w].at = thread[w].at /\ thread'[w].verb = thread[w].verb
    BY <2>1, <2>2
  <2>4. thread' \in [Workers -> Threads]
    BY <2>1, <2>2 DEF TypeOK, ClientType
  <2>5. ClientType'
    BY <2>1, <2>3, <2>4 DEF TypeOK, ClientType
  <2>6. DaemonType'
    <3>1. serving'.left \in Nat
      BY <2>1 DEF TypeOK, DaemonType
    <3> QED
      BY <2>1, <3>1 DEF TypeOK, DaemonType
  <2>7. OneCall'
    BY <2>1, <2>3 DEF TypeOK, OneCall, Called, Waiting, At
  <2>8. KernelType' /\ Closed'
    BY <2>1 DEF TypeOK, KernelType, Closed
  <2> QED
    BY <1>0, <2>1, <2>5, <2>6, <2>7, <2>8 DEF TypeOK
<1>3. CASE Restart
  <2> DEFINE Lost(w) == Failure(thread[w], CoreError("NoReply"))
  <2>1. /\ queue' = <<>> /\ serving' = NotServing /\ api' \in {api, 4}
        /\ thread' = [w \in Workers |-> IF Waiting(w) THEN Lost(w) ELSE thread[w]]
        /\ UNCHANGED <<kernel, cachedApi, tasks, requests>>
    BY <1>3 DEF Restart
  <2>2. \A w \in Workers : Lost(w) \in Threads /\ Lost(w).at = "publish"
    BY FailureType DEF TypeOK, ClientType, Failure
  <2> HIDE DEF Lost
  <2>3. ClientType'
    BY <2>1, <2>2 DEF TypeOK, ClientType
  <2>4. DaemonType'
    BY <2>1 DEF TypeOK, DaemonType, NotServing
  <2>5. \A w \in Workers : ~Waiting(w)' /\ Called(w)' = {}
    BY <2>1, <2>2 DEF Waiting, At, Called
  <2>6. OneCall'
    BY <2>5 DEF OneCall
  <2>7. KernelType' /\ Closed'
    BY <2>1 DEF TypeOK, KernelType, Closed
  <2> QED
    BY <1>0, <2>1, <2>3, <2>4, <2>6, <2>7 DEF TypeOK
<1> QED
  BY <1>1, <1>2, <1>3

\* What the user asks for is queued, with the fill of a tab that is entered.
LEMMA UserType ==
    ASSUME TypeOK, UNCHANGED <<kernel, daemon, cachedApi, thread>>, requests' \in {requests, requests + 1},
           VmType', NEW task \in Tasks, tasks' \in {tasks, Append(tasks, task)}
    PROVE  TypeOK'
<1> USE DEF kernel, daemon
<1>1. tasks' \in Seq(Tasks) /\ requests' \in Nat
  BY DEF TypeOK, ClientType
<1>2. ClientType'
  BY <1>1 DEF TypeOK, ClientType
<1>3. OneCall' /\ Closed' /\ KernelType' /\ DaemonType'
  BY DEF TypeOK, OneCall, Called, Waiting, At, Closed, KernelType, DaemonType
<1> QED
  BY <1>2, <1>3 DEF TypeOK

\* fillSignatures leaves the view model and its tasks well formed.
LEMMA FillType ==
    ASSUME TypeOK, NEW v \in [list : SUBSET Modules, cells : SUBSET Modules, queued : BOOLEAN,
                              fill : Nat, alive : BOOLEAN],
           NEW id \in Nat, FillSignatures(v, id), UNCHANGED <<posted, loop>>
    PROVE  VmType' /\ tasks' \in {tasks, Append(tasks, [verb |-> "fill", name |-> "none"])}
<1>1. CASE Filled(v)
  BY <1>1 DEF Filled, TypeOK, VmType
<1>2. CASE Filled([v EXCEPT !.fill = 0])
  BY <1>2 DEF Filled, TypeOK, VmType
<1>3. CASE StartFill(v, id)
  <2>1. [id |-> id, names |-> v.list \ v.cells, by |-> Nobody]
          \in [id : Nat, names : SUBSET Modules, by : Workers \cup {Nobody}]
    OBVIOUS
  <2>2. fills' \subseteq [id : Nat, names : SUBSET Modules, by : Workers \cup {Nobody}]
    BY <1>3, <2>1 DEF StartFill, TypeOK, VmType
  <2>3. vm' \in [list : SUBSET Modules, cells : SUBSET Modules, queued : BOOLEAN, fill : Nat,
                 alive : BOOLEAN]
    BY <1>3 DEF StartFill
  <2>4. posted' \in Seq(SUBSET Modules) /\ loop' \in {"running", "stopping", "closing", "gone"}
    BY DEF TypeOK, VmType
  <2> QED
    BY <1>3, <2>2, <2>3, <2>4 DEF StartFill, VmType
<1> QED
  BY <1>1, <1>2, <1>3 DEF FillSignatures

\* The fills and events on the workers.
LEMMA WorkerType ==
    ASSUME TypeOK, NEW w \in Workers, TakeFill(w) \/ FillDone(w) \/ Publish(w)
    PROVE  TypeOK'
<1> USE DEF kernel, daemon
<1>0. UNCHANGED <<loaded, present, inUse, api, queue, serving, cachedApi, requests, loop>>
  BY DEF TakeFill, FillDone, Publish
<1>1. thread[w] \in Threads /\ ~Waiting(w)
  BY DEF TypeOK, ClientType, TakeFill, FillDone, Publish, Waiting, At
<1>2. ASSUME NEW r \in Threads, r.at \notin Asked, thread' = [thread EXCEPT ![w] = r],
             tasks' \in Seq(Tasks), VmType'
      PROVE  TypeOK'
  <2>1. /\ queue' \in Seq(Calls) /\ thread' \in [Workers -> Threads] /\ OneCall'
        /\ \A u \in Workers : thread'[u].at \in Asked => thread'[u].verb # "none"
    BY <1>0, <1>1, <1>2, QuietType
  <2>2. ClientType' /\ DaemonType'
    BY <1>0, <1>2, <2>1 DEF TypeOK, ClientType, DaemonType, Asked
  <2>3. KernelType' /\ Closed'
    BY <1>0 DEF TypeOK, KernelType, Closed
  <2> QED
    BY <1>0, <1>2, <2>1, <2>2, <2>3 DEF TypeOK
<1>3. Idle \in Threads /\ Idle.at \notin Asked
  BY DEF Idle, Threads, Words, Asked
<1>4. CASE TakeFill(w)
  <2> DEFINE r == [thread[w] EXCEPT !.at = "filling"]
  <2>1. tasks' = Tail(tasks) /\ tasks # <<>> /\ thread' = [thread EXCEPT ![w] = r] /\ UNCHANGED <<vm, posted>>
    BY <1>4 DEF TakeFill
  <2>2. r \in Threads /\ r.at \notin Asked
    BY <1>1 DEF Threads, Asked
  <2>3. PICK f \in fills : fills' = (fills \ {f}) \cup {[f EXCEPT !.by = w]}
    BY <1>4 DEF TakeFill
  <2>4. [f EXCEPT !.by = w] \in [id : Nat, names : SUBSET Modules, by : Workers \cup {Nobody}]
    BY <2>3 DEF TypeOK, VmType
  <2>5. VmType'
    BY <1>0, <2>1, <2>3, <2>4 DEF TypeOK, VmType
  <2>6. tasks' \in Seq(Tasks)
    BY <2>1 DEF TypeOK, ClientType
  <2> HIDE DEF r
  <2> QED
    BY <1>2, <2>1, <2>2, <2>5, <2>6
<1>5. CASE FillDone(w)
  <2>1. PICK f \in fills : fills' = fills \ {f} /\ posted' = Append(posted, f.names)
    BY <1>5 DEF FillDone
  <2>2. f.names \in SUBSET Modules
    BY <2>1 DEF TypeOK, VmType
  <2>3. posted' \in Seq(SUBSET Modules)
    BY <2>1, <2>2 DEF TypeOK, VmType
  <2>4. thread' = [thread EXCEPT ![w] = Idle] /\ UNCHANGED <<vm, tasks>>
    BY <1>5 DEF FillDone
  <2>5. VmType'
    BY <1>0, <2>1, <2>3, <2>4 DEF TypeOK, VmType
  <2> QED
    BY <1>2, <1>3, <2>4, <2>5 DEF TypeOK, ClientType
<1>6. CASE Publish(w)
  <2>1. thread' = [thread EXCEPT ![w] = Idle] /\ UNCHANGED <<tasks, fills>>
    BY <1>6 DEF Publish
  <2>2. /\ vm' \in {vm, [vm EXCEPT !.queued = TRUE]}
        /\ posted' \in {posted, Append(posted, {})}
    BY <1>6 DEF Publish
  <2>3. posted' \in Seq(SUBSET Modules)
    BY <2>2 DEF TypeOK, VmType
  <2>4. VmType'
    BY <1>0, <2>1, <2>2, <2>3 DEF TypeOK, VmType
  <2> QED
    BY <1>2, <1>3, <2>1, <2>4 DEF TypeOK, ClientType
<1> QED
  BY <1>4, <1>5, <1>6

\* The user interface thread and the teardown.
LEMMA LoopType ==
    ASSUME TypeOK, RunPosted \/ Quit \/ Unwind \/ Close
    PROVE  TypeOK'
<1> USE DEF kernel, daemon, client, requestVars
<1>0. UNCHANGED <<kernel, daemon, cachedApi, thread, tasks, requests, fills>>
  BY DEF RunPosted, Quit, Unwind, Close
<1>1. VmType'
  <2>1. CASE RunPosted
    <3>1. posted # <<>> /\ posted' = Tail(posted) /\ loop' = loop
          /\ vm' = [vm EXCEPT !.cells = @ \cup Head(posted), !.list = loaded,
                              !.queued = @ /\ Head(posted) # {}]
      BY <2>1 DEF RunPosted
    <3>2. posted' \in Seq(SUBSET Modules) /\ Head(posted) \in SUBSET Modules
      BY <3>1 DEF TypeOK, VmType
    <3>3. loaded \in SUBSET Modules
      BY DEF TypeOK, KernelType
    <3>4. vm.cells \cup Head(posted) \in SUBSET Modules /\ (vm.queued /\ Head(posted) # {}) \in BOOLEAN
      BY <3>2 DEF TypeOK, VmType
    <3>5. vm' \in [list : SUBSET Modules, cells : SUBSET Modules, queued : BOOLEAN, fill : Nat,
                   alive : BOOLEAN]
      BY <3>1, <3>3, <3>4 DEF TypeOK, VmType
    <3> QED
      BY <1>0, <3>1, <3>2, <3>5 DEF TypeOK, VmType
  <2>2. CASE Quit \/ Unwind \/ Close
    BY <1>0, <2>2 DEF Quit, Unwind, Close, TypeOK, VmType
  <2> QED
    BY <2>1, <2>2
<1>2. [verb |-> "fill", name |-> "none"] \in Tasks
  BY DEF Tasks, Words
<1> QED
  BY <1>0, <1>1, <1>2, UserType

\* Every step keeps the types.
LEMMA ModulesTypeStep == TypeOK /\ [Next]_vars => TypeOK'
<1> SUFFICES ASSUME TypeOK, [Next]_vars PROVE TypeOK'
  OBVIOUS
<1> USE DEF kernel, daemon, client, requestVars
<1>1. [verb |-> "fill", name |-> "none"] \in Tasks
  BY DEF Tasks, Words
<1>2. CASE UNCHANGED vars \/ Gone
  <2>1. VmType'
    BY <1>2 DEF Gone, vars, TypeOK, VmType
  <2> QED
    BY <1>1, <1>2, <2>1, UserType DEF Gone, vars
<1>3. ASSUME NEW verb \in {"load", "unload"}, NEW name \in Words, MayAsk,
             tasks' = Append(tasks, [verb |-> verb, name |-> name]),
             UNCHANGED <<kernel, daemon, cachedApi, thread, vm, fills, posted, loop>>
      PROVE  TypeOK'
  <2>1. [verb |-> verb, name |-> name] \in Tasks
    BY DEF Tasks
  <2>2. VmType'
    BY <1>3 DEF TypeOK, VmType
  <2> QED
    BY <1>3, <2>1, <2>2, UserType DEF MayAsk
<1>4. CASE \/ \E name \in Names : AskLoad(name)
           \/ \E m \in Modules : AskUnload(m)
  BY <1>3, <1>4 DEF AskLoad, AskUnload, Words
<1>5. CASE OpenView
  <2> DEFINE v == [vm EXCEPT !.list = loaded]
  <2>1. FillSignatures(v, requests + 1) /\ MayAsk
        /\ UNCHANGED <<kernel, daemon, cachedApi, thread, posted, loop>>
    BY <1>5 DEF OpenView
  <2>2. v \in [list : SUBSET Modules, cells : SUBSET Modules, queued : BOOLEAN, fill : Nat,
               alive : BOOLEAN] /\ requests + 1 \in Nat
    BY DEF TypeOK, VmType, KernelType, ClientType
  <2> HIDE DEF v
  <2>3. VmType' /\ tasks' \in {tasks, Append(tasks, [verb |-> "fill", name |-> "none"])}
    BY <2>1, <2>2, FillType
  <2> QED
    BY <1>1, <2>1, <2>3, UserType DEF MayAsk
<1>6. CASE Request(Touch) \/ Request(Tick) \/ Request(Restart)
  BY <1>6, EnvironmentType DEF Request
<1>7. CASE Request(Devmgrd)
  BY <1>7, DevmgrdType DEF Request
<1>8. ASSUME NEW w \in Workers, Work(w) PROVE TypeOK'
  BY <1>8, ChannelType, WorkerType DEF Work, Request
<1>9. CASE RunPosted \/ Quit \/ Unwind \/ Close
  BY <1>9, LoopType
<1> QED
  BY <1>2, <1>4, <1>5, <1>6, <1>7, <1>8, <1>9 DEF Next

\* Whoever waits for devmgrd has exactly one call in its queue, also after timeouts and
\* restarts, and a module is never in the kernel without what it needs, also after a
\* load that failed halfway.
THEOREM ModulesTypeCorrect == Spec => []TypeOK
BY ModulesTypeInit, ModulesTypeStep, PTL DEF Spec

-----------------------------------------------------------------------------
(* A client's module verbs, across its own threads and devmgrd's loop.  *)

\* The one fill there may be is the one whose future ModulesVM holds.
OneFill ==
    /\ "fill" \in DOMAIN vm
    /\ \A f \in fills : {"id", "by"} \subseteq DOMAIN f /\ f.id = vm.fill
    /\ loop = "gone" => fills = {}

LEMMA FillSignaturesKeepsOne ==
    ASSUME OneFill, NEW v, v.fill = vm.fill, "fill" \in DOMAIN v, NEW id, FillSignatures(v, id)
    PROVE  /\ "fill" \in DOMAIN vm'
           /\ \A f \in fills' : {"id", "by"} \subseteq DOMAIN f /\ f.id = vm'.fill
<1>1. CASE Outstanding(v.fill)
  BY <1>1 DEF FillSignatures, Filled, OneFill
<1>2. CASE ~Outstanding(v.fill)
  <2>1. fills = {}
    BY <1>2 DEF Outstanding, OneFill
  <2>2. CASE v.list \subseteq v.cells
    BY <1>2, <2>1, <2>2 DEF FillSignatures, Filled
  <2>3. CASE ~(v.list \subseteq v.cells)
    BY <1>2, <2>1, <2>3 DEF FillSignatures, StartFill
  <2> QED BY <2>2, <2>3
<1> QED BY <1>1, <1>2

LEMMA OneFillStep == OneFill /\ [Next]_vars => OneFill'
<1> SUFFICES ASSUME OneFill, [Next]_vars PROVE OneFill'
  OBVIOUS
<1>1. ASSUME UNCHANGED <<vm, fills, loop>> PROVE OneFill'
  BY <1>1 DEF OneFill
<1>2. CASE UNCHANGED vars \/ Gone
  BY <1>1, <1>2 DEF Gone, vars
<1>3. CASE \/ \E name \in Names : AskLoad(name)
           \/ \E m \in Modules : AskUnload(m)
  BY <1>1, <1>3 DEF AskLoad, AskUnload
<1>4. CASE OpenView
  <2>1. FillSignatures([vm EXCEPT !.list = loaded], requests + 1) /\ loop' = loop /\ loop # "gone"
    BY <1>4 DEF OpenView, MayAsk, UiIdle
  <2> DEFINE v == [vm EXCEPT !.list = loaded]
  <2>2. v.fill = vm.fill /\ "fill" \in DOMAIN v
    BY DEF OneFill
  <2> HIDE DEF v
  <2> QED BY <2>1, <2>2, FillSignaturesKeepsOne DEF OneFill, v
<1>5. CASE Request(Touch) \/ Request(Tick) \/ Request(Restart) \/ Request(Devmgrd)
  BY <1>1, <1>5 DEF Request
<1>6. ASSUME NEW w \in Workers, Work(w) PROVE OneFill'
  <2>1. CASE Request(Channel(w))
    BY <1>1, <2>1 DEF Request
  <2>2. CASE TakeFill(w)
    BY <2>2 DEF TakeFill, OneFill
  <2>3. CASE FillDone(w)
    BY <2>3 DEF FillDone, OneFill
  <2>4. CASE Publish(w)
    BY <2>4 DEF Publish, OneFill
  <2> QED BY <1>6, <2>1, <2>2, <2>3, <2>4 DEF Work
<1>7. CASE RunPosted
  BY <1>7 DEF RunPosted, OneFill
<1>8. CASE Quit \/ Unwind
  BY <1>8 DEF Quit, Unwind, OneFill
<1>9. CASE Close
  <2>1. fills = {} /\ UNCHANGED <<vm, fills>>
    BY <1>9 DEF Close, Outstanding, OneFill
  <2> QED BY <2>1 DEF OneFill
<1> QED BY <1>2, <1>3, <1>4, <1>5, <1>6, <1>7, <1>8, <1>9 DEF Next

\* ~ModulesVM waits for one future, and no worker is left that could touch what it
\* was: whatever opens of the tab, events and merges came before, there is no
\* second fill.
THEOREM NoFillOutlivesTheVm == Spec => []VmOutlivesFill
<1>1. Init => OneFill
  BY DEF Init, OneFill
<1>2. OneFill => VmOutlivesFill
  BY DEF OneFill, VmOutlivesFill
<1> QED BY <1>1, <1>2, OneFillStep, PTL DEF Spec

\* The calls devmgrd has: a sequence whose first one stays the first.
AreCalls(S) == \A c \in S : {"caller", "verb", "name"} \subseteq DOMAIN c
QueueType == \E S : AreCalls(S) /\ queue \in Seq(S)

\* A device that counts as lost was judged: either it is still to be looked at, or
\* the module in hand does not drive it.
LastingInv ==
    /\ QueueType
    /\ {"at", "left", "used", "affected"} \subseteq DOMAIN serving
    /\ lasting \subseteq Critical(loaded, present)
    /\ lasting # {} =>
         queue # <<>> /\ Head(queue).verb = "unload" /\ serving.at \in {"probe", "prompt", "act"}
    /\ serving.at = "probe" =>
         \A d \in lasting : DriverOf[d] = Head(queue).name => d \in serving.affected
    /\ serving.at \in {"prompt", "act"} =>
         \A d \in lasting : DriverOf[d] # Head(queue).name

LEMMA Appended ==
    ASSUME NEW S, AreCalls(S), queue \in Seq(S), NEW c, {"caller", "verb", "name"} \subseteq DOMAIN c
    PROVE  /\ AreCalls(S \cup {c}) /\ Append(queue, c) \in Seq(S \cup {c})
           /\ queue # <<>> => Head(Append(queue, c)) = Head(queue)
           /\ Append(queue, c) # <<>>
<1>1. AreCalls(S \cup {c})
  BY DEF AreCalls
<1>2. queue \in Seq(S \cup {c}) /\ c \in S \cup {c}
  OBVIOUS
<1> DEFINE T == S \cup {c}
<1>3. queue \in Seq(T) /\ c \in T
  BY <1>2
<1> HIDE DEF T
<1>4. Append(queue, c) \in Seq(T) /\ Append(queue, c) # <<>>
  BY <1>3
<1>5. queue # <<>> => Head(Append(queue, c)) = Head(queue)
  BY <1>3
<1> QED BY <1>1, <1>4, <1>5 DEF T

\* A call that is sent goes to the end.
LEMMA SendKeeps ==
    ASSUME LastingInv, NEW w, NEW t, NEW step, NEW verb, NEW budget, Send(w, t, step, verb, budget)
    PROVE  QueueType' /\ (queue # <<>> => queue' # <<>> /\ Head(queue') = Head(queue))
<1> DEFINE c == [caller |-> w, verb |-> verb, name |-> t.name]
<1>1. queue' = Append(queue, c)
  BY DEF Send
<1>2. {"caller", "verb", "name"} \subseteq DOMAIN c
  OBVIOUS
<1> HIDE DEF c
<1>3. PICK S : AreCalls(S) /\ queue \in Seq(S)
  BY DEF LastingInv, QueueType
<1> QED BY <1>1, <1>2, <1>3, Appended DEF QueueType

\* What does not concern the call in hand.
LEMMA LastingKept ==
    ASSUME LastingInv, QueueType', queue # <<>> => queue' # <<>>,
           queue # <<>> => Head(queue').verb = Head(queue).verb /\ Head(queue').name = Head(queue).name,
           loaded' = loaded, present' = present, lasting' = lasting,
           {"at", "left", "used", "affected"} \subseteq DOMAIN serving',
           serving'.at = serving.at, serving'.affected = serving.affected
    PROVE  LastingInv'
<1>1. lasting' # {} => queue # <<>>
  BY DEF LastingInv
<1>2. lasting' \subseteq Critical(loaded, present)'
  BY DEF LastingInv, Critical, Bound, Facts
<1>3. lasting' # {} =>
         queue' # <<>> /\ Head(queue').verb = "unload" /\ serving'.at \in {"probe", "prompt", "act"}
  BY <1>1 DEF LastingInv
<1>4. serving'.at = "probe" =>
         \A d \in lasting' : DriverOf[d] = Head(queue').name => d \in serving'.affected
  BY <1>1 DEF LastingInv
<1>5. serving'.at \in {"prompt", "act"} => \A d \in lasting' : DriverOf[d] # Head(queue').name
  BY <1>1 DEF LastingInv
<1> QED BY <1>2, <1>3, <1>4, <1>5 DEF LastingInv

\* The answer ends it.
LEMMA AnswerEnds ==
    ASSUME LastingInv, NEW reply, Answer(reply), queue # <<>>
    PROVE  LastingInv'
<1>1. queue' = Tail(queue) /\ serving' = NotServing /\ lasting' = {}
  BY DEF Answer
<1>2. QueueType'
  BY <1>1 DEF LastingInv, QueueType
<1> QED BY <1>1, <1>2 DEF LastingInv, NotServing

LEMMA DaemonKeeps ==
    ASSUME LastingInv, Devmgrd
    PROVE  /\ LastingInv'
           /\ lasting \subseteq Bound(loaded', present)
<1>0. lasting \subseteq Bound(loaded, present)
  BY DEF LastingInv, Critical
<1>1. CASE AnswerApi
  BY <1>0, <1>1, AnswerEnds DEF AnswerApi, Serving, kernel
<1>2. CASE Begin
  <2>1. queue # <<>> /\ serving.at = "idle" /\ loaded' = loaded /\ present' = present
    BY <1>2 DEF Begin, Serving, kernel
  <2>2. lasting = {}
    BY <2>1 DEF LastingInv
  <2>3. CASE \E code : Refuse(code)
    BY <1>0, <2>1, <2>3, AnswerEnds DEF Refuse
  <2>4. CASE Ask /\ Stay
    BY <1>0, <2>1, <2>2, <2>4 DEF Ask, Stay, LastingInv, QueueType
  <2>5. CASE /\ Call.verb = "unload"
             /\ serving' = [serving EXCEPT !.at = "probe", !.affected = Using(Call.name),
                              !.used = Holders(Call.name) # {} \/ Call.name \in inUse]
             /\ lasting' = Critical(loaded, present)
             /\ UNCHANGED <<queue, thread>>
    <3>1. serving'.at = "probe" /\ serving'.affected = Using(Head(queue).name)
          /\ {"at", "left", "used", "affected"} \subseteq DOMAIN serving'
      BY <2>5 DEF LastingInv, Call
    <3>2. \A d \in lasting' : DriverOf[d] = Head(queue).name => d \in Using(Head(queue).name)
      BY <2>5 DEF Critical, Using
    <3>3. lasting' \subseteq Critical(loaded, present)'
      BY <2>1, <2>5 DEF Critical, Bound, Facts
    <3>4. QueueType' /\ queue' = queue
      BY <2>5 DEF LastingInv, QueueType
    <3> QED BY <1>0, <2>1, <2>5, <3>1, <3>2, <3>3, <3>4 DEF LastingInv, Call
  <2> QED BY <1>2, <2>3, <2>4, <2>5 DEF Begin
<1>3. CASE Probe
  <2>1. queue # <<>> /\ serving.at = "probe" /\ loaded' = loaded /\ present' = present
    BY <1>3 DEF Probe, Serving, kernel
  <2>2. CASE Verdict /\ Ask /\ Stay
    <3>1. \A d \in serving.affected : evaluateDisable(Facts(loaded, present), d)
      BY <2>2 DEF Verdict, evaluateModuleUnload
    <3>2. \A d \in lasting : d \notin serving.affected
      BY <3>1 DEF LastingInv, Critical
    <3>3. \A d \in lasting : DriverOf[d] # Head(queue).name
      BY <2>1, <3>2 DEF LastingInv
    <3>4. serving'.at = "prompt" /\ {"at", "left", "used", "affected"} \subseteq DOMAIN serving'
          /\ lasting' = lasting /\ queue' = queue
      BY <2>2 DEF Ask, Stay, LastingInv
    <3>5. lasting' \subseteq Critical(loaded, present)'
      BY <2>1, <3>4 DEF LastingInv, Critical, Bound, Facts
    <3>6. QueueType'
      BY <3>4 DEF LastingInv, QueueType
    <3> QED BY <1>0, <2>1, <3>3, <3>4, <3>5, <3>6 DEF LastingInv
  <2>3. CASE \E code : Refuse(code)
    BY <1>0, <2>1, <2>3, AnswerEnds DEF Refuse
  <2> QED BY <1>3, <2>2, <2>3 DEF Probe
<1>4. CASE Authorize
  <2>1. queue # <<>> /\ serving.at = "prompt" /\ loaded' = loaded /\ present' = present
    BY <1>4 DEF Authorize, Serving, kernel
  <2>2. CASE serving' = [serving EXCEPT !.at = "act"] /\ Stay
    <3>1. serving'.at = "act" /\ {"at", "left", "used", "affected"} \subseteq DOMAIN serving'
          /\ lasting' = lasting /\ queue' = queue
      BY <2>2 DEF Stay, LastingInv
    <3>2. lasting' \subseteq Critical(loaded, present)'
      BY <2>1, <3>1 DEF LastingInv, Critical, Bound, Facts
    <3>3. QueueType'
      BY <3>1 DEF LastingInv, QueueType
    <3> QED BY <1>0, <2>1, <3>1, <3>2, <3>3 DEF LastingInv
  <2>3. CASE \E code : Refuse(code)
    BY <1>0, <2>1, <2>3, AnswerEnds DEF Refuse
  <2> QED BY <1>4, <2>2, <2>3 DEF Authorize
<1>5. CASE Act
  <2>1. queue # <<>> /\ serving.at = "act" /\ present' = present
    BY <1>5 DEF Act, Serving
  <2>2. PICK o \in Outcomes \cup {Failed("Io")} :
          loaded' = o.loaded /\ \E reply : Answer(reply)
    BY <1>5 DEF Act, Refuse
  <2>3. LastingInv'
    BY <2>1, <2>2, AnswerEnds
  <2>4. CASE lasting # {}
    <3>1. Head(queue).verb = "unload" /\ \A d \in lasting : DriverOf[d] # Head(queue).name
      BY <2>1, <2>4 DEF LastingInv
    <3>2. o \in UnloadOutcomes(Head(queue).name) \cup {Failed("Io")}
      BY <2>2, <3>1 DEF Outcomes, Call
    <3>3. o.loaded \in {loaded, loaded \ {Head(queue).name}}
      BY <3>2 DEF UnloadOutcomes, Failed, Fine
    <3> QED BY <1>0, <2>2, <2>3, <3>1, <3>3 DEF Bound
  <2> QED BY <2>3, <2>4
<1> QED BY <1>1, <1>2, <1>3, <1>4, <1>5 DEF Devmgrd

LEMMA LastingStep == LastingInv /\ [Next]_vars => LastingInv'
<1> SUFFICES ASSUME LastingInv, [Next]_vars PROVE LastingInv'
  OBVIOUS
<1> USE DEF kernel, daemon, client, requestVars
<1>0. {"at", "left", "used", "affected"} \subseteq DOMAIN serving
  BY DEF LastingInv
<1>1. ASSUME UNCHANGED <<loaded, present, queue, serving, lasting>> PROVE LastingInv'
  <2>1. QueueType'
    BY <1>1 DEF LastingInv, QueueType
  <2> QED BY <1>0, <1>1, <2>1, LastingKept
<1>2. CASE UNCHANGED vars \/ Gone
  BY <1>1, <1>2 DEF Gone, vars
<1>3. CASE \/ \E name \in Names : AskLoad(name)
           \/ \E m \in Modules : AskUnload(m)
  BY <1>1, <1>3 DEF AskLoad, AskUnload
<1>4. CASE OpenView
  BY <1>1, <1>4 DEF OpenView
<1>5. CASE Request(Touch)
  <2>1. /\ lasting' = lasting \cap Critical(loaded, present') /\ loaded' = loaded
        /\ UNCHANGED <<queue, serving>>
    BY <1>5 DEF Request, Touch
  <2>2. QueueType'
    BY <2>1 DEF LastingInv, QueueType
  <2>3. lasting' \subseteq Critical(loaded, present)'
    BY <2>1 DEF Critical, Bound, Facts
  <2> QED BY <2>1, <2>2, <2>3 DEF LastingInv
<1>6. CASE Request(Tick)
  <2>1. /\ serving' = [serving EXCEPT !.left = @ - 1]
        /\ UNCHANGED <<loaded, present, queue, lasting>>
    BY <1>6 DEF Request, Tick
  <2>2. QueueType'
    BY <2>1 DEF LastingInv, QueueType
  <2> QED BY <1>0, <2>1, <2>2, LastingKept
<1>7. CASE Request(Restart)
  <2>1. queue' = <<>> /\ serving' = NotServing /\ lasting' = {}
    BY <1>7 DEF Request, Restart
  <2>2. AreCalls({}) /\ <<>> \in Seq({})
    BY DEF AreCalls
  <2>3. QueueType'
    BY <2>1, <2>2 DEF QueueType
  <2> QED BY <2>1, <2>3 DEF LastingInv, NotServing
<1>8. CASE Request(Devmgrd)
  BY <1>8, DaemonKeeps DEF Request
<1>9. ASSUME NEW w \in Workers, Work(w) PROVE LastingInv'
  <2>1. ASSUME NEW t, NEW v, Checked(w, t, v), UNCHANGED <<loaded, present, serving, lasting>>
        PROVE  LastingInv'
    <3>1. CASE v < ApiNeeded(t.verb)
      BY <1>1, <2>1, <3>1 DEF Checked
    <3>2. CASE ~(v < ApiNeeded(t.verb))
      <4>1. Send(w, t, "calling", t.verb, CallBudget)
        BY <2>1, <3>2 DEF Checked
      <4> QED BY <1>0, <2>1, <4>1, SendKeeps, LastingKept
    <3> QED BY <3>1, <3>2
  <2>2. CASE TakeVerb(w)
    <3> DEFINE t == [Idle EXCEPT !.verb = Head(tasks).verb, !.name = Head(tasks).name]
    <3>1. /\ UNCHANGED <<loaded, present, serving, lasting>>
          /\ Send(w, t, "asking", "ApiVersion", 1) \/ Checked(w, t, cachedApi)
      BY <2>2 DEF TakeVerb
    <3> HIDE DEF t
    <3>2. CASE Send(w, t, "asking", "ApiVersion", 1)
      BY <1>0, <3>1, <3>2, SendKeeps, LastingKept
    <3> QED BY <2>1, <3>1, <3>2
  <2>3. CASE KeepApi(w)
    BY <2>1, <2>3 DEF KeepApi
  <2>4. CASE Timeout(w)
    <3>1. /\ UNCHANGED <<loaded, present, serving, lasting>>
          /\ queue' = [i \in DOMAIN queue |->
                IF queue[i].caller = w THEN [queue[i] EXCEPT !.caller = Nobody] ELSE queue[i]]
      BY <2>4 DEF Timeout
    <3>2. PICK S : AreCalls(S) /\ queue \in Seq(S)
      BY DEF LastingInv, QueueType
    <3> DEFINE T == S \cup {[c EXCEPT !.caller = Nobody] : c \in S}
    <3>3. AreCalls(T)
      BY <3>2 DEF AreCalls
    <3>4. queue' \in Seq(T)
      <4>1. \A i \in DOMAIN queue : queue[i] \in S
        BY <3>2
      <4>2. ASSUME NEW i \in DOMAIN queue PROVE queue'[i] \in T
        <5>1. queue[i] \in S
          BY <4>1, <4>2
        <5>2. queue'[i] = IF queue[i].caller = w THEN [queue[i] EXCEPT !.caller = Nobody]
                                                 ELSE queue[i]
          BY <3>1, <4>2
        <5> QED BY <5>1, <5>2
      <4> HIDE DEF T
      <4>3. Len(queue) \in Nat /\ DOMAIN queue = 1 .. Len(queue)
        BY <3>2
      <4>4. queue' = [i \in 1 .. Len(queue) |-> queue'[i]]
        BY <3>1, <4>3
      <4>5. \A i \in 1 .. Len(queue) : queue'[i] \in T
        BY <4>2, <4>3
      <4> QED BY <4>3, <4>4, <4>5
    <3>5. queue # <<>> =>
            queue' # <<>> /\ Head(queue').verb = Head(queue).verb
                          /\ Head(queue').name = Head(queue).name
      <4>1. ASSUME queue # <<>>
            PROVE  /\ 1 \in DOMAIN queue /\ Head(queue) = queue[1]
                   /\ {"caller", "verb", "name"} \subseteq DOMAIN queue[1]
        BY <3>2, <4>1 DEF AreCalls
      <4>2. ASSUME queue # <<>> PROVE queue' # <<>> /\ Head(queue') = queue'[1]
        <5>1. 1 \in DOMAIN queue'
          BY <3>1, <4>1, <4>2
        <5> HIDE DEF T
        <5> QED BY <3>4, <5>1
      <4> QED BY <3>1, <4>1, <4>2
    <3>6. QueueType'
      <4> HIDE DEF T
      <4> QED BY <3>3, <3>4 DEF QueueType
    <3> QED BY <1>0, <3>1, <3>5, <3>6, LastingKept
  <2>5. CASE TakeFill(w) \/ FillDone(w) \/ Publish(w)
    BY <1>1, <2>5 DEF TakeFill, FillDone, Publish
  <2> QED BY <1>9, <2>2, <2>3, <2>4, <2>5 DEF Work, Request, Channel
<1>10. CASE RunPosted \/ Quit \/ Unwind \/ Close
  BY <1>1, <1>10 DEF RunPosted, Quit, Unwind, Close
<1> QED BY <1>2, <1>3, <1>4, <1>5, <1>6, <1>7, <1>8, <1>9, <1>10 DEF Next

\* The guard's answer still holds when the module goes, minutes after the question:
\* a device that was bound and critical all the time devmgrd had the call in hand
\* keeps its driver, for any number of clients, restarts and hotplug events.
THEOREM UnloadSparesCritical == Spec => GuardHolds
<1>1. Init => LastingInv
  <2> SUFFICES ASSUME Init PROVE LastingInv
    OBVIOUS
  <2>1. queue = <<>> /\ serving = NotServing /\ lasting = {}
    BY DEF Init, InitRequests
  <2>2. AreCalls({}) /\ <<>> \in Seq({})
    BY DEF AreCalls
  <2>3. QueueType
    BY <2>1, <2>2 DEF QueueType
  <2> QED BY <2>1, <2>3 DEF LastingInv, NotServing
<1>2. LastingInv /\ [Next]_vars =>
        [Request(Devmgrd) => lasting \subseteq Bound(loaded', present)]_vars
  BY DaemonKeeps DEF Request
<1> QED BY <1>1, <1>2, LastingStep, PTL DEF Spec, GuardHolds
=============================================================================
