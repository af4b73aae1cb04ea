---------------------------- MODULE DevmgrdProofs ----------------------------
(***************************************************************************)
(* What is proved of devmgrd for any set of devices, ports and clients and *)
(* any number of hotplug events, requests, crashes and faults.             *)
(*                                                                         *)
(* The argument is layered.  TypeOK is inductive by itself.  Next to it,   *)
(* RootInv says the guard's verdict about a root device cannot go stale,   *)
(* because a root device does not move.  StoreInv follows the keys through *)
(* the store: enforcement rewrites entries but never adds or drops a key,  *)
(* so only the verb that holds applyMutex changes the set of keys.         *)
(***************************************************************************)
EXTENDS Devmgrd, SequenceTheorems, TLAPS

\* No key occurs twice.
Distinct(s) == \A i, j \in DOMAIN s : s[i].key = s[j].key => i = j

\* A step of the store that keeps its keys, and saves what is in memory or not
\* at all.
Kept ==
    /\ mem' \in Seq(Entries) /\ disk' \in Seq(Entries)
    /\ KeysOf(mem') = KeysOf(mem)
    /\ disk' = disk \/ disk' = mem'
    /\ Distinct(mem) => Distinct(mem')

\* Replacing an entry by one with the same key keeps the keys of the store
\* (the field setters of StateStore).
LEMMA SameKey ==
    ASSUME NEW s \in Seq(Entries), NEW i \in DOMAIN s, NEW e \in Entries, e.key = s[i].key
    PROVE  /\ [s EXCEPT ![i] = e] \in Seq(Entries)
           /\ KeysOf([s EXCEPT ![i] = e]) = KeysOf(s)
           /\ Distinct(s) => Distinct([s EXCEPT ![i] = e])
<1> DEFINE t == [s EXCEPT ![i] = e]
<1>1. t \in Seq(Entries)
  BY ExceptSeq
<1>2. DOMAIN t = DOMAIN s
  OBVIOUS
<1>3. \A j \in DOMAIN s : t[j].key = s[j].key
  OBVIOUS
<1>4. KeysOf(t) = KeysOf(s)
  BY <1>2, <1>3 DEF KeysOf
<1>5. Distinct(s) => Distinct(t)
  BY <1>2, <1>3 DEF Distinct
<1>6. QED
  BY <1>1, <1>4, <1>5

\* setGuardSuspended keeps the keys, whether or not its save succeeds.
LEMMA SuspendKeeps ==
    ASSUME StoreType, NEW k, NEW b \in BOOLEAN, SetSuspended(k, b)
    PROVE  Kept
<1>1. CASE k \notin KeysOf(mem)
  BY <1>1 DEF SetSuspended, Amend, Kept, StoreType, store
<1>2. CASE k \in KeysOf(mem)
  <2>1. PICK out \in SaveOutcomes, i \in First(WithKey(mem, k)) :
          Save([mem EXCEPT ![i] = [mem[i] EXCEPT !.suspended = b]], out)
    BY <1>2 DEF SetSuspended, Amend
  <2>2. i \in DOMAIN mem /\ mem[i] \in Entries
    BY <2>1 DEF First, WithKey, StoreType
  <2>3. [mem[i] EXCEPT !.suspended = b] \in Entries
        /\ [mem[i] EXCEPT !.suspended = b].key = mem[i].key
    BY <2>2 DEF Entries
  <2>4. QED
    BY <2>1, <2>2, <2>3, SameKey DEF Save, Kept, StoreType
<1>3. QED
  BY <1>1, <1>2

\* setLastSysfsPath keeps the keys, whether or not its save succeeds.
LEMMA PathKeeps ==
    ASSUME StoreType, NEW k, NEW p \in Ports, SetLastPath(k, p)
    PROVE  Kept
<1>1. CASE k \notin KeysOf(mem)
  BY <1>1 DEF SetLastPath, Amend, Kept, StoreType, store
<1>2. CASE k \in KeysOf(mem)
  <2>1. PICK out \in SaveOutcomes, i \in First(WithKey(mem, k)) :
          Save([mem EXCEPT ![i] = [mem[i] EXCEPT !.path = p]], out)
    BY <1>2 DEF SetLastPath, Amend
  <2>2. i \in DOMAIN mem /\ mem[i] \in Entries
    BY <2>1 DEF First, WithKey, StoreType
  <2>3. [mem[i] EXCEPT !.path = p] \in Entries
        /\ [mem[i] EXCEPT !.path = p].key = mem[i].key
    BY <2>2 DEF Entries
  <2>4. QED
    BY <2>1, <2>2, <2>3, SameKey DEF Save, Kept, StoreType
<1>3. QED
  BY <1>1, <1>2

\* The record a restore makes of a re-applied entry keeps the keys.
LEMMA ReapplyKeeps ==
    ASSUME StoreType, NEW e \in Entries, NEW p \in Ports, Reapplied(e, p)
    PROVE  Kept
<1>1. CASE UNCHANGED store
  BY <1>1 DEF Kept, StoreType, store
<1>2. CASE ~ UNCHANGED store
  <2> DEFINE new(x) == [x EXCEPT !.path = p,
                                 !.suspended = IF e.suspended THEN FALSE ELSE x.suspended]
  <2>1. PICK out \in SaveOutcomes, i \in First(WithKey(mem, e.key)) :
          Save([mem EXCEPT ![i] = new(mem[i])], out)
    BY <1>2 DEF Reapplied, Amend
  <2>2. i \in DOMAIN mem /\ mem[i] \in Entries
    BY <2>1 DEF First, WithKey, StoreType
  <2>3. new(mem[i]) \in Entries /\ new(mem[i]).key = mem[i].key
    BY <2>2 DEF Entries
  <2> HIDE DEF new
  <2>4. QED
    BY <2>1, <2>2, <2>3, SameKey DEF Save, Kept, StoreType
<1>3. QED
  BY <1>1, <1>2

-----------------------------------------------------------------------------
(* Type correctness.                                                       *)

\* A re-apply in progress is a whole record.
LEMMA EnfShape ==
    ASSUME WorkType, enf.pc # "idle"
    PROVE  enf \in EnfWork /\ enf.pc \in EnfPcs /\ enf.entry \in Entries /\ enf.port \in Ports
BY DEF WorkType, EnfIdle, EnfWork

\* Enforcement moves on without losing its entry and port.
LEMMA EnfMove ==
    ASSUME enf \in EnfWork, NEW pc \in EnfPcs, enf' = [enf EXCEPT !.pc = pc]
    PROVE  enf' \in EnfWork /\ enf'.pc = pc /\ enf'.entry = enf.entry /\ enf'.port = enf.port
BY DEF EnfWork

\* maybeReapply starts with an entry and a port, or not at all.
LEMMA EnfStart ==
    ASSUME NEW e \in Entries, NEW p \in Ports, NEW b, Consider(e, p, b)
    PROVE  /\ enf' \in {EnfIdle} \cup EnfWork
           /\ enf'.pc \in {"idle", "probe"}
BY DEF Consider, EnfIdle, EnfWork, EnfPcs

\* A verb in progress is a whole record.
LEMMA BusShape ==
    ASSUME BusType, bus.pc # "idle"
    PROVE  /\ bus \in BusWork /\ bus.pc \in BusPcs /\ bus.verb \in Verbs
           /\ bus.port \in Ports \cup {Nobody} /\ bus.entry \in {NoEntry} \cup Entries
           /\ bus.pre \in Seq(Entries) /\ bus.target \in Seq(Entries)
BY DEF BusType, BusIdle, BusWork

\* A verb moves on without losing its arguments.
LEMMA BusMove ==
    ASSUME bus \in BusWork, NEW pc \in BusPcs, bus' = [bus EXCEPT !.pc = pc]
    PROVE  /\ bus' \in BusWork /\ bus'.pc = pc /\ bus'.verb = bus.verb /\ bus'.port = bus.port
           /\ bus'.entry = bus.entry /\ bus'.pre = bus.pre /\ bus'.target = bus.target
BY DEF BusWork

\* A verb that moves on with an entry, as disable and enable do.
LEMMA BusMoveEntry ==
    ASSUME bus \in BusWork, NEW pc \in BusPcs, NEW e \in {NoEntry} \cup Entries,
           bus' = [bus EXCEPT !.pc = pc, !.entry = e]
    PROVE  /\ bus' \in BusWork /\ bus'.pc = pc /\ bus'.verb = bus.verb /\ bus'.port = bus.port
           /\ bus'.entry = e /\ bus'.pre = bus.pre /\ bus'.target = bus.target
BY DEF BusWork

\* A verb that moves on with the entries a restore will replace.
LEMMA BusMovePre ==
    ASSUME bus \in BusWork, NEW pc \in BusPcs, NEW s \in Seq(Entries),
           bus' = [bus EXCEPT !.pc = pc, !.pre = s]
    PROVE  /\ bus' \in BusWork /\ bus'.pc = pc /\ bus'.verb = bus.verb /\ bus'.port = bus.port
           /\ bus'.entry = bus.entry /\ bus'.pre = s /\ bus'.target = bus.target
BY DEF BusWork

\* What a reply under applyMutex leaves.
LEMMA ReplyFacts ==
    ASSUME bus \in BusWork, NEW ok \in BOOLEAN, ReplyLocked(ok)
    PROVE  /\ bus' = BusIdle /\ bus'.pc = "idle" /\ lock' = "free"
           /\ ret' \in Returns /\ ret'.ok = ok /\ ret'.verb = bus.verb /\ ret'.entry = bus.entry
BY DEF ReplyLocked, BusIdle, BusWork, Returns

\* The state before any request is answered.
LEMMA NoReturnType == NoReturn \in Returns /\ NoReturn.ok = FALSE /\ NoReturn.verb = "none"
BY DEF NoReturn, Returns

\* t is s without its element at i: it keeps every other one, each once.
Without(t, s, i) ==
    /\ t \in Seq(Entries)
    /\ \A j \in DOMAIN t : \E k \in DOMAIN s : k # i /\ t[j] = s[k]
    /\ \A j, k \in DOMAIN t : j # k =>
         \E m, n \in DOMAIN s : m # n /\ t[j] = s[m] /\ t[k] = s[n]
    /\ \A k \in DOMAIN s : k # i => \E j \in DOMAIN t : t[j] = s[k]

\* Erasing one entry of the store.
LEMMA Erased ==
    ASSUME NEW s \in Seq(Entries), NEW i \in DOMAIN s
    PROVE  Without(RemoveAt(s, i), s, i)
<1> DEFINE a == SubSeq(s, 1, i - 1)
           b == SubSeq(s, i + 1, Len(s))
<1>1. i \in 1..Len(s)
  OBVIOUS
<1>2. /\ a \in Seq(Entries) /\ Len(a) = i - 1
      /\ \A j \in 1..(i - 1) : a[j] = s[j]
  BY <1>1
<1>3. /\ b \in Seq(Entries) /\ Len(b) = Len(s) - i
      /\ \A j \in 1..(Len(s) - i) : b[j] = s[i + j]
  BY <1>1
<1> HIDE DEF a, b
<1> DEFINE t == a \o b
<1>4. /\ t \in Seq(Entries) /\ Len(t) = Len(s) - 1
      /\ \A j \in 1..Len(t) : t[j] = IF j < i THEN s[j] ELSE s[j + 1]
  <2>1. /\ t \in Seq(Entries) /\ Len(t) = Len(a) + Len(b)
        /\ \A j \in 1..Len(t) : t[j] = IF j <= Len(a) THEN a[j] ELSE b[j - Len(a)]
    <3>1. /\ a \o b \in Seq(Entries) /\ Len(a \o b) = Len(a) + Len(b)
          /\ \A j \in 1..Len(a) + Len(b) :
               (a \o b)[j] = IF j <= Len(a) THEN a[j] ELSE b[j - Len(a)]
      BY <1>2, <1>3, ConcatProperties, Zenon
    <3>2. QED
      BY <3>1, Zenon
  <2>2. Len(t) = Len(s) - 1
    BY <1>1, <1>2, <1>3, <2>1
  <2> HIDE DEF t
  <2>3. ASSUME NEW j \in 1..Len(t) PROVE t[j] = IF j < i THEN s[j] ELSE s[j + 1]
    <3>1. CASE j < i
      BY <3>1, <1>1, <1>2, <2>1
    <3>2. CASE ~(j < i)
      <4>1. t[j] = b[j - (i - 1)]
        BY <3>2, <1>1, <1>2, <2>1
      <4>2. j - (i - 1) \in 1..(Len(s) - i) /\ i + (j - (i - 1)) = j + 1
        BY <3>2, <1>1, <2>2
      <4>3. QED
        BY <4>1, <4>2, <3>2, <1>3
    <3>3. QED
      BY <3>1, <3>2
  <2>4. QED
    BY <2>1, <2>2, <2>3
<1>5. RemoveAt(s, i) = t
  BY DEF RemoveAt, a, b
<1> HIDE DEF t
<1>6. DOMAIN t = 1..(Len(s) - 1) /\ DOMAIN s = 1..Len(s)
  BY <1>4
<1>7. \A j \in DOMAIN t : \E k \in DOMAIN s : k # i /\ t[j] = s[k]
  <2>1. TAKE j \in DOMAIN t
  <2>2. CASE j < i
    BY <2>2, <1>1, <1>4, <1>6
  <2>3. CASE ~(j < i)
    <3>1. j + 1 \in DOMAIN s /\ j + 1 # i /\ t[j] = s[j + 1]
      BY <2>3, <1>1, <1>4, <1>6
    <3>2. QED
      BY <3>1
  <2>4. QED
    BY <2>2, <2>3
<1>8. \A j, k \in DOMAIN t : j # k => \E m, n \in DOMAIN s : m # n /\ t[j] = s[m] /\ t[k] = s[n]
  <2>1. SUFFICES ASSUME NEW j \in DOMAIN t, NEW k \in DOMAIN t, j # k
                 PROVE  \E m, n \in DOMAIN s : m # n /\ t[j] = s[m] /\ t[k] = s[n]
    OBVIOUS
  <2> DEFINE m == IF j < i THEN j ELSE j + 1
             n == IF k < i THEN k ELSE k + 1
  <2>2. m \in DOMAIN s /\ n \in DOMAIN s /\ m # n
    BY <2>1, <1>1, <1>6
  <2>3. t[j] = s[m] /\ t[k] = s[n]
    BY <1>4, <1>6
  <2>4. QED
    BY <2>2, <2>3
<1>9. \A k \in DOMAIN s : k # i => \E j \in DOMAIN t : t[j] = s[k]
  <2>1. SUFFICES ASSUME NEW k \in DOMAIN s, k # i PROVE \E j \in DOMAIN t : t[j] = s[k]
    OBVIOUS
  <2> DEFINE j == IF k < i THEN k ELSE k - 1
  <2>2. j \in DOMAIN t /\ t[j] = s[k]
    BY <2>1, <1>1, <1>4, <1>6
  <2>3. QED
    BY <2>2
<1>10. Without(t, s, i)
  BY <1>4, <1>7, <1>8, <1>9 DEF Without
<1>11. QED
  BY <1>5, <1>10

\* Every initial state has the types of TypeOK.
LEMMA TypeInit == Init => TypeOK
<1> SUFFICES ASSUME Init PROVE TypeOK
  OBVIOUS
<1>1. HardwareType
  BY DaemonAssumption DEF Init, HardwareType
<1>2. StoreType
  BY DEF Init, StoreType
<1>3. WorkType
  BY DEF Init, WorkType
<1>4. BusType
  BY NoReturnType DEF Init, BusType
<1>5. VerbType /\ LockType
  BY DEF Init, VerbType, LockType, EnfIdle, BusIdle
<1>6. QED
  BY <1>1, <1>2, <1>3, <1>4, <1>5 DEF TypeOK

\* An idle thread is at "idle".
LEMMA IdlePc == EnfIdle.pc = "idle" /\ BusIdle.pc = "idle"
BY DEF EnfIdle, BusIdle

\* Hotplug, a crash and the startup steps keep the types.
LEMMA TypeEnvironment == TypeOK /\ (Environment \/ Startup) => TypeOK'
<1> SUFFICES ASSUME TypeOK, Environment \/ Startup PROVE TypeOK'
  OBVIOUS
<1> USE DaemonAssumption, IdlePc, NoReturnType DEF TypeOK, HardwareType, StoreType, WorkType, BusType, VerbType, LockType
<1>1. ASSUME NEW u \in Units, NEW p \in Ports, Plug(u, p) PROVE TypeOK'
  <2>1. Report(u, p) \in Reports
    BY DEF Report, Reports
  <2>2. events' \in Seq(Reports)
    BY <1>1, <2>1 DEF Plug, Reported
  <2>3. QED
    BY <1>1, <2>2 DEF Plug
<1>2. ASSUME NEW p \in Ports, Unplug(p) PROVE TypeOK'
  BY <1>2 DEF Unplug
<1>3. CASE Crash
  BY <1>3 DEF Crash
<1>4. CASE Load
  <2>1. Range(disk) \subseteq Entries
    BY DEF Range
  <2>2. DOMAIN seen' \subseteq Ports
    BY <1>4 DEF Load, Enumerations, LiveView, PresentPorts
  <2>3. QED
    BY <1>4, <2>1, <2>2 DEF Load
<1>5. CASE SweepVisit
  <2>1. PICK e \in todo :
          /\ \/ \E p \in Listed(e) : Consider(e, p, seen[p].off)
             \/ Listed(e) = {} /\ at[e.path] # Nobody /\ Consider(e, e.path, off[e.path])
             \/ Listed(e) = {} /\ at[e.path] = Nobody /\ UNCHANGED enf
          /\ todo' = todo \ {e}
    BY <1>5 DEF SweepVisit
  <2>2. e \in Entries /\ e.path \in Ports /\ Listed(e) \subseteq Ports
    BY DEF Entries, Listed
  <2>3. enf' \in {EnfIdle} \cup EnfWork /\ enf'.pc \in {"idle", "probe"}
    BY <1>5, <2>1, <2>2, EnfStart DEF SweepVisit
  <2>4. QED
    BY <1>5, <2>1, <2>3 DEF SweepVisit
<1>6. CASE MonitorStart
  BY <1>6 DEF MonitorStart
<1>7. QED
  BY <1>1, <1>2, <1>3, <1>4, <1>5, <1>6 DEF Environment, Startup

\* Every step of enforcement keeps the types.
LEMMA TypeEnforcement == TypeOK /\ Enforcement => TypeOK'
<1> SUFFICES ASSUME TypeOK, Enforcement PROVE TypeOK'
  OBVIOUS
<1> USE IdlePc DEF TypeOK, HardwareType, StoreType, WorkType, BusType, VerbType, LockType
<1>1. CASE HotplugEvent
  <2>1. Head(events).port \in Ports /\ Tail(events) \in Seq(Reports)
    <3>1. events # <<>> /\ events \in Seq(Reports)
      BY <1>1 DEF HotplugEvent
    <3>2. Head(events) \in Reports /\ Tail(events) \in Seq(Reports)
      BY <3>1
    <3>3. QED
      BY <3>2 DEF Reports
  <2>2. enf' \in {EnfIdle} \cup EnfWork /\ enf'.pc \in {"idle", "probe"}
    <3> DEFINE e == Head(events)
               found == {i \in DOMAIN mem : Concerns(mem[i], e.id, e.port)}
    <3>1. CASE found = {}
      BY <1>1, <3>1 DEF HotplugEvent
    <3>2. CASE found # {}
      <4>1. PICK i \in First(found) :
               Consider(mem[i], e.port, e.port \in UsbPorts /\ off[e.port])
        BY <1>1, <3>2 DEF HotplugEvent
      <4>2. mem[i] \in Entries
        BY <4>1 DEF First
      <4>3. QED
        BY <4>1, <4>2, <2>1, EnfStart
    <3>3. QED
      BY <3>1, <3>2
  <2>3. QED
    BY <1>1, <2>1, <2>2 DEF HotplugEvent
<1>2. CASE EnfProbe
  <2>1. enf \in EnfWork
    BY <1>2, EnfShape DEF EnfProbe
  <2>2. enf' \in {EnfIdle} \cup EnfWork /\ enf'.pc \in {"idle", "lock", "suspend"}
    <3>1. CASE enf' = EnfIdle
      BY <3>1
    <3>2. CASE enf' = [enf EXCEPT !.pc = "lock"]
      BY <3>2, <2>1, EnfMove DEF EnfPcs
    <3>3. CASE enf' = [enf EXCEPT !.pc = "suspend"]
      BY <3>3, <2>1, EnfMove DEF EnfPcs
    <3>4. QED
      BY <1>2, <3>1, <3>2, <3>3 DEF EnfProbe
  <2>3. QED
    BY <1>2, <2>2 DEF EnfProbe
<1>3. CASE EnfSuspend
  <2>1. Kept
    BY <1>3, SuspendKeeps DEF EnfSuspend
  <2>2. QED
    BY <1>3, <2>1 DEF EnfSuspend, Kept
<1>4. CASE EnfLock
  <2>1. enf' \in EnfWork /\ enf'.pc = "apply"
    BY <1>4, EnfShape, EnfMove DEF EnfLock, EnfPcs
  <2>2. QED
    BY <1>4, <2>1 DEF EnfLock
<1>5. CASE EnfApply
  <2>1. enf \in EnfWork
    BY <1>5, EnfShape DEF EnfApply
  <2>2. CASE /\ off' = [off EXCEPT ![enf.port] = TRUE]
             /\ enf' = [enf EXCEPT !.pc = "path"] /\ lock' = lock
    <3>1. enf' \in EnfWork /\ enf'.pc = "path"
      BY <2>1, <2>2, EnfMove DEF EnfPcs
    <3>2. off' \in [Ports -> BOOLEAN]
      BY <2>2
    <3>3. QED
      BY <1>5, <2>2, <3>1, <3>2 DEF EnfApply
  <2>3. CASE EnfRelease /\ UNCHANGED off
    BY <1>5, <2>3 DEF EnfApply, EnfRelease
  <2>4. QED
    BY <1>5, <2>2, <2>3 DEF EnfApply
<1>6. CASE EnfRecordPath
  <2>1. enf \in EnfWork /\ enf.port \in Ports
    BY <1>6, EnfShape DEF EnfRecordPath
  <2>2. enf' \in EnfWork /\ enf'.pc = "clear"
    BY <1>6, <2>1, EnfMove DEF EnfRecordPath, EnfPcs
  <2>3. Kept
    BY <1>6, <2>1, PathKeeps DEF EnfRecordPath, Kept, store
  <2>4. QED
    BY <1>6, <2>2, <2>3 DEF EnfRecordPath, Kept
<1>7. CASE EnfClear
  <2>1. Kept
    BY <1>7, SuspendKeeps DEF EnfClear, Kept, store
  <2>2. QED
    BY <1>7, <2>1 DEF EnfClear, EnfRelease, Kept
<1>8. QED
  BY <1>1, <1>2, <1>3, <1>4, <1>5, <1>6, <1>7 DEF Enforcement

\* No entries is a sequence of entries.
LEMMA EmptyType == <<>> \in Seq(Entries)
OBVIOUS

\* The absent entry is none of the entries: an entry has a field.
LEMMA NoEntryType == NoEntry \notin Entries
BY DEF NoEntry, Entries

\* A probe succeeds or fails.
LEMMA OutcomeType == HwOutcomes \subseteq BOOLEAN
BY DEF HwOutcomes

\* A refusal before applyMutex is taken.
LEMMA RefuseFacts ==
    ASSUME NEW verb \in Verbs, Refuse(verb)
    PROVE  bus' = BusIdle /\ ret' \in Returns /\ ret'.ok = FALSE
BY DEF Refuse, Returns

\* Requests, the prompt and taking applyMutex keep the types.
LEMMA TypeRequest == TypeOK /\ (Client \/ Authorize \/ BusLock) => TypeOK'
<1> SUFFICES ASSUME TypeOK, Client \/ Authorize \/ BusLock PROVE TypeOK'
  OBVIOUS
<1> USE IdlePc, NoReturnType DEF TypeOK, HardwareType, StoreType, WorkType, BusType, VerbType, LockType
<1>1. ASSUME NEW verb \in Verbs, NEW p \in Ports, Request(verb, p) PROVE TypeOK'
  <2>1. CASE bus' = NewBus(verb, p, <<>>) /\ ret' = NoReturn
    <3>1. /\ NewBus(verb, p, <<>>) \in BusWork /\ NewBus(verb, p, <<>>).pc = "auth"
          /\ NewBus(verb, p, <<>>).port = p
      BY EmptyType, DaemonAssumption DEF NewBus, BusWork, BusPcs
    <3>2. QED
      BY <1>1, <2>1, <3>1 DEF Request, DeviceVerbs
  <2>2. CASE Refuse(verb)
    BY <1>1, <2>2, RefuseFacts DEF Request
  <2>3. QED
    BY <1>1, <2>1, <2>2 DEF Request
<1>2. ASSUME NEW verb \in Verbs, NEW target \in snaps \cup {<<>>}, RequestSnapshot(verb, target)
      PROVE  TypeOK'
  <2>1. target \in Seq(Entries)
    BY EmptyType
  <2>2. /\ NewBus(verb, Nobody, target) \in BusWork /\ NewBus(verb, Nobody, target).pc = "auth"
        /\ NewBus(verb, Nobody, target).verb = verb
    BY <2>1, DaemonAssumption DEF NewBus, BusWork, BusPcs
  <2>3. QED
    BY <1>2, <2>2 DEF RequestSnapshot, DeviceVerbs
<1>3. CASE Authorize
  <2>1. bus \in BusWork /\ bus.verb \in Verbs
    BY <1>3, BusShape DEF Authorize
  <2>2. CASE bus' = [bus EXCEPT !.pc = "lock"] /\ ret' = ret
    <3>1. bus' \in BusWork /\ bus'.pc = "lock" /\ bus'.verb = bus.verb /\ bus'.port = bus.port
      BY <2>1, <2>2, BusMove DEF BusPcs
    <3>2. QED
      BY <1>3, <2>2, <3>1 DEF Authorize, DeviceVerbs
  <2>3. CASE Refuse(bus.verb)
    BY <1>3, <2>1, <2>3, RefuseFacts DEF Authorize
  <2>4. QED
    BY <1>3, <2>2, <2>3 DEF Authorize
<1>4. CASE BusLock
  <2>1. bus' \in BusWork /\ bus'.pc = "snapshot" /\ bus'.verb = bus.verb /\ bus'.port = bus.port
    BY <1>4, BusShape, BusMove DEF BusLock, BusPcs
  <2>2. QED
    BY <1>4, <2>1 DEF BusLock, DeviceVerbs
<1>5. QED
  BY <1>1, <1>2, <1>3, <1>4 DEF Client

\* A key made for a device that is present is a key.
LEMMA KeyTypes ==
    ASSUME HardwareType, NEW p \in Ports, at[p] # Nobody
    PROVE  KeysToStore(p) \subseteq DeviceKeys
<1>1. at[p] \in Units /\ UdevId[at[p]] \in Identity /\ SysfsId[at[p]] \in Identity
  BY DaemonAssumption DEF HardwareType
<1>2. PlainKey(UdevId[at[p]], p) \in DeviceKeys /\ PlainKey(SysfsId[at[p]], p) \in DeviceKeys
  BY <1>1 DEF PlainKey, Identity, DeviceKeys
<1>3. [PlainKey(UdevId[at[p]], p) EXCEPT !.serial = NoSerial] \in DeviceKeys
  BY <1>2, KeyAssumption DEF DeviceKeys
<1>4. MakeKey(UdevId[at[p]], p, Present) \in DeviceKeys
  BY <1>2, <1>3 DEF MakeKey
<1>5. QED
  BY <1>2, <1>4 DEF KeysToStore

\* StateStore::upsert adds its key and drops none; a save that succeeds leaves
\* the file equal to the memory.
LEMMA UpsertFacts ==
    ASSUME StoreType, NEW e \in Entries, NEW out \in SaveOutcomes, Upsert(e, out)
    PROVE  /\ mem' \in Seq(Entries) /\ disk' \in Seq(Entries)
           /\ disk' \in {mem', disk} /\ (out = "ok" => disk' = mem')
           /\ KeysOf(mem') = KeysOf(mem) \cup {e.key}
           /\ Distinct(mem) => Distinct(mem')
<1>1. CASE e.key \in KeysOf(mem)
  <2>1. PICK i \in First(WithKey(mem, e.key)) : Save([mem EXCEPT ![i] = e], out)
    BY <1>1 DEF Upsert
  <2>2. i \in DOMAIN mem /\ e.key = mem[i].key
    BY <2>1 DEF First, WithKey
  <2>3. mem' \in Seq(Entries) /\ KeysOf(mem') = KeysOf(mem) /\ (Distinct(mem) => Distinct(mem'))
    BY <2>1, <2>2, SameKey DEF Save, StoreType
  <2>4. QED
    BY <1>1, <2>1, <2>3 DEF Save, StoreType
<1>2. CASE e.key \notin KeysOf(mem)
  <2>1. Save(Append(mem, e), out)
    BY <1>2 DEF Upsert
  <2>2. /\ Append(mem, e) \in Seq(Entries)
        /\ DOMAIN Append(mem, e) = DOMAIN mem \cup {Len(mem) + 1}
        /\ \A i \in DOMAIN mem : Append(mem, e)[i] = mem[i]
        /\ Append(mem, e)[Len(mem) + 1] = e
    BY DEF StoreType
  <2>3. KeysOf(Append(mem, e)) = KeysOf(mem) \cup {e.key}
    BY <2>2 DEF KeysOf
  <2>4. Distinct(mem) => Distinct(Append(mem, e))
    BY <1>2, <2>2 DEF KeysOf, Distinct
  <2>5. QED
    BY <2>1, <2>2, <2>3, <2>4 DEF Save, StoreType
<1>3. QED
  BY <1>1, <1>2

\* Rebinding a port keeps the types of the hardware.
LEMMA SwitchOnType ==
    ASSUME HardwareType, NEW p \in Ports, at[p] # Nobody, SwitchOn(p)
    PROVE  off' \in [Ports -> BOOLEAN] /\ events' \in Seq(Reports)
<1>1. off' \in [Ports -> BOOLEAN]
  BY DEF HardwareType, SwitchOn
<1>2. events' = events \/ events' = Append(events, Report(at[p], p))
  BY DEF SwitchOn, Reported
<1>3. at[p] # Nobody => Report(at[p], p) \in Reports
  BY DaemonAssumption DEF HardwareType, Report, Reports
<1>4. QED
  BY <1>1, <1>2, <1>3 DEF HardwareType

\* The steps of a device verb under applyMutex keep the types.
LEMMA TypeDeviceVerb ==
    TypeOK /\ (BusSnapshot \/ BusDisable \/ BusUpsert \/ BusDropEntry \/ BusRebind
                 \/ BusBind \/ BusUnbind) => TypeOK'
<1> SUFFICES ASSUME TypeOK, BusSnapshot \/ BusDisable \/ BusUpsert \/ BusDropEntry \/ BusRebind
                              \/ BusBind \/ BusUnbind
             PROVE  TypeOK'
  OBVIOUS
<1> USE IdlePc, OutcomeType DEF TypeOK, HardwareType, StoreType, WorkType, BusType, VerbType, LockType
<1>0. bus \in BusWork /\ bus.pc # "idle"
  BY BusShape DEF BusSnapshot, BusDisable, BusUpsert, BusDropEntry, BusRebind, BusBind, BusUnbind
<1>1. CASE BusSnapshot
  <2>1. snaps' \subseteq Seq(Entries)
    BY <1>1 DEF BusSnapshot
  <2>2. CASE \E ok \in BOOLEAN : ReplyLocked(ok)
    BY <1>0, <1>1, <2>1, <2>2, ReplyFacts DEF BusSnapshot
  <2>3. CASE /\ bus.verb # "create"
             /\ bus' = [bus EXCEPT !.pc = bus.verb,
                                   !.pre = IF bus.verb = "restore" THEN mem ELSE <<>>]
             /\ UNCHANGED <<lock, ret>>
    <3>1. bus.verb \in BusPcs /\ bus.verb \notin {"idle", "auth", "lock"}
      BY <1>0, BusShape, DaemonAssumption DEF BusPcs
    <3>2. (IF bus.verb = "restore" THEN mem ELSE <<>>) \in Seq(Entries)
      BY EmptyType
    <3>3. bus' \in BusWork /\ bus'.pc = bus.verb /\ bus'.verb = bus.verb /\ bus'.port = bus.port
      BY <1>0, <2>3, <3>1, <3>2, BusMovePre
    <3>4. bus.verb \notin {"upsert", "rebind", "reenable", "reapply"}
      BY <1>0, BusShape, DaemonAssumption
    <3>5. VerbType'
      BY <1>0, <3>3, <3>4 DEF DeviceVerbs
    <3>6. LockType'
      BY <1>1, <2>3, <3>1, <3>3 DEF BusSnapshot
    <3>7. QED
      BY <1>1, <2>1, <2>3, <3>3, <3>5, <3>6 DEF BusSnapshot
  <2>4. QED
    BY <1>1, <2>2, <2>3 DEF BusSnapshot
<1>2. CASE BusDisable
  <2>1. CASE \E ok \in BOOLEAN : ReplyLocked(ok) /\ UNCHANGED off
    BY <1>0, <1>2, <2>1, ReplyFacts DEF BusDisable
  <2>2. CASE /\ at[bus.port] # Nobody
             /\ \E k \in KeysToStore(bus.port) :
                  bus' = [bus EXCEPT !.pc = "upsert",
                             !.entry = [key |-> k, path |-> bus.port, suspended |-> FALSE]]
             /\ off' = [off EXCEPT ![bus.port] = TRUE]
             /\ UNCHANGED <<lock, ret>>
    <3>1. PICK k \in KeysToStore(bus.port) :
            bus' = [bus EXCEPT !.pc = "upsert",
                       !.entry = [key |-> k, path |-> bus.port, suspended |-> FALSE]]
      BY <2>2
    <3>2. bus.port \in Ports
      BY <1>2 DEF BusDisable, DeviceVerbs
    <3>3. k \in DeviceKeys
      BY <2>2, <3>1, <3>2, KeyTypes
    <3>4. [key |-> k, path |-> bus.port, suspended |-> FALSE] \in Entries
      BY <3>2, <3>3 DEF Entries
    <3>5. /\ bus' \in BusWork /\ bus'.pc = "upsert" /\ bus'.verb = bus.verb
          /\ bus'.port = bus.port /\ bus'.entry \in Entries
      <4> DEFINE e == [key |-> k, path |-> bus.port, suspended |-> FALSE]
      <4>1. e \in Entries /\ bus' = [bus EXCEPT !.pc = "upsert", !.entry = e]
        BY <3>1, <3>4
      <4> HIDE DEF e
      <4>2. "upsert" \in BusPcs /\ bus \in BusWork /\ e \in {NoEntry} \cup Entries
        BY <1>0, <4>1 DEF BusPcs
      <4>3. /\ bus' \in BusWork /\ bus'.pc = "upsert" /\ bus'.verb = bus.verb
            /\ bus'.port = bus.port /\ bus'.entry = e
        <5> DEFINE pc == "upsert"
        <5>1. pc \in BusPcs /\ bus' = [bus EXCEPT !.pc = pc, !.entry = e]
          BY <4>1, <4>2
        <5> HIDE DEF pc
        <5>2. /\ bus' \in BusWork /\ bus'.pc = pc /\ bus'.verb = bus.verb
              /\ bus'.port = bus.port /\ bus'.entry = e
          BY <4>2, <5>1, BusMoveEntry
        <5>3. QED
          BY <5>2 DEF pc
      <4>4. QED
        BY <4>1, <4>3
    <3>6. QED
      BY <1>2, <2>2, <3>2, <3>5, NoEntryType DEF BusDisable, DeviceVerbs
  <2>3. QED
    BY <1>2, <2>1, <2>2 DEF BusDisable
<1>3. CASE BusUpsert
  <2>1. bus.entry \in Entries
    BY <1>0, <1>3, BusShape DEF BusUpsert
  <2>2. PICK out \in SaveOutcomes : Upsert(bus.entry, out) /\ ReplyLocked(out = "ok")
    BY <1>3 DEF BusUpsert
  <2>3. mem' \in Seq(Entries) /\ disk' \in Seq(Entries)
    BY <2>1, <2>2, UpsertFacts
  <2>4. QED
    BY <1>0, <1>3, <2>2, <2>3, ReplyFacts DEF BusUpsert
<1>4. CASE BusDropEntry
  <2>1. CASE EntriesToDrop(bus.port) = {}
    <3>1. bus' \in BusWork /\ bus'.pc = "rebind" /\ bus'.verb = bus.verb /\ bus'.port = bus.port
      BY <1>0, <1>4, <2>1, BusMoveEntry DEF BusDropEntry, BusPcs
    <3>2. QED
      BY <1>4, <2>1, <3>1 DEF BusDropEntry, DeviceVerbs
  <2>2. CASE EntriesToDrop(bus.port) # {}
    <3>1. PICK i \in First(EntriesToDrop(bus.port)), out \in SaveOutcomes :
              /\ Save(RemoveAt(mem, i), out)
              /\ IF out = "ok"
                 THEN /\ bus' = [bus EXCEPT !.pc = "rebind", !.entry = mem[i]]
                      /\ UNCHANGED <<lock, ret>>
                 ELSE ReplyLocked(FALSE)
      BY <1>4, <2>2 DEF BusDropEntry
    <3>2. i \in DOMAIN mem /\ mem[i] \in Entries
      BY <3>1 DEF First, EntriesToDrop
    <3>3. mem' \in Seq(Entries) /\ disk' \in Seq(Entries)
      <4>1. RemoveAt(mem, i) \in Seq(Entries)
        BY <3>2, Erased DEF Without
      <4>2. QED
        BY <3>1, <4>1 DEF Save
    <3>4. CASE out = "ok"
      <4>1. bus' \in BusWork /\ bus'.pc = "rebind" /\ bus'.verb = bus.verb /\ bus'.port = bus.port
        BY <1>0, <3>1, <3>2, <3>4, BusMoveEntry DEF BusPcs
      <4>2. QED
        BY <1>4, <3>1, <3>3, <3>4, <4>1 DEF BusDropEntry, DeviceVerbs
    <3>5. CASE out # "ok"
      BY <1>0, <1>4, <3>1, <3>3, <3>5, ReplyFacts DEF BusDropEntry
    <3>6. QED
      BY <3>4, <3>5
  <2>3. QED
    BY <2>1, <2>2
<1>5. CASE BusRebind
  <2>1. \E ok \in BOOLEAN : ReplyLocked(ok)
    BY <1>5 DEF BusRebind
  <2>2. off' \in [Ports -> BOOLEAN] /\ events' \in Seq(Reports)
    BY <1>5, SwitchOnType DEF BusRebind, DeviceVerbs
  <2>3. QED
    BY <1>0, <1>5, <2>1, <2>2, ReplyFacts DEF BusRebind
<1>6. CASE BusBind
  <2>1. \E ok \in BOOLEAN : ReplyLocked(ok)
    BY <1>6 DEF BusBind
  <2>2. off' \in [Ports -> BOOLEAN] /\ events' \in Seq(Reports)
    BY <1>6, SwitchOnType DEF BusBind, DeviceVerbs
  <2>3. QED
    BY <1>0, <1>6, <2>1, <2>2, ReplyFacts DEF BusBind
<1>7. CASE BusUnbind
  <2>1. \E ok \in BOOLEAN : ReplyLocked(ok)
    BY <1>7 DEF BusUnbind
  <2>2. off' \in [Ports -> BOOLEAN]
    BY <1>7 DEF BusUnbind
  <2>3. QED
    BY <1>0, <1>7, <2>1, <2>2, ReplyFacts DEF BusUnbind
<1>8. QED
  BY <1>1, <1>2, <1>3, <1>4, <1>5, <1>6, <1>7

\* The set an enumeration is drawn from ranges over the ports.
LEMMA EnumerationType == \A view \in Enumerations : DOMAIN view \subseteq Ports
BY DEF Enumerations, LiveView, PresentPorts

\* The ports an entry resolves to are ports.
LEMMA ResolvedType ==
    ASSUME WorkType, NEW e \in Entries
    PROVE  Resolved(e) \subseteq Ports
BY DEF WorkType, Entries, Resolved, Listed

\* The steps of SnapshotService::restore keep the types.
LEMMA TypeRestore ==
    TypeOK /\ (RestoreReplace \/ RestoreEnable \/ RestoreEnabled \/ RestoreReapply \/ RestoreEnd)
        => TypeOK'
<1> SUFFICES ASSUME TypeOK,
                    RestoreReplace \/ RestoreEnable \/ RestoreEnabled \/ RestoreReapply
                      \/ RestoreEnd
             PROVE  TypeOK'
  OBVIOUS
<1> USE IdlePc, OutcomeType DEF TypeOK, HardwareType, StoreType, WorkType, BusType, VerbType, LockType
<1>0. bus \in BusWork /\ bus.pc # "idle"
  BY BusShape DEF RestoreReplace, RestoreEnable, RestoreEnabled, RestoreReapply, RestoreEnd
<1>1. CASE RestoreReplace
  <2>1. PICK out \in SaveOutcomes :
           /\ Save(bus.target, out)
           /\ IF out = "ok"
              THEN /\ bus' = [bus EXCEPT !.pc = "reenable"] /\ todo' = Removed
                   /\ seen' \in Enumerations
                   /\ UNCHANGED <<lock, ret>>
              ELSE ReplyLocked(FALSE) /\ UNCHANGED <<todo, seen>>
    BY <1>1 DEF RestoreReplace
  <2>2. mem' \in Seq(Entries) /\ disk' \in Seq(Entries)
    BY <1>0, <2>1, BusShape DEF Save
  <2>3. CASE out = "ok"
    <3>1. /\ bus' \in BusWork /\ bus'.pc = "reenable" /\ bus'.verb = bus.verb
          /\ bus'.port = bus.port
      BY <1>0, <2>1, <2>3, BusMove DEF BusPcs
    <3>2. todo' \subseteq Entries
      BY <1>0, <2>1, <2>3, BusShape DEF Removed, Range
    <3>3. DOMAIN seen' \subseteq Ports
      BY <2>1, <2>3, EnumerationType
    <3>4. QED
      BY <1>1, <2>1, <2>2, <2>3, <3>1, <3>2, <3>3 DEF RestoreReplace, DeviceVerbs
  <2>4. CASE out # "ok"
    BY <1>0, <1>1, <2>1, <2>2, <2>4, ReplyFacts DEF RestoreReplace
  <2>5. QED
    BY <2>3, <2>4
<1>2. CASE RestoreEnable
  <2>1. PICK e \in todo :
         /\ todo' = todo \ {e}
         /\ \E p \in Resolved(e) :
              \/ at[p] # Nobody /\ SwitchOn(p)
              \/ (at[p] = Nobody \/ HwFaults) /\ UNCHANGED <<off, events>>
    BY <1>2 DEF RestoreEnable
  <2>2. PICK p \in Resolved(e) : (at[p] # Nobody /\ SwitchOn(p)) \/ UNCHANGED <<off, events>>
    BY <2>1
  <2>3. p \in Ports
    BY <2>2, ResolvedType
  <2>4. off' \in [Ports -> BOOLEAN] /\ events' \in Seq(Reports)
    BY <2>2, <2>3, SwitchOnType
  <2>5. QED
    BY <1>2, <2>1, <2>4 DEF RestoreEnable
<1>3. CASE RestoreEnabled
  <2>1. bus' \in BusWork /\ bus'.pc = "reapply" /\ bus'.verb = bus.verb /\ bus'.port = bus.port
    BY <1>0, <1>3, BusMove DEF RestoreEnabled, BusPcs
  <2>2. todo' \subseteq Entries /\ DOMAIN seen' \subseteq Ports
    BY <1>3, EnumerationType DEF RestoreEnabled, Range
  <2>3. QED
    BY <1>3, <2>1, <2>2 DEF RestoreEnabled, DeviceVerbs
<1>4. CASE RestoreReapply
  <2>1. PICK e \in todo :
          /\ todo' = todo \ {e}
          /\ \E p \in Resolved(e) :
               \/ UNCHANGED <<off, mem, disk>>
               \/ SetSuspended(e.key, TRUE) /\ UNCHANGED off
               \/ off' = [off EXCEPT ![p] = TRUE] /\ Reapplied(e, p)
    BY <1>4 DEF RestoreReapply
  <2>2. PICK p \in Resolved(e) :
           \/ UNCHANGED <<off, mem, disk>>
           \/ SetSuspended(e.key, TRUE) /\ UNCHANGED off
           \/ off' = [off EXCEPT ![p] = TRUE] /\ Reapplied(e, p)
    BY <2>1
  <2>3. p \in Ports
    BY <2>2, ResolvedType
  <2>4. Kept
    BY <2>2, <2>3, SuspendKeeps, ReapplyKeeps DEF Kept
  <2>5. off' \in [Ports -> BOOLEAN]
    BY <2>2
  <2>6. QED
    BY <1>4, <2>1, <2>4, <2>5 DEF RestoreReapply, Kept
<1>5. CASE RestoreEnd
  <2>1. DOMAIN seen' \subseteq Ports
    BY <1>5 DEF RestoreEnd
  <2>2. ReplyLocked(TRUE)
    BY <1>5 DEF RestoreEnd
  <2>3. QED
    BY <1>0, <1>5, <2>1, <2>2, ReplyFacts DEF RestoreEnd
<1>6. QED
  BY <1>1, <1>2, <1>3, <1>4, <1>5

\* Every step keeps the types.
LEMMA TypeStep == TypeOK /\ [Next]_vars => TypeOK'
<1>1. TypeOK /\ UNCHANGED vars => TypeOK'
  BY DEF vars, TypeOK, HardwareType, StoreType, WorkType, BusType, VerbType, LockType
<1>2. QED
  BY <1>1, TypeEnvironment, TypeEnforcement, TypeRequest, TypeDeviceVerb, TypeRestore
  DEF Next, Verb

\* The daemon's variables keep their types, and applyMutex is held exactly by
\* the thread between its lock and its release, whatever is plugged, requested,
\* crashes or fails.
THEOREM DaemonTypeCorrect == Spec => []TypeOK
BY TypeInit, TypeStep, PTL DEF Spec

-----------------------------------------------------------------------------
(* The root device.                                                        *)

\* What the guard established is still true when the hardware is written: a
\* root device does not move, so a port that held none cannot hold one now.
RootInv ==
    /\ RootStaysOn
    /\ enf.pc \in {"lock", "apply"} => at[enf.port] \notin RootUnits
    /\ bus.pc # "idle" /\ Guarded(bus.verb) => at[bus.port] \notin RootUnits

\* An empty port holds no root device, and neither does one that a movable
\* device leaves or enters.
LEMMA RootFacts == Nobody \notin RootUnits /\ Movable \cap RootUnits = {}
BY DaemonAssumption

\* Disabling a port that holds no root device disables no root device.
LEMMA SwitchOffSpares ==
    ASSUME HardwareType, RootStaysOn, NEW p, at[p] \notin RootUnits,
           off' = [off EXCEPT ![p] = TRUE], at' = at
    PROVE  RootStaysOn'
BY DEF HardwareType, RootStaysOn

\* Enabling a port disables nothing.
LEMMA SwitchOnSpares ==
    ASSUME HardwareType, RootStaysOn, NEW p, SwitchOn(p), at' = at
    PROVE  RootStaysOn'
BY DEF HardwareType, RootStaysOn, SwitchOn

\* A verb under way keeps its name and its port until it ends.
LEMMA VerbKeepsArguments ==
    ASSUME BusType, Verb \/ Authorize
    PROVE  bus'.pc = "idle" \/ (bus'.verb = bus.verb /\ bus'.port = bus.port)
<1> USE IdlePc
<1>1. CASE bus' = bus
  BY <1>1
<1>2. CASE \E ok : ReplyLocked(ok)
  BY <1>2 DEF ReplyLocked
<1>3. CASE Authorize
  <2>1. bus \in BusWork
    BY <1>3, BusShape DEF Authorize
  <2>2. QED
    BY <1>3, <2>1 DEF Authorize, Refuse, BusWork
<1>4. CASE BusLock \/ RestoreReplace \/ RestoreEnabled
  <2>1. bus \in BusWork
    BY <1>4, BusShape DEF BusLock, RestoreReplace, RestoreEnabled
  <2>2. QED
    BY <1>2, <1>4, <2>1 DEF BusLock, RestoreReplace, RestoreEnabled, BusWork
<1>5. CASE BusSnapshot \/ BusDisable
  <2>1. bus \in BusWork
    BY <1>5, BusShape DEF BusSnapshot, BusDisable
  <2>2. QED
    BY <1>2, <1>5, <2>1 DEF BusSnapshot, BusDisable, BusWork
<1>6. CASE BusDropEntry
  <2>1. bus \in BusWork
    BY <1>6, BusShape DEF BusDropEntry
  <2>2. QED
    BY <1>2, <1>6, <2>1 DEF BusDropEntry, BusWork
<1>7. CASE BusUpsert \/ BusRebind \/ BusBind \/ BusUnbind \/ RestoreEnd
  BY <1>2, <1>7 DEF BusUpsert, BusRebind, BusBind, BusUnbind, RestoreEnd
<1>8. CASE RestoreEnable \/ RestoreReapply
  BY <1>1, <1>8 DEF RestoreEnable, RestoreReapply
<1>9. QED
  BY <1>3, <1>4, <1>5, <1>6, <1>7, <1>8 DEF Verb

\* Whatever can happen to the daemon, the guard's verdict stays true.
LEMMA RootStep == TypeOK /\ TypeOK' /\ RootInv /\ [Next]_vars => RootInv'
<1> SUFFICES ASSUME TypeOK, TypeOK', RootInv, [Next]_vars PROVE RootInv'
  OBVIOUS
<1> USE IdlePc, RootFacts DEF RootInv
<1>1. ASSUME NEW u \in Units, NEW p \in Ports, Plug(u, p) PROVE RootInv'
  BY <1>1 DEF Plug, TypeOK, HardwareType, RootStaysOn
<1>2. ASSUME NEW p \in Ports, Unplug(p) PROVE RootInv'
  BY <1>2 DEF Unplug, TypeOK, HardwareType, RootStaysOn
<1>3. CASE Crash
  BY <1>3 DEF Crash, RootStaysOn
<1>4. CASE Load \/ MonitorStart
  BY <1>4 DEF Load, MonitorStart, RootStaysOn
<1>5. CASE SweepVisit \/ HotplugEvent
  <2>1. enf'.pc \notin {"lock", "apply"}
    <3>1. \A e, p, b : Consider(e, p, b) => enf'.pc \in {"idle", "probe"}
      BY DEF Consider, EnfIdle
    <3>2. QED
      BY <1>5, <3>1 DEF SweepVisit, HotplugEvent
  <2>2. QED
    BY <1>5, <2>1 DEF SweepVisit, HotplugEvent, RootStaysOn
<1>6. CASE EnfProbe
  <2>1. enf \in EnfWork
    BY <1>6, EnfShape DEF EnfProbe, TypeOK
  <2>2. enf'.pc \in {"lock", "apply"} => at[enf'.port] \notin RootUnits
    <3>1. CASE enf' = EnfIdle
      BY <3>1
    <3>2. CASE enf' = [enf EXCEPT !.pc = "suspend"]
      BY <3>2, <2>1, EnfMove DEF EnfPcs
    <3>3. CASE enf' = [enf EXCEPT !.pc = "lock"] /\ DisableAllowed(enf.port)
      BY <3>3, <2>1, EnfMove DEF EnfPcs, DisableAllowed
    <3>4. QED
      BY <1>6, <3>1, <3>2, <3>3 DEF EnfProbe
  <2>3. QED
    BY <1>6, <2>2 DEF EnfProbe, RootStaysOn
<1>7. CASE EnfSuspend \/ EnfClear
  BY <1>7 DEF EnfSuspend, EnfClear, EnfRelease, RootStaysOn
<1>8. CASE EnfLock
  <2>1. enf'.pc = "apply" /\ enf'.port = enf.port
    BY <1>8, EnfShape, EnfMove DEF EnfLock, EnfPcs, TypeOK
  <2>2. QED
    BY <1>8, <2>1 DEF EnfLock, RootStaysOn
<1>9. CASE EnfApply
  <2>1. enf'.pc \notin {"lock", "apply"}
    BY <1>9, EnfShape, EnfMove DEF EnfApply, EnfRelease, EnfPcs, TypeOK
  <2>2. RootStaysOn'
    <3>1. CASE UNCHANGED off
      BY <1>9, <3>1 DEF EnfApply, RootStaysOn
    <3>2. CASE off' = [off EXCEPT ![enf.port] = TRUE]
      BY <1>9, <3>2, SwitchOffSpares DEF EnfApply, TypeOK
    <3>3. QED
      BY <1>9, <3>1, <3>2 DEF EnfApply
  <2>3. QED
    BY <1>9, <2>1, <2>2 DEF EnfApply
<1>10. CASE EnfRecordPath
  <2>1. enf'.pc = "clear"
    BY <1>10, EnfShape, EnfMove DEF EnfRecordPath, EnfPcs, TypeOK
  <2>2. QED
    BY <1>10, <2>1 DEF EnfRecordPath, RootStaysOn
<1>11. ASSUME NEW verb \in Verbs, NEW p \in Ports, Request(verb, p) PROVE RootInv'
  <2>1. CASE (Guarded(verb) => DisableAllowed(p)) /\ bus' = NewBus(verb, p, <<>>)
    <3>1. bus'.verb = verb /\ bus'.port = p
      BY <2>1 DEF NewBus
    <3>2. QED
      BY <1>11, <2>1, <3>1 DEF Request, DisableAllowed, RootStaysOn
  <2>2. CASE Refuse(verb)
    BY <1>11, <2>2 DEF Request, Refuse, RootStaysOn
  <2>3. QED
    BY <1>11, <2>1, <2>2 DEF Request
<1>12. ASSUME NEW verb \in Verbs, NEW target \in snaps \cup {<<>>}, RequestSnapshot(verb, target)
       PROVE  RootInv'
  <2>1. bus'.verb = verb /\ ~Guarded(verb)
    BY <1>12 DEF RequestSnapshot, NewBus, Guarded
  <2>2. QED
    BY <1>12, <2>1 DEF RequestSnapshot, RootStaysOn
<1>13. Verb \/ Authorize => bus'.pc = "idle" \/ (bus'.verb = bus.verb /\ bus'.port = bus.port)
  <2>1. BusType
    BY DEF TypeOK
  <2>2. QED
    BY <2>1, VerbKeepsArguments, Zenon
<1>14. CASE Authorize
  BY <1>14, <1>13 DEF Authorize, RootStaysOn
<1>15. CASE BusDisable
  <2>1. RootStaysOn'
    <3>1. CASE UNCHANGED off
      BY <1>15, <3>1 DEF BusDisable, RootStaysOn
    <3>2. CASE off' = [off EXCEPT ![bus.port] = TRUE]
      <4>1. at[bus.port] \notin RootUnits
        BY <1>15 DEF BusDisable, Guarded, DeviceVerbs, TypeOK, VerbType
      <4>2. QED
        BY <1>15, <3>2, <4>1, SwitchOffSpares DEF BusDisable, TypeOK
    <3>3. QED
      BY <1>15, <3>1, <3>2 DEF BusDisable
  <2>2. QED
    BY <1>15, <1>13, <2>1 DEF BusDisable, Verb
<1>16. CASE BusUnbind
  <2>1. RootStaysOn'
    <3>1. CASE UNCHANGED off
      BY <1>16, <3>1 DEF BusUnbind, RootStaysOn
    <3>2. CASE off' = [off EXCEPT ![bus.port] = TRUE]
      <4>1. at[bus.port] \notin RootUnits
        BY <1>16 DEF BusUnbind, Guarded, DeviceVerbs, TypeOK, VerbType
      <4>2. QED
        BY <1>16, <3>2, <4>1, SwitchOffSpares DEF BusUnbind, TypeOK
    <3>3. QED
      BY <1>16, <3>1, <3>2 DEF BusUnbind
  <2>2. QED
    BY <1>16, <1>13, <2>1 DEF BusUnbind, Verb
<1>17. CASE BusRebind \/ BusBind
  <2>1. UNCHANGED off \/ SwitchOn(bus.port)
    BY <1>17 DEF BusRebind, BusBind
  <2>2. at' = at /\ enf' = enf /\ bus.pc # "idle"
    BY <1>17 DEF BusRebind, BusBind
  <2>3. RootStaysOn'
    BY <2>1, <2>2, SwitchOnSpares DEF TypeOK, RootStaysOn
  <2>4. QED
    BY <1>17, <1>13, <2>2, <2>3 DEF Verb
<1>18. CASE RestoreEnable
  <2>1. \E p : UNCHANGED off \/ SwitchOn(p)
    BY <1>18 DEF RestoreEnable
  <2>2. RootStaysOn'
    BY <1>18, <2>1, SwitchOnSpares DEF RestoreEnable, TypeOK, RootStaysOn
  <2>3. QED
    BY <1>18, <2>2 DEF RestoreEnable
<1>19. CASE RestoreReapply
  <2>1. PICK e \in todo : \E p \in Resolved(e) :
            UNCHANGED off \/ (DisableAllowed(p) /\ off' = [off EXCEPT ![p] = TRUE])
    BY <1>19 DEF RestoreReapply
  <2>2. RootStaysOn'
    BY <1>19, <2>1, SwitchOffSpares DEF RestoreReapply, TypeOK, RootStaysOn, DisableAllowed
  <2>3. QED
    BY <1>19, <2>2 DEF RestoreReapply
<1>20. CASE BusLock \/ BusSnapshot \/ BusUpsert \/ BusDropEntry \/ RestoreReplace
              \/ RestoreEnabled \/ RestoreEnd
  <2>1. at' = at /\ off' = off /\ enf' = enf /\ bus.pc # "idle"
    BY <1>20 DEF BusLock, BusSnapshot, BusUpsert, BusDropEntry, RestoreReplace, RestoreEnabled,
                 RestoreEnd
  <2>2. QED
    BY <1>20, <1>13, <2>1 DEF Verb, RootStaysOn
<1>21. CASE UNCHANGED vars
  BY <1>21 DEF vars, RootStaysOn
<1>22. QED
  BY <1>1, <1>2, <1>3, <1>4, <1>5, <1>6, <1>7, <1>8, <1>9, <1>10, <1>11, <1>12, <1>14, <1>15,
     <1>16, <1>17, <1>18, <1>19, <1>20, <1>21
  DEF Next, Environment, Startup, Enforcement, Client, Verb

\* The device behind the root or boot filesystem is never disabled, with any
\* devices, ports, clients, replugs, faults and crashes (RootStaysOn).
THEOREM RootIsNeverDisabled == Spec => []RootStaysOn
<1>1. Init => RootInv
  BY DEF Init, RootInv, RootStaysOn, EnfIdle, BusIdle
<1>2. RootInv => RootStaysOn
  BY DEF RootInv
<1>3. QED
  BY <1>1, <1>2, TypeInit, TypeStep, RootStep, PTL DEF Spec

-----------------------------------------------------------------------------
(* The store.                                                              *)

\* The set of entries a verb is about to change is held by a snapshot.
NetHeld ==
    bus.pc \in {"disable", "upsert", "enable", "restore"} =>
        \E s \in snaps : KeysOf(s) = KeysOf(mem)

\* The promise of a finished disable, in memory as well as on disk: a later
\* save of the memory then keeps it.
DisableKept ==
    ret.verb = "disable" /\ ret.ok => ret.entry.key \in KeysOf(mem) \cap KeysOf(disk)

KeysDistinct ==
    /\ Distinct(mem) /\ Distinct(disk)
    /\ \A s \in snaps : Distinct(s)
    /\ bus.pc # "idle" => Distinct(bus.target)

\* While a verb runs nothing has been returned, and no verb runs before the
\* event loop does.
OneVerb ==
    /\ bus.pc # "idle" => ret = NoReturn
    /\ phase # "up" => bus = BusIdle

StoreInv == KeysDistinct /\ OneVerb /\ NetHeld /\ DisableKept /\ EntryGoneBeforeRebind

\* Every initial state satisfies the store's invariant.
LEMMA StoreInit == Init => StoreInv
BY IdlePc, NoReturnType
   DEF Init, StoreInv, KeysDistinct, OneVerb, NetHeld, DisableKept, EntryGoneBeforeRebind, Distinct

\* A step that rewrites entries without changing their keys, taken by
\* enforcement or by a restore that re-applies, disturbs nothing a verb relies on.
LEMMA KeptStep ==
    ASSUME TypeOK, StoreInv, Kept, bus' = bus, UNCHANGED <<ret, snaps, phase>>
    PROVE  StoreInv'
BY DEF StoreInv, KeysDistinct, OneVerb, NetHeld, DisableKept, EntryGoneBeforeRebind, Kept

\* A verb that moves on without touching the store, to a step that needs no
\* snapshot or keeps the one it had.
LEMMA MoveStep ==
    ASSUME StoreInv, UNCHANGED <<mem, disk, snaps, phase, ret>>, bus.pc # "idle",
           bus'.pc # "idle", bus'.target = bus.target, phase = "up",
           bus'.pc \in {"disable", "upsert", "enable", "restore"} =>
               bus.pc \in {"disable", "upsert", "enable", "restore"},
           bus'.pc # "rebind"
    PROVE  StoreInv'
BY DEF StoreInv, KeysDistinct, OneVerb, NetHeld, DisableKept, EntryGoneBeforeRebind

\* A verb that ends without touching the store, with a reply that is not the
\* success of a disable.
LEMMA EndStep ==
    ASSUME StoreInv, UNCHANGED <<mem, disk, phase>>, bus' = BusIdle,
           snaps' \subseteq snaps \cup {mem},
           ~(ret'.verb = "disable" /\ ret'.ok)
    PROVE  StoreInv'
BY IdlePc DEF StoreInv, KeysDistinct, OneVerb, NetHeld, DisableKept, EntryGoneBeforeRebind

\* A verb runs only while the event loop does.
LEMMA VerbPhase == ASSUME StoreInv, bus.pc # "idle" PROVE phase = "up"
BY IdlePc DEF StoreInv, OneVerb

\* Hotplug, a crash, the startup steps and enforcement keep the invariant.
LEMMA StoreByOthers ==
    TypeOK /\ StoreInv /\ (Environment \/ Startup \/ Enforcement) => StoreInv'
<1> SUFFICES ASSUME TypeOK, StoreInv, Environment \/ Startup \/ Enforcement PROVE StoreInv'
  OBVIOUS
<1> USE IdlePc, NoReturnType
<1>0. StoreType /\ WorkType
  BY DEF TypeOK
<1>a. UNCHANGED <<mem, disk, snaps, phase, bus, ret>> => StoreInv'
  BY DEF StoreInv, KeysDistinct, OneVerb, NetHeld, DisableKept, EntryGoneBeforeRebind
<1>b. ASSUME NEW u \in Units, NEW p \in Ports, Plug(u, p) PROVE StoreInv'
  BY <1>b, <1>a DEF Plug
<1>1. ASSUME NEW p \in Ports, Unplug(p) PROVE StoreInv'
  BY <1>1, <1>a DEF Unplug
<1>2. CASE Crash
  BY <1>2 DEF Crash, StoreInv, KeysDistinct, OneVerb, NetHeld, DisableKept,
              EntryGoneBeforeRebind, Distinct
<1>3. CASE Load
  BY <1>3 DEF Load, StoreInv, KeysDistinct, OneVerb, NetHeld, DisableKept, EntryGoneBeforeRebind
<1>4. CASE MonitorStart
  BY <1>4 DEF MonitorStart, StoreInv, KeysDistinct, OneVerb, NetHeld, DisableKept,
              EntryGoneBeforeRebind
<1>5. CASE SweepVisit \/ HotplugEvent \/ EnfProbe \/ EnfLock \/ EnfApply
  BY <1>5, <1>a DEF SweepVisit, HotplugEvent, EnfProbe, EnfLock, EnfApply
<1>6. CASE EnfSuspend
  <2>1. Kept
    BY <1>0, <1>6, SuspendKeeps DEF EnfSuspend
  <2>2. QED
    BY <1>6, <2>1, KeptStep DEF EnfSuspend
<1>7. CASE EnfRecordPath
  <2>1. enf.port \in Ports
    BY <1>0, <1>7, EnfShape DEF EnfRecordPath
  <2>2. Kept
    BY <1>0, <1>7, <2>1, PathKeeps DEF EnfRecordPath, Kept, store, StoreType
  <2>3. QED
    BY <1>7, <2>2, KeptStep DEF EnfRecordPath
<1>8. CASE EnfClear
  <2>1. Kept
    BY <1>0, <1>8, SuspendKeeps DEF EnfClear, Kept, store, StoreType
  <2>2. QED
    BY <1>8, <2>1, KeptStep DEF EnfClear
<1>9. QED
  BY <1>b, <1>1, <1>2, <1>3, <1>4, <1>5, <1>6, <1>7, <1>8
  DEF Environment, Startup, Enforcement

\* Requests, the prompt and taking applyMutex keep the invariant.
LEMMA StoreByRequest == TypeOK /\ StoreInv /\ (Client \/ Authorize \/ BusLock) => StoreInv'
<1> SUFFICES ASSUME TypeOK, StoreInv, Client \/ Authorize \/ BusLock PROVE StoreInv'
  OBVIOUS
<1> USE IdlePc, NoReturnType
<1>0. BusType
  BY DEF TypeOK
<1>1. ASSUME NEW verb \in Verbs, NEW p \in Ports, Request(verb, p) PROVE StoreInv'
  <2>1. CASE bus' = NewBus(verb, p, <<>>) /\ ret' = NoReturn
    <3>1. bus'.pc = "auth" /\ bus'.target = <<>> /\ Distinct(<<>>)
      BY <2>1 DEF NewBus, Distinct
    <3>2. QED
      BY <1>1, <2>1, <3>1 DEF Request, StoreInv, KeysDistinct, OneVerb, NetHeld, DisableKept,
                              EntryGoneBeforeRebind
  <2>2. CASE Refuse(verb)
    BY <1>1, <2>2, EndStep DEF Request, Refuse
  <2>3. QED
    BY <1>1, <2>1, <2>2 DEF Request
<1>2. ASSUME NEW verb \in Verbs, NEW target \in snaps \cup {<<>>}, RequestSnapshot(verb, target)
      PROVE  StoreInv'
  <2>1. Distinct(target)
    BY DEF StoreInv, KeysDistinct, Distinct
  <2>2. bus'.pc = "auth" /\ bus'.target = target
    BY <1>2 DEF RequestSnapshot, NewBus
  <2>3. QED
    BY <1>2, <2>1, <2>2 DEF RequestSnapshot, StoreInv, KeysDistinct, OneVerb, NetHeld, DisableKept,
                            EntryGoneBeforeRebind
<1>3. CASE Authorize
  <2>1. CASE Refuse(bus.verb)
    BY <1>3, <2>1, EndStep DEF Authorize, Refuse
  <2>2. CASE bus' = [bus EXCEPT !.pc = "lock"] /\ ret' = ret
    <3>1. bus'.pc = "lock" /\ bus'.target = bus.target
      BY <1>0, <1>3, <2>2, BusShape, BusMove DEF Authorize, BusPcs
    <3>2. QED
      BY <1>3, <2>2, <3>1, MoveStep, VerbPhase DEF Authorize
  <2>3. QED
    BY <1>3, <2>1, <2>2 DEF Authorize
<1>4. CASE BusLock
  <2>1. bus'.pc = "snapshot" /\ bus'.target = bus.target
    BY <1>0, <1>4, BusShape, BusMove DEF BusLock, BusPcs
  <2>2. QED
    BY <1>4, <2>1, MoveStep, VerbPhase DEF BusLock
<1>5. QED
  BY <1>1, <1>2, <1>3, <1>4 DEF Client

\* The steps of a verb under applyMutex keep the invariant.
LEMMA StoreByVerb == TypeOK /\ StoreInv /\ Verb => StoreInv'
<1> SUFFICES ASSUME TypeOK, StoreInv, Verb PROVE StoreInv'
  OBVIOUS
<1> USE IdlePc, NoReturnType, OutcomeType
<1>0. StoreType /\ WorkType /\ BusType /\ VerbType
  BY DEF TypeOK
<1>a. bus.pc # "idle" /\ bus \in BusWork /\ phase = "up"
  BY <1>0, BusShape, VerbPhase
  DEF Verb, BusLock, BusSnapshot, BusDisable, BusUpsert, BusDropEntry, BusRebind, BusBind,
      BusUnbind, RestoreReplace, RestoreEnable, RestoreEnabled, RestoreReapply, RestoreEnd
<1>1. CASE BusLock
  BY <1>1, StoreByRequest
<1>2. CASE BusSnapshot
  <2>1. CASE /\ snaps' = snaps \cup {mem} /\ bus.verb = "create" /\ ReplyLocked(TRUE)
    BY <1>2, <1>a, <2>1, ReplyFacts, EndStep DEF BusSnapshot
  <2>2. CASE ReplyLocked(FALSE) /\ UNCHANGED snaps
    BY <1>2, <1>a, <2>2, ReplyFacts, EndStep DEF BusSnapshot
  <2>3. CASE /\ snaps' = snaps \cup {mem}
             /\ bus.verb # "create"
             /\ bus' = [bus EXCEPT !.pc = bus.verb,
                                   !.pre = IF bus.verb = "restore" THEN mem ELSE <<>>]
             /\ UNCHANGED <<lock, ret>>
    <3>1. bus'.pc = bus.verb /\ bus'.target = bus.target
      BY <1>a, <2>3 DEF BusWork
    <3>2. bus.verb \notin {"idle", "upsert", "rebind"}
      BY <1>0, <1>a, BusShape, DaemonAssumption
    <3>3. KeysDistinct'
      BY <1>2, <1>a, <2>3, <3>1 DEF BusSnapshot, StoreInv, KeysDistinct
    <3>4. OneVerb' /\ DisableKept' /\ EntryGoneBeforeRebind'
      BY <1>2, <1>a, <2>3, <3>1, <3>2
      DEF BusSnapshot, StoreInv, OneVerb, DisableKept, EntryGoneBeforeRebind
    <3>5. NetHeld'
      BY <1>2, <2>3 DEF BusSnapshot, NetHeld
    <3>6. QED
      BY <3>3, <3>4, <3>5 DEF StoreInv
  <2>4. QED
    BY <1>2, <2>1, <2>2, <2>3 DEF BusSnapshot
<1>3. CASE BusDisable
  <2>1. CASE ReplyLocked(FALSE) /\ UNCHANGED off
    BY <1>3, <1>a, <2>1, ReplyFacts, EndStep DEF BusDisable
  <2>2. CASE \E e : bus' = [bus EXCEPT !.pc = "upsert", !.entry = e] /\ UNCHANGED <<lock, ret>>
    <3>1. bus'.pc = "upsert" /\ bus'.target = bus.target
      BY <1>a, <2>2 DEF BusWork
    <3>2. QED
      BY <1>3, <1>a, <2>2, <3>1, MoveStep DEF BusDisable
  <2>3. QED
    BY <1>3, <2>1, <2>2 DEF BusDisable
<1>4. CASE BusUpsert
  <2>1. bus.entry \in Entries /\ bus.verb = "disable"
    BY <1>0, <1>4, BusShape DEF BusUpsert, VerbType
  <2>2. PICK out \in SaveOutcomes : Upsert(bus.entry, out) /\ ReplyLocked(out = "ok")
    BY <1>4 DEF BusUpsert
  <2>3. /\ disk' \in {mem', disk} /\ (out = "ok" => disk' = mem')
        /\ KeysOf(mem') = KeysOf(mem) \cup {bus.entry.key}
        /\ Distinct(mem) => Distinct(mem')
    BY <1>0, <2>1, <2>2, UpsertFacts
  <2>4. bus' = BusIdle /\ ret'.ok = (out = "ok") /\ ret'.entry = bus.entry
    BY <1>a, <2>2, ReplyFacts
  <2>5. snaps' = snaps /\ phase' = phase
    BY <1>4 DEF BusUpsert
  <2>6. KeysDistinct' /\ OneVerb' /\ NetHeld' /\ EntryGoneBeforeRebind'
    BY <1>a, <2>3, <2>4, <2>5
    DEF StoreInv, KeysDistinct, OneVerb, NetHeld, EntryGoneBeforeRebind
  <2>7. DisableKept'
    BY <2>3, <2>4 DEF DisableKept
  <2>8. QED
    BY <2>6, <2>7 DEF StoreInv
<1>5. CASE BusDropEntry
  <2>1. CASE EntriesToDrop(bus.port) = {}
    <3>1. bus'.pc = "rebind" /\ bus'.target = bus.target /\ bus'.entry = NoEntry
      BY <1>5, <1>a, <2>1 DEF BusDropEntry, BusWork
    <3>2. QED
      BY <1>5, <1>a, <2>1, <3>1
      DEF BusDropEntry, StoreInv, KeysDistinct, OneVerb, NetHeld, DisableKept,
          EntryGoneBeforeRebind
  <2>2. CASE EntriesToDrop(bus.port) # {}
    <3>1. PICK i \in First(EntriesToDrop(bus.port)), out \in SaveOutcomes :
              /\ Save(RemoveAt(mem, i), out)
              /\ IF out = "ok"
                 THEN /\ bus' = [bus EXCEPT !.pc = "rebind", !.entry = mem[i]]
                      /\ UNCHANGED <<lock, ret>>
                 ELSE ReplyLocked(FALSE)
      BY <1>5, <2>2 DEF BusDropEntry
    <3>2. i \in DOMAIN mem
      BY <3>1 DEF First, EntriesToDrop
    <3>3. /\ mem' = RemoveAt(mem, i)
          /\ disk' \in {mem', disk} /\ (out = "ok" => disk' = mem')
      BY <3>1 DEF Save
    <3>4. Distinct(mem') /\ mem[i].key \notin KeysOf(mem')
      <4>1. Distinct(mem)
        BY DEF StoreInv, KeysDistinct
      <4>2. mem \in Seq(Entries)
        BY <1>0 DEF StoreType
      <4>3. Without(mem', mem, i)
        BY <3>2, <3>3, <4>2, Erased
      <4>4. Distinct(mem')
        BY <4>1, <4>3 DEF Without, Distinct
      <4>5. \A j \in DOMAIN mem' : mem'[j].key # mem[i].key
        BY <3>2, <4>1, <4>3 DEF Without, Distinct
      <4>6. QED
        BY <4>4, <4>5 DEF KeysOf
    <3>5. snaps' = snaps /\ phase' = phase
      BY <1>5 DEF BusDropEntry
    <3>6. ret = NoReturn
      BY <1>a DEF StoreInv, OneVerb
    <3>7. CASE out = "ok"
      <4>1. bus'.pc = "rebind" /\ bus'.entry = mem[i] /\ bus'.target = bus.target /\ ret' = ret
        BY <1>a, <3>1, <3>7 DEF BusWork
      <4>2. QED
        BY <1>a, <3>3, <3>4, <3>5, <3>6, <3>7, <4>1
        DEF StoreInv, KeysDistinct, OneVerb, NetHeld, DisableKept, EntryGoneBeforeRebind
    <3>8. CASE out # "ok"
      <4>1. bus' = BusIdle /\ ret'.ok = FALSE
        BY <1>a, <3>1, <3>8, ReplyFacts
      <4>2. QED
        BY <3>3, <3>4, <3>5, <3>8, <4>1
        DEF StoreInv, KeysDistinct, OneVerb, NetHeld, DisableKept, EntryGoneBeforeRebind
    <3>9. QED
      BY <3>7, <3>8
  <2>3. QED
    BY <2>1, <2>2
<1>6. CASE BusRebind \/ BusBind \/ BusUnbind \/ RestoreEnd
  <2>1. PICK ok \in BOOLEAN : ReplyLocked(ok)
    BY <1>6 DEF BusRebind, BusBind, BusUnbind, RestoreEnd
  <2>2. bus.verb # "disable"
    BY <1>0, <1>6 DEF BusRebind, BusBind, BusUnbind, RestoreEnd, VerbType, DeviceVerbs
  <2>3. UNCHANGED <<mem, disk, phase, snaps>>
    BY <1>6 DEF BusRebind, BusBind, BusUnbind, RestoreEnd
  <2>4. QED
    BY <1>a, <2>1, <2>2, <2>3, ReplyFacts, EndStep
<1>7. CASE RestoreReplace
  <2>1. PICK out \in SaveOutcomes :
           /\ Save(bus.target, out)
           /\ IF out = "ok"
              THEN /\ bus' = [bus EXCEPT !.pc = "reenable"] /\ todo' = Removed
                   /\ seen' \in Enumerations
                   /\ UNCHANGED <<lock, ret>>
              ELSE ReplyLocked(FALSE) /\ UNCHANGED <<todo, seen>>
    BY <1>7 DEF RestoreReplace
  <2>2. mem' = bus.target /\ disk' \in {disk, bus.target} /\ Distinct(bus.target)
    BY <1>a, <2>1 DEF Save, StoreInv, KeysDistinct
  <2>3. snaps' = snaps /\ phase' = phase /\ ret = NoReturn
    BY <1>7, <1>a DEF RestoreReplace, StoreInv, OneVerb
  <2>4. CASE out = "ok"
    <3>1. bus'.pc = "reenable" /\ bus'.target = bus.target /\ ret' = ret
      BY <1>a, <2>1, <2>4 DEF BusWork
    <3>2. QED
      BY <1>a, <2>2, <2>3, <3>1
      DEF StoreInv, KeysDistinct, OneVerb, NetHeld, DisableKept, EntryGoneBeforeRebind
  <2>5. CASE out # "ok"
    <3>1. bus' = BusIdle /\ ret'.ok = FALSE
      BY <1>a, <2>1, <2>5, ReplyFacts
    <3>2. QED
      BY <2>2, <2>3, <3>1
      DEF StoreInv, KeysDistinct, OneVerb, NetHeld, DisableKept, EntryGoneBeforeRebind
  <2>6. QED
    BY <2>4, <2>5
<1>8. CASE RestoreEnable
  BY <1>8 DEF RestoreEnable, StoreInv, KeysDistinct, OneVerb, NetHeld, DisableKept,
              EntryGoneBeforeRebind
<1>9. CASE RestoreEnabled
  <2>1. bus'.pc = "reapply" /\ bus'.target = bus.target
    BY <1>9, <1>a DEF RestoreEnabled, BusWork
  <2>2. QED
    BY <1>9, <1>a, <2>1, MoveStep DEF RestoreEnabled
<1>10. CASE RestoreReapply
  <2>1. PICK e \in todo : \E p \in Resolved(e) :
             UNCHANGED <<mem, disk>> \/ SetSuspended(e.key, TRUE) \/ Reapplied(e, p)
    BY <1>10 DEF RestoreReapply
  <2>2. e \in Entries /\ Resolved(e) \subseteq Ports
    BY <1>0, ResolvedType DEF WorkType
  <2>3. UNCHANGED <<mem, disk>> => Kept
    BY <1>0 DEF Kept, StoreType
  <2>4. Kept
    BY <1>0, <2>1, <2>2, <2>3, SuspendKeeps, ReapplyKeeps
  <2>5. QED
    BY <1>10, <2>4, KeptStep DEF RestoreReapply
<1>11. QED
  BY <1>1, <1>2, <1>3, <1>4, <1>5, <1>6, <1>7, <1>8, <1>9, <1>10 DEF Verb

\* Every step keeps the store's invariant.
LEMMA StoreStep == TypeOK /\ StoreInv /\ [Next]_vars => StoreInv'
<1>1. StoreInv /\ UNCHANGED vars => StoreInv'
  BY DEF vars, StoreInv, KeysDistinct, OneVerb, NetHeld, DisableKept, EntryGoneBeforeRebind
<1>2. QED
  BY <1>1, StoreByOthers, StoreByRequest, StoreByVerb DEF Next

\* What a verb or a restore is about to replace is held by a snapshot when it
\* is replaced, and nothing else changes the set of keys.
LEMMA UndoLemma == TypeOK /\ StoreInv /\ [Next]_vars => [UndoStep]_vars
<1> SUFFICES ASSUME TypeOK, StoreInv, Next, phase = "up", phase' = "up",
                    KeysOf(mem') # KeysOf(mem)
             PROVE  \E s \in snaps : KeysOf(s) = KeysOf(mem)
  BY DEF UndoStep
<1>0. StoreType /\ WorkType /\ BusType
  BY DEF TypeOK
<1>a. ~Kept /\ mem' # mem
  BY DEF Kept
<1>b. \A k, b : SetSuspended(k, b) => b \notin BOOLEAN
  BY <1>0, <1>a, SuspendKeeps
<1>1. CASE BusUpsert \/ BusDropEntry \/ RestoreReplace
  BY <1>1 DEF BusUpsert, BusDropEntry, RestoreReplace, StoreInv, NetHeld
<1>2. CASE Environment
  BY <1>2, <1>a DEF Environment, Plug, Unplug, Crash
<1>3. CASE Startup
  BY <1>3, <1>a DEF Startup, Load, SweepVisit, MonitorStart
<1>4. CASE Enforcement
  <2>1. CASE HotplugEvent \/ EnfProbe \/ EnfLock \/ EnfApply
    BY <2>1, <1>a DEF HotplugEvent, EnfProbe, EnfLock, EnfApply
  <2>2. CASE EnfSuspend \/ EnfClear
    BY <2>2, <1>a, <1>b DEF EnfSuspend, EnfClear, store
  <2>3. CASE EnfRecordPath
    <3>1. enf.port \in Ports
      BY <1>0, <2>3, EnfShape DEF EnfRecordPath
    <3>2. QED
      BY <1>0, <1>a, <2>3, <3>1, PathKeeps DEF EnfRecordPath, store
  <2>4. QED
    BY <1>4, <2>1, <2>2, <2>3 DEF Enforcement
<1>5. CASE Client \/ Authorize
  BY <1>5, <1>a DEF Client, Request, RequestSnapshot, Authorize
<1>6. CASE BusLock \/ BusSnapshot \/ BusDisable \/ BusRebind \/ BusBind \/ BusUnbind
             \/ RestoreEnable \/ RestoreEnabled \/ RestoreEnd
  BY <1>6, <1>a DEF BusLock, BusSnapshot, BusDisable, BusRebind, BusBind, BusUnbind,
                    RestoreEnable, RestoreEnabled, RestoreEnd
<1>7. CASE RestoreReapply
  <2>1. PICK e \in todo : \E p \in Resolved(e) :
             UNCHANGED <<mem, disk>> \/ SetSuspended(e.key, TRUE) \/ Reapplied(e, p)
    BY <1>7 DEF RestoreReapply
  <2>2. e \in Entries /\ Resolved(e) \subseteq Ports
    BY <1>0, ResolvedType DEF WorkType
  <2>3. QED
    BY <1>0, <1>a, <1>b, <2>1, <2>2, ReapplyKeeps
<1>8. QED
  BY <1>1, <1>2, <1>3, <1>4, <1>5, <1>6, <1>7 DEF Next, Verb

\* The invariant holds of every reachable state.
THEOREM StoreInvariant == Spec => [](TypeOK /\ StoreInv)
BY TypeInit, TypeStep, StoreInit, StoreStep, PTL DEF Spec

\* A disable that reported success is in state.json, with any faults, crashes
\* and interleavings of enforcement (DisableIsDurable).
THEOREM DisableStaysOnDisk == Spec => []DisableIsDurable
<1>1. StoreInv => DisableIsDurable
  BY DEF StoreInv, DisableKept, DisableIsDurable
<1>2. QED
  BY <1>1, StoreInvariant, PTL

\* A device is rebound only after its entry left memory and disk
\* (EntryGoneBeforeRebind).
THEOREM EnableForgetsFirst == Spec => []EntryGoneBeforeRebind
<1>1. StoreInv => EntryGoneBeforeRebind
  BY DEF StoreInv
<1>2. QED
  BY <1>1, StoreInvariant, PTL

\* Whenever the set of disabled devices changes, a stored snapshot holds the
\* set it replaces (UndoPossible).
THEOREM ChangesCanBeUndone == Spec => UndoPossible
<1>1. Spec => [](TypeOK /\ StoreInv)
  BY StoreInvariant
<1>2. QED
  BY <1>1, UndoLemma, PTL DEF Spec, UndoPossible

-----------------------------------------------------------------------------
(* The set of disabled devices, as DisabledSet promises it.                *)

\* A verb has an entry of its own from the moment it writes the hardware or the
\* store for it; while the daemon is down enforcement is not under way.
CarriesEntry == {"idle", "upsert", "rebind"}
WorkInv ==
    /\ bus.pc \notin CarriesEntry => bus.entry = NoEntry
    /\ phase = "down" => enf = EnfIdle

LEMMA WorkInit == Init => WorkInv
BY IdlePc DEF Init, WorkInv, CarriesEntry

LEMMA WorkStep == TypeOK /\ StoreInv /\ WorkInv /\ [Next]_vars => WorkInv'
<1> SUFFICES ASSUME TypeOK, StoreInv, WorkInv, [Next]_vars PROVE WorkInv'
  OBVIOUS
<1> USE IdlePc DEF WorkInv, CarriesEntry
<1>0. BusType /\ VerbType
  BY DEF TypeOK
<1>a. bus.pc # "idle" => bus \in BusWork /\ phase = "up"
  BY <1>0, BusShape, VerbPhase
<1>1. CASE UNCHANGED vars
  BY <1>1 DEF vars
<1>2. CASE Environment \/ Startup
  BY <1>2 DEF Environment, Startup, Plug, Unplug, Crash, Load, SweepVisit, MonitorStart
<1>3. CASE Enforcement
  BY <1>3 DEF Enforcement, HotplugEvent, EnfProbe, EnfSuspend, EnfLock, EnfApply, EnfRecordPath,
              EnfClear
<1>4. CASE Client
  BY <1>4 DEF Client, Request, RequestSnapshot, NewBus, Refuse
<1>5. CASE Authorize \/ BusLock
  BY <1>5, <1>a DEF Authorize, BusLock, Refuse, BusWork
<1>6. CASE BusSnapshot
  BY <1>6, <1>a DEF BusSnapshot, ReplyLocked, BusWork
<1>7. CASE BusDisable \/ BusDropEntry \/ RestoreReplace \/ RestoreEnabled
  BY <1>7, <1>a DEF BusDisable, BusDropEntry, RestoreReplace, RestoreEnabled, ReplyLocked, BusWork
<1>8. CASE BusUpsert \/ BusRebind \/ BusBind \/ BusUnbind \/ RestoreEnd
  BY <1>8, <1>a DEF BusUpsert, BusRebind, BusBind, BusUnbind, RestoreEnd, ReplyLocked
<1>9. CASE RestoreEnable \/ RestoreReapply
  BY <1>9, <1>a DEF RestoreEnable, RestoreReapply
<1> QED
  BY <1>1, <1>2, <1>3, <1>4, <1>5, <1>6, <1>7, <1>8, <1>9 DEF Next, Verb

\* What DisabledSet sees of a state.
Seen == <<KeysOf(IF phase = "down" THEN disk ELSE mem), KeysOf(disk), {KeysOf(s) : s \in snaps},
          CallNow, AnswerNow>>
Stutter == UNCHANGED Seen

LEMMA NoCallNow == ASSUME bus.pc = "idle" PROVE CallNow = PersistedSet!NoCall
BY DEF CallNow, PersistedSet!NoCall

LEMMA NoCallNext == ASSUME bus'.pc = "idle" PROVE CallNow' = PersistedSet!NoCall
BY DEF CallNow, PersistedSet!NoCall

\* A key is no empty entry.
LEMMA KeysAreKeys == \A k \in DeviceKeys : k # NoEntry
BY DEF DeviceKeys, NoEntry

\* What nothing of the set shows is a stuttering step of it.
LEMMA SetStutters ==
    ASSUME UNCHANGED <<mem, disk, snaps, bus, ret>>, phase' = phase
    PROVE  Stutter
BY DEF Stutter, Seen, CallNow, CallAt, AnswerNow, KeysOf

\* A verb that ends without touching the store has answered.
LEMMA SetReplies ==
    ASSUME UNCHANGED <<mem, disk, snaps, phase>>, NEW verb \in Verbs, NEW ok \in BOOLEAN,
           bus'.pc = "idle", bus.pc = "idle" => ~ok,
           bus.pc # "idle" => verb = bus.verb,
           ok => CallAt = "done" \/ verb \notin PersistedSet!Changing,
           ret' = [verb |-> verb, ok |-> ok, entry |-> ret'.entry],
           ok => KeyOf(ret'.entry) = CallNow.key
    PROVE  PersistedSet!Reply(verb, ok)
<1>1. CallNow' = PersistedSet!NoCall
  BY NoCallNext
<1>2. CallNow.at = "none" <=> bus.pc = "idle"
  BY DEF CallNow, CallAt
<1>3. bus.pc # "idle" => CallNow.verb = bus.verb /\ CallNow.at = CallAt
  BY DEF CallNow
<1>4. AnswerNow' = [verb |-> verb, ok |-> ok, key |-> IF ok THEN CallNow.key ELSE NoEntry]
  BY DEF AnswerNow
<1>5. UNCHANGED <<KeysOf(IF phase = "down" THEN disk ELSE mem), KeysOf(disk), {KeysOf(s) : s \in snaps}>>
  BY DEF KeysOf
<1> QED
  BY <1>1, <1>2, <1>3, <1>4, <1>5 DEF PersistedSet!Reply, PersistedSet!Answers

\* Requests, the prompt and the lock: a call is asked, or told that it failed.
LEMMA SetByRequest ==
    ASSUME TypeOK, StoreInv, WorkInv, Client \/ Authorize \/ BusLock
    PROVE  PersistedSet!Next \/ Stutter
<1> USE IdlePc
<1>0. BusType
  BY DEF TypeOK
<1>1. ASSUME NEW verb \in Verbs, UNCHANGED <<mem, disk, snaps, phase>>, Refuse(verb),
             bus.pc # "idle" => verb = bus.verb
      PROVE  PersistedSet!Next
  <2>1. bus'.pc = "idle" /\ ret' = [verb |-> verb, ok |-> FALSE, entry |-> ret'.entry]
    BY <1>1 DEF Refuse
  <2>2. PersistedSet!Reply(verb, FALSE)
    BY <1>1, <2>1, SetReplies
  <2> QED
    BY <2>2 DEF PersistedSet!Next
<1>2. ASSUME NEW verb \in Verbs, NEW p, NEW target \in snaps \cup {<<>>},
             bus.pc = "idle", bus' = NewBus(verb, p, target), ret' = NoReturn,
             verb = "restore" => target \in snaps, UNCHANGED <<mem, disk, snaps, phase>>
      PROVE  PersistedSet!Next
  <2> DEFINE set == KeysOf(target)
  <2>1. CallNow' = [at |-> "asked", verb |-> verb, key |-> NoEntry, target |-> set]
    <3>1. bus'.pc = "auth" /\ bus'.verb = verb /\ bus'.target = target
      BY <1>2 DEF NewBus
    <3> QED
      BY <3>1 DEF CallNow, CallAt, KeysOf
  <2>2. AnswerNow' = PersistedSet!NoAnswer
    BY <1>2 DEF AnswerNow, NoReturn, PersistedSet!NoAnswer
  <2>3. CallNow.at = "none"
    BY <1>2 DEF CallNow
  <2>4. set \in {KeysOf(s) : s \in snaps} \cup {{}} /\ (verb = "restore" => set \in {KeysOf(s) : s \in snaps})
    BY <1>2 DEF KeysOf
  <2>5. UNCHANGED <<KeysOf(IF phase = "down" THEN disk ELSE mem), KeysOf(disk), {KeysOf(s) : s \in snaps}>>
    BY <1>2 DEF KeysOf
  <2> HIDE DEF set
  <2>6. PersistedSet!Ask(verb, set)
    BY <2>1, <2>2, <2>3, <2>4, <2>5 DEF PersistedSet!Ask
  <2> QED
    BY <2>4, <2>6 DEF PersistedSet!Next
<1>3. ASSUME NEW verb \in Verbs, NEW p \in Ports, Request(verb, p) PROVE PersistedSet!Next
  BY <1>1, <1>2, <1>3 DEF Request, DeviceVerbs
<1>4. ASSUME NEW verb \in Verbs, NEW target \in snaps \cup {<<>>}, RequestSnapshot(verb, target)
      PROVE  PersistedSet!Next
  BY <1>2, <1>4 DEF RequestSnapshot
<1>5. CASE Authorize
  <2>1. bus.pc = "auth" /\ bus \in BusWork /\ bus.verb \in Verbs
    BY <1>0, <1>5, BusShape DEF Authorize
  <2>2. CASE Refuse(bus.verb)
    BY <1>1, <1>5, <2>1, <2>2 DEF Authorize
  <2>3. CASE bus' = [bus EXCEPT !.pc = "lock"] /\ ret' = ret
    BY <1>5, <2>1, <2>3, BusMove DEF Authorize, BusPcs, Stutter, Seen, CallNow, CallAt, AnswerNow, KeysOf
  <2> QED
    BY <1>5, <2>2, <2>3 DEF Authorize
<1>6. CASE BusLock
  <2>1. bus.pc = "lock" /\ bus \in BusWork
    BY <1>0, <1>6, BusShape DEF BusLock
  <2> QED
    BY <1>6, <2>1, BusMove DEF BusLock, BusPcs, Stutter, Seen, CallNow, CallAt, AnswerNow, KeysOf
<1> QED
  BY <1>3, <1>4, <1>5, <1>6 DEF Client

\* Hotplug, startup and enforcement rewrite entries, and may save what is in memory.
LEMMA SetByKept ==
    ASSUME phase # "down", Kept, bus' = bus, UNCHANGED <<ret, snaps, phase>>
    PROVE  PersistedSet!Next \/ Stutter
<1>1. UNCHANGED <<KeysOf(IF phase = "down" THEN disk ELSE mem), {KeysOf(s) : s \in snaps}, CallNow, AnswerNow>>
  BY DEF Kept, CallNow, CallAt, AnswerNow, KeysOf
<1>2. CASE disk' = disk
  <2>1. KeysOf(disk)' = KeysOf(disk)
    BY <1>2 DEF KeysOf
  <2> QED
    BY <1>1, <2>1 DEF Stutter, Seen
<1>3. CASE disk' = mem'
  <2>1. KeysOf(disk)' = KeysOf(IF phase = "down" THEN disk ELSE mem)
    BY <1>3 DEF Kept, KeysOf
  <2>2. PersistedSet!Flush
    BY <1>1, <2>1 DEF PersistedSet!Flush
  <2> QED
    BY <2>2 DEF PersistedSet!Next
<1> QED
  BY <1>2, <1>3 DEF Kept

LEMMA SetByOthers ==
    ASSUME TypeOK, StoreInv, WorkInv, Environment \/ Startup \/ Enforcement
    PROVE  PersistedSet!Next \/ Stutter
<1> USE IdlePc
<1>0. StoreType /\ WorkType
  BY DEF TypeOK
<1>a. enf.pc # "idle" => phase # "down"
  BY DEF WorkInv
<1>1. ASSUME NEW u \in Units, NEW p \in Ports, Plug(u, p) PROVE Stutter
  BY <1>1, SetStutters DEF Plug
<1>2. ASSUME NEW p \in Ports, Unplug(p) PROVE Stutter
  BY <1>2, SetStutters DEF Unplug
<1>3. CASE Crash
  <2>1. /\ KeysOf(IF phase = "down" THEN disk ELSE mem)' = KeysOf(disk)
        /\ UNCHANGED <<KeysOf(disk), {KeysOf(s) : s \in snaps}>>
    BY <1>3 DEF Crash, KeysOf
  <2>2. CallNow' = PersistedSet!NoCall /\ AnswerNow' = PersistedSet!NoAnswer
    BY <1>3, NoCallNext DEF Crash, AnswerNow, NoReturn, PersistedSet!NoAnswer
  <2>3. PersistedSet!Crash
    BY <2>1, <2>2 DEF PersistedSet!Crash
  <2> QED
    BY <2>3 DEF PersistedSet!Next
<1>4. CASE Load \/ MonitorStart
  BY <1>4 DEF Load, MonitorStart, Stutter, Seen, CallNow, CallAt, AnswerNow, KeysOf
<1>5. CASE SweepVisit \/ HotplugEvent \/ EnfProbe \/ EnfLock \/ EnfApply
  BY <1>5, SetStutters DEF SweepVisit, HotplugEvent, EnfProbe, EnfLock, EnfApply
<1>6. CASE EnfSuspend
  <2>1. Kept
    BY <1>0, <1>6, SuspendKeeps DEF EnfSuspend
  <2> QED
    BY <1>a, <1>6, <2>1, SetByKept DEF EnfSuspend
<1>7. CASE EnfRecordPath
  <2>1. enf.port \in Ports
    BY <1>0, <1>7, EnfShape DEF EnfRecordPath
  <2>2. Kept
    BY <1>0, <1>7, <2>1, PathKeeps DEF EnfRecordPath, Kept, store, StoreType
  <2> QED
    BY <1>a, <1>7, <2>2, SetByKept DEF EnfRecordPath
<1>8. CASE EnfClear
  <2>1. Kept
    BY <1>0, <1>8, SuspendKeeps DEF EnfClear, Kept, store, StoreType
  <2> QED
    BY <1>a, <1>8, <2>1, SetByKept DEF EnfClear
<1> QED
  BY <1>1, <1>2, <1>3, <1>4, <1>5, <1>6, <1>7, <1>8 DEF Environment, Startup, Enforcement

\* The one change of a call: afterwards the call goes on, or is answered.
LEMMA SetCommits ==
    ASSUME TypeOK, StoreInv, bus.pc \in {"upsert", "enable", "restore"}, UNCHANGED <<snaps, phase>>,
           NEW key \in DeviceKeys \cup {NoEntry}, NEW ok \in BOOLEAN,
           disk' \in {mem', disk}, ok => disk' = mem',
           \/ bus.verb = "disable" /\ key # NoEntry /\ KeysOf(mem') = KeysOf(mem) \cup {key}
           \/ bus.verb = "enable" /\ key \in KeysOf(mem) /\ KeysOf(mem') = KeysOf(mem) \ {key}
           \/ bus.verb = "restore" /\ key = NoEntry /\ KeysOf(mem') = KeysOf(bus.target),
           \/ /\ bus'.pc = "idle"
              /\ ret' = [verb |-> bus.verb, ok |-> ok, entry |-> ret'.entry]
              /\ ok => KeyOf(ret'.entry) = key
           \/ /\ ok /\ bus'.pc \in {"rebind", "reenable"} /\ ret' = ret
              /\ bus'.verb = bus.verb /\ bus'.target = bus.target /\ KeyOf(bus'.entry) = key
    PROVE  PersistedSet!Commit
<1> USE IdlePc
<1>1. phase = "up" /\ \E s \in snaps : KeysOf(s) = KeysOf(mem)
  BY VerbPhase DEF StoreInv, NetHeld
<1>2. /\ KeysOf(IF phase = "down" THEN disk ELSE mem) = KeysOf(mem)
      /\ KeysOf(IF phase = "down" THEN disk ELSE mem)' = KeysOf(mem')
      /\ KeysOf(disk)' \in {KeysOf(mem'), KeysOf(disk)}
      /\ ok => KeysOf(disk)' = KeysOf(mem')
      /\ UNCHANGED {KeysOf(s) : s \in snaps}
  BY <1>1 DEF KeysOf
<1>3. CallNow = [at |-> "asked", verb |-> bus.verb, target |-> KeysOf(bus.target), key |-> NoEntry]
  BY DEF CallNow, CallAt
<1>4. PersistedSet!Changes(key)
  BY <1>2, <1>3 DEF PersistedSet!Changes
<1>5. CASE bus'.pc = "idle" /\ ret' = [verb |-> bus.verb, ok |-> ok, entry |-> ret'.entry]
           /\ (ok => KeyOf(ret'.entry) = key)
  <2>1. CallNow' = PersistedSet!NoCall
    BY <1>5, NoCallNext
  <2>2. AnswerNow' = [verb |-> bus.verb, ok |-> ok, key |-> IF ok THEN key ELSE NoEntry]
    BY <1>5 DEF AnswerNow
  <2>3. PersistedSet!Answers(CallNow.verb, ok, key)
    BY <1>3, <2>1, <2>2 DEF PersistedSet!Answers
  <2> QED
    BY <1>1, <1>2, <1>3, <1>4, <2>3 DEF PersistedSet!Commit
<1>6. CASE ok /\ bus'.pc \in {"rebind", "reenable"} /\ ret' = ret /\ bus'.verb = bus.verb
           /\ bus'.target = bus.target /\ KeyOf(bus'.entry) = key
  <2>1. CallNow' = [at |-> "done", verb |-> bus.verb, target |-> KeysOf(bus.target), key |-> key]
    BY <1>6 DEF CallNow, CallAt, KeyOf, KeysOf
  <2>2. CallNow' = PersistedSet!Changed(key)
    BY <1>3, <2>1 DEF PersistedSet!Changed
  <2>3. AnswerNow' = AnswerNow
    BY <1>6 DEF AnswerNow
  <2> QED
    BY <1>1, <1>2, <1>3, <1>4, <1>6, <2>2, <2>3 DEF PersistedSet!Commit
<1> QED
  BY <1>5, <1>6

\* A verb that ends under the lock without touching the store.
LEMMA SetEnds ==
    ASSUME TypeOK, bus.pc # "idle", UNCHANGED <<mem, disk, snaps, phase>>,
           NEW ok \in BOOLEAN, ReplyLocked(ok),
           ok => CallAt = "done" \/ bus.verb \notin PersistedSet!Changing,
           ok => KeyOf(bus.entry) = CallNow.key
    PROVE  PersistedSet!Next
<1>1. bus \in BusWork /\ bus.verb \in Verbs
  BY BusShape DEF TypeOK
<1>2. bus'.pc = "idle" /\ ret' = [verb |-> bus.verb, ok |-> ok, entry |-> ret'.entry] /\ ret'.entry = bus.entry
  BY IdlePc DEF ReplyLocked
<1>3. PersistedSet!Reply(bus.verb, ok)
  BY <1>1, <1>2, SetReplies
<1> QED
  BY <1>1, <1>3 DEF PersistedSet!Next

\* The steps of a verb: the safety net, the one change, the answer.
LEMMA SetByVerb ==
    ASSUME TypeOK, StoreInv, WorkInv, Verb
    PROVE  PersistedSet!Next \/ Stutter
<1> USE IdlePc, OutcomeType
<1>0. StoreType /\ WorkType /\ BusType /\ VerbType
  BY DEF TypeOK
<1>a. bus.pc # "idle" /\ bus \in BusWork /\ phase = "up" /\ bus.verb \in Verbs
  BY <1>0, BusShape, VerbPhase
  DEF Verb, BusLock, BusSnapshot, BusDisable, BusUpsert, BusDropEntry, BusRebind, BusBind,
      BusUnbind, RestoreReplace, RestoreEnable, RestoreEnabled, RestoreReapply, RestoreEnd
<1>b. CallNow = [at |-> CallAt, verb |-> bus.verb, target |-> KeysOf(bus.target),
                 key |-> IF CallAt = "done" THEN KeyOf(bus.entry) ELSE NoEntry]
  BY <1>a DEF CallNow
<1>c. bus.pc \notin CarriesEntry => KeyOf(bus.entry) = NoEntry /\ CallNow.key = NoEntry
  BY <1>b DEF WorkInv, KeyOf
<1>1. CASE BusLock
  BY <1>1, SetByRequest
<1>2. CASE BusSnapshot
  <2>0. bus.pc = "snapshot" /\ UNCHANGED <<mem, disk, phase>>
    BY <1>2 DEF BusSnapshot
  <2>1. CASE StoreFaults /\ ReplyLocked(FALSE) /\ UNCHANGED snaps
    BY <1>a, <2>0, <2>1, SetEnds
  <2>2. CASE snaps' = snaps \cup {mem}
    <3>1. /\ {KeysOf(s) : s \in snaps}' = {KeysOf(s) : s \in snaps} \cup {KeysOf(IF phase = "down" THEN disk ELSE mem)}
          /\ UNCHANGED <<KeysOf(IF phase = "down" THEN disk ELSE mem), KeysOf(disk)>>
      BY <1>a, <2>0, <2>2 DEF KeysOf
    <3>2. CallNow.at = "asked"
      BY <1>b, <2>0 DEF CallAt
    <3>3. CASE bus.verb = "create" /\ ReplyLocked(TRUE)
      <4>1. bus'.pc = "idle" /\ ret'.verb = "create" /\ ret'.ok = TRUE /\ ret'.entry = bus.entry
        BY <1>a, <3>3, ReplyFacts
      <4>2. CallNow' = PersistedSet!NoCall
        BY <4>1, NoCallNext
      <4>3. AnswerNow' = [verb |-> "create", ok |-> TRUE, key |-> NoEntry]
        BY <1>c, <2>0, <4>1 DEF AnswerNow, CarriesEntry
      <4>4. CallNow.verb = "create"
        BY <1>b, <3>3
      <4>5. PersistedSet!Keep
        BY <3>1, <3>2, <4>2, <4>3, <4>4 DEF PersistedSet!Keep, PersistedSet!Answers
      <4> QED
        BY <4>5 DEF PersistedSet!Next
    <3>4. CASE /\ bus.verb # "create"
               /\ bus' = [bus EXCEPT !.pc = bus.verb,
                                     !.pre = IF bus.verb = "restore" THEN mem ELSE <<>>]
               /\ UNCHANGED <<lock, ret>>
      <4>1. bus'.pc = bus.verb /\ bus'.verb = bus.verb /\ bus'.target = bus.target
        BY <1>a, <3>4 DEF BusWork
      <4>2. bus.verb \notin {"idle", "rebind", "reenable", "reapply"}
        BY <1>a, DaemonAssumption
      <4>3. CallNow' = CallNow
        BY <2>0, <4>1, <4>2 DEF CallNow, CallAt, KeysOf
      <4>4. AnswerNow' = AnswerNow
        BY <3>4 DEF AnswerNow
      <4>5. PersistedSet!Keep
        BY <3>1, <3>2, <4>3, <4>4 DEF PersistedSet!Keep
      <4> QED
        BY <4>5 DEF PersistedSet!Next
    <3> QED
      BY <1>2, <2>2, <3>3, <3>4, <2>1 DEF BusSnapshot
  <2> QED
    BY <1>2, <2>1, <2>2 DEF BusSnapshot
<1>3. CASE BusDisable
  <2>0. bus.pc = "disable" /\ UNCHANGED <<mem, disk, snaps, phase>>
    BY <1>3 DEF BusDisable
  <2>1. CASE ReplyLocked(FALSE)
    BY <1>a, <2>0, <2>1, SetEnds
  <2>2. CASE \E e : bus' = [bus EXCEPT !.pc = "upsert", !.entry = e] /\ UNCHANGED <<lock, ret>>
    <3>1. bus'.pc = "upsert" /\ bus'.target = bus.target /\ bus'.verb = bus.verb
      BY <1>a, <2>2 DEF BusWork
    <3> QED
      BY <2>0, <2>2, <3>1 DEF Stutter, Seen, CallNow, CallAt, AnswerNow, KeysOf
  <2> QED
    BY <1>3, <2>1, <2>2 DEF BusDisable
<1>4. CASE BusUpsert
  <2>1. bus.pc = "upsert" /\ bus.entry \in Entries /\ bus.verb = "disable"
    BY <1>0, <1>4, BusShape DEF BusUpsert, VerbType
  <2>2. PICK out \in SaveOutcomes : Upsert(bus.entry, out) /\ ReplyLocked(out = "ok")
    BY <1>4 DEF BusUpsert
  <2>3. /\ disk' \in {mem', disk} /\ (out = "ok" => disk' = mem')
        /\ KeysOf(mem') = KeysOf(mem) \cup {bus.entry.key}
    BY <1>0, <2>1, <2>2, UpsertFacts
  <2>4. bus'.pc = "idle" /\ ret' = [verb |-> bus.verb, ok |-> out = "ok", entry |-> bus.entry]
    BY <2>2 DEF ReplyLocked
  <2>5. bus.entry.key \in DeviceKeys /\ bus.entry # NoEntry
    BY <2>1, <1>0, <1>4 DEF Entries, BusUpsert, VerbType
  <2>6. KeyOf(bus.entry) = bus.entry.key /\ bus.entry.key # NoEntry
    BY <2>5, KeysAreKeys DEF KeyOf
  <2>7. snaps' = snaps /\ phase' = phase
    BY <1>4 DEF BusUpsert
  <2>8. PersistedSet!Commit
    BY <2>1, <2>2, <2>3, <2>4, <2>5, <2>6, <2>7, SetCommits
  <2> QED
    BY <2>8 DEF PersistedSet!Next
<1>5. CASE BusDropEntry
  <2>0. bus.pc = "enable" /\ bus.verb = "enable" /\ UNCHANGED <<snaps, phase>>
    BY <1>0, <1>5 DEF BusDropEntry, VerbType, DeviceVerbs
  <2>1. CASE EntriesToDrop(bus.port) = {}
    <3>1. /\ bus'.pc = "rebind" /\ bus'.target = bus.target /\ bus'.entry = NoEntry
          /\ bus'.verb = bus.verb /\ UNCHANGED <<mem, disk, ret>>
      BY <1>5, <1>a, <2>1 DEF BusDropEntry, BusWork
    <3>2. CallNow' = [at |-> "done", verb |-> bus.verb, target |-> KeysOf(bus.target), key |-> NoEntry]
      BY <3>1 DEF CallNow, CallAt, KeyOf, KeysOf
    <3>3. CallNow = [at |-> "asked", verb |-> bus.verb, target |-> KeysOf(bus.target), key |-> NoEntry]
      BY <1>b, <2>0 DEF CallAt
    <3>4. UNCHANGED <<KeysOf(IF phase = "down" THEN disk ELSE mem), KeysOf(disk),
                      {KeysOf(s) : s \in snaps}, AnswerNow>>
      BY <2>0, <3>1 DEF KeysOf, AnswerNow
    <3>5. PersistedSet!Skip
      BY <2>0, <3>2, <3>3, <3>4 DEF PersistedSet!Skip, PersistedSet!Changed
    <3> QED
      BY <3>5 DEF PersistedSet!Next
  <2>2. CASE EntriesToDrop(bus.port) # {}
    <3>1. PICK i \in First(EntriesToDrop(bus.port)), out \in SaveOutcomes :
              /\ Save(RemoveAt(mem, i), out)
              /\ IF out = "ok"
                 THEN /\ bus' = [bus EXCEPT !.pc = "rebind", !.entry = mem[i]]
                      /\ UNCHANGED <<lock, ret>>
                 ELSE ReplyLocked(FALSE)
      BY <1>5, <2>2 DEF BusDropEntry
    <3>2. i \in DOMAIN mem /\ mem[i] \in Entries
      BY <1>0, <3>1 DEF First, EntriesToDrop, StoreType
    <3>3. /\ mem' = RemoveAt(mem, i)
          /\ disk' \in {mem', disk} /\ (out = "ok" => disk' = mem')
      BY <3>1 DEF Save
    <3>4. KeysOf(mem') = KeysOf(mem) \ {mem[i].key}
      <4>1. Distinct(mem) /\ mem \in Seq(Entries)
        BY <1>0 DEF StoreInv, KeysDistinct, StoreType
      <4>2. Without(mem', mem, i)
        BY <3>2, <3>3, <4>1, Erased
      <4>3. \A k \in DOMAIN mem : k # i => mem[k].key # mem[i].key
        BY <3>2, <4>1 DEF Distinct
      <4>4. KeysOf(mem') \subseteq KeysOf(mem) \ {mem[i].key}
        BY <4>2, <4>3 DEF Without, KeysOf
      <4>5. KeysOf(mem) \ {mem[i].key} \subseteq KeysOf(mem')
        BY <3>2, <4>2 DEF Without, KeysOf
      <4> QED
        BY <4>4, <4>5
    <3>5. mem[i].key \in DeviceKeys /\ mem[i].key \in KeysOf(mem) /\ mem[i] # NoEntry
      <4>1. mem[i].key \in KeysOf(mem)
        BY <3>2 DEF KeysOf
      <4>2. \A e \in Entries : e.key \in DeviceKeys
        BY DEF Entries
      <4>3. \A e \in Entries : e # NoEntry
        BY NoEntryType
      <4> QED
        BY <3>2, <4>1, <4>2, <4>3
    <3>6. KeyOf(mem[i]) = mem[i].key
      BY <3>5 DEF KeyOf
    <3>7. CASE out = "ok"
      <4>1. /\ bus'.pc = "rebind" /\ bus'.entry = mem[i] /\ bus'.target = bus.target
            /\ bus'.verb = bus.verb /\ ret' = ret
        BY <1>a, <3>1, <3>7 DEF BusWork
      <4>2. PersistedSet!Commit
        BY <2>0, <3>3, <3>4, <3>5, <3>6, <3>7, <4>1, SetCommits
      <4> QED
        BY <4>2 DEF PersistedSet!Next
    <3>8. CASE out # "ok"
      <4>1. bus'.pc = "idle" /\ ret' = [verb |-> bus.verb, ok |-> FALSE, entry |-> ret'.entry]
        BY <3>1, <3>8 DEF ReplyLocked
      <4>2. PersistedSet!Commit
        BY <2>0, <3>3, <3>4, <3>5, <4>1, SetCommits
      <4> QED
        BY <4>2 DEF PersistedSet!Next
    <3> QED
      BY <3>7, <3>8
  <2> QED
    BY <2>1, <2>2
<1>6. CASE BusRebind \/ RestoreEnd
  <2>1. PICK ok \in BOOLEAN : ReplyLocked(ok)
    BY <1>6 DEF BusRebind, RestoreEnd
  <2>2. UNCHANGED <<mem, disk, snaps, phase>> /\ CallAt = "done"
    BY <1>6 DEF BusRebind, RestoreEnd, CallAt
  <2> QED
    BY <1>a, <1>b, <2>1, <2>2, SetEnds
<1>7. CASE BusBind \/ BusUnbind
  <2>1. PICK ok \in BOOLEAN : ReplyLocked(ok)
    BY <1>7 DEF BusBind, BusUnbind
  <2>2. /\ UNCHANGED <<mem, disk, snaps, phase>>
        /\ bus.pc \notin CarriesEntry /\ bus.verb \notin PersistedSet!Changing
    BY <1>0, <1>7 DEF BusBind, BusUnbind, VerbType, DeviceVerbs, CarriesEntry, PersistedSet!Changing
  <2> QED
    BY <1>a, <1>c, <2>1, <2>2, SetEnds
<1>8. CASE RestoreReplace
  <2>0. bus.pc = "restore" /\ bus.verb = "restore" /\ UNCHANGED <<snaps, phase>>
    BY <1>0, <1>8 DEF RestoreReplace, VerbType
  <2>1. PICK out \in SaveOutcomes :
           /\ Save(bus.target, out)
           /\ IF out = "ok"
              THEN /\ bus' = [bus EXCEPT !.pc = "reenable"] /\ todo' = Removed
                   /\ seen' \in Enumerations
                   /\ UNCHANGED <<lock, ret>>
              ELSE ReplyLocked(FALSE) /\ UNCHANGED <<todo, seen>>
    BY <1>8 DEF RestoreReplace
  <2>2. /\ KeysOf(mem') = KeysOf(bus.target)
        /\ disk' \in {mem', disk} /\ (out = "ok" => disk' = mem')
    BY <2>1 DEF Save
  <2>3. CASE out = "ok"
    <3>1. /\ bus'.pc = "reenable" /\ bus'.target = bus.target /\ ret' = ret
          /\ bus'.verb = bus.verb /\ bus'.entry = bus.entry
      BY <1>a, <2>1, <2>3 DEF BusWork
    <3>2. KeyOf(bus'.entry) = NoEntry
      BY <1>c, <2>0, <3>1 DEF CarriesEntry
    <3>3. PersistedSet!Commit
      BY <2>0, <2>2, <2>3, <3>1, <3>2, SetCommits
    <3> QED
      BY <3>3 DEF PersistedSet!Next
  <2>4. CASE out # "ok"
    <3>1. bus'.pc = "idle" /\ ret' = [verb |-> bus.verb, ok |-> FALSE, entry |-> ret'.entry]
      BY <2>1, <2>4 DEF ReplyLocked
    <3>2. PersistedSet!Commit
      BY <2>0, <2>2, <3>1, SetCommits
    <3> QED
      BY <3>2 DEF PersistedSet!Next
  <2> QED
    BY <2>3, <2>4
<1>9. CASE RestoreEnable
  BY <1>9, SetStutters DEF RestoreEnable
<1>10. CASE RestoreEnabled
  <2>1. /\ bus.pc = "reenable" /\ bus'.pc = "reapply" /\ bus'.target = bus.target
        /\ bus'.verb = bus.verb /\ bus'.entry = bus.entry
    BY <1>10, <1>a DEF RestoreEnabled, BusWork
  <2> QED
    BY <1>10, <2>1 DEF RestoreEnabled, Stutter, Seen, CallNow, CallAt, AnswerNow, KeysOf, KeyOf
<1>11. CASE RestoreReapply
  <2>1. PICK e \in todo : \E p \in Resolved(e) :
             UNCHANGED <<mem, disk>> \/ SetSuspended(e.key, TRUE) \/ Reapplied(e, p)
    BY <1>11 DEF RestoreReapply
  <2>2. e \in Entries /\ Resolved(e) \subseteq Ports
    BY <1>0, ResolvedType DEF WorkType
  <2>3. UNCHANGED <<mem, disk>> => Kept
    BY <1>0 DEF Kept, StoreType
  <2>4. Kept
    BY <1>0, <2>1, <2>2, <2>3, SuspendKeeps, ReapplyKeeps
  <2> QED
    BY <1>a, <1>11, <2>4, SetByKept DEF RestoreReapply
<1> QED
  BY <1>1, <1>2, <1>3, <1>4, <1>5, <1>6, <1>7, <1>8, <1>9, <1>10, <1>11 DEF Verb

LEMMA SetStep ==
    TypeOK /\ StoreInv /\ WorkInv /\ [Next]_vars => [PersistedSet!Next]_(PersistedSet!setVars)
<1> SUFFICES ASSUME TypeOK, StoreInv, WorkInv, [Next]_vars
             PROVE  [PersistedSet!Next]_(PersistedSet!setVars)
  OBVIOUS
<1>1. Stutter => UNCHANGED PersistedSet!setVars
  BY DEF Stutter, Seen, PersistedSet!setVars
<1>2. CASE UNCHANGED vars
  <2>1. Stutter
    BY <1>2, SetStutters DEF vars
  <2> QED
    BY <1>1, <2>1
<1>3. CASE Next
  BY <1>1, <1>3, SetByOthers, SetByRequest, SetByVerb DEF Next
<1> QED
  BY <1>2, <1>3

\* The set of disabled devices is the one a client may rely on: only the verb that
\* holds applyMutex changes it, after its safety snapshot, and a verb that succeeded
\* has saved it; hotplug, the sweep and restarts neither add nor drop a device.
THEOREM DisabledSetIsKept == Spec => SetIsKept
<1>1. Init => PersistedSet!Init
  BY IdlePc DEF Init, PersistedSet!Init, KeysOf, CallNow, PersistedSet!NoCall, AnswerNow, NoReturn,
                PersistedSet!NoAnswer
<1>2. Spec => [](TypeOK /\ StoreInv)
  BY StoreInvariant
<1>3. Spec => []WorkInv
  BY <1>2, WorkInit, WorkStep, PTL DEF Spec
<1> QED
  BY <1>1, <1>2, <1>3, SetStep, PTL DEF Spec, SetIsKept, PersistedSet!Spec

\* A change that was made is in memory and on disk, until its call has been answered
\* and after.
Wanted == KeysOf(IF phase = "down" THEN disk ELSE mem)
Made(verb, key) ==
    /\ verb = "disable" => key \in Wanted /\ key \in KeysOf(disk)
    /\ verb = "enable" => key \notin Wanted /\ key \notin KeysOf(disk)
AnswerInv ==
    /\ CallNow.at = "done" => Made(CallNow.verb, CallNow.key)
    /\ AnswerNow.ok => CallNow.at = "none" /\ Made(AnswerNow.verb, AnswerNow.key)

LEMMA NoKeyIsKept == StoreType => NoEntry \notin Wanted \cup KeysOf(disk)
<1> SUFFICES ASSUME StoreType, NEW k \in Wanted \cup KeysOf(disk) PROVE k # NoEntry
  OBVIOUS
<1>1. PICK list \in {mem, disk} : \E i \in DOMAIN list : k = list[i].key
  BY DEF Wanted, KeysOf
<1>2. PICK i \in DOMAIN list : k = list[i].key
  BY <1>1
<1>3. list[i].key \in DeviceKeys
  <2>1. list \in Seq(Entries)
    BY <1>1 DEF StoreType
  <2>2. list[i] \in Entries
    BY <1>2, <2>1
  <2> QED
    BY <2>2 DEF Entries
<1> QED
  BY <1>2, <1>3, KeysAreKeys

LEMMA AnswerStep ==
    ASSUME StoreType, AnswerInv, [PersistedSet!Next]_(PersistedSet!setVars)
    PROVE  AnswerInv'
<1> USE DEF AnswerInv, Made, Wanted
<1>1. CASE UNCHANGED PersistedSet!setVars
  BY <1>1 DEF PersistedSet!setVars
<1>2. ASSUME NEW verb, NEW target, PersistedSet!Ask(verb, target) PROVE AnswerInv'
  BY <1>2 DEF PersistedSet!Ask, PersistedSet!NoAnswer
<1>3. ASSUME NEW verb, NEW ok \in BOOLEAN, PersistedSet!Reply(verb, ok) PROVE AnswerInv'
  BY <1>3 DEF PersistedSet!Reply, PersistedSet!Answers, PersistedSet!NoCall, PersistedSet!Changing
<1>4. CASE PersistedSet!Keep
  <2>1. CASE UNCHANGED <<CallNow, AnswerNow>>
    BY <1>4, <2>1 DEF PersistedSet!Keep
  <2>2. CASE CallNow.verb = "create" /\ PersistedSet!Answers(CallNow.verb, TRUE, NoEntry)
    BY <1>4, <2>2 DEF PersistedSet!Keep, PersistedSet!Answers, PersistedSet!NoCall
  <2> QED
    BY <1>4, <2>1, <2>2 DEF PersistedSet!Keep
<1>5. CASE PersistedSet!Commit
  <2>1. PICK key \in DeviceKeys \cup {NoEntry} :
          /\ PersistedSet!Changes(key)
          /\ \/ KeysOf(disk)' = Wanted' /\ CallNow' = PersistedSet!Changed(key) /\ UNCHANGED AnswerNow
             \/ KeysOf(disk)' = Wanted' /\ PersistedSet!Answers(CallNow.verb, TRUE, key)
             \/ /\ KeysOf(disk)' \in {KeysOf(disk), Wanted'}
                /\ PersistedSet!Answers(CallNow.verb, FALSE, key)
    BY <1>5 DEF PersistedSet!Commit
  <2>2. CallNow.at = "asked"
    BY <1>5 DEF PersistedSet!Commit
  <2>3. /\ CallNow.verb = "disable" => key \in Wanted'
        /\ CallNow.verb = "enable" => key \notin Wanted'
    BY <2>1 DEF PersistedSet!Changes
  <2>4. ~AnswerNow.ok
    BY <2>2
  <2> QED
    BY <2>1, <2>2, <2>3, <2>4 DEF PersistedSet!Changed, PersistedSet!Answers, PersistedSet!NoCall
<1>6. CASE PersistedSet!Skip
  <2>1. NoEntry \notin Wanted \cup KeysOf(disk)
    BY NoKeyIsKept
  <2>2. UNCHANGED <<Wanted, KeysOf(disk), AnswerNow>> /\ CallNow' = PersistedSet!Changed(NoEntry)
    BY <1>6 DEF PersistedSet!Skip
  <2>3. CallNow.at = "asked" /\ CallNow.verb = "enable"
    BY <1>6 DEF PersistedSet!Skip
  <2> QED
    BY <2>1, <2>2, <2>3 DEF PersistedSet!Changed
<1>7. CASE PersistedSet!Flush
  BY <1>7 DEF PersistedSet!Flush
<1>8. CASE PersistedSet!Crash
  BY <1>8 DEF PersistedSet!Crash, PersistedSet!NoCall, PersistedSet!NoAnswer
<1> QED
  BY <1>1, <1>2, <1>3, <1>4, <1>5, <1>6, <1>7, <1>8 DEF PersistedSet!Next

\* A client that was told of success may rely on it: what it disabled is in
\* state.json, and what it enabled is not, until the next request, whatever
\* enforcement does to the entries meanwhile.
THEOREM AnswersHold == Spec => []PersistedSet!AnswerHolds
<1>1. Init => AnswerInv
  BY IdlePc DEF Init, AnswerInv, CallNow, AnswerNow, NoReturn
<1>2. Spec => [](TypeOK /\ StoreInv)
  BY StoreInvariant
<1>3. Spec => []WorkInv
  BY <1>2, WorkInit, WorkStep, PTL DEF Spec
<1>4. TypeOK /\ StoreInv /\ WorkInv /\ AnswerInv /\ [Next]_vars => AnswerInv'
  BY SetStep, AnswerStep DEF TypeOK
<1>5. AnswerInv => PersistedSet!AnswerHolds
  BY DEF AnswerInv, Made, PersistedSet!AnswerHolds
<1> QED
  BY <1>1, <1>2, <1>3, <1>4, <1>5, PTL DEF Spec

-----------------------------------------------------------------------------
(* Device keys.                                                            *)

\* The key a disable makes from the set of present devices matches its own
\* device and no other device of that set, cloned serial numbers included
\* (makeDeviceKey, matchesDevice).
THEOREM KeyIdentifiesDevice ==
    ASSUME NEW P \in SUBSET Ports, NEW present \in [P -> Identity],
           NEW p \in P, NEW q \in P
    PROVE  Matches(MakeKey(present[p], p, present), present[q], q) <=> p = q
<1> DEFINE id == present[p]
           k == MakeKey(id, p, present)
<1>1. id \in Identity /\ present[q] \in Identity
  OBVIOUS
<1>2. k.model = id.model /\ k.pos = p
  BY <1>1 DEF MakeKey, PlainKey
<1>3. CASE id.serial # NoSerial /\ Cloned(id, p, present)
  <2>1. k.serial = NoSerial
    BY <1>3 DEF MakeKey, PlainKey
  <2>2. QED
    BY <1>2, <2>1 DEF Matches
<1>4. CASE id.serial = NoSerial
  <2>1. k.serial = NoSerial
    BY <1>4 DEF MakeKey, PlainKey
  <2>2. QED
    BY <1>2, <2>1 DEF Matches
<1>5. CASE id.serial # NoSerial /\ ~Cloned(id, p, present)
  <2>1. k.serial = id.serial
    BY <1>5 DEF MakeKey, PlainKey
  <2>2. q # p => ~(present[q].model = id.model /\ present[q].serial = id.serial)
    BY <1>5 DEF Cloned
  <2>3. QED
    BY <1>2, <1>5, <2>1, <2>2 DEF Matches
<1>6. QED
  BY <1>3, <1>4, <1>5
=============================================================================
