--------------------------- MODULE ConsolesProofs ---------------------------
(***************************************************************************)
(* Proofs about Consoles, for any snapshots, filters, items and bounds:    *)
(* what the user agrees to is what the prompt names, the cursor stays with *)
(* its snapshot, the rows follow the facade, and no task outlives it.      *)
(*                                                                         *)
(* A step of a front end changes the client in one of few ways (Shared);   *)
(* the invariant about the rows, the futures and the prompts is shown once *)
(* for each of them, whichever key or button it comes from.                *)
(***************************************************************************)
EXTENDS Consoles, FiniteSetTheorems, SequenceTheorems, TLAPS

VMs ==
    [metas : SUBSET Snapshots, filtered : BOOLEAN, selected : Nat,
     empty : {"none", "no match", "no snapshots"},
     rebuildQueued : BOOLEAN, refreshQueued : BOOLEAN,
     closure : {"none", "rebuild", "refresh"},
     preview : Snapshots \cup {None}, previewPending : BOOLEAN]
\* A task about to store its answer has a list to store.
Jobs ==
    {j \in [kind : JobKinds, id : Targets, holder : Custody,
            answer : (SUBSET Snapshots) \cup {None, NoAnswer}, at : Steps] :
       j.at = "store" => j.answer \subseteq Snapshots}
Closures == {"rebuild", "refresh", "diffReady", "refreshAll"}
Asks == [verb : Verbs, target : Targets, shown : Targets]

FacadeType ==
    /\ stored \subseteq Snapshots /\ list \subseteq Snapshots /\ diff \in Snapshots \cup {None}
    /\ reachable \in BOOLEAN /\ daemonError \in BOOLEAN
QueuesType == jobs \in Seq(Jobs) /\ posted \in Seq(Closures)
OnARow(v) == v.selected = 1 \/ v.selected \in 1..RowCount(v)
ViewType == vm \in VMs /\ OnARow(vm)
PromptsType == prompts \in Seq(Asks) /\ submitted \in {NoPrompt} \cup [verb : Verbs, target : Targets]
UserType ==
    /\ surface \in {"tui", "gui"} /\ tab \in Tabs /\ diffFor \in Snapshots \cup {None}
    /\ loop \in {"running", "stopping", "unwinding", "gone"} /\ keys \in 0..MaxKeys
    /\ GuiTypeOK /\ focus \in {"list", "filter"}
ConsolesType == FacadeType /\ QueuesType /\ ViewType /\ PromptsType /\ UserType

HasRebuild == \E i \in DOMAIN posted : posted[i] = "rebuild"

\* A list task is about to post its rebuild; one has stored a list and not done so yet.
Posting == \E i \in DOMAIN jobs : Listing(i, "post")
Ahead ==
    \E i \in DOMAIN jobs : jobs[i].kind = "list" /\ jobs[i].at \in {"observe", "publish", "post"}

\* The flag that keeps another rebuild from being posted is set only while one is
\* posted or about to be; rows that are behind the facade's list wait for one, for
\* the closure that has cleared the flag, or for a task between the store and the post.
Announced ==
    /\ vm.rebuildQueued => HasRebuild \/ Posting
    /\ vm.metas # list => HasRebuild \/ vm.closure = "rebuild" \/ Ahead

\* The view model keeps the futures of its reads only; the teardown has waited for
\* the front end's, then for these, and nothing new is submitted.
Kept ==
    /\ \A i \in DOMAIN jobs : jobs[i].holder = "vm" => jobs[i].kind \in {"list", "diff"}
    /\ loop \in {"unwinding", "gone"} => \A i \in DOMAIN jobs : jobs[i].holder = "vm"
    /\ loop = "gone" => jobs = <<>>

\* A prompt other than a restore names the target its callback captured; the terminal
\* shows one modal, and behind a restore nothing else is previewed.
Truthful ==
    /\ \A i \in DOMAIN prompts : prompts[i].verb # "restore" => prompts[i].shown = prompts[i].target
    /\ surface = "tui" /\ prompts # <<>> =>
         /\ Len(prompts) = 1
         /\ prompts[1].verb = "restore" => prompts[1].target = vm.preview

ConsolesInv == ConsolesType /\ Announced /\ Kept /\ Truthful

-----------------------------------------------------------------------------
(* The rows.                                                               *)

LEMMA RowsFinite ==
    ASSUME NEW v, v.metas \subseteq Snapshots
    PROVE  /\ Shown(v) \subseteq Snapshots /\ IsFiniteSet(Shown(v))
           /\ Cardinality(Shown(v)) \in Nat
           /\ Cardinality(Shown(v)) = 0 <=> Shown(v) = {}
<1>1. Shown(v) \subseteq Snapshots
  BY DEF Shown
<1>2. IsFiniteSet(Snapshots)
  BY SnapshotsAssumption, FS_Interval DEF Snapshots
<1>3. IsFiniteSet(Shown(v))
  BY <1>1, <1>2, FS_Subset
<1> QED
  BY <1>1, <1>3, FS_CardinalityType, FS_EmptySet

\* Every snapshot has a row of its own, and the rows are numbered from 1.
LEMMA RowsDistinct ==
    ASSUME NEW v, v.metas \subseteq Snapshots
    PROVE  /\ \A s \in Shown(v) : RowOf(v, s) \in 1..Cardinality(Shown(v))
           /\ \A s, t \in Shown(v) : RowOf(v, s) = RowOf(v, t) => s = t
<1> DEFINE From(s) == {t \in Shown(v) : t >= s}
<1>1. /\ Shown(v) \subseteq Nat /\ IsFiniteSet(Shown(v)) /\ Cardinality(Shown(v)) \in Nat
  BY RowsFinite, SnapshotsAssumption DEF Snapshots
<1>2. ASSUME NEW s \in Shown(v) PROVE RowOf(v, s) \in 1..Cardinality(Shown(v))
  <2>1. IsFiniteSet(From(s)) /\ Cardinality(From(s)) <= Cardinality(Shown(v))
    BY <1>1, FS_Subset
  <2>2. From(s) # {} /\ Cardinality(From(s)) \in Nat
    BY <1>1, <2>1, FS_CardinalityType
  <2>3. Cardinality(From(s)) # 0
    BY <2>1, <2>2, FS_EmptySet
  <2> QED
    BY <1>1, <2>1, <2>2, <2>3 DEF RowOf
<1>3. ASSUME NEW s \in Shown(v), NEW t \in Shown(v), s < t PROVE RowOf(v, s) # RowOf(v, t)
  <2>1. IsFiniteSet(From(s)) /\ From(t) \subseteq From(s) /\ From(t) # From(s)
    <3>1. IsFiniteSet(From(s))
      BY <1>1, FS_Subset
    <3>2. From(t) \subseteq From(s) /\ s \in From(s) /\ s \notin From(t)
      BY <1>1, <1>3
    <3> QED
      BY <3>1, <3>2
  <2>2. Cardinality(From(s)) # Cardinality(From(t))
    BY <2>1, FS_Subset
  <2> QED
    BY <2>2 DEF RowOf
<1>4. \A s, t \in Shown(v) : s # t => s < t \/ t < s
  BY <1>1
<1> QED
  BY <1>2, <1>3, <1>4

LEMMA SelectedRow ==
    ASSUME NEW v, v.metas \subseteq Snapshots
    PROVE  /\ Selected(v) \in Shown(v) \cup {None}
           /\ Selected(v) \in Snapshots \cup {None}
           /\ \A s \in Shown(v) : RowOf(v, s) = v.selected => Selected(v) = s
<1>1. Selected(v) \in Shown(v) \cup {None}
  BY DEF Selected
<1>2. \A s \in Shown(v) : RowOf(v, s) = v.selected => Selected(v) = s
  BY RowsDistinct DEF Selected
<1> QED
  BY <1>1, <1>2, RowsFinite

LEMMA ShownDepends ==
    ASSUME NEW v, NEW u, u.metas = v.metas, u.filtered = v.filtered
    PROVE  Shown(u) = Shown(v) /\ \A s : RowOf(u, s) = RowOf(v, s)
BY DEF Shown, RowOf

LEMMA SelectedDepends ==
    ASSUME NEW v, NEW u, u.metas = v.metas, u.filtered = v.filtered, u.selected = v.selected
    PROVE  Selected(u) = Selected(v)
BY ShownDepends DEF Selected

\* A rebuild takes the facade's list and keeps the snapshot under the cursor.
LEMMA RebuildKeeps ==
    ASSUME vm \in VMs, list \subseteq Snapshots, NEW v \in VMs, v.selected >= 1
    PROVE  /\ Rebuild(v) \in VMs /\ OnARow(Rebuild(v))
           /\ Rebuild(v).metas = list /\ Rebuild(v).rebuildQueued = v.rebuildQueued
           /\ Rebuild(v).preview = v.preview
           /\ Selected(vm) \in Shown(Rebuild(v)) => Selected(Rebuild(v)) = Selected(vm)
<1> DEFINE e == EmptyRow([v EXCEPT !.metas = list], daemonError)
           next == [v EXCEPT !.metas = list, !.empty = e]
           kept == Selected(vm)
           row == KeepSelection(next, kept)
           r == [next EXCEPT !.selected = row]
<1>1. Rebuild(v) = r
  BY DEF Rebuild
<1>2. e \in {"none", "no match", "no snapshots"}
  BY DEF EmptyRow
<1>3. /\ next \in VMs /\ next.metas = list /\ next.empty = e /\ next.selected = v.selected
      /\ next.rebuildQueued = v.rebuildQueued /\ next.preview = v.preview
      /\ next.filtered = v.filtered
  <2> HIDE DEF e
  <2> QED
    BY <1>2 DEF VMs
<1>4. Shown(next) # {} => next.empty = "none"
  <2>1. Shown(next) = Shown([v EXCEPT !.metas = list])
    <3>1. [v EXCEPT !.metas = list].metas = list /\ [v EXCEPT !.metas = list].filtered = v.filtered
      BY DEF VMs
    <3> HIDE DEF next
    <3> QED
      BY <1>3, <3>1, ShownDepends
  <2> HIDE DEF next
  <2> QED
    BY <1>3, <2>1 DEF EmptyRow
<1> HIDE DEF e, next
<1>5. /\ Cardinality(Shown(next)) \in Nat
      /\ Cardinality(Shown(next)) = 0 <=> Shown(next) = {}
      /\ \A s \in Shown(next) : RowOf(next, s) \in 1..Cardinality(Shown(next))
  BY <1>3, RowsFinite, RowsDistinct DEF VMs
<1>6. RowCount(next) \in Nat
  BY <1>5 DEF RowCount
<1>7. v.selected \in Nat
  BY DEF VMs
<1>8. row \in Nat /\ (row = 1 \/ row \in 1..RowCount(next))
  <2>1. CASE kept \in Shown(next)
    <3>1. row \in 1..Cardinality(Shown(next))
      BY <1>5, <2>1 DEF KeepSelection
    <3>2. RowCount(next) = Cardinality(Shown(next))
      BY <1>4, <2>1 DEF RowCount
    <3> QED
      BY <1>5, <3>1, <3>2
  <2>2. CASE kept \notin Shown(next)
    <3>1. row = Nearest(next)
      BY <2>2 DEF KeepSelection
    <3> QED
      BY <1>3, <1>6, <1>7, <3>1 DEF Nearest
  <2> QED
    BY <2>1, <2>2
<1> HIDE DEF row
<1>9. /\ r \in VMs /\ r.metas = list /\ r.filtered = next.filtered /\ r.selected = row
      /\ r.rebuildQueued = v.rebuildQueued /\ r.preview = v.preview /\ r.empty = next.empty
  BY <1>3, <1>8 DEF VMs
<1> HIDE DEF r
<1>10. Shown(r) = Shown(next) /\ \A s : RowOf(r, s) = RowOf(next, s)
  BY <1>3, <1>9, ShownDepends
<1>11. OnARow(r)
  BY <1>8, <1>9, <1>10 DEF OnARow, RowCount
<1>12. ASSUME kept \in Shown(r) PROVE Selected(r) = kept
  <2>1. r.selected = RowOf(r, kept)
    BY <1>9, <1>10, <1>12 DEF row, KeepSelection
  <2> HIDE DEF kept
  <2> QED
    BY <1>9, <1>12, <2>1, SelectedRow
<1> QED
  BY <1>1, <1>9, <1>11, <1>12

-----------------------------------------------------------------------------
(* Sequences.                                                              *)

LEMMA AppendTo ==
    ASSUME NEW S, NEW s \in Seq(S), NEW x \in S
    PROVE  /\ Append(s, x) \in Seq(S)
           /\ \A i \in DOMAIN s : i \in DOMAIN Append(s, x) /\ Append(s, x)[i] = s[i]
           /\ \A i \in DOMAIN Append(s, x) : i \in DOMAIN s \/ Append(s, x)[i] = x
           /\ \E i \in DOMAIN Append(s, x) : Append(s, x)[i] = x
<1>1. /\ Append(s, x) \in Seq(S) /\ Len(Append(s, x)) = Len(s) + 1 /\ Len(s) \in Nat
      /\ \A i \in 1..Len(s) : Append(s, x)[i] = s[i]
      /\ Append(s, x)[Len(s) + 1] = x
  BY AppendProperties, LenProperties
<1>2. DOMAIN s = 1..Len(s) /\ DOMAIN Append(s, x) = 1..Len(s) + 1
  BY <1>1, LenProperties
<1> QED
  BY <1>1, <1>2

LEMMA TailOf ==
    ASSUME NEW S, NEW s \in Seq(S), s # <<>>
    PROVE  /\ Head(s) \in S /\ Tail(s) \in Seq(S) /\ Head(s) = s[1] /\ 1 \in DOMAIN s
           /\ \A i \in DOMAIN Tail(s) : i + 1 \in DOMAIN s /\ Tail(s)[i] = s[i + 1]
           /\ \A i \in DOMAIN s \ {1} : i - 1 \in DOMAIN Tail(s) /\ Tail(s)[i - 1] = s[i]
<1>1. /\ Head(s) \in S /\ Tail(s) \in Seq(S) /\ Len(Tail(s)) = Len(s) - 1
      /\ \A i \in 1 .. Len(Tail(s)) : Tail(s)[i] = s[i + 1]
  BY HeadTailProperties
<1>2. DOMAIN s = 1 .. Len(s) /\ DOMAIN Tail(s) = 1 .. Len(s) - 1 /\ Len(s) \in Nat \ {0}
  BY <1>1, LenProperties, EmptySeq
<1>3. Head(s) = s[1]
  OBVIOUS
<1> QED
  BY <1>1, <1>2, <1>3

LEMMA RemoveFrom ==
    ASSUME NEW S, NEW s \in Seq(S), NEW i \in DOMAIN s
    PROVE  /\ RemoveAt(s, i) \in Seq(S)
           /\ \A k \in DOMAIN RemoveAt(s, i) : \E m \in DOMAIN s : RemoveAt(s, i)[k] = s[m]
           /\ \A m \in DOMAIN s \ {i} : \E k \in DOMAIN RemoveAt(s, i) : RemoveAt(s, i)[k] = s[m]
<1> DEFINE a == SubSeq(s, 1, i - 1)
           b == SubSeq(s, i + 1, Len(s))
<1>1. /\ DOMAIN s = 1..Len(s) /\ Len(s) \in Nat /\ i \in 1..Len(s)
      /\ \A k \in 1..Len(s) : s[k] \in S
  BY LenProperties, ElementOfSeq
<1>2. /\ a \in Seq(S) /\ Len(a) = (IF 1 <= i - 1 THEN i - 1 - 1 + 1 ELSE 0)
      /\ \A k \in 1 .. i - 1 - 1 + 1 : a[k] = s[1 + k - 1]
  <2>1. \A k \in 1 .. i - 1 : s[k] \in S
    BY <1>1
  <2>2. 1 \in Int /\ i - 1 \in Int
    BY <1>1
  <2> QED
    BY <2>1, <2>2, SubSeqProperties
<1>3. /\ b \in Seq(S) /\ Len(b) = (IF i + 1 <= Len(s) THEN Len(s) - (i + 1) + 1 ELSE 0)
      /\ \A k \in 1 .. Len(s) - (i + 1) + 1 : b[k] = s[i + 1 + k - 1]
  <2>1. \A k \in i + 1 .. Len(s) : s[k] \in S
    BY <1>1
  <2>2. Len(s) \in Int /\ i + 1 \in Int
    BY <1>1
  <2> QED
    BY <2>1, <2>2, SubSeqProperties
<1>4. RemoveAt(s, i) = a \o b
  BY DEF RemoveAt
<1> HIDE DEF a, b
<1>5. \A k \in DOMAIN a : k \in DOMAIN s /\ a[k] = s[k]
  <2>1. DOMAIN a = 1..Len(a)
    BY <1>2, LenProperties
  <2> QED
    BY <1>1, <1>2, <2>1
<1>6. \A k \in DOMAIN b : i + k \in DOMAIN s /\ b[k] = s[i + k]
  <2>1. DOMAIN b = 1..Len(b)
    BY <1>3, LenProperties
  <2>2. Len(b) = Len(s) - i
    BY <1>1, <1>3
  <2>3. ASSUME NEW k \in 1 .. Len(s) - i PROVE i + k \in 1..Len(s) /\ b[k] = s[i + k]
    <3>1. Len(s) - (i + 1) + 1 = Len(s) - i /\ i + 1 + k - 1 = i + k
      BY <1>1
    <3>2. b[k] = s[i + 1 + k - 1]
      BY <1>3, <3>1
    <3> QED
      BY <1>1, <3>1, <3>2
  <2> QED
    BY <1>1, <2>1, <2>2, <2>3
<1>7. PICK c : c = a \o b
  OBVIOUS
<1>8. a \in Seq(S) /\ b \in Seq(S)
  BY <1>2, <1>3
<1>9. /\ c \in Seq(S) /\ Len(c) = Len(a) + Len(b)
      /\ \A k \in 1 .. Len(a) + Len(b) : c[k] = IF k <= Len(a) THEN a[k] ELSE b[k - Len(a)]
  BY <1>7, <1>8, ConcatProperties
<1>10. /\ DOMAIN c = 1 .. Len(a) + Len(b) /\ DOMAIN a = 1..Len(a) /\ DOMAIN b = 1..Len(b)
       /\ Len(a) \in Nat /\ Len(b) \in Nat
  BY <1>8, <1>9, LenProperties
<1>11. \A k \in DOMAIN c : (k \in DOMAIN a /\ c[k] = a[k])
                          \/ (k - Len(a) \in DOMAIN b /\ c[k] = b[k - Len(a)])
  BY <1>9, <1>10
<1>12. \A k \in DOMAIN c : \E m \in DOMAIN s : c[k] = s[m]
  BY <1>5, <1>6, <1>11
<1>13. ASSUME NEW m \in DOMAIN s, m # i PROVE \E k \in DOMAIN c : c[k] = s[m]
  <2>0. Len(a) = i - 1 /\ Len(b) = Len(s) - i /\ m \in 1..Len(s)
    BY <1>1, <1>2, <1>3
  <2>1. CASE m < i
    <3>1. m \in DOMAIN c /\ m \in DOMAIN a /\ m <= Len(a)
      BY <1>1, <1>10, <2>0, <2>1
    <3>2. c[m] = a[m] /\ a[m] = s[m]
      BY <1>5, <1>9, <1>10, <3>1
    <3> QED
      BY <3>1, <3>2
  <2>2. CASE m > i
    <3>1. m - 1 \in DOMAIN c /\ m - i \in DOMAIN b /\ ~(m - 1 <= Len(a)) /\ m - 1 - Len(a) = m - i
      BY <1>1, <1>10, <2>0, <2>2
    <3>2. m - 1 \in 1 .. Len(a) + Len(b)
      BY <1>10, <3>1
    <3>3. c[m - 1] = b[m - 1 - Len(a)]
      BY <1>9, <3>1, <3>2
    <3>4. i + (m - i) = m
      BY <1>1, <2>0
    <3>5. b[m - i] = s[m]
      BY <1>6, <3>1, <3>4
    <3> QED
      BY <3>1, <3>3, <3>5
  <2> QED
    BY <1>1, <1>13, <2>0, <2>1, <2>2
<1>14. \A m \in DOMAIN s \ {i} : \E k \in DOMAIN c : c[k] = s[m]
  BY <1>13
<1>15. RemoveAt(s, i) = c /\ c \in Seq(S)
  BY <1>4, <1>7, <1>9
<1> QED
  BY <1>12, <1>14, <1>15

-----------------------------------------------------------------------------
(* What a step does to the client.                                         *)

\* A task of the front end's is submitted.
Pushed == \E j \in Jobs : j.holder = "pending" /\ jobs' = Append(jobs, j)

\* The rows are built again, after the filter was edited or not.
Rebuilt ==
    \E v \in VMs :
        /\ v = vm \/ \E on \in BOOLEAN : v = [vm EXCEPT !.filtered = on]
        /\ vm' = Rebuild(v)

DiffReady ==
    /\ posted # <<>> /\ Head(posted) = "diffReady"
    /\ posted' = Tail(posted) /\ vm' = DropPending(vm)
    /\ UNCHANGED <<facadeVars, jobs>>

Selects == \E row \in 1..MaxSnapshots : TuiSelect(row) \/ GuiSelect(row)

Previews ==
    /\ prompts = <<>> /\ \E id \in Snapshots : RequestPreview(id)
    /\ UNCHANGED <<facadeVars, posted>>

Works(i) ==
    \/ ListCall(i) \/ ListStore(i) \/ ListObserve(i) \/ ListPublish(i) \/ ListPost(i)
    \/ DiffDone(i) \/ MutationDone(i) \/ OtherDone(i)

Shared ==
    \/ UNCHANGED modelVars
    \/ Worker \/ Outage
    \/ /\ loop = "running"
       /\ \/ Pushed /\ UNCHANGED <<facadeVars, posted, vm>>
          \/ Rebuilt /\ (Pushed \/ UNCHANGED jobs) /\ UNCHANGED <<facadeVars, posted>>
          \/ Selects \/ Previews
          \/ RunRebuild \/ RunRefresh \/ RunRefreshAll \/ DiffReady

LEMMA PushesAJob ==
    ASSUME NEW kind \in JobKinds, NEW id \in Targets, Push(kind, id) PROVE Pushed
<1>1. Task(kind, id, "pending") \in Jobs /\ Task(kind, id, "pending").holder = "pending"
  BY DEF Task, Jobs, Custody, Steps
<1> QED
  BY <1>1 DEF Push, Pushed

LEMMA VerbPushesAJob ==
    ASSUME NEW verb, NEW id \in Targets, PushVerb(verb, id) PROVE Pushed \/ UNCHANGED jobs
<1>1. CASE verb \in {"restore", "delete", "create"} \/ (verb = "install" /\ ~Installing)
  <2>1. verb \in JobKinds /\ Push(verb, id)
    BY <1>1 DEF PushVerb, JobKinds
  <2> QED
    BY <2>1, PushesAJob
<1>2. CASE verb \notin {"restore", "delete", "create", "install"}
  <2>1. "verb" \in JobKinds /\ None \in Targets /\ Push("verb", None)
    BY <1>2 DEF PushVerb, JobKinds, Targets
  <2> QED
    BY <2>1, PushesAJob
<1>3. CASE verb = "install" /\ Installing
  BY <1>3 DEF PushVerb
<1> QED
  BY <1>1, <1>2, <1>3

\* The tab that is entered may be read again, the Snapshots tab is rebuilt as well.
LEMMA SwitchIsShared ==
    ASSUME ConsolesType, NEW t, loop = "running",
           vm' = IF t = "snapshots" THEN Rebuild(vm) ELSE vm,
           CASE t = "updates" -> Push("updates", None)
             [] t = "snapshots" -> Push("list", None)
             [] OTHER -> UNCHANGED jobs,
           UNCHANGED <<facadeVars, posted>>
    PROVE  Shared
<1>0. "updates" \in JobKinds /\ "list" \in JobKinds /\ None \in Targets /\ vm \in VMs
  BY DEF JobKinds, Targets, ConsolesType, ViewType
<1>1. CASE t = "snapshots"
  <2>1. Rebuilt
    BY <1>0, <1>1 DEF Rebuilt
  <2>2. Pushed
    <3>1. Push("list", None)
      BY <1>1
    <3> QED
      BY <1>0, <3>1, PushesAJob
  <2> QED
    BY <2>1, <2>2 DEF Shared
<1>2. CASE t = "updates"
  <2>1. Push("updates", None) /\ vm' = vm
    BY <1>2
  <2> QED
    BY <1>0, <2>1, PushesAJob DEF Shared
<1>3. CASE t # "snapshots" /\ t # "updates"
  BY <1>3 DEF Shared, modelVars
<1> QED
  BY <1>1, <1>2, <1>3

LEMMA FilterIsShared ==
    ASSUME ConsolesType, NEW on \in BOOLEAN, SetFilter(on), loop = "running" PROVE Shared
<1>1. [vm EXCEPT !.filtered = on] \in VMs
  BY DEF ConsolesType, ViewType, VMs
<1>2. Rebuilt
  BY <1>1 DEF Rebuilt, SetFilter
<1> QED
  BY <1>2 DEF SetFilter, Shared

LEMMA RefreshIsShared ==
    ASSUME Push("refresh", None) \/ Push("updates", None), UNCHANGED <<facadeVars, posted, vm>>,
           loop = "running"
    PROVE  Shared
<1>1. "updates" \in JobKinds /\ "refresh" \in JobKinds /\ None \in Targets
  BY DEF JobKinds, Targets
<1> QED
  BY <1>1, PushesAJob DEF Shared

LEMMA PreviewIsShared ==
    ASSUME ConsolesType, prompts = <<>>, loop = "running", UNCHANGED <<facadeVars, posted>>,
           NEW id \in {Selected(vm), Restorable(vm)} \ {None}, RequestPreview(id)
    PROVE  Shared /\ id \in Snapshots
<1>1. Selected(vm) \in Snapshots \cup {None}
  BY SelectedRow DEF ConsolesType, ViewType, VMs
<1>2. id \in Snapshots
  BY <1>1 DEF Restorable
<1> QED
  BY <1>2 DEF Shared, Previews

\* The answer to a prompt.
LEMMA YesIsShared ==
    ASSUME ConsolesType, prompts # <<>>, loop = "running", UNCHANGED <<facadeVars, posted, vm>>,
           IF Head(prompts).verb = "quit" THEN UNCHANGED jobs
           ELSE PushVerb(Head(prompts).verb, Head(prompts).target)
    PROVE  Shared
<1>1. Head(prompts).target \in Targets
  <2>1. Head(prompts) \in Asks
    BY TailOf DEF ConsolesType, PromptsType
  <2> QED
    BY <2>1 DEF Asks
<1> QED
  BY <1>1, VerbPushesAJob DEF Shared, modelVars

LEMMA StepIsShared ==
    ASSUME ConsolesType, Next PROVE Shared
<1>0. vm \in VMs /\ vm.filtered \in BOOLEAN
  BY DEF ConsolesType, ViewType, VMs
<1>1. CASE TuiKey
  <2>1. ASSUME NEW t \in Tabs, TuiSwitchTab(t) PROVE Shared
    BY <2>1, SwitchIsShared DEF TuiSwitchTab, ListKey, Input
  <2>2. CASE TuiFilterKey
    <3>1. loop = "running"
      BY <2>2 DEF TuiFilterKey, Input
    <3>2. UNCHANGED modelVars \/ \E on \in BOOLEAN : SetFilter(on)
      BY <1>0, <2>2 DEF TuiFilterKey
    <3> QED
      BY <3>1, <3>2, FilterIsShared DEF Shared
  <2>3. ASSUME NEW row \in 1..MaxSnapshots, TuiSelect(row) PROVE Shared
    BY <2>3 DEF TuiSelect, ListKey, Input, Shared, Selects
  <2>4. CASE \/ TuiFocusFilter \/ TuiDeviceVerb \/ TuiModuleVerb \/ TuiInstall \/ TuiCreate
             \/ TuiDelete \/ TuiQuit \/ TuiNo
    BY <2>4 DEF TuiFocusFilter, TuiDeviceVerb, TuiModuleVerb, TuiInstall, TuiCreate, TuiDelete,
                TuiAsk, TuiQuit, TuiNo, Shared
  <2>5. CASE TuiRestore
    BY <2>5, PreviewIsShared DEF TuiRestore, ListKey, Input
  <2>6. CASE TuiDiff
    <3>1. CASE diffFor # None
      BY <2>6, <3>1 DEF TuiDiff, Shared, modelVars
    <3>2. CASE diffFor = None
      BY <2>6, <3>2, PreviewIsShared DEF TuiDiff, ListKey, Input
    <3> QED
      BY <3>1, <3>2
  <2>7. CASE TuiHistory
    <3>1. Rebuilt
      BY <1>0, <2>7 DEF TuiHistory, Rebuilt
    <3> QED
      BY <2>7, <3>1 DEF TuiHistory, ListKey, Input, Shared
  <2>8. CASE TuiRefresh
    BY <2>8, RefreshIsShared DEF TuiRefresh, ListKey, Input
  <2>9. CASE TuiYes
    BY <2>9, YesIsShared DEF TuiYes, Tui
  <2> QED
    BY <1>1, <2>1, <2>2, <2>3, <2>4, <2>5, <2>6, <2>7, <2>8, <2>9 DEF TuiKey
<1>2. CASE GuiInput
  <2>1. ASSUME NEW t \in Tabs, GuiSwitchTab(t) PROVE Shared
    BY <2>1, SwitchIsShared DEF GuiSwitchTab, Click, Input
  <2>2. CASE GuiRows
    <3>1. loop = "running"
      BY <2>2 DEF GuiRows, Click, Input
    <3>2. \E on \in BOOLEAN : SetFilter(on)
      BY <1>0, <2>2 DEF GuiRows
    <3> QED
      BY <3>1, <3>2, FilterIsShared
  <2>3. ASSUME NEW row \in 1..MaxSnapshots, GuiSelect(row) PROVE Shared
    BY <2>3 DEF GuiSelect, Click, Input, Shared, Selects
  <2>4. CASE \/ GuiRefused \/ GuiDeviceVerb \/ GuiModuleVerb \/ GuiInstall \/ GuiCreate
             \/ GuiDelete \/ GuiClose \/ GuiNo
    BY <2>4 DEF GuiRefused, GuiDeviceVerb, GuiModuleVerb, GuiInstall, GuiCreate, GuiDelete,
                GuiAsk, GuiClose, GuiNo, Shared
  <2>5. CASE GuiRestore
    BY <2>5, PreviewIsShared DEF GuiRestore, Click, Input
  <2>6. CASE GuiDiff
    <3>1. CASE diffFor # None
      BY <2>6, <3>1 DEF GuiDiff, Shared, modelVars
    <3>2. CASE diffFor = None
      BY <2>6, <3>2, PreviewIsShared DEF GuiDiff, Click, Input
    <3> QED
      BY <3>1, <3>2
  <2>7. CASE GuiRefresh
    BY <2>7, RefreshIsShared DEF GuiRefresh, Click, Input
  <2>8. CASE GuiYes
    BY <2>8, YesIsShared DEF GuiYes, Gui
  <2> QED
    BY <1>2, <2>1, <2>2, <2>3, <2>4, <2>5, <2>6, <2>7, <2>8 DEF GuiInput
<1>3. CASE TuiDrain
  BY <1>3 DEF TuiDrain, Tui, Shared, DiffReady, NextPosted
<1>4. CASE GuiDrain
  BY <1>4 DEF GuiDrain, Gui, GuiDiffReady, Shared, DiffReady, NextPosted
<1>5. CASE Drain \/ Unwind \/ Gone
  BY <1>5 DEF Drain, Unwind, Gone, vars, Shared
<1>6. CASE Worker \/ Outage
  BY <1>6 DEF Shared
<1> QED
  BY <1>1, <1>2, <1>3, <1>4, <1>5, <1>6 DEF Next, Background

-----------------------------------------------------------------------------
(* The types of the client.                                                *)

\* The rows and the cursor of u are those of v.
SameRows(u, v) ==
    /\ u \in VMs
    /\ u.metas = v.metas /\ u.filtered = v.filtered /\ u.selected = v.selected /\ u.empty = v.empty

LEMMA SameRowsSameCursor ==
    ASSUME NEW v, NEW u, SameRows(u, v)
    PROVE  (OnARow(v) => OnARow(u)) /\ Selected(u) = Selected(v) /\ Shown(u) = Shown(v)
<1>1. Shown(u) = Shown(v) /\ Selected(u) = Selected(v)
  BY ShownDepends, SelectedDepends DEF SameRows
<1>2. RowCount(u) = RowCount(v)
  BY <1>1 DEF RowCount, SameRows
<1> QED
  BY <1>1, <1>2 DEF OnARow, SameRows

\* What the closures and the workers that touch the view model do to it.
Flagged == SameRows(vm', vm) /\ (vm'.preview = vm.preview \/ Previews)

\* The second half of the closure of a rebuild.
Rereads ==
    /\ vm.closure = "rebuild"
    /\ vm' = Rebuild([vm EXCEPT !.closure = "none"])
    /\ UNCHANGED <<facadeVars, jobs, posted>>

LEMMA ViewSteps ==
    ASSUME ConsolesType, Shared
    PROVE  \/ Flagged
           \/ Selects
           \/ Rebuilt \/ Rereads
<1>0. vm \in VMs
  BY DEF ConsolesType, ViewType
<1>1. CASE UNCHANGED vm
  BY <1>0, <1>1 DEF Flagged, SameRows
<1>2. CASE \/ vm' = [vm EXCEPT !.rebuildQueued = TRUE] \/ vm' = [vm EXCEPT !.refreshQueued = TRUE]
           \/ vm' = [vm EXCEPT !.rebuildQueued = FALSE, !.closure = "rebuild"]
           \/ vm' = [vm EXCEPT !.refreshQueued = FALSE, !.closure = "refresh"]
           \/ vm' = [vm EXCEPT !.closure = "none"] \/ vm' = [vm EXCEPT !.previewPending = FALSE]
  <2>1. SameRows(vm', vm) /\ vm'.preview = vm.preview
    BY <1>0, <1>2 DEF VMs, SameRows
  <2> QED
    BY <2>1 DEF Flagged
<1>4. CASE Previews
  <2>1. PICK id \in Snapshots : vm' = [vm EXCEPT !.preview = id, !.previewPending = TRUE]
    BY <1>4 DEF Previews, RequestPreview
  <2>2. SameRows(vm', vm)
    BY <1>0, <2>1 DEF VMs, SameRows
  <2> QED
    BY <1>4, <2>2 DEF Flagged
<1>5. CASE DiffReady \/ RunRebuild \/ RunRefresh \/ RunRefreshAll
  BY <1>1, <1>2, <1>5 DEF DiffReady, DropPending, RunRebuild, RunRefresh, RunRefreshAll, Rereads
<1>6. CASE Worker
  BY <1>1, <1>2, <1>6 DEF Worker, ListCall, ListStore, ListObserve, ListPublish, ListPost, DiffDone,
     MutationDone, OtherDone
<1>7. CASE Outage \/ UNCHANGED modelVars
  BY <1>1, <1>7 DEF Outage, modelVars
<1> QED
  BY <1>1, <1>4, <1>5, <1>6, <1>7 DEF Shared

\* Neither the filter nor the closure is part of the flags or of the cursor.
LEMMA RowsRead ==
    ASSUME vm \in VMs, Rebuilt \/ Rereads
    PROVE  \E v \in VMs :
             /\ vm' = Rebuild(v) /\ v.rebuildQueued = vm.rebuildQueued /\ v.preview = vm.preview
             /\ v.selected = vm.selected
<1>1. CASE Rebuilt
  <2>1. PICK v \in VMs :
          (v = vm \/ \E on \in BOOLEAN : v = [vm EXCEPT !.filtered = on]) /\ vm' = Rebuild(v)
    BY <1>1 DEF Rebuilt
  <2>2. v.rebuildQueued = vm.rebuildQueued /\ v.preview = vm.preview /\ v.selected = vm.selected
    BY <2>1 DEF VMs
  <2> QED
    BY <2>1, <2>2
<1>2. CASE Rereads
  <2> DEFINE v == [vm EXCEPT !.closure = "none"]
  <2>1. /\ v \in VMs /\ v.rebuildQueued = vm.rebuildQueued /\ v.preview = vm.preview
        /\ v.selected = vm.selected
    BY DEF VMs
  <2>2. vm' = Rebuild(v)
    BY <1>2 DEF Rereads
  <2> QED
    BY <2>1, <2>2
<1> QED
  BY <1>1, <1>2

LEMMA CursorPositive ==
    ASSUME ConsolesType PROVE vm.selected >= 1
<1>1. RowCount(vm) \in Nat /\ vm.selected \in Nat
  BY RowsFinite DEF ConsolesType, ViewType, RowCount, VMs
<1>2. vm.selected = 1 \/ vm.selected \in 1..RowCount(vm)
  BY DEF ConsolesType, ViewType, OnARow
<1> QED
  BY <1>1, <1>2

LEMMA StepKeepsView ==
    ASSUME ConsolesType, Shared PROVE ViewType'
<1>0. vm \in VMs /\ OnARow(vm) /\ list \subseteq Snapshots /\ RowCount(vm) \in Nat
  <2>1. vm \in VMs /\ OnARow(vm) /\ list \subseteq Snapshots /\ vm.metas \subseteq Snapshots
    BY DEF ConsolesType, ViewType, FacadeType, VMs
  <2>2. RowCount(vm) \in Nat
    BY <2>1, RowsFinite DEF RowCount
  <2> QED
    BY <2>1, <2>2
<1>1. vm.selected >= 1
  BY CursorPositive
<1>2. CASE Flagged
  <2>1. vm' \in VMs /\ OnARow(vm')
    BY <1>0, <1>2, SameRowsSameCursor DEF Flagged, SameRows
  <2> QED
    BY <2>1 DEF ViewType
<1>3. CASE Selects
  <2>1. PICK row \in 1..RowCount(vm) : vm' = [vm EXCEPT !.selected = row]
    BY <1>3 DEF Selects, TuiSelect, GuiSelect, Select
  <2>2. /\ vm' \in VMs /\ vm'.selected = row
        /\ vm'.metas = vm.metas /\ vm'.filtered = vm.filtered /\ vm'.empty = vm.empty
    <3>1. row \in Nat
      BY <1>0
    <3> QED
      BY <1>0, <2>1, <3>1 DEF VMs
  <2>3. RowCount(vm') = RowCount(vm)
    BY <2>2, ShownDepends DEF RowCount
  <2>4. OnARow(vm')
    BY <2>2, <2>3 DEF OnARow
  <2> QED
    BY <2>2, <2>4 DEF ViewType
<1>4. CASE Rebuilt \/ Rereads
  <2>1. PICK v \in VMs : vm' = Rebuild(v) /\ v.selected >= 1
    BY <1>0, <1>1, <1>4, RowsRead
  <2>2. vm' \in VMs /\ OnARow(vm')
    BY <1>0, <2>1, RebuildKeeps
  <2> QED
    BY <2>2 DEF ViewType
<1> QED
  BY <1>2, <1>3, <1>4, ViewSteps

LEMMA JobTypes ==
    ASSUME jobs \in Seq(Jobs), NEW i \in DOMAIN jobs
    PROVE  jobs[i] \in Jobs
BY LenProperties, ElementOfSeq

LEMMA StepKeepsFacade ==
    ASSUME ConsolesType, Shared PROVE FacadeType'
<1>0. FacadeType /\ jobs \in Seq(Jobs)
  BY DEF ConsolesType, QueuesType
<1>1. CASE UNCHANGED facadeVars
  BY <1>0, <1>1 DEF FacadeType, facadeVars
<1>2. CASE Worker
  <2>1. PICK i \in DOMAIN jobs :
          Works(i)
    BY <1>2 DEF Worker, Works
  <2>2. CASE ListCall(i) \/ ListPublish(i) \/ ListPost(i)
    BY <1>1, <2>2 DEF ListCall, ListPublish, ListPost
  <2>3. CASE ListStore(i)
    <3>1. list' \subseteq Snapshots
      BY <1>0, <2>3, JobTypes DEF ListStore, Listing, Jobs
    <3> QED
      BY <1>0, <2>3, <3>1 DEF ListStore, FacadeType
  <2>7. CASE ListObserve(i)
    BY <1>0, <2>7 DEF ListObserve, FacadeType
  <2>4. CASE DiffDone(i)
    BY <1>0, <2>4 DEF DiffDone, FacadeType
  <2>5. CASE MutationDone(i)
    <3>1. stored' \subseteq Snapshots
      BY <1>0, <2>5 DEF MutationDone, StoredAfter, FacadeType
    <3>2. daemonError' \in BOOLEAN
      BY <1>0, <2>5 DEF MutationDone, FacadeType
    <3> QED
      BY <1>0, <2>5, <3>1, <3>2 DEF MutationDone, FacadeType
  <2>6. CASE OtherDone(i)
    <3>1. daemonError' \in BOOLEAN
      BY <1>0, <2>6 DEF OtherDone, FacadeType
    <3> QED
      BY <1>0, <2>6, <3>1 DEF OtherDone, FacadeType
  <2> QED
    BY <2>1, <2>2, <2>3, <2>4, <2>5, <2>6, <2>7 DEF Works
<1>3. CASE Outage
  BY <1>0, <1>3 DEF Outage, FacadeType
<1>4. UNCHANGED facadeVars \/ Worker \/ Outage
  BY DEF Shared, modelVars, Selects, TuiSelect, GuiSelect, Select, Previews, RunRebuild, RunRefresh,
         RunRefreshAll, DiffReady
<1> QED
  BY <1>1, <1>2, <1>3, <1>4

\* What a worker does to its job: it is a step further, or it is done.  The other
\* jobs stay.
LEMMA WorkerJobs ==
    ASSUME jobs \in Seq(Jobs), stored \subseteq Snapshots, NEW i \in DOMAIN jobs, Works(i)
    PROVE  /\ jobs' \in Seq(Jobs)
           /\ \A k \in DOMAIN jobs' :
                \E m \in DOMAIN jobs :
                  jobs'[k].kind = jobs[m].kind /\ jobs'[k].holder = jobs[m].holder
           /\ \A m \in DOMAIN jobs \ {i} : \E k \in DOMAIN jobs' : jobs'[k] = jobs[m]
           /\ \A step \in Steps :
                Goes(i, step) => i \in DOMAIN jobs' /\ jobs'[i] = [jobs[i] EXCEPT !.at = step]
<1>0. jobs[i] \in Jobs
  BY JobTypes
<1>1. ASSUME NEW j \in Jobs, j.kind = jobs[i].kind, j.holder = jobs[i].holder,
             jobs' = [jobs EXCEPT ![i] = j]
      PROVE  /\ jobs' \in Seq(Jobs)
             /\ \A k \in DOMAIN jobs' :
                  \E m \in DOMAIN jobs :
                    jobs'[k].kind = jobs[m].kind /\ jobs'[k].holder = jobs[m].holder
             /\ \A m \in DOMAIN jobs \ {i} : \E k \in DOMAIN jobs' : jobs'[k] = jobs[m]
  <2>1. jobs' \in Seq(Jobs) /\ DOMAIN jobs' = DOMAIN jobs
    BY <1>1, ExceptSeq
  <2>2. \A k \in DOMAIN jobs' : jobs'[k].kind = jobs[k].kind /\ jobs'[k].holder = jobs[k].holder
    BY <1>1, <2>1
  <2>3. \A m \in DOMAIN jobs \ {i} : m \in DOMAIN jobs' /\ jobs'[m] = jobs[m]
    BY <1>1, <2>1
  <2> QED
    BY <2>1, <2>2, <2>3
<1>5. \A step \in Steps :
        Goes(i, step) => i \in DOMAIN jobs' /\ jobs'[i] = [jobs[i] EXCEPT !.at = step]
  BY DEF Goes
<1>2. CASE ListCall(i)
  <2> DEFINE a == IF reachable THEN stored ELSE NoAnswer
             next == IF reachable THEN "store" ELSE "observe"
             j == [jobs[i] EXCEPT !.answer = a, !.at = next]
  <2>1. /\ a \in (SUBSET Snapshots) \cup {None, NoAnswer} /\ next \in Steps
        /\ next = "store" => a \subseteq Snapshots
    BY DEF Steps
  <2>2. jobs' = [jobs EXCEPT ![i] = j]
    BY <1>2 DEF ListCall
  <2> HIDE DEF a, next
  <2>3. j \in Jobs /\ j.kind = jobs[i].kind /\ j.holder = jobs[i].holder
    BY <1>0, <2>1 DEF Jobs
  <2> HIDE DEF j
  <2> QED
    BY <1>1, <1>5, <2>2, <2>3
<1>3. CASE Finished(i)
  <2>1. /\ jobs' \in Seq(Jobs) /\ \A k \in DOMAIN jobs' : \E m \in DOMAIN jobs : jobs'[k] = jobs[m]
        /\ \A m \in DOMAIN jobs \ {i} : \E k \in DOMAIN jobs' : jobs'[k] = jobs[m]
    BY <1>3, RemoveFrom DEF Finished
  <2> QED
    BY <1>5, <2>1
<1>4. ASSUME NEW step \in Steps \ {"store"}, Goes(i, step)
      PROVE  /\ jobs' \in Seq(Jobs)
             /\ \A k \in DOMAIN jobs' :
                  \E m \in DOMAIN jobs :
                    jobs'[k].kind = jobs[m].kind /\ jobs'[k].holder = jobs[m].holder
             /\ \A m \in DOMAIN jobs \ {i} : \E k \in DOMAIN jobs' : jobs'[k] = jobs[m]
  <2> DEFINE j == [jobs[i] EXCEPT !.at = step]
  <2>1. j \in Jobs /\ j.kind = jobs[i].kind /\ j.holder = jobs[i].holder
    BY <1>0 DEF Jobs
  <2>2. jobs' = [jobs EXCEPT ![i] = j]
    BY <1>4 DEF Goes
  <2> HIDE DEF j
  <2> QED
    BY <1>1, <2>1, <2>2
<1>6. \/ ListCall(i) \/ Finished(i) \/ Goes(i, "observe") \/ Goes(i, "publish") \/ Goes(i, "post")
  BY DEF Works, ListStore, ListObserve, ListPublish, ListPost, DiffDone, MutationDone, OtherDone
<1>7. {"observe", "publish", "post"} \subseteq Steps \ {"store"}
  BY DEF Steps
<1> QED
  BY <1>2, <1>3, <1>4, <1>5, <1>6, <1>7

\* A worker appends to the closures.
LEMMA WorkerPosts ==
    ASSUME posted \in Seq(Closures), Worker
    PROVE  /\ posted' \in Seq(Closures)
           /\ HasRebuild => HasRebuild'
           /\ \A i \in DOMAIN jobs : ListPost(i) => HasRebuild'
<1>1. ASSUME NEW x \in Seq(Closures), posted' = posted \o x
      PROVE  /\ posted' \in Seq(Closures) /\ (HasRebuild => HasRebuild')
  <2>1. /\ posted' \in Seq(Closures) /\ Len(posted') = Len(posted) + Len(x)
        /\ \A k \in 1 .. Len(posted) + Len(x) :
             posted'[k] = IF k <= Len(posted) THEN posted[k] ELSE x[k - Len(posted)]
    BY <1>1, ConcatProperties
  <2>2. /\ DOMAIN posted = 1..Len(posted) /\ DOMAIN posted' = 1 .. Len(posted) + Len(x)
        /\ Len(posted) \in Nat /\ Len(x) \in Nat
    BY <2>1, LenProperties
  <2>3. HasRebuild => HasRebuild'
    BY <2>1, <2>2 DEF HasRebuild
  <2> QED
    BY <2>1, <2>3
<1>2. /\ <<>> \in Seq(Closures) /\ <<"refresh">> \in Seq(Closures)
      /\ "diffReady" \in Closures /\ "refreshAll" \in Closures /\ "rebuild" \in Closures
  BY DEF Closures
<1>3. PICK i \in DOMAIN jobs : Works(i)
  BY DEF Worker, Works
<1>4. ASSUME UNCHANGED posted PROVE posted' \in Seq(Closures) /\ (HasRebuild => HasRebuild')
  BY <1>4 DEF HasRebuild
<1>5. ASSUME NEW c \in Closures, posted' = Append(posted, c)
      PROVE  posted' \in Seq(Closures) /\ (HasRebuild => HasRebuild')
  BY <1>5, AppendTo DEF HasRebuild
<1>6. posted' \in Seq(Closures) /\ (HasRebuild => HasRebuild')
  <2>1. CASE ListPost(i)
    BY <1>2, <1>5, <2>1 DEF ListPost
  <2>2. CASE MutationDone(i) /\ posted' # posted
    <3>1. posted' = (posted \o <<"refreshAll">>) \o RefreshPost
      BY <2>2 DEF MutationDone
    <3>2. <<"refreshAll">> \o RefreshPost \in Seq(Closures)
      <4>1. <<"refreshAll">> \in Seq(Closures) /\ RefreshPost \in Seq(Closures)
        BY <1>2 DEF RefreshPost
      <4> QED
        BY <4>1, ConcatProperties
    <3>3. posted' = posted \o (<<"refreshAll">> \o RefreshPost)
      <4>1. <<"refreshAll">> \in Seq(Closures) /\ RefreshPost \in Seq(Closures)
        BY <1>2 DEF RefreshPost
      <4> QED
        BY <3>1, <4>1, ConcatAssociative
    <3> QED
      BY <1>1, <3>2, <3>3
  <2>3. CASE DiffDone(i) \/ OtherDone(i)
    <3>1. posted' = posted \/ posted' = Append(posted, "diffReady") \/ posted' = Append(posted, "refreshAll")
      BY <2>3 DEF DiffDone, OtherDone
    <3> QED
      BY <1>2, <1>4, <1>5, <3>1 DEF HasRebuild
  <2>4. CASE ListCall(i) \/ ListStore(i) \/ ListObserve(i) \/ ListPublish(i)
    BY <1>4, <2>4 DEF ListCall, ListStore, ListObserve, ListPublish
  <2> QED
    BY <1>3, <1>4, <2>1, <2>2, <2>3, <2>4 DEF Works
<1>7. ASSUME NEW k \in DOMAIN jobs, ListPost(k) PROVE HasRebuild'
  BY <1>2, <1>7, AppendTo DEF ListPost, HasRebuild
<1> QED
  BY <1>6, <1>7

LEMMA StepKeepsQueues ==
    ASSUME ConsolesType, Shared PROVE QueuesType'
<1>0. jobs \in Seq(Jobs) /\ posted \in Seq(Closures) /\ stored \subseteq Snapshots
  BY DEF ConsolesType, QueuesType, FacadeType
<1>1. jobs' \in Seq(Jobs)
  <2>1. CASE \E j \in Jobs : jobs' = Append(jobs, j)
    BY <1>0, <2>1, AppendTo
  <2>2. UNCHANGED jobs \/ Worker \/ \E j \in Jobs : jobs' = Append(jobs, j)
    <3>1. \A id \in Snapshots : Task("diff", id, "vm") \in Jobs
      BY DEF Task, Jobs, JobKinds, Targets, Custody, Steps
    <3>2. Task("list", None, "vm") \in Jobs /\ Task("refresh", None, "pending") \in Jobs
      BY DEF Task, Jobs, JobKinds, Targets, Custody, Steps
    <3> QED
      BY <3>1, <3>2 DEF Shared, modelVars, Outage, Pushed, Selects, TuiSelect, GuiSelect, Select,
         Previews, RequestPreview, RunRebuild, RunRefresh, RunRefreshAll, DiffReady
  <2> QED
    BY <1>0, <2>1, <2>2, WorkerJobs DEF Worker, Works
<1>2. posted' \in Seq(Closures)
  <2>1. CASE posted # <<>> /\ posted' = Tail(posted)
    BY <1>0, <2>1, TailOf
  <2>2. UNCHANGED posted \/ Worker \/ (posted # <<>> /\ posted' = Tail(posted))
    BY DEF Shared, modelVars, Outage, Selects, TuiSelect, GuiSelect, Select,
         Previews, RunRebuild, RunRefresh, RunRefreshAll, DiffReady, NextPosted
  <2> QED
    BY <1>0, <2>1, <2>2, WorkerPosts
<1> QED
  BY <1>1, <1>2 DEF QueuesType

-----------------------------------------------------------------------------
(* The rows follow, the futures are kept.                                  *)

\* A task that is done, or one step further, keeps what another task is about to do.
LEMMA OthersGoOn ==
    ASSUME ConsolesType, NEW i \in DOMAIN jobs, Works(i)
    PROVE  /\ ~Listing(i, "post") => (Posting => Posting')
           /\ ~(Listing(i, "observe") \/ Listing(i, "publish") \/ Listing(i, "post"))
                => (Ahead => Ahead')
           /\ Listing(i, "publish") /\ Goes(i, "post") => Posting'
           /\ jobs[i].kind = "list" /\ (Goes(i, "observe") \/ Goes(i, "publish") \/ Goes(i, "post"))
                => Ahead'
<1>1. /\ jobs[i] \in Jobs
      /\ \A m \in DOMAIN jobs \ {i} : \E k \in DOMAIN jobs' : jobs'[k] = jobs[m]
      /\ \A step \in Steps :
           Goes(i, step) => i \in DOMAIN jobs' /\ jobs'[i] = [jobs[i] EXCEPT !.at = step]
  BY WorkerJobs, JobTypes DEF ConsolesType, QueuesType, FacadeType
<1>2. ASSUME NEW step \in Steps, Goes(i, step)
      PROVE  i \in DOMAIN jobs' /\ jobs'[i].kind = jobs[i].kind /\ jobs'[i].at = step
  BY <1>1, <1>2 DEF Jobs
<1>3. ASSUME Posting, ~Listing(i, "post") PROVE Posting'
  <2>1. PICK m \in DOMAIN jobs : Listing(m, "post")
    BY <1>3 DEF Posting
  <2>2. PICK k \in DOMAIN jobs' : jobs'[k] = jobs[m]
    BY <1>1, <1>3, <2>1
  <2> QED
    BY <2>1, <2>2 DEF Posting, Listing
<1>4. ASSUME Ahead, ~(Listing(i, "observe") \/ Listing(i, "publish") \/ Listing(i, "post"))
      PROVE  Ahead'
  <2>1. PICK m \in DOMAIN jobs :
          jobs[m].kind = "list" /\ jobs[m].at \in {"observe", "publish", "post"}
    BY <1>4 DEF Ahead
  <2>2. PICK k \in DOMAIN jobs' : jobs'[k] = jobs[m]
    BY <1>1, <1>4, <2>1 DEF Listing
  <2> QED
    BY <2>1, <2>2 DEF Ahead
<1>5. {"observe", "publish", "post"} \subseteq Steps
  BY DEF Steps
<1> QED
  BY <1>2, <1>3, <1>4, <1>5 DEF Posting, Ahead, Listing

LEMMA AppendGoesOn ==
    ASSUME jobs \in Seq(Jobs), UNCHANGED jobs \/ \E j \in Jobs : jobs' = Append(jobs, j)
    PROVE  (Posting => Posting') /\ (Ahead => Ahead')
<1>1. \A m \in DOMAIN jobs : m \in DOMAIN jobs' /\ jobs'[m] = jobs[m]
  BY AppendTo
<1> QED
  BY <1>1 DEF Posting, Ahead, Listing

\* The steps of a list task: whoever sets the flag posts the rebuild, and whoever
\* finds it set leaves the rebuild to the one who did.
LEMMA WorkerKeepsAnnounced ==
    ASSUME ConsolesType, Announced, NEW i \in DOMAIN jobs, Works(i) PROVE Announced'
<1>0. vm \in VMs
  BY DEF ConsolesType, ViewType
<1>1. HasRebuild => HasRebuild'
  BY WorkerPosts DEF ConsolesType, QueuesType, Worker, Works
<1>2. CASE ListStore(i)
  <2>1. Ahead' /\ (Posting => Posting') /\ UNCHANGED vm
    BY <1>2, OthersGoOn DEF ListStore, Listing
  <2> QED
    BY <1>1, <2>1 DEF Announced
<1>3. CASE ListObserve(i)
  <2>1. Ahead' /\ (Posting => Posting') /\ UNCHANGED vm
    BY <1>3, OthersGoOn DEF ListObserve, Listing
  <2> QED
    BY <1>1, <2>1 DEF Announced
<1>4. CASE ListPublish(i)
  <2>1. CASE vm.rebuildQueued
    <3>1. HasRebuild' \/ Posting'
      BY <1>1, <1>4, <2>1, OthersGoOn DEF Announced, ListPublish, Listing
    <3> QED
      BY <3>1 DEF Announced, Posting, Ahead, Listing
  <2>2. CASE ~vm.rebuildQueued
    <3>1. Posting'
      BY <1>4, <2>2, OthersGoOn DEF ListPublish
    <3> QED
      BY <3>1 DEF Announced, Posting, Ahead, Listing
  <2> QED
    BY <2>1, <2>2
<1>5. CASE ListPost(i)
  <2>1. HasRebuild'
    BY <1>5, WorkerPosts DEF ConsolesType, QueuesType, Worker
  <2> QED
    BY <2>1 DEF Announced
<1>6. CASE ListCall(i) \/ DiffDone(i) \/ MutationDone(i) \/ OtherDone(i)
  <2>1. list' = list
    BY <1>6 DEF ListCall, DiffDone, MutationDone, OtherDone, facadeVars
  <2>2. vm' = vm \/ vm' = [vm EXCEPT !.refreshQueued = TRUE]
    BY <1>6 DEF ListCall, DiffDone, MutationDone, OtherDone
  <2>3. vm'.rebuildQueued = vm.rebuildQueued /\ vm'.metas = vm.metas /\ vm'.closure = vm.closure
    BY <1>0, <2>2 DEF VMs
  <2>4. ~(Listing(i, "observe") \/ Listing(i, "publish") \/ Listing(i, "post"))
    BY <1>6 DEF ListCall, DiffDone, MutationDone, OtherDone, Listing
  <2>5. (Posting => Posting') /\ (Ahead => Ahead')
    BY <2>4, OthersGoOn
  <2> QED
    BY <1>1, <2>1, <2>3, <2>5 DEF Announced
<1> QED
  BY <1>2, <1>3, <1>4, <1>5, <1>6 DEF Works

LEMMA StepKeepsAnnounced ==
    ASSUME ConsolesType, Announced, Shared PROVE Announced'
<1>0. /\ vm \in VMs /\ list \subseteq Snapshots /\ posted \in Seq(Closures) /\ jobs \in Seq(Jobs)
  BY DEF ConsolesType, QueuesType, ViewType, FacadeType
<1>1. ASSUME vm'.rebuildQueued = vm.rebuildQueued, vm'.metas = vm.metas, list' = list,
             vm.closure = "rebuild" => vm'.closure = "rebuild",
             HasRebuild => HasRebuild', UNCHANGED jobs \/ \E j \in Jobs : jobs' = Append(jobs, j)
      PROVE  Announced'
  BY <1>0, <1>1, AppendGoesOn DEF Announced
<1>2. CASE UNCHANGED <<vm, posted, list>> /\ (UNCHANGED jobs \/ Pushed)
  BY <1>1, <1>2 DEF HasRebuild, Pushed
<1>3. CASE Worker
  BY <1>3, WorkerKeepsAnnounced DEF Worker, Works
<1>4. CASE Rereads \/ (Rebuilt /\ (Pushed \/ UNCHANGED jobs) /\ UNCHANGED <<facadeVars, posted>>)
  <2>1. list' = list /\ posted' = posted /\ (Posting => Posting')
    BY <1>0, <1>4, AppendGoesOn DEF Rereads, Pushed, facadeVars
  <2>2. vm.selected >= 1
    BY CursorPositive
  <2>3. vm'.metas = list /\ vm'.rebuildQueued = vm.rebuildQueued
    BY <1>0, <1>4, <2>2, RowsRead, RebuildKeeps
  <2> QED
    BY <2>1, <2>3 DEF Announced, HasRebuild
<1>5. CASE RunRebuild /\ ~Rereads
  <2>1. vm' = [vm EXCEPT !.rebuildQueued = FALSE, !.closure = "rebuild"]
    BY <1>5 DEF RunRebuild, Rereads
  <2>2. vm'.rebuildQueued = FALSE /\ vm'.closure = "rebuild"
    BY <1>0, <2>1 DEF VMs
  <2> QED
    BY <2>2 DEF Announced
<1>6. CASE Selects \/ Previews
  <2>1. UNCHANGED <<list, posted>> /\ (UNCHANGED jobs \/ \E j \in Jobs : jobs' = Append(jobs, j))
    <3>1. \A id \in Snapshots : Task("diff", id, "vm") \in Jobs
      BY DEF Task, Jobs, JobKinds, Targets, Custody, Steps
    <3> QED
      BY <1>6, <3>1 DEF Selects, TuiSelect, GuiSelect, Select, facadeVars, Previews, RequestPreview
  <2>2. \/ \E row : vm' = [vm EXCEPT !.selected = row]
        \/ \E id : vm' = [vm EXCEPT !.preview = id, !.previewPending = TRUE]
    BY <1>6 DEF Selects, TuiSelect, GuiSelect, Select, Previews, RequestPreview
  <2>3. vm'.rebuildQueued = vm.rebuildQueued /\ vm'.metas = vm.metas /\ vm'.closure = vm.closure
    BY <1>0, <2>2 DEF VMs
  <2> QED
    BY <1>1, <2>1, <2>3 DEF HasRebuild
<1>7. CASE (NextPosted("refresh") /\ RunRefresh) \/ RunRefreshAll \/ DiffReady
  <2>1. posted # <<>> /\ posted' = Tail(posted) /\ Head(posted) # "rebuild"
    BY <1>7 DEF RunRefresh, RunRefreshAll, DiffReady, NextPosted, InNoClosure
  <2>2. ASSUME HasRebuild PROVE HasRebuild'
    <3>1. PICK i \in DOMAIN posted : posted[i] = "rebuild"
      BY <2>2 DEF HasRebuild
    <3>2. i # 1
      BY <1>0, <2>1, <3>1, TailOf
    <3>3. i - 1 \in DOMAIN posted' /\ posted'[i - 1] = "rebuild"
      BY <1>0, <2>1, <3>1, <3>2, TailOf
    <3> QED
      BY <3>3 DEF HasRebuild
  <2>3. list' = list /\ (UNCHANGED jobs \/ \E j \in Jobs : jobs' = Append(jobs, j))
    <3>1. Task("refresh", None, "pending") \in Jobs
      BY DEF Task, Jobs, JobKinds, Targets, Custody, Steps
    <3> QED
      BY <1>7, <3>1 DEF RunRefresh, RunRefreshAll, DiffReady, NextPosted, InNoClosure, facadeVars
  <2>4. \/ vm' = vm
        \/ vm.closure = "none" /\ vm' = [vm EXCEPT !.refreshQueued = FALSE, !.closure = "refresh"]
        \/ vm' = [vm EXCEPT !.previewPending = FALSE]
    BY <1>7 DEF RunRefresh, RunRefreshAll, DiffReady, DropPending, NextPosted, InNoClosure
  <2>5. /\ vm'.rebuildQueued = vm.rebuildQueued /\ vm'.metas = vm.metas
        /\ vm.closure = "rebuild" => vm'.closure = "rebuild"
    BY <1>0, <2>4 DEF VMs
  <2> QED
    BY <1>1, <2>2, <2>3, <2>5
<1>8. CASE RunRefresh /\ ~NextPosted("refresh")
  <2>1. /\ vm.closure = "refresh" /\ vm' = [vm EXCEPT !.closure = "none"]
        /\ jobs' = Append(jobs, Task("list", None, "vm")) /\ UNCHANGED <<list, posted>>
    BY <1>8 DEF RunRefresh, facadeVars
  <2>2. Task("list", None, "vm") \in Jobs
    BY DEF Task, Jobs, JobKinds, Targets, Custody, Steps
  <2>3. /\ vm'.rebuildQueued = vm.rebuildQueued /\ vm'.metas = vm.metas
    BY <1>0, <2>1 DEF VMs
  <2> QED
    BY <1>1, <2>1, <2>2, <2>3 DEF HasRebuild
<1>9. \/ UNCHANGED <<vm, posted, list>> /\ (UNCHANGED jobs \/ Pushed)
      \/ Worker \/ RunRebuild
      \/ (Rebuilt /\ (Pushed \/ UNCHANGED jobs) /\ UNCHANGED <<facadeVars, posted>>)
      \/ Selects \/ Previews \/ RunRefresh \/ RunRefreshAll \/ DiffReady
  BY DEF Shared, modelVars, facadeVars, Outage
<1> QED
  BY <1>2, <1>3, <1>4, <1>5, <1>6, <1>7, <1>8, <1>9

LEMMA LoopSteps ==
    ASSUME Next
    PROVE  \/ UNCHANGED loop
           \/ loop = "running" /\ loop' = "stopping" /\ UNCHANGED jobs
           \/ Drain \/ Unwind
<1>1. CASE TuiKey
  BY <1>1 DEF TuiKey, TuiSwitchTab, TuiFocusFilter, TuiFilterKey, TuiSelect, TuiDeviceVerb,
     TuiModuleVerb, TuiInstall, TuiCreate, TuiDelete, TuiAsk, TuiRestore, TuiDiff, TuiHistory,
     TuiRefresh, TuiQuit, TuiYes, TuiNo, ListKey, Input, Tui, modelVars
<1>2. CASE GuiInput
  BY <1>2 DEF GuiInput, GuiSwitchTab, GuiSelect, GuiRows, GuiRefused, GuiDeviceVerb,
     GuiModuleVerb, GuiInstall, GuiCreate, GuiDelete, GuiAsk, GuiRestore, GuiDiff, GuiRefresh,
     GuiClose, GuiYes, GuiNo, Click, Input, Gui, modelVars
<1>3. CASE Background \/ (Outage /\ UNCHANGED shellVars) \/ Gone
  BY <1>3 DEF Background, TuiDrain, GuiDrain, GuiDiffReady, Gone, vars, shellVars
<1> QED
  BY <1>1, <1>2, <1>3 DEF Next

LEMMA StepKeepsFutures ==
    ASSUME ConsolesType, Kept, Next PROVE Kept'
<1>0. jobs \in Seq(Jobs) /\ stored \subseteq Snapshots /\ Shared
  BY StepIsShared DEF ConsolesType, QueuesType, FacadeType
<1>1. CASE Drain \/ Unwind
  <2>1. UNCHANGED jobs /\ \A i \in DOMAIN jobs : jobs[i].holder \in {"pending", "vm"}
    BY <1>0, <1>1, JobTypes DEF Drain, Unwind, modelVars, Jobs, Custody
  <2>2. CASE Drain
    BY <2>1, <2>2 DEF Drain, Kept
  <2>3. CASE Unwind
    <3>1. DOMAIN jobs = {}
      BY <2>1, <2>3 DEF Unwind, Running, Kept
    <3>2. jobs = <<>>
      BY <1>0, <3>1, LenProperties, EmptySeq
    <3> QED
      BY <2>1, <2>3, <3>1, <3>2 DEF Unwind, Kept
  <2> QED
    BY <1>1, <2>2, <2>3
<1>2. CASE UNCHANGED jobs /\ (UNCHANGED loop \/ loop' = "stopping")
  BY <1>2 DEF Kept
<1>3. CASE Worker /\ UNCHANGED loop
  <2>1. \A k \in DOMAIN jobs' :
          \E m \in DOMAIN jobs : jobs'[k].kind = jobs[m].kind /\ jobs'[k].holder = jobs[m].holder
    BY <1>0, <1>3, WorkerJobs DEF Worker, Works
  <2>2. DOMAIN jobs # {}
    BY <1>3 DEF Worker
  <2>3. loop # "gone"
    BY <1>0, <2>2, EmptySeq DEF Kept
  <2> QED
    BY <1>3, <2>1, <2>3 DEF Kept
<1>4. ASSUME NEW j \in Jobs, jobs' = Append(jobs, j), j.holder = "vm" => j.kind \in {"list", "diff"},
             loop = "running", UNCHANGED loop
      PROVE  Kept'
  <2>1. \A k \in DOMAIN jobs' : (k \in DOMAIN jobs /\ jobs'[k] = jobs[k]) \/ jobs'[k] = j
    BY <1>0, <1>4, AppendTo
  <2> QED
    BY <1>4, <2>1 DEF Kept
<1>5. \/ UNCHANGED jobs \/ Worker
      \/ /\ loop = "running"
         /\ \E j \in Jobs : /\ jobs' = Append(jobs, j)
                            /\ j.holder = "vm" => j.kind \in {"list", "diff"}
  <2>1. \A id \in Snapshots : Task("diff", id, "vm") \in Jobs /\ Task("diff", id, "vm").kind = "diff"
    BY DEF Task, Jobs, JobKinds, Targets, Custody, Steps
  <2>2. /\ Task("list", None, "vm") \in Jobs /\ Task("list", None, "vm").kind = "list"
        /\ Task("refresh", None, "pending") \in Jobs /\ Task("refresh", None, "pending").holder # "vm"
    BY DEF Task, Jobs, JobKinds, Targets, Custody, Steps
  <2>3. CASE Pushed
    BY <1>0, <2>3 DEF Pushed, Shared, modelVars, Outage, Selects, TuiSelect, GuiSelect, Select,
       Previews, RequestPreview, RunRebuild, RunRefresh, RunRefreshAll, DiffReady
  <2>4. CASE ~Pushed
    BY <1>0, <2>1, <2>2, <2>4 DEF Shared, modelVars, Outage, Selects, TuiSelect, GuiSelect,
       Select, Previews, RequestPreview, RunRebuild, RunRefresh, RunRefreshAll, DiffReady
  <2> QED
    BY <2>3, <2>4
<1>6. UNCHANGED loop \/ (loop' = "stopping" /\ UNCHANGED jobs) \/ Drain \/ Unwind
  BY LoopSteps
<1> QED
  BY <1>1, <1>2, <1>3, <1>4, <1>5, <1>6

-----------------------------------------------------------------------------
(* The prompts.                                                            *)

\* A verb asks; a restore in the terminal opens its preview.
Asking ==
    /\ prompts = <<>> /\ UNCHANGED submitted
    /\ \E verb \in Verbs, target \in Targets :
         /\ prompts' = <<Ask(verb, target)>>
         /\ surface = "tui" /\ verb = "restore" => target = vm'.preview

\* The user agrees, or does not.
Answering ==
    /\ prompts # <<>> /\ prompts' = Tail(prompts) /\ UNCHANGED vm
    /\ \/ UNCHANGED submitted
       \/ submitted' = Asked(Head(prompts).verb, Head(prompts).target)

\* The diff of a restore lands in the Qt front end.
Opening ==
    /\ surface = "gui" /\ UNCHANGED submitted
    /\ prompts' = <<[verb |-> "restore", target |-> restoreFor, shown |-> vm.preview]>> \o prompts

LEMMA Askables ==
    ASSUME ConsolesType, NEW verb \in Verbs, NEW target \in Askable(verb) PROVE target \in Targets
<1>1. Deletable(vm) \in Snapshots \cup {None}
  BY SelectedRow DEF ConsolesType, ViewType, VMs, Deletable
<1> QED
  BY <1>1 DEF Askable, Targets

LEMMA PromptSteps ==
    ASSUME ConsolesType, Next
    PROVE  /\ UNCHANGED surface
           /\ UNCHANGED <<prompts, submitted>> \/ Asking \/ Answering \/ Opening
<1>1. CASE TuiKey
  <2>1. ASSUME NEW verb, NEW target \in Targets, TuiAsk(verb, target), verb # "restore"
        PROVE  UNCHANGED surface /\ Asking
    <3>1. verb \in Verbs
      BY <2>1 DEF TuiAsk, AskingVerbs, Verbs, ListKey, ConsolesType, UserType, Tabs
    <3> QED
      BY <2>1, <3>1 DEF TuiAsk, ListKey, Asking
  <2>2. CASE TuiDeviceVerb \/ TuiModuleVerb \/ TuiInstall \/ TuiCreate \/ TuiDelete
    <3>1. None \in Targets
      BY DEF Targets
    <3> QED
      BY <2>1, <2>2, <3>1 DEF TuiDeviceVerb, TuiModuleVerb, TuiInstall, TuiCreate, TuiDelete
  <2>3. CASE TuiRestore
    <3>1. /\ prompts' = <<Ask("restore", Restorable(vm))>> /\ UNCHANGED <<submitted, surface>>
          /\ vm' = [vm EXCEPT !.preview = Restorable(vm), !.previewPending = TRUE]
          /\ Restorable(vm) # None /\ prompts = <<>>
      BY <2>3 DEF TuiRestore, RequestPreview, ListKey
    <3>2. Selected(vm) \in Snapshots \cup {None} /\ vm \in VMs
      BY SelectedRow DEF ConsolesType, ViewType, VMs
    <3>3. Restorable(vm) \in Snapshots
      BY <3>1, <3>2 DEF Restorable
    <3>4. vm'.preview = Restorable(vm)
      BY <3>1, <3>2 DEF VMs
    <3>5. Asking
      BY <3>1, <3>3, <3>4 DEF Asking, Verbs, Targets
    <3> QED
      BY <3>1, <3>5
  <2>4. CASE TuiQuit
    BY <2>4 DEF TuiQuit, ListKey, Input, Asking, Verbs, Targets
  <2>5. CASE TuiYes
    BY <2>5 DEF TuiYes, Answering
  <2>6. CASE TuiNo
    BY <2>6 DEF TuiNo, modelVars, Answering
  <2>7. CASE \/ \E t \in Tabs : TuiSwitchTab(t)
             \/ TuiFocusFilter \/ TuiFilterKey \/ (\E row \in 1..MaxSnapshots : TuiSelect(row))
             \/ TuiDiff \/ TuiHistory \/ TuiRefresh
    BY <2>7 DEF TuiSwitchTab, TuiFocusFilter, TuiFilterKey, TuiSelect, TuiDiff, TuiHistory, TuiRefresh
  <2> QED
    BY <1>1, <2>2, <2>3, <2>4, <2>5, <2>6, <2>7 DEF TuiKey
<1>2. CASE GuiInput
  <2>1. ASSUME NEW verb, NEW target \in Targets, GuiAsk(verb, target), verb # "restore"
        PROVE  UNCHANGED surface /\ Asking
    <3>1. verb \in Verbs
      BY <2>1 DEF GuiAsk, AskingVerbs, Verbs, ConsolesType, UserType, Tabs
    <3> QED
      BY <2>1, <3>1 DEF GuiAsk, Click, Asking
  <2>2. CASE GuiDeviceVerb \/ GuiModuleVerb \/ GuiInstall \/ GuiCreate \/ GuiDelete
    <3>1. None \in Targets
      BY DEF Targets
    <3> QED
      BY <2>1, <2>2, <3>1 DEF GuiDeviceVerb, GuiModuleVerb, GuiInstall, GuiCreate, GuiDelete
  <2>3. CASE GuiClose
    BY <2>3 DEF GuiClose, Click, Asking, Verbs, Targets
  <2>4. CASE GuiYes
    BY <2>4 DEF GuiYes, Answering
  <2>5. CASE GuiNo
    BY <2>5 DEF GuiNo, modelVars, Answering
  <2>6. CASE \/ \E t \in Tabs : GuiSwitchTab(t)
             \/ (\E row \in 1..MaxSnapshots : GuiSelect(row))
             \/ GuiRows \/ GuiRefused \/ GuiRestore \/ GuiDiff \/ GuiRefresh
    BY <2>6 DEF GuiSwitchTab, GuiSelect, GuiRows, GuiRefused, GuiRestore, GuiDiff, GuiRefresh
  <2> QED
    BY <1>2, <2>2, <2>3, <2>4, <2>5, <2>6 DEF GuiInput
<1>3. CASE GuiDrain
  BY <1>3 DEF GuiDrain, Gui, GuiDiffReady, Opening, shellVars
<1>4. CASE \/ TuiDrain \/ Drain \/ Unwind \/ Gone
           \/ (Worker /\ UNCHANGED shellVars) \/ (Outage /\ UNCHANGED shellVars)
  BY <1>4 DEF TuiDrain, Drain, Unwind, Gone, vars, shellVars
<1> QED
  BY <1>1, <1>2, <1>3, <1>4 DEF Next, Background

\* Nothing is previewed behind a prompt.
LEMMA PreviewStays ==
    ASSUME ConsolesType, Shared PROVE vm'.preview = vm.preview \/ Previews
<1>0. vm \in VMs /\ list \subseteq Snapshots
  BY DEF ConsolesType, ViewType, FacadeType
<1>1. CASE Selects
  <2>1. PICK row : vm' = [vm EXCEPT !.selected = row]
    BY <1>1 DEF Selects, TuiSelect, GuiSelect, Select
  <2> QED
    BY <1>0, <2>1 DEF VMs
<1>2. CASE Rebuilt \/ Rereads
  <2>1. vm.selected >= 1
    BY CursorPositive
  <2> QED
    BY <1>0, <1>2, <2>1, RebuildKeeps, RowsRead
<1> QED
  BY <1>1, <1>2, ViewSteps DEF Flagged

LEMMA PromptTypes ==
    ASSUME ConsolesType, Next PROVE PromptsType'
<1>0. prompts \in Seq(Asks) /\ submitted \in {NoPrompt} \cup [verb : Verbs, target : Targets]
  BY DEF ConsolesType, PromptsType
<1>1. CASE UNCHANGED <<prompts, submitted>>
  BY <1>0, <1>1 DEF PromptsType
<1>2. CASE Asking
  <2>1. PICK p \in Asks : prompts' = <<p>>
    <3>1. \A verb \in Verbs, target \in Targets : Ask(verb, target) \in Asks
      BY DEF Ask, Asks
    <3> QED
      BY <1>2, <3>1 DEF Asking
  <2>2. prompts' \in Seq(Asks)
    BY <2>1
  <2> QED
    BY <1>0, <1>2, <2>2 DEF Asking, PromptsType
<1>3. CASE Answering
  <2>1. prompts' \in Seq(Asks) /\ Head(prompts) \in Asks
    BY <1>0, <1>3, TailOf DEF Answering
  <2>2. Asked(Head(prompts).verb, Head(prompts).target) \in [verb : Verbs, target : Targets]
    BY <2>1 DEF Asks, Asked
  <2> QED
    BY <1>0, <1>3, <2>1, <2>2 DEF Answering, PromptsType
<1>4. CASE Opening
  <2> DEFINE p == [verb |-> "restore", target |-> restoreFor, shown |-> vm.preview]
  <2>1. p \in Asks
    BY DEF ConsolesType, UserType, GuiTypeOK, ViewType, VMs, Asks, Verbs, Targets
  <2>2. prompts' = <<p>> \o prompts
    BY <1>4 DEF Opening
  <2> HIDE DEF p
  <2>3. <<p>> \in Seq(Asks)
    BY <2>1
  <2>4. prompts' \in Seq(Asks)
    BY <1>0, <2>2, <2>3, ConcatProperties
  <2> QED
    BY <1>0, <1>4, <2>4 DEF Opening, PromptsType
<1> QED
  BY <1>1, <1>2, <1>3, <1>4, PromptSteps

LEMMA StepKeepsTruth ==
    ASSUME ConsolesType, Truthful, Next PROVE Truthful'
<1>0. prompts \in Seq(Asks) /\ Shared /\ UNCHANGED surface
  BY StepIsShared, PromptSteps DEF ConsolesType, PromptsType
<1>1. CASE UNCHANGED <<prompts, submitted>>
  <2>1. prompts # <<>> => vm'.preview = vm.preview
    BY <1>0, PreviewStays DEF Previews
  <2> QED
    BY <1>0, <1>1, <2>1 DEF Truthful
<1>2. CASE Asking
  <2>1. PICK verb \in Verbs, target \in Targets :
          /\ prompts' = <<Ask(verb, target)>>
          /\ surface = "tui" /\ verb = "restore" => target = vm'.preview
    BY <1>2 DEF Asking
  <2>2. /\ DOMAIN prompts' = {1} /\ Len(prompts') = 1 /\ prompts'[1] = Ask(verb, target)
    BY <2>1
  <2> QED
    BY <1>0, <2>1, <2>2 DEF Truthful, Ask
<1>3. CASE Answering
  <2>1. \A i \in DOMAIN prompts' : i + 1 \in DOMAIN prompts /\ prompts'[i] = prompts[i + 1]
    BY <1>0, <1>3, TailOf DEF Answering
  <2>2. surface = "tui" => prompts' = <<>>
    <3>1. surface = "tui" => Len(prompts) = 1
      BY <1>3 DEF Answering, Truthful
    <3>2. Len(prompts) = 1 => Tail(prompts) = <<>>
      BY <1>0, <1>3, HeadTailProperties, EmptySeq DEF Answering
    <3> QED
      BY <1>3, <3>1, <3>2 DEF Answering
  <2> QED
    BY <1>0, <2>1, <2>2 DEF Truthful
<1>4. CASE Opening
  <2> DEFINE p == [verb |-> "restore", target |-> restoreFor, shown |-> vm.preview]
  <2>1. p \in Asks /\ p.verb = "restore"
    BY DEF ConsolesType, UserType, GuiTypeOK, ViewType, VMs, Asks, Verbs, Targets
  <2>2. prompts' = <<p>> \o prompts
    BY <1>4 DEF Opening
  <2> HIDE DEF p
  <2>3. <<p>> \in Seq(Asks) /\ Len(<<p>>) = 1 /\ <<p>>[1] = p
    BY <2>1
  <2>4. /\ prompts' \in Seq(Asks) /\ Len(prompts') = 1 + Len(prompts)
        /\ \A i \in 1 .. 1 + Len(prompts) :
             prompts'[i] = IF i <= 1 THEN <<p>>[i] ELSE prompts[i - 1]
    BY <1>0, <2>2, <2>3, ConcatProperties
  <2>5. /\ DOMAIN prompts = 1..Len(prompts) /\ DOMAIN prompts' = 1 .. 1 + Len(prompts)
        /\ Len(prompts) \in Nat
    BY <1>0, <2>4, LenProperties
  <2>6. ASSUME NEW i \in DOMAIN prompts'
        PROVE  prompts'[i] = p \/ \E k \in DOMAIN prompts : prompts'[i] = prompts[k]
    <3>1. CASE i = 1
      BY <2>3, <2>4, <2>5, <3>1
    <3>2. CASE i # 1
      <4>1. i - 1 \in DOMAIN prompts /\ prompts'[i] = prompts[i - 1]
        BY <2>4, <2>5, <3>2
      <4> QED
        BY <4>1
    <3> QED
      BY <3>1, <3>2
  <2> QED
    BY <1>0, <1>4, <2>1, <2>6 DEF Opening, Truthful
<1> QED
  BY <1>1, <1>2, <1>3, <1>4, PromptSteps

-----------------------------------------------------------------------------
(* The rest of what the user sees.                                         *)

LEMMA StepKeepsUser ==
    ASSUME ConsolesType, FrontEndAssumption, Next PROVE UserType'
<1>0. /\ UserType /\ daemonError \in BOOLEAN /\ vm \in VMs
      /\ Selected(vm) \in Snapshots \cup {None} /\ Restorable(vm) \in Snapshots \cup {None}
  <2>1. UserType /\ daemonError \in BOOLEAN /\ vm \in VMs
    BY DEF ConsolesType, FacadeType, ViewType
  <2>2. Selected(vm) \in Snapshots \cup {None}
    BY <2>1, SelectedRow DEF VMs
  <2> QED
    BY <2>1, <2>2 DEF Restorable
<1>1. keys' \in 0..MaxKeys
  <2>1. keys' = keys \/ (keys < MaxKeys /\ keys' = keys + 1)
    <3>1. CASE TuiKey
      BY <3>1 DEF TuiKey, TuiSwitchTab, TuiFocusFilter, TuiFilterKey, TuiSelect, TuiDeviceVerb,
         TuiModuleVerb, TuiInstall, TuiCreate, TuiDelete, TuiAsk, TuiRestore, TuiDiff, TuiHistory,
         TuiRefresh, TuiQuit, TuiYes, TuiNo, ListKey, Input
    <3>2. CASE GuiInput
      BY <3>2 DEF GuiInput, GuiSwitchTab, GuiSelect, GuiRows, GuiRefused, GuiDeviceVerb,
         GuiModuleVerb, GuiInstall, GuiCreate, GuiDelete, GuiAsk, GuiRestore, GuiDiff, GuiRefresh,
         GuiClose, GuiYes, GuiNo, Click, Input
    <3>3. CASE Background \/ (Outage /\ UNCHANGED shellVars) \/ Gone
      BY <3>3 DEF Background, TuiDrain, GuiDrain, GuiDiffReady, Drain, Unwind, Gone, vars, shellVars
    <3> QED
      BY <3>1, <3>2, <3>3 DEF Next
  <2> QED
    BY <1>0, <2>1, FrontEndAssumption DEF UserType
<1>2. surface' \in {"tui", "gui"} /\ loop' \in {"running", "stopping", "unwinding", "gone"}
  BY <1>0, PromptSteps, LoopSteps DEF UserType, Drain, Unwind
<1>3. tab' \in Tabs /\ diffFor' \in Snapshots \cup {None} /\ focus' \in {"list", "filter"}
  <2>1. CASE TuiKey
    BY <1>0, <2>1 DEF UserType, TuiKey, TuiSwitchTab, TuiFocusFilter, TuiFilterKey, TuiSelect,
       TuiDeviceVerb, TuiModuleVerb, TuiInstall, TuiCreate, TuiDelete, TuiAsk, TuiRestore, TuiDiff,
       TuiHistory, TuiRefresh, TuiQuit, TuiYes, TuiNo
  <2>2. CASE GuiInput /\ UNCHANGED tuiVars
    BY <1>0, <2>2 DEF UserType, GuiInput, GuiSwitchTab, GuiSelect, GuiRows, GuiRefused,
       GuiDeviceVerb, GuiModuleVerb, GuiInstall, GuiCreate, GuiDelete, GuiAsk, GuiRestore, GuiDiff,
       GuiRefresh, GuiClose, GuiYes, GuiNo, tuiVars
  <2>3. CASE Background \/ (Outage /\ UNCHANGED shellVars /\ UNCHANGED tuiVars) \/ Gone
    BY <1>0, <2>3 DEF UserType, Background, TuiDrain, GuiDrain, GuiDiffReady, Drain, Unwind, Gone,
       vars, shellVars, tuiVars
  <2> QED
    BY <2>1, <2>2, <2>3 DEF Next
<1>4. GuiTypeOK'
  <2>0. GuiTypeOK
    BY <1>0 DEF UserType
  <2>1. CASE UNCHANGED guiVars
    BY <2>0, <2>1 DEF guiVars, GuiTypeOK
  <2>2. CASE /\ restoreFor' \in {restoreFor, Restorable(vm), None}
             /\ \/ Present \/ UNCHANGED <<restoreOff, gateUp>>
                \/ restoreOff' = TRUE /\ UNCHANGED gateUp
    BY <1>0, <2>0, <2>2 DEF Present, GuiTypeOK
  <2>3. CASE GuiInput
    BY <2>1, <2>2, <2>3 DEF GuiInput, GuiSwitchTab, GuiSelect, GuiRows, GuiRefused,
       GuiDeviceVerb, GuiModuleVerb, GuiInstall, GuiCreate, GuiDelete, GuiAsk, GuiRestore, GuiDiff,
       GuiRefresh, GuiClose, GuiYes, GuiNo, Returned, Woken, PresentOn, guiVars
  <2>4. CASE GuiDrain
    BY <2>2, <2>4 DEF GuiDrain, GuiDiffReady, Woken, PresentOn
  <2>5. UNCHANGED guiVars \/ GuiInput \/ GuiDrain
    BY DEF Next, Background, Gone, vars
  <2> QED
    BY <2>1, <2>3, <2>4, <2>5
<1> QED
  BY <1>1, <1>2, <1>3, <1>4 DEF UserType

-----------------------------------------------------------------------------
(* The theorems.                                                           *)

\* In particular a rebuild that is owed is posted or about to be, a modal stays what it was, and
\* the futures are where the teardown looks for them.
THEOREM ConsolesInvariant == Spec => []ConsolesInv
<1>1. Init => ConsolesInv
  <2> SUFFICES ASSUME Init PROVE ConsolesInv
    OBVIOUS
  <2>1. FacadeType
    BY SnapshotsAssumption DEF Init, InitSnapshots, FacadeType, Snapshots
  <2>2. QueuesType
    BY DEF Init, InitSnapshots, QueuesType
  <2>3. ViewType
    BY DEF Init, InitSnapshots, NewVM, ViewType, VMs, OnARow
  <2>4. PromptsType
    BY DEF Init, InitShell, PromptsType
  <2>5. UserType
    <3>1. 0 \in 0..MaxKeys
      BY FrontEndAssumption
    <3>2. gateUp \in BOOLEAN
      BY <2>1 DEF Init, InitGui, FacadeType
    <3> QED
      BY <3>1, <3>2 DEF Init, InitShell, InitGui, UserType, GuiTypeOK, Tabs
  <2>6. Announced
    BY DEF Init, InitSnapshots, NewVM, Announced
  <2>7. Kept /\ Truthful
    BY DEF Init, InitSnapshots, InitShell, Kept, Truthful
  <2> QED
    BY <2>1, <2>2, <2>3, <2>4, <2>5, <2>6, <2>7 DEF ConsolesInv, ConsolesType
<1>2. ConsolesInv /\ [Next]_vars => ConsolesInv'
  <2> SUFFICES ASSUME ConsolesInv, [Next]_vars PROVE ConsolesInv'
    OBVIOUS
  <2>1. CASE Next
    <3>1. ConsolesType /\ Shared
      BY <2>1, StepIsShared DEF ConsolesInv
    <3>2. ConsolesType'
      BY <2>1, <3>1, FrontEndAssumption, StepKeepsFacade, StepKeepsQueues, StepKeepsView,
         PromptTypes, StepKeepsUser DEF ConsolesType
    <3> QED
      BY <2>1, <3>1, <3>2, StepKeepsAnnounced, StepKeepsFutures, StepKeepsTruth DEF ConsolesInv
  <2>2. CASE UNCHANGED vars
    <3>1. UNCHANGED <<stored, reachable, list, daemonError, diff, jobs, posted, vm, surface, tab,
                      prompts, diffFor, submitted, loop, keys, focus, restoreFor, restoreOff, gateUp>>
      BY <2>2 DEF vars, modelVars, facadeVars, shellVars, tuiVars, guiVars
    <3>2. FacadeType' /\ QueuesType' /\ PromptsType'
      BY <3>1 DEF ConsolesInv, ConsolesType, FacadeType, QueuesType, PromptsType
    <3>3. ViewType'
      BY <3>1 DEF ConsolesInv, ConsolesType, ViewType
    <3>4. UserType'
      BY <3>1 DEF ConsolesInv, ConsolesType, UserType, GuiTypeOK
    <3>5. Announced' /\ Kept' /\ Truthful'
      BY <3>1 DEF ConsolesInv, Announced, HasRebuild, Posting, Ahead, Listing, Kept, Truthful
    <3> QED
      BY <3>2, <3>3, <3>4, <3>5 DEF ConsolesInv, ConsolesType
  <2> QED
    BY <2>1, <2>2
<1> QED
  BY <1>1, <1>2, PTL DEF Spec

\* Every variable of the client and of both front ends keeps its type; in particular
\* the cursor stays on a row of the list.
THEOREM ConsolesTypeCorrect == Spec => []TypeOK
<1>1. ConsolesInv => TypeOK
  <2> SUFFICES ASSUME ConsolesInv PROVE TypeOK
    OBVIOUS
  <2>1. SnapshotsTypeOK
    <3>1. \A i \in DOMAIN jobs : jobs[i].kind \in JobKinds /\ jobs[i].holder \in Custody
                               /\ jobs[i].at \in Steps
      BY JobTypes DEF ConsolesInv, ConsolesType, QueuesType, Jobs
    <3>2. /\ vm.metas \subseteq Snapshots /\ vm.rebuildQueued \in BOOLEAN
          /\ vm.refreshQueued \in BOOLEAN /\ vm.empty \in {"none", "no match", "no snapshots"}
          /\ vm.preview \in Snapshots \cup {None} /\ vm.closure \in {"none", "rebuild", "refresh"}
      BY DEF ConsolesInv, ConsolesType, ViewType, VMs
    <3>3. vm.selected = 1 \/ vm.selected \in 1..RowCount(vm)
      BY DEF ConsolesInv, ConsolesType, ViewType, OnARow
    <3>4. posted \in Seq({"rebuild", "refresh", "diffReady", "refreshAll"})
      BY DEF ConsolesInv, ConsolesType, QueuesType, Closures
    <3>5. stored \subseteq Snapshots /\ list \subseteq Snapshots /\ diff \in Snapshots \cup {None}
      BY DEF ConsolesInv, ConsolesType, FacadeType
    <3> QED
      BY <3>1, <3>2, <3>3, <3>4, <3>5 DEF SnapshotsTypeOK
  <2>2. \A i \in DOMAIN prompts : prompts[i] \in Asks
    BY LenProperties, ElementOfSeq DEF ConsolesInv, ConsolesType, PromptsType
  <2>3. ShellTypeOK /\ GuiTypeOK /\ focus \in {"list", "filter"}
    BY <2>2 DEF ConsolesInv, ConsolesType, PromptsType, UserType, ShellTypeOK, Asks
  <2> QED
    BY <2>1, <2>3 DEF TypeOK
<1> QED
  BY <1>1, ConsolesInvariant, PTL

\* The front end and the view model wait for every future before the facade goes.
THEOREM NothingOutlivesTheFacade == Spec => []NoTaskOutlives
<1>1. ConsolesInv => NoTaskOutlives
  BY DEF ConsolesInv, Kept, NoTaskOutlives
<1> QED
  BY <1>1, ConsolesInvariant, PTL

\* What a worker stores reaches the rows or is on its way to them, whichever closures
\* were coalesced: the flag is set before the post, and cleared before the list is read.
THEOREM RowsFollowTheList == Spec => []RowsFollow
<1>1. ConsolesInv => RowsFollow
  BY DEF ConsolesInv, Announced, HasRebuild, Ahead, Listing, RowsFollow, RebuildToCome
<1> QED
  BY <1>1, ConsolesInvariant, PTL

\* The Qt front end submits what the topmost dialog named: nothing that its event
\* loop runs behind it retargets the verb.
THEOREM DialogsNameTheirTarget == Spec => GuiAsksFirst
<1>1. ASSUME ConsolesInv, Next, surface = "gui", submitted' # submitted, submitted'.verb # "restore"
      PROVE  prompts # <<>> /\ submitted' = Asked(Head(prompts).verb, Head(prompts).shown)
  <2>1. prompts \in Seq(Asks)
    BY <1>1 DEF ConsolesInv, ConsolesType, PromptsType
  <2>2. prompts # <<>> /\ submitted' = Asked(Head(prompts).verb, Head(prompts).target)
    BY <1>1, PromptSteps DEF ConsolesInv, Asking, Answering, Opening
  <2>3. Head(prompts) = prompts[1] /\ 1 \in DOMAIN prompts
    BY <2>1, <2>2, TailOf
  <2>4. Head(prompts).verb # "restore"
    BY <1>1, <2>2 DEF Asked
  <2>5. Head(prompts).shown = Head(prompts).target
    BY <1>1, <2>3, <2>4 DEF ConsolesInv, Truthful
  <2> QED
    BY <2>2, <2>5
<1>2. ConsolesInv /\ [Next]_vars =>
        [surface = "gui" /\ submitted' # submitted /\ submitted'.verb # "restore" =>
           /\ prompts # <<>>
           /\ submitted' = Asked(Head(prompts).verb, Head(prompts).shown)]_vars
  BY <1>1
<1> QED
  BY <1>2, ConsolesInvariant, PTL DEF Spec, GuiAsksFirst

\* Refreshes, filters, rebuilds and previews leave the cursor on its snapshot as
\* long as it is listed; only the user's selection moves it.
THEOREM CursorStaysOnItsSnapshot == Spec => CursorKept
<1> DEFINE Keeps == \/ Selected(vm) = None \/ Selected(vm) \notin Shown(vm')
                    \/ Selected(vm') = Selected(vm)
                    \/ \E row \in 1..MaxSnapshots : TuiSelect(row) \/ GuiSelect(row)
<1>1. ASSUME ConsolesInv, Next PROVE Keeps
  <2>0. ConsolesType /\ Shared /\ vm \in VMs /\ list \subseteq Snapshots
    BY <1>1, StepIsShared DEF ConsolesInv, ConsolesType, ViewType, FacadeType
  <2>1. CASE Flagged
    BY <2>1, SameRowsSameCursor DEF Flagged
  <2>2. CASE Selects
    BY <2>2 DEF Selects
  <2>3. CASE Rebuilt \/ Rereads
    <3>1. PICK v \in VMs : vm' = Rebuild(v) /\ v.selected >= 1
      BY <2>0, <2>3, RowsRead, CursorPositive
    <3> QED
      BY <2>0, <3>1, RebuildKeeps
  <2> QED
    BY <2>0, <2>1, <2>2, <2>3, ViewSteps
<1>2. ConsolesInv /\ [Next]_vars => [Keeps]_vars
  BY <1>1
<1> QED
  BY <1>2, ConsolesInvariant, PTL DEF Spec, CursorKept

\* The terminal front end keeps what Console promises, whatever happens behind its
\* modals: the answer submits what the modal named.
THEOREM ModalsAreTruthful == Spec => TuiImplementsConsole
<1> DEFINE done == IF surface = "tui" THEN submitted ELSE NoPrompt
           Promises == [verb : Verbs, target : Targets]
<1>1. Init => TuiConsole!Init
  BY DEF Init, InitShell, TuiConsole!Init, TuiPrompt
<1>2. ASSUME ConsolesInv, ConsolesInv', Next
      PROVE  TuiConsole!Next \/ (TuiPrompt' = TuiPrompt /\ done' = done)
  <2>0. /\ prompts \in Seq(Asks) /\ prompts' \in Seq(Asks) /\ UNCHANGED surface
        /\ vm.preview \in Targets /\ vm'.preview \in Targets
    BY <1>2, PromptSteps
       DEF ConsolesInv, ConsolesType, PromptsType, ViewType, VMs, Targets
  <2>1. CASE surface # "tui"
    BY <2>0, <2>1 DEF TuiPrompt
  <2>2. CASE surface = "tui"
    <3>1. TuiPrompt \in Promises \cup {NoPrompt}
      <4>1. prompts # <<>> => Head(prompts) \in Asks
        BY <2>0, TailOf
      <4> QED
        BY <2>0, <4>1 DEF TuiPrompt, Asked, Asks, Verbs
    <3>2. TuiPrompt' \in Promises \cup {NoPrompt}
      <4>1. prompts' # <<>> => Head(prompts') \in Asks
        BY <2>0, TailOf
      <4> QED
        BY <2>0, <4>1 DEF TuiPrompt, Asked, Asks, Verbs
    <3>3. CASE UNCHANGED submitted
      BY <2>0, <2>2, <3>2, <3>3 DEF TuiConsole!Next, TuiConsole!Show
    <3>4. CASE submitted' # submitted
      <4>1. prompts # <<>> /\ submitted' = Asked(Head(prompts).verb, Head(prompts).target)
        BY <1>2, <3>4, PromptSteps DEF ConsolesInv, Asking, Answering, Opening
      <4>2. Head(prompts) = prompts[1] /\ 1 \in DOMAIN prompts /\ Head(prompts) \in Asks
        BY <2>0, <4>1, TailOf
      <4>3. submitted' = TuiPrompt
        BY <1>2, <2>2, <4>1, <4>2 DEF ConsolesInv, Truthful, TuiPrompt
      <4>4. TuiPrompt \in Promises
        BY <4>1, <4>2, <4>3 DEF Asked, Asks
      <4> QED
        BY <2>0, <2>2, <3>2, <4>3, <4>4 DEF TuiConsole!Next, TuiConsole!Agree
    <3> QED
      BY <3>3, <3>4
  <2> QED
    BY <2>1, <2>2
<1>3. ConsolesInv /\ ConsolesInv' /\ [Next]_vars =>
        [TuiConsole!Next]_<<TuiPrompt, done>>
  <2>1. ASSUME UNCHANGED vars PROVE TuiPrompt' = TuiPrompt /\ done' = done
    BY <2>1 DEF vars, modelVars, shellVars, TuiPrompt
  <2> QED
    BY <1>2, <2>1
<1> QED
  BY <1>1, <1>3, ConsolesInvariant, PTL DEF Spec, TuiImplementsConsole, TuiConsole!Spec
=============================================================================
