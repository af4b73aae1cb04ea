---------------------------- MODULE DevicesProofs ----------------------------
(***************************************************************************)
(* Proofs about Devices and StatusLine, for any devices, workers and       *)
(* bounds: no change of the model is lost between the threads that publish *)
(* it and the list that shows it, and a message leaves the status line     *)
(* only for its own removal.                                               *)
(***************************************************************************)
EXTENDS Devices, FiniteSetTheorems, SequenceTheorems, TLAPS

Lines ==
    [text : 0..MaxMessages, generation : 0..(MaxMessages + 1), handle : 0..MaxMessages,
     outstanding : Int, state : {"open", "closing"}]
Timers == [queue : Seq(Nat \cup Devs), batch : Seq(Nat \cup Devs), stopping : BOOLEAN]

\* A removal is in a sequence of entries once.
Once(held) ==
    \A i, j \in DOMAIN held : held[i] = held[j] /\ held[i] \in Nat => i = j
Pending == Removals(timer.queue) \cup Removals(timer.batch)

\* Every removal is of a message that was shown, and can run once.
Separate ==
    /\ Once(timer.queue) /\ Once(timer.batch)
    /\ Removals(timer.queue) \cap Removals(timer.batch) = {}
    /\ Pending \subseteq 1..line.generation

\* The generation is the message on the line, unless the view model has closed and
\* taken a generation that no removal has.
Current ==
    /\ line.text # 0 => line.text = line.handle
    /\ line.text # 0 => line.text = line.generation \/ line.generation \notin Pending
    /\ line.state = "open" => line.generation <= MaxMessages

Counted ==
    /\ IsFiniteSet(Removals(timer.queue)) /\ IsFiniteSet(Removals(timer.batch))
    /\ line.outstanding = Cardinality(Removals(timer.queue)) + Cardinality(Removals(timer.batch))

StatusInv == line \in Lines /\ timer \in Timers /\ Separate /\ Current /\ Counted

RowType == [device : Devs, status : {"active", "disabled"}]
Steps == {"idle", "ask", "observe", "note", "apply", "publish", "post", "message"}
Events == {"model", "done", "refused"}
ThreadRecords ==
    [at : Steps, task : {"none", "refresh", "verb"}, seen : SUBSET RowType, failed : BOOLEAN,
     events : Seq(Events)]
Tasks == [verb : {"refresh", "enable", "disable"}, device : Devs \cup {"none"}]
Views == [rows : SUBSET RowType, valid : BOOLEAN, queued : BOOLEAN, at : {"idle", "claim", "fetch"}]

\* A device has one row.
OneEach(rows) == \A r, q \in rows : r.device = q.device => r = q

WorldType ==
    /\ sysfs \subseteq Devs /\ entries \subseteq Devs /\ pending \subseteq Devs
    /\ model \subseteq RowType /\ OneEach(model)
    /\ posted \in Seq({"rebuild", "refresh"}) /\ queued \in Seq(Tasks)
    /\ loop \in {"running", "stopping", "draining", "closing", "gone"}
ViewType == view \in Views

\* A thread that publishes has an event to publish, until it has shown its message.
ThreadsType ==
    /\ thread \in [Threads -> ThreadRecords]
    /\ \A t \in Threads :
         /\ OneEach(thread[t].seen)
         /\ thread[t].at \in {"publish", "post", "message"} => thread[t].events # <<>>

HasRebuild == \E i \in DOMAIN posted : posted[i] = "rebuild"
Announcing == \E t \in Threads : At(t, "publish") /\ Head(thread[t].events) = "model"

\* Rows that differ from the model are about to be fetched, or a thread has yet to
\* invalidate them, or they are invalid and their rebuild is on its way: before it
\* fetches, a rebuild takes back an invalidation and sees whatever it announced.
Behind ==
    \/ view.at = "fetch"
    \/ Announcing
    \/ /\ view.valid = FALSE
       /\ view.queued = TRUE \/ view.at = "claim" \/ \E t \in Threads : At(t, "post")
Fresh == (view.queued = TRUE => HasRebuild) /\ (view.rows # model => Behind)

DevicesInv == StatusInv /\ WorldType /\ ViewType /\ ThreadsType /\ Fresh

-----------------------------------------------------------------------------
(* Sequences of entries.                                                   *)

LEMMA RemoveAtProperties ==
    ASSUME NEW S, NEW s \in Seq(S), NEW i \in DOMAIN s
    PROVE  /\ RemoveAt(s, i) \in Seq(S) /\ Len(RemoveAt(s, i)) = Len(s) - 1
           /\ \A k \in 1..Len(s) - 1 : RemoveAt(s, i)[k] = IF k < i THEN s[k] ELSE s[k + 1]
<1> DEFINE a == SubSeq(s, 1, i - 1)
           b == SubSeq(s, i + 1, Len(s))
<1>1. /\ DOMAIN s = 1..Len(s) /\ Len(s) \in Nat /\ i \in 1..Len(s)
      /\ \A k \in 1..Len(s) : s[k] \in S
  BY LenProperties, ElementOfSeq
<1>2. /\ a \in Seq(S) /\ Len(a) = (IF 1 <= i - 1 THEN i - 1 - 1 + 1 ELSE 0)
      /\ \A k \in 1 .. i - 1 - 1 + 1 : a[k] = s[1 + k - 1]
  <2>1. \A k \in 1 .. i - 1 : s[k] \in S
    BY <1>1
  <2>2. 1 \in Int /\ i - 1 \in Int
    BY <1>1
  <2> QED
    BY <2>1, <2>2, SubSeqProperties
<1>3. /\ b \in Seq(S) /\ Len(b) = (IF i + 1 <= Len(s) THEN Len(s) - (i + 1) + 1 ELSE 0)
      /\ \A k \in 1 .. Len(s) - (i + 1) + 1 : b[k] = s[i + 1 + k - 1]
  <2>1. \A k \in i + 1 .. Len(s) : s[k] \in S
    BY <1>1
  <2>2. Len(s) \in Int /\ i + 1 \in Int
    BY <1>1
  <2> QED
    BY <2>1, <2>2, SubSeqProperties
<1>4. RemoveAt(s, i) = a \o b
  BY DEF RemoveAt
<1> HIDE DEF a, b
<1>5. Len(a) = i - 1 /\ Len(b) = Len(s) - i
  BY <1>1, <1>2, <1>3
<1>6. \A k \in 1 .. i - 1 : a[k] = s[k]
  BY <1>1, <1>2
<1>7. ASSUME NEW k \in 1 .. Len(s) - i PROVE b[k] = s[i + k]
  <2>1. Len(s) - (i + 1) + 1 = Len(s) - i /\ i + 1 + k - 1 = i + k
    BY <1>1
  <2> QED
    BY <1>3, <2>1
<1>8. PICK c : c = a \o b
  OBVIOUS
<1>9. /\ c \in Seq(S) /\ Len(c) = Len(a) + Len(b)
      /\ \A k \in 1 .. Len(a) + Len(b) : c[k] = IF k <= Len(a) THEN a[k] ELSE b[k - Len(a)]
  BY <1>2, <1>3, <1>8, ConcatProperties
<1>10. Len(c) = Len(s) - 1
  BY <1>1, <1>5, <1>9
<1>11. ASSUME NEW k \in 1..Len(s) - 1 PROVE c[k] = IF k < i THEN s[k] ELSE s[k + 1]
  <2>1. c[k] = IF k <= Len(a) THEN a[k] ELSE b[k - Len(a)]
    BY <1>1, <1>5, <1>9
  <2>2. CASE k < i
    BY <1>1, <1>5, <1>6, <2>1, <2>2
  <2>3. CASE k >= i
    <3>1. k - (i - 1) \in 1 .. Len(s) - i /\ i + (k - (i - 1)) = k + 1
      BY <1>1, <2>3
    <3> QED
      BY <1>1, <1>5, <1>7, <2>1, <2>3, <3>1
  <2> QED
    BY <1>1, <2>2, <2>3
<1> QED
  BY <1>4, <1>8, <1>9, <1>10, <1>11

\* What the operations of the timer do to the removals in a sequence.
LEMMA RemovalsAppended ==
    ASSUME NEW S, NEW s \in Seq(S), NEW x \in S
    PROVE  /\ Append(s, x) \in Seq(S)
           /\ Removals(Append(s, x)) = Removals(s) \cup ({x} \cap Nat)
           /\ Once(s) /\ x \notin Removals(s) => Once(Append(s, x))
<1>1. /\ Append(s, x) \in Seq(S) /\ Len(Append(s, x)) = Len(s) + 1 /\ Len(s) \in Nat
      /\ \A i \in 1..Len(s) : Append(s, x)[i] = s[i]
      /\ Append(s, x)[Len(s) + 1] = x
  BY AppendProperties, LenProperties
<1>2. DOMAIN s = 1..Len(s) /\ DOMAIN Append(s, x) = 1..Len(s) + 1
  BY <1>1, LenProperties
<1>3. Removals(Append(s, x)) = Removals(s) \cup ({x} \cap Nat)
  BY <1>1, <1>2 DEF Removals
<1>4. ASSUME Once(s), x \notin Removals(s) PROVE Once(Append(s, x))
  BY <1>1, <1>2, <1>4 DEF Once, Removals
<1> QED
  BY <1>1, <1>3, <1>4

LEMMA RemovalsRemoved ==
    ASSUME NEW S, NEW s \in Seq(S), NEW i \in DOMAIN s, Once(s)
    PROVE  /\ RemoveAt(s, i) \in Seq(S)
           /\ Removals(RemoveAt(s, i)) = Removals(s) \ {s[i]}
           /\ Once(RemoveAt(s, i))
<1> DEFINE r == RemoveAt(s, i)
           At0(k) == IF k < i THEN k ELSE k + 1
<1>1. /\ r \in Seq(S) /\ Len(r) = Len(s) - 1
      /\ \A k \in 1..Len(s) - 1 : r[k] = IF k < i THEN s[k] ELSE s[k + 1]
  BY RemoveAtProperties
<1>2. DOMAIN s = 1..Len(s) /\ Len(s) \in Nat /\ DOMAIN r = 1..Len(s) - 1
  BY <1>1, LenProperties
<1> HIDE DEF r
<1>3. \A k \in DOMAIN r : At0(k) \in DOMAIN s \ {i} /\ r[k] = s[At0(k)]
  BY <1>1, <1>2
<1>4. \A m \in DOMAIN s \ {i} : \E k \in DOMAIN r : m = At0(k)
  <2>1. ASSUME NEW m \in DOMAIN s, m < i PROVE m \in DOMAIN r /\ m = At0(m)
    BY <1>2, <2>1
  <2>2. ASSUME NEW m \in DOMAIN s, m > i PROVE m - 1 \in DOMAIN r /\ m = At0(m - 1)
    BY <1>2, <2>2
  <2>3. \A m \in DOMAIN s \ {i} : m < i \/ m > i
    BY <1>2
  <2> QED
    BY <2>1, <2>2, <2>3
<1>5. \A k, m \in DOMAIN r : At0(k) = At0(m) => k = m
  BY <1>2
<1> HIDE DEF At0
<1>6. Once(r)
  BY <1>3, <1>5 DEF Once
<1>7. Removals(r) = Removals(s) \ {s[i]}
  <2>1. ASSUME NEW n \in Removals(r) PROVE n \in Removals(s) \ {s[i]}
    BY <1>3, <2>1 DEF Removals, Once
  <2>2. ASSUME NEW n \in Removals(s), n # s[i] PROVE n \in Removals(r)
    <3>1. PICK m \in DOMAIN s \ {i} : s[m] = n
      BY <2>2 DEF Removals
    <3> QED
      BY <1>3, <1>4, <2>2, <3>1 DEF Removals
  <2> QED
    BY <2>1, <2>2
<1> QED
  BY <1>1, <1>6, <1>7 DEF r

LEMMA RemovalsOfTail ==
    ASSUME NEW S, NEW s \in Seq(S), s # <<>>, Once(s)
    PROVE  /\ Tail(s) \in Seq(S) /\ Head(s) \in S
           /\ Removals(Tail(s)) = Removals(s) \ {Head(s)}
           /\ Head(s) \in Nat => Head(s) \in Removals(s)
           /\ Once(Tail(s))
<1>1. /\ Head(s) \in S /\ Tail(s) \in Seq(S) /\ Len(Tail(s)) = Len(s) - 1
      /\ \A i \in 1 .. Len(Tail(s)) : Tail(s)[i] = s[i + 1]
  BY HeadTailProperties
<1>2. DOMAIN s = 1 .. Len(s) /\ DOMAIN Tail(s) = 1 .. Len(s) - 1 /\ Len(s) \in Nat \ {0}
  BY <1>1, LenProperties, EmptySeq
<1>3. Head(s) = s[1] /\ 1 \in DOMAIN s
  BY <1>2
<1>4. \A i \in DOMAIN Tail(s) : i + 1 \in DOMAIN s \ {1} /\ Tail(s)[i] = s[i + 1]
  BY <1>1, <1>2
<1>5. \A m \in DOMAIN s \ {1} : m - 1 \in DOMAIN Tail(s) /\ Tail(s)[m - 1] = s[m]
  BY <1>1, <1>2
<1>6. Once(Tail(s))
  BY <1>2, <1>4 DEF Once
<1>7. Removals(Tail(s)) = Removals(s) \ {Head(s)}
  <2>1. ASSUME NEW n \in Removals(Tail(s)) PROVE n \in Removals(s) \ {Head(s)}
    BY <1>3, <1>4, <2>1 DEF Removals, Once
  <2>2. ASSUME NEW n \in Removals(s), n # Head(s) PROVE n \in Removals(Tail(s))
    <3>1. PICK m \in DOMAIN s \ {1} : s[m] = n
      BY <1>3, <2>2 DEF Removals
    <3> QED
      BY <1>5, <2>2, <3>1 DEF Removals
  <2> QED
    BY <2>1, <2>2
<1> QED
  BY <1>1, <1>3, <1>6, <1>7 DEF Removals

LEMMA RemovalsSplit ==
    ASSUME NEW S, NEW s \in Seq(S), NEW n \in 1..Len(s), Once(s)
    PROVE  LET a == SubSeq(s, 1, n)
               b == SubSeq(s, n + 1, Len(s))
           IN /\ a \in Seq(S) /\ b \in Seq(S) /\ Once(a) /\ Once(b)
              /\ Removals(a) \cup Removals(b) = Removals(s)
              /\ Removals(a) \cap Removals(b) = {}
<1> DEFINE a == SubSeq(s, 1, n)
           b == SubSeq(s, n + 1, Len(s))
<1>1. /\ DOMAIN s = 1..Len(s) /\ Len(s) \in Nat /\ n \in Nat /\ n <= Len(s)
      /\ \A k \in 1..Len(s) : s[k] \in S
  BY LenProperties, ElementOfSeq
<1>2. /\ a \in Seq(S) /\ Len(a) = (IF 1 <= n THEN n - 1 + 1 ELSE 0)
      /\ \A k \in 1 .. n - 1 + 1 : a[k] = s[1 + k - 1]
  <2>1. \A k \in 1 .. n : s[k] \in S
    BY <1>1
  <2>2. 1 \in Int /\ n \in Int
    BY <1>1
  <2> QED
    BY <2>1, <2>2, SubSeqProperties
<1>3. /\ b \in Seq(S) /\ Len(b) = (IF n + 1 <= Len(s) THEN Len(s) - (n + 1) + 1 ELSE 0)
      /\ \A k \in 1 .. Len(s) - (n + 1) + 1 : b[k] = s[n + 1 + k - 1]
  <2>1. \A k \in n + 1 .. Len(s) : s[k] \in S
    BY <1>1
  <2>2. Len(s) \in Int /\ n + 1 \in Int
    BY <1>1
  <2> QED
    BY <2>1, <2>2, SubSeqProperties
<1> HIDE DEF a, b
<1>4. DOMAIN a = 1..n /\ DOMAIN b = 1 .. Len(s) - n
  <2>1. Len(a) = n
    BY <1>1, <1>2
  <2>2. Len(b) = Len(s) - n
    <3>0. n \in Int /\ Len(s) \in Int /\ n <= Len(s)
      BY <1>1
    <3>1. CASE n + 1 <= Len(s)
      BY <1>3, <3>0, <3>1
    <3>2. CASE n = Len(s)
      <4>1. ~(n + 1 <= Len(s)) /\ Len(s) - n = 0
        BY <3>0, <3>2
      <4>2. Len(b) = 0
        BY <1>3, <4>1
      <4> QED
        BY <4>1, <4>2
    <3> QED
      BY <3>0, <3>1, <3>2
  <2>3. DOMAIN a = 1..Len(a) /\ DOMAIN b = 1..Len(b)
    BY <1>2, <1>3, LenProperties
  <2> QED
    BY <2>1, <2>2, <2>3
<1>5. \A k \in DOMAIN a : k \in DOMAIN s /\ a[k] = s[k]
  BY <1>1, <1>2, <1>4
<1>6. ASSUME NEW k \in DOMAIN b PROVE n + k \in DOMAIN s /\ b[k] = s[n + k]
  <2>1. k \in 1 .. Len(s) - n
    BY <1>4
  <2>2. Len(s) - (n + 1) + 1 = Len(s) - n /\ n + 1 + k - 1 = n + k /\ n + k \in 1..Len(s)
    BY <1>1, <2>1
  <2>3. b[k] = s[n + 1 + k - 1]
    BY <1>3, <2>1, <2>2
  <2> QED
    BY <1>1, <2>2, <2>3
<1>7. \A m \in DOMAIN s : m \in DOMAIN a \/ (m - n \in DOMAIN b /\ n + (m - n) = m)
  BY <1>1, <1>4
<1>8. Once(a)
  BY <1>5 DEF Once
<1>9. Once(b)
  <2>1. \A k, m \in DOMAIN b : n + k = n + m => k = m
    BY <1>1, <1>4
  <2> QED
    BY <1>6, <2>1 DEF Once
<1>10. Removals(a) \cup Removals(b) = Removals(s)
  <2>1. Removals(a) \subseteq Removals(s) /\ Removals(b) \subseteq Removals(s)
    BY <1>5, <1>6 DEF Removals
  <2>2. ASSUME NEW m \in DOMAIN s, s[m] \in Nat PROVE s[m] \in Removals(a) \cup Removals(b)
    <3>1. CASE m \in DOMAIN a
      BY <1>5, <2>2, <3>1 DEF Removals
    <3>2. CASE m \notin DOMAIN a
      <4>1. m - n \in DOMAIN b /\ b[m - n] = s[m]
        BY <1>6, <1>7, <3>2
      <4> QED
        BY <2>2, <4>1 DEF Removals
    <3> QED
      BY <3>1, <3>2
  <2> QED
    BY <2>1, <2>2 DEF Removals
<1>11. Removals(a) \cap Removals(b) = {}
  <2>1. ASSUME NEW k \in DOMAIN a, NEW m \in DOMAIN b, a[k] = b[m], a[k] \in Nat PROVE FALSE
    <3>1. k = n + m
      BY <1>5, <1>6, <2>1 DEF Once
    <3> QED
      BY <1>1, <1>4, <3>1
  <2> QED
    BY <2>1 DEF Removals
<1> QED
  BY <1>2, <1>3, <1>8, <1>9, <1>10, <1>11 DEF a, b
-----------------------------------------------------------------------------
(* The status line.                                                        *)

LEMMA EntriesTyped ==
    ASSUME timer \in Timers
    PROVE  /\ timer.queue \in Seq(Nat \cup Devs) /\ timer.batch \in Seq(Nat \cup Devs)
           /\ timer.stopping \in BOOLEAN
BY DEF Timers

\* What every operation of the timer has to show: the removals of the queue and of
\* the batch, and the line, are changed together.
LEMMA StatusKept ==
    ASSUME StatusInv, NEW q \in Seq(Nat \cup Devs), NEW b \in Seq(Nat \cup Devs), NEW stop \in BOOLEAN,
           timer' = [queue |-> q, batch |-> b, stopping |-> stop],
           UNCHANGED line, Once(q), Once(b), Removals(q) \cap Removals(b) = {},
           Removals(q) \cup Removals(b) = Pending
    PROVE  StatusInv'
<1>1. timer' \in Timers /\ timer'.queue = q /\ timer'.batch = b
  BY DEF Timers
<1>2. line' \in Lines /\ Separate' /\ Current'
  BY <1>1 DEF StatusInv, Separate, Current, Pending
<1>3. Counted'
  <2>1. IsFiniteSet(Pending)
    BY FS_Union DEF StatusInv, Counted, Pending
  <2>2. IsFiniteSet(Removals(q)) /\ IsFiniteSet(Removals(b))
    BY <2>1, FS_Subset
  <2>3. Cardinality(Pending) = Cardinality(Removals(timer.queue)) + Cardinality(Removals(timer.batch))
    <3>1. Cardinality(Removals(timer.queue) \cap Removals(timer.batch)) = 0
      BY FS_EmptySet DEF StatusInv, Separate
    <3>2. /\ IsFiniteSet(Removals(timer.queue)) /\ IsFiniteSet(Removals(timer.batch))
          /\ Cardinality(Removals(timer.queue)) \in Nat /\ Cardinality(Removals(timer.batch)) \in Nat
      BY FS_CardinalityType DEF StatusInv, Counted
    <3>3. Cardinality(Pending) =
            Cardinality(Removals(timer.queue)) + Cardinality(Removals(timer.batch))
            - Cardinality(Removals(timer.queue) \cap Removals(timer.batch))
      BY <3>2, FS_Union DEF Pending
    <3> QED
      BY <3>1, <3>2, <3>3
  <2>4. Cardinality(Pending) = Cardinality(Removals(q)) + Cardinality(Removals(b))
    <3>1. Cardinality(Removals(q) \cap Removals(b)) = 0
      BY FS_EmptySet
    <3>2. Cardinality(Removals(q)) \in Nat /\ Cardinality(Removals(b)) \in Nat
      BY <2>2, FS_CardinalityType
    <3>3. Cardinality(Removals(q) \cup Removals(b)) =
            Cardinality(Removals(q)) + Cardinality(Removals(b))
            - Cardinality(Removals(q) \cap Removals(b))
      BY <2>2, FS_Union
    <3>4. Removals(q) \cup Removals(b) = Pending
      OBVIOUS
    <3>5. Cardinality(Pending) =
            Cardinality(Removals(q)) + Cardinality(Removals(b))
            - Cardinality(Removals(q) \cap Removals(b))
      BY <3>3, <3>4
    <3> QED
      BY <3>1, <3>2, <3>5
  <2> QED
    BY <1>1, <2>2, <2>3, <2>4 DEF StatusInv, Counted
<1> QED
  BY <1>1, <1>2, <1>3 DEF StatusInv

\* What the entries of a sequence equal to one of them have: a last one.
LEMMA LastOfEqual ==
    ASSUME NEW S, NEW s \in Seq(S), NEW e, \E i \in DOMAIN s : s[i] = e
    PROVE  \E i \in DOMAIN s : s[i] = e /\ \A j \in DOMAIN s : s[j] = e => j <= i
<1> DEFINE Left == {n \in 0 .. Len(s) - 1 : s[Len(s) - n] = e}
<1>1. DOMAIN s = 1..Len(s) /\ Len(s) \in Nat
  BY LenProperties
<1>2. ASSUME NEW j \in DOMAIN s, s[j] = e PROVE Len(s) - j \in Left
  <2>1. Len(s) - j \in 0 .. Len(s) - 1 /\ Len(s) - (Len(s) - j) = j
    BY <1>1
  <2> QED
    BY <1>2, <2>1
<1>3. Left # {} /\ Left \subseteq Nat
  <2>1. PICK j \in DOMAIN s : s[j] = e
    OBVIOUS
  <2>2. Len(s) - j \in Left
    BY <1>2, <2>1
  <2>3. 0 .. Len(s) - 1 \subseteq Nat
    BY <1>1
  <2> QED
    BY <2>2, <2>3
<1>4. PICK n \in Left : \A k \in Left : n <= k
  <2> HIDE DEF Left
  <2>1. PICK n \in Left : \A k \in Left : ~(<<k, n>> \in OpToRel(<, Nat))
    BY <1>3, NatLessThanWellFounded, WFMin, Zenon
  <2>2. \A k \in Left : ~(k < n)
    BY <1>3, <2>1 DEF OpToRel
  <2>3. \A k \in Left : k \in Nat /\ n \in Nat
    BY <1>3
  <2> QED
    BY <2>2, <2>3
<1>5. Len(s) - n \in DOMAIN s /\ s[Len(s) - n] = e
  BY <1>1
<1>6. ASSUME NEW j \in DOMAIN s, s[j] = e PROVE j <= Len(s) - n
  <2>1. n <= Len(s) - j
    BY <1>2, <1>4, <1>6
  <2>2. n \in Nat /\ j \in Nat
    BY <1>1, <1>3
  <2> QED
    BY <1>1, <2>1, <2>2
<1> QED
  BY <1>5, <1>6

LEMMA WithoutRemoves ==
    ASSUME StatusInv, NEW e \in Nat \cup Devs, Queued(e)
    PROVE  /\ Without(e) \in Seq(Nat \cup Devs) /\ Once(Without(e))
           /\ Removals(Without(e)) = Removals(timer.queue) \ {e}
<1> DEFINE i == CHOOSE i \in DOMAIN timer.queue :
             /\ timer.queue[i] = e
             /\ \A j \in DOMAIN timer.queue : timer.queue[j] = e => j <= i
<1>2. timer.queue \in Seq(Nat \cup Devs) /\ Once(timer.queue)
  BY EntriesTyped DEF StatusInv, Separate
<1>1. i \in DOMAIN timer.queue /\ timer.queue[i] = e
  BY <1>2, LastOfEqual DEF Queued
<1>3. Without(e) = RemoveAt(timer.queue, i)
  BY DEF Without
<1> HIDE DEF i
<1> QED
  BY <1>1, <1>2, <1>3, RemovalsRemoved

LEMMA TakeKeepsStatus == ASSUME StatusInv, TimerTake PROVE StatusInv'
<1>1. PICK n \in 1..Len(timer.queue) :
        timer' = [timer EXCEPT !.batch = SubSeq(timer.queue, 1, n),
                               !.queue = SubSeq(timer.queue, n + 1, Len(timer.queue))]
  BY DEF TimerTake
<1> DEFINE a == SubSeq(timer.queue, 1, n)
           b == SubSeq(timer.queue, n + 1, Len(timer.queue))
<1>2. /\ a \in Seq(Nat \cup Devs) /\ b \in Seq(Nat \cup Devs) /\ Once(a) /\ Once(b)
      /\ Removals(a) \cup Removals(b) = Removals(timer.queue) /\ Removals(a) \cap Removals(b) = {}
  BY EntriesTyped, RemovalsSplit DEF StatusInv, Separate
<1> HIDE DEF a, b
<1>3. timer' = [queue |-> b, batch |-> a, stopping |-> timer.stopping] /\ UNCHANGED line
  BY <1>1 DEF TimerTake, StatusInv, Timers, a, b
<1>4. Removals(timer.batch) = {}
  BY DEF TimerTake, Removals
<1>5. Removals(b) \cup Removals(a) = Pending /\ Removals(b) \cap Removals(a) = {}
  BY <1>2, <1>4 DEF Pending
<1> QED
  BY <1>2, <1>3, <1>5, EntriesTyped, StatusKept DEF StatusInv

\* The flush of a device is no removal.
LEMMA FlushKeepsStatus ==
    ASSUME StatusInv, DevicesAssumption, StatusLineAssumption, UNCHANGED line,
           timer.batch # <<>>, Head(timer.batch) \in Devs, timer' = [timer EXCEPT !.batch = Tail(@)]
    PROVE  StatusInv'
<1>1. /\ Tail(timer.batch) \in Seq(Nat \cup Devs) /\ Once(Tail(timer.batch))
      /\ Removals(Tail(timer.batch)) = Removals(timer.batch) \ {Head(timer.batch)}
  BY EntriesTyped, RemovalsOfTail DEF StatusInv, Separate
<1>2. Head(timer.batch) \notin Nat
  BY StatusLineAssumption
<1>3. Removals(Tail(timer.batch)) = Removals(timer.batch)
  BY <1>1, <1>2 DEF Removals
<1>4. timer' = [queue |-> timer.queue, batch |-> Tail(timer.batch), stopping |-> timer.stopping]
  BY DEF StatusInv, Timers
<1>5. Once(timer.queue) /\ Removals(timer.queue) \cap Removals(timer.batch) = {}
  BY DEF StatusInv, Separate
<1> QED
  BY <1>1, <1>3, <1>4, <1>5, EntriesTyped, StatusKept DEF StatusInv, Pending

\* Nor is it when it leaves the queue or enters it.
LEMMA DeviceLeavesQueue ==
    ASSUME StatusInv, StatusLineAssumption, NEW d \in Devs, NEW q,
           (q = Without(d) /\ Queued(d)) \/ q = timer.queue
    PROVE  q \in Seq(Nat \cup Devs) /\ Once(q) /\ Removals(q) = Removals(timer.queue)
<1>1. CASE q = Without(d) /\ Queued(d)
  <2>1. /\ Without(d) \in Seq(Nat \cup Devs) /\ Once(Without(d))
        /\ Removals(Without(d)) = Removals(timer.queue) \ {d}
    BY <1>1, WithoutRemoves
  <2>2. d \notin Removals(timer.queue)
    BY StatusLineAssumption DEF Removals
  <2> QED
    BY <1>1, <2>1, <2>2
<1>2. CASE q = timer.queue
  BY <1>2, EntriesTyped DEF StatusInv, Separate
<1> QED
  BY <1>1, <1>2

LEMMA QueueKeepsStatus ==
    ASSUME StatusInv, NEW q \in Seq(Nat \cup Devs), Once(q), Removals(q) = Removals(timer.queue),
           timer' = [timer EXCEPT !.queue = q], UNCHANGED line
    PROVE  StatusInv'
<1>1. timer' = [queue |-> q, batch |-> timer.batch, stopping |-> timer.stopping]
  BY DEF StatusInv, Timers
<1>2. Once(timer.batch) /\ Removals(timer.queue) \cap Removals(timer.batch) = {}
  BY DEF StatusInv, Separate
<1> QED
  BY <1>1, <1>2, EntriesTyped, StatusKept DEF StatusInv, Pending

LEMMA EventKeepsStatus ==
    ASSUME StatusInv, StatusLineAssumption, NEW d \in Devs, OnEvent(d), UNCHANGED line
    PROVE  StatusInv'
<1> DEFINE before == IF d \in pending /\ Queued(d) THEN Without(d) ELSE timer.queue
           q == Append(before, d)
<1>1. d \notin Nat
  BY StatusLineAssumption
<1>2. before \in Seq(Nat \cup Devs) /\ Once(before) /\ Removals(before) = Removals(timer.queue)
  BY DeviceLeavesQueue
<1>3. timer' = [timer EXCEPT !.queue = q]
  BY DEF OnEvent, Schedule
<1> HIDE DEF before
<1>4. q \in Seq(Nat \cup Devs) /\ Once(q) /\ Removals(q) = Removals(timer.queue)
  BY <1>1, <1>2, RemovalsAppended DEF Removals
<1> HIDE DEF q
<1> QED
  BY <1>3, <1>4, QueueKeepsStatus

LEMMA CancelKeepsStatus ==
    ASSUME StatusInv, StatusLineAssumption, NEW d \in Devs, CancelFlush(d) PROVE StatusInv'
<1> DEFINE q == IF Queued(d) THEN Without(d) ELSE timer.queue
<1>1. timer' = [timer EXCEPT !.queue = q] /\ UNCHANGED line
  BY DEF CancelFlush
<1>2. q \in Seq(Nat \cup Devs) /\ Once(q) /\ Removals(q) = Removals(timer.queue)
  BY DeviceLeavesQueue
<1> HIDE DEF q
<1> QED
  BY <1>1, <1>2, QueueKeepsStatus

LEMMA StopKeepsStatus ==
    ASSUME StatusInv, timer' = [timer EXCEPT !.stopping = TRUE], UNCHANGED line PROVE StatusInv'
<1>1. timer' = [queue |-> timer.queue, batch |-> timer.batch, stopping |-> TRUE]
  BY DEF StatusInv, Timers
<1> QED
  BY <1>1, EntriesTyped, StatusKept DEF StatusInv, Separate, Pending

\* The removal of the message on the line, if it can still be cancelled.
Cancelled == line.handle # 0 /\ Queued(line.handle)

LEMMA CancelRemoves ==
    ASSUME StatusInv, NEW q, q = IF Cancelled THEN Without(line.handle) ELSE timer.queue
    PROVE  /\ q \in Seq(Nat \cup Devs) /\ Once(q) /\ Removals(q) \subseteq Removals(timer.queue)
           /\ IsFiniteSet(Removals(q))
           /\ Cardinality(Removals(q)) =
                Cardinality(Removals(timer.queue)) - (IF Cancelled THEN 1 ELSE 0)
<1>0. /\ timer.queue \in Seq(Nat \cup Devs) /\ Once(timer.queue) /\ line.handle \in Nat
      /\ IsFiniteSet(Removals(timer.queue)) /\ Cardinality(Removals(timer.queue)) \in Nat
  <2>1. line.handle \in Nat
    BY StatusLineAssumption DEF StatusInv, Lines
  <2> QED
    BY <2>1, EntriesTyped, FS_CardinalityType DEF StatusInv, Separate, Counted
<1>1. CASE Cancelled
  <2>1. q \in Seq(Nat \cup Devs) /\ Once(q) /\ Removals(q) = Removals(timer.queue) \ {line.handle}
    BY <1>0, <1>1, WithoutRemoves DEF Cancelled
  <2>2. line.handle \in Removals(timer.queue)
    BY <1>0, <1>1 DEF Cancelled, Queued, Removals
  <2>3. /\ IsFiniteSet(Removals(q))
        /\ Cardinality(Removals(q)) = Cardinality(Removals(timer.queue)) - 1
    BY <1>0, <2>1, <2>2, FS_RemoveElement
  <2> QED
    BY <1>1, <2>1, <2>3
<1>2. CASE ~Cancelled
  BY <1>0, <1>2
<1> QED
  BY <1>1, <1>2

LEMMA LineTyped ==
    ASSUME StatusInv
    PROVE  /\ line.text \in Nat /\ line.generation \in Nat /\ line.handle \in Nat
           /\ line.outstanding \in Int /\ MaxMessages \in Nat
           /\ line.text <= MaxMessages /\ line.handle <= MaxMessages
           /\ line.generation <= MaxMessages + 1 /\ line.state \in {"open", "closing"}
           /\ Cardinality(Removals(timer.queue)) \in Nat
           /\ Cardinality(Removals(timer.batch)) \in Nat
<1>1. /\ line.text \in 0..MaxMessages /\ line.generation \in 0..(MaxMessages + 1)
      /\ line.handle \in 0..MaxMessages /\ line.outstanding \in Int
      /\ line.state \in {"open", "closing"}
  BY DEF StatusInv, Lines
<1>2. /\ Cardinality(Removals(timer.queue)) \in Nat
      /\ Cardinality(Removals(timer.batch)) \in Nat
  BY FS_CardinalityType DEF StatusInv, Counted
<1> QED
  BY <1>1, <1>2, StatusLineAssumption

LEMMA MessageKeepsStatus == ASSUME StatusInv, SetMessage PROVE StatusInv'
<1> DEFINE before == IF Cancelled THEN Without(line.handle) ELSE timer.queue
           next == line.generation + 1
           q == Append(before, next)
           out == line.outstanding + 1 - (IF Cancelled THEN 1 ELSE 0)
<1>0. /\ line' = [line EXCEPT !.text = next, !.generation = next, !.handle = next,
                              !.outstanding = out]
      /\ timer' = [timer EXCEPT !.queue = q]
      /\ line.generation < MaxMessages
  BY DEF SetMessage, Schedule, Cancelled
<1>1. /\ before \in Seq(Nat \cup Devs) /\ Once(before) /\ IsFiniteSet(Removals(before))
      /\ Removals(before) \subseteq Removals(timer.queue)
      /\ Cardinality(Removals(before)) =
           Cardinality(Removals(timer.queue)) - (IF Cancelled THEN 1 ELSE 0)
  BY CancelRemoves
<1> HIDE DEF before
<1>2. next \in Nat /\ next \in 1..MaxMessages /\ out \in Int /\ next \notin Pending
  BY <1>0, LineTyped DEF StatusInv, Separate
<1>3. /\ q \in Seq(Nat \cup Devs) /\ Once(q) /\ Removals(q) = Removals(before) \cup {next}
      /\ next \notin Removals(before)
  BY <1>1, <1>2, RemovalsAppended DEF Pending
<1>4. /\ IsFiniteSet(Removals(q))
      /\ Cardinality(Removals(q)) = Cardinality(Removals(before)) + 1
  BY <1>1, <1>3, FS_AddElement
<1> HIDE DEF q, out
<1>5. /\ line' \in Lines /\ line'.text = next /\ line'.generation = next /\ line'.handle = next
      /\ line'.outstanding = out /\ line'.state = line.state
  <2>1. next \in 0..MaxMessages /\ next \in 0..(MaxMessages + 1)
    BY <1>2, LineTyped
  <2> HIDE DEF next
  <2> QED
    BY <1>0, <1>2, <2>1 DEF StatusInv, Lines
<1>6. timer' \in Timers /\ timer'.queue = q /\ timer'.batch = timer.batch
  BY <1>0, <1>3 DEF StatusInv, Timers
<1>7. Separate'
  <2>1. Removals(timer'.queue) \cap Removals(timer'.batch) = {}
    BY <1>1, <1>2, <1>3, <1>6 DEF StatusInv, Separate, Pending
  <2>2. Pending' \subseteq Pending \cup {next}
    BY <1>1, <1>3, <1>6 DEF Pending
  <2>3. Pending' \subseteq 1..line'.generation
    BY <1>2, <1>5, <2>2, LineTyped DEF StatusInv, Separate
  <2> QED
    BY <1>3, <1>6, <2>1, <2>3 DEF StatusInv, Separate
<1>8. Current'
  BY <1>2, <1>5, LineTyped DEF Current
<1>9. Counted'
  <2>1. IsFiniteSet(Removals(timer'.queue)) /\ IsFiniteSet(Removals(timer'.batch))
    BY <1>4, <1>6 DEF StatusInv, Counted
  <2>2. out = Cardinality(Removals(q)) + Cardinality(Removals(timer.batch))
    <3>1. line.outstanding = Cardinality(Removals(timer.queue)) + Cardinality(Removals(timer.batch))
      BY DEF StatusInv, Counted
    <3> QED
      BY <1>1, <1>4, <3>1, LineTyped DEF out
  <2> QED
    BY <1>5, <1>6, <2>1, <2>2 DEF Counted
<1> QED
  BY <1>5, <1>6, <1>7, <1>8, <1>9 DEF StatusInv

LEMMA ClearKeepsStatus == ASSUME StatusInv, ClearFired PROVE StatusInv'
<1> DEFINE b == Tail(timer.batch)
           n == Head(timer.batch)
<1>0. /\ timer.batch # <<>> /\ n \in Nat /\ timer' = [timer EXCEPT !.batch = b]
      /\ line' = IF n = line.generation
                 THEN [line EXCEPT !.text = 0, !.handle = 0, !.outstanding = @ - 1]
                 ELSE [line EXCEPT !.outstanding = @ - 1]
  BY DEF ClearFired
<1>1. /\ b \in Seq(Nat \cup Devs) /\ Once(b) /\ Removals(b) = Removals(timer.batch) \ {n}
      /\ n \in Removals(timer.batch)
  BY <1>0, EntriesTyped, RemovalsOfTail DEF StatusInv, Separate
<1> HIDE DEF b, n
<1>2. IsFiniteSet(Removals(b)) /\ Cardinality(Removals(b)) = Cardinality(Removals(timer.batch)) - 1
  BY <1>1, FS_RemoveElement DEF StatusInv, Counted
<1>3. /\ line' \in Lines /\ line'.outstanding = line.outstanding - 1
      /\ line'.generation = line.generation /\ line'.state = line.state
      /\ \/ line'.text = 0 /\ line'.handle = 0
         \/ line'.text = line.text /\ line'.handle = line.handle
  <2>1. 0 \in 0..MaxMessages /\ line.outstanding - 1 \in Int
    BY LineTyped
  <2> QED
    BY <1>0, <2>1 DEF StatusInv, Lines
<1>4. timer' \in Timers /\ timer'.queue = timer.queue /\ timer'.batch = b
  BY <1>0, <1>1 DEF StatusInv, Timers
<1>5. Pending' \subseteq Pending
  BY <1>1, <1>4 DEF Pending
<1>6. Separate'
  BY <1>1, <1>3, <1>4, <1>5 DEF StatusInv, Separate
<1>7. Current'
  BY <1>3, <1>5 DEF StatusInv, Current
<1>8. Counted'
  <2>1. line.outstanding = Cardinality(Removals(timer.queue)) + Cardinality(Removals(timer.batch))
    BY DEF StatusInv, Counted
  <2>2. line.outstanding - 1 = Cardinality(Removals(timer.queue)) + Cardinality(Removals(b))
    BY <1>2, <2>1, LineTyped
  <2> QED
    BY <1>2, <1>3, <1>4, <2>2 DEF StatusInv, Counted
<1> QED
  BY <1>3, <1>4, <1>6, <1>7, <1>8 DEF StatusInv

LEMMA CloseKeepsStatus == ASSUME StatusInv, CloseLine PROVE StatusInv'
<1> DEFINE q == IF Cancelled THEN Without(line.handle) ELSE timer.queue
           out == line.outstanding - (IF Cancelled THEN 1 ELSE 0)
<1>0. /\ line.state = "open"
      /\ line' = [line EXCEPT !.state = "closing", !.generation = line.generation + 1,
                              !.outstanding = out]
      /\ timer' = [timer EXCEPT !.queue = q]
  BY DEF CloseLine, Cancelled
<1>1. /\ q \in Seq(Nat \cup Devs) /\ Once(q) /\ IsFiniteSet(Removals(q))
      /\ Removals(q) \subseteq Removals(timer.queue)
      /\ Cardinality(Removals(q)) =
           Cardinality(Removals(timer.queue)) - (IF Cancelled THEN 1 ELSE 0)
  BY CancelRemoves
<1>2. out \in Int /\ line.generation <= MaxMessages
  BY <1>0, LineTyped DEF StatusInv, Current
<1> HIDE DEF q, out
<1>3. /\ line' \in Lines /\ line'.text = line.text /\ line'.handle = line.handle
      /\ line'.generation = line.generation + 1
      /\ line'.outstanding = out /\ line'.state = "closing"
  <2>1. line.generation + 1 \in 0..(MaxMessages + 1)
    BY <1>2, LineTyped
  <2> QED
    BY <1>0, <1>2, <2>1 DEF StatusInv, Lines
<1>4. timer' \in Timers /\ timer'.queue = q /\ timer'.batch = timer.batch
  BY <1>0, <1>1 DEF StatusInv, Timers
<1>5. Pending' \subseteq Pending /\ line.generation + 1 \notin Pending
  <2>1. Pending' \subseteq Pending
    BY <1>1, <1>4 DEF Pending
  <2>2. Pending \subseteq 1..line.generation
    BY DEF StatusInv, Separate
  <2> QED
    BY <2>1, <2>2, LineTyped
<1>6. Separate'
  <2>1. Removals(timer'.queue) \cap Removals(timer'.batch) = {}
    BY <1>1, <1>4 DEF StatusInv, Separate
  <2>2. Pending' \subseteq 1..line'.generation
    BY <1>3, <1>5, LineTyped DEF StatusInv, Separate
  <2> QED
    BY <1>1, <1>4, <2>1, <2>2 DEF StatusInv, Separate
<1>7. Current'
  BY <1>3, <1>5 DEF StatusInv, Current
<1>8. Counted'
  <2>1. line.outstanding = Cardinality(Removals(timer.queue)) + Cardinality(Removals(timer.batch))
    BY DEF StatusInv, Counted
  <2>2. out = Cardinality(Removals(q)) + Cardinality(Removals(timer.batch))
    BY <1>1, <2>1, LineTyped DEF out
  <2> QED
    BY <1>1, <1>3, <1>4, <2>2 DEF StatusInv, Counted
<1> QED
  BY <1>3, <1>4, <1>6, <1>7, <1>8 DEF StatusInv

-----------------------------------------------------------------------------
(* The threads.                                                            *)

LEMMA RowsTyped ==
    ASSUME NEW present \in SUBSET Devs, NEW disabled
    PROVE  Rows(present, disabled) \subseteq RowType /\ OneEach(Rows(present, disabled))
BY DEF Rows, Row, RowType, OneEach

LEMMA PublishingTyped ==
    ASSUME NEW events \in Seq(Events)
    PROVE  /\ Publishing(events) \in ThreadRecords /\ Publishing(events).seen = {}
           /\ events = <<>> => Publishing(events).at = "idle"
           /\ events # <<>> => Publishing(events).at = "publish" /\ Publishing(events).events = events
<1>1. Idle \in ThreadRecords /\ Idle.seen = {} /\ Idle.at = "idle"
  <2>1. <<>> \in Seq(Events)
    OBVIOUS
  <2> QED
    BY <2>1 DEF Idle, ThreadRecords, Steps
<1>2. CASE events = <<>>
  BY <1>1, <1>2 DEF Publishing
<1>3. CASE events # <<>>
  <2>1. Publishing(events) = [Idle EXCEPT !.at = "publish", !.events = events]
    BY <1>3 DEF Publishing
  <2> QED
    BY <1>1, <1>3, <2>1 DEF ThreadRecords, Steps
<1> QED
  BY <1>2, <1>3

\* A thread goes on to a record of its type.
LEMMA ThreadMoves ==
    ASSUME ThreadsType, NEW t \in Threads, NEW r \in ThreadRecords, OneEach(r.seen),
           r.at \in {"publish", "post", "message"} => r.events # <<>>,
           thread' = [thread EXCEPT ![t] = r]
    PROVE  ThreadsType' /\ thread'[t] = r /\ \A u \in Threads \ {t} : thread'[u] = thread[u]
BY DEF ThreadsType

\* A thread that is neither announcing nor posting is not what the list waits for.
LEMMA OthersAnnounce ==
    ASSUME NEW t \in Threads, thread \in [Threads -> ThreadRecords],
           \A u \in Threads \ {t} : thread'[u] = thread[u],
           ~At(t, "publish") \/ Head(thread[t].events) # "model"
    PROVE  (Announcing => Announcing')
BY DEF Announcing, At

\* Whatever does not touch the rows, the model and the thread that announces keeps
\* the promise of a rebuild.
LEMMA FreshKept ==
    ASSUME Fresh, UNCHANGED <<model, view>>, HasRebuild => HasRebuild', Announcing => Announcing',
           \A t \in Threads : At(t, "post") => At(t, "post")'
    PROVE  Fresh'
<1>1. Behind => Behind'
  BY DEF Behind
<1> QED
  BY <1>1 DEF Fresh

LEMMA StillThreads ==
    ASSUME ThreadsType, UNCHANGED thread
    PROVE  /\ ThreadsType' /\ (Announcing => Announcing')
           /\ \A t \in Threads : At(t, "post") => At(t, "post")'
BY DEF ThreadsType, Announcing, At

LEMMA StillFresh ==
    ASSUME Fresh, ThreadsType, UNCHANGED <<model, view, thread>>, HasRebuild => HasRebuild'
    PROVE  ThreadsType' /\ Fresh'
BY FreshKept, StillThreads

LEMMA QuietMove ==
    ASSUME ThreadsType, Fresh, NEW t \in Threads, NEW r \in ThreadRecords, OneEach(r.seen),
           r.at \in {"publish", "post", "message"} => r.events # <<>>,
           thread' = [thread EXCEPT ![t] = r],
           ~At(t, "post"), ~At(t, "publish") \/ Head(thread[t].events) # "model",
           UNCHANGED <<model, view>>, HasRebuild => HasRebuild'
    PROVE  ThreadsType' /\ Fresh'
<1>1. /\ ThreadsType' /\ thread'[t] = r
      /\ \A u \in Threads \ {t} : thread'[u] = thread[u]
  BY ThreadMoves
<1>2. Announcing => Announcing'
  BY <1>1, OthersAnnounce DEF ThreadsType
<1>3. \A u \in Threads : At(u, "post") => At(u, "post")'
  BY <1>1 DEF At
<1> QED
  BY <1>1, <1>2, <1>3, FreshKept

LEMMA ThreadTyped ==
    ASSUME ThreadsType, NEW t \in Threads
    PROVE  thread[t] \in ThreadRecords /\ OneEach(thread[t].seen) /\ thread[t].seen \subseteq RowType
BY DEF ThreadsType, ThreadRecords

\* An announcement: the thread that changed the model has it to publish.
LEMMA Announces ==
    ASSUME ThreadsType, Fresh, NEW t \in Threads, At(t, "idle") \/ At(t, "apply"),
           NEW events \in Seq({"model"}), thread' = [thread EXCEPT ![t] = Publishing(events)],
           events = <<>> => UNCHANGED model, UNCHANGED <<view, posted>>
    PROVE  ThreadsType' /\ Fresh'
<1>0. events \in Seq(Events) /\ (events # <<>> => Head(events) = "model")
  BY DEF Events
<1>1. /\ Publishing(events) \in ThreadRecords /\ OneEach(Publishing(events).seen)
      /\ Publishing(events).at \in {"publish", "post", "message"} => Publishing(events).events # <<>>
      /\ events # <<>> => Publishing(events).at = "publish" /\ Publishing(events).events = events
  BY <1>0, PublishingTyped DEF OneEach
<1>2. CASE events = <<>>
  <2>1. UNCHANGED <<model, view>> /\ (HasRebuild => HasRebuild')
    BY <1>2 DEF HasRebuild
  <2> QED
    BY <1>1, <2>1, QuietMove DEF At
<1>3. CASE events # <<>>
  <2>1. ThreadsType' /\ thread'[t] = Publishing(events)
    BY <1>1, ThreadMoves
  <2>2. Announcing'
    BY <1>0, <1>1, <1>3, <2>1 DEF Announcing, At
  <2> QED
    BY <2>1, <2>2 DEF Fresh, HasRebuild, Behind
<1> QED
  BY <1>2, <1>3

-----------------------------------------------------------------------------
(* The tasks.                                                              *)

LEMMA TaskTaken ==
    ASSUME WorldType, queued # <<>> PROVE Head(queued) \in Tasks /\ Tail(queued) \in Seq(Tasks)
BY HeadTailProperties DEF WorldType

LEMMA EnumerateKeeps ==
    ASSUME DevicesInv, NEW w \in Workers, Enumerate(w) PROVE WorldType' /\ ViewType' /\ ThreadsType' /\ Fresh'
<1>0. /\ w \in Threads /\ At(w, "idle") /\ queued # <<>> /\ queued' = Tail(queued)
      /\ UNCHANGED <<world, facade, ui, tasks>>
  BY DEF Enumerate, Takes, Threads
<1>1. WorldType' /\ ViewType'
  BY <1>0, TaskTaken DEF DevicesInv, WorldType, ViewType, world, facade, ui
<1>2. UNCHANGED <<model, view>> /\ (HasRebuild => HasRebuild')
  BY <1>0 DEF facade, ui, HasRebuild
<1>3. CASE UNCHANGED thread
  BY <1>1, <1>2, <1>3, StillFresh DEF DevicesInv
<1>4. CASE thread' = [thread EXCEPT ![w] =
             [Idle EXCEPT !.at = "ask", !.task = "refresh", !.seen = Rows(sysfs, {})]]
  <2> DEFINE seen == Rows(sysfs, {})
             r == [Idle EXCEPT !.at = "ask", !.task = "refresh", !.seen = seen]
  <2>1. seen \subseteq RowType /\ OneEach(seen)
    BY RowsTyped DEF DevicesInv, WorldType
  <2> HIDE DEF seen
  <2>2. r \in ThreadRecords /\ r.seen = seen /\ r.at = "ask"
    <3>1. <<>> \in Seq(Events)
      OBVIOUS
    <3> QED
      BY <2>1, <3>1 DEF Idle, ThreadRecords, Steps
  <2>3. thread' = [thread EXCEPT ![w] = r]
    BY <1>4 DEF seen
  <2> HIDE DEF r
  <2> QED
    BY <1>0, <1>1, <1>2, <2>1, <2>2, <2>3, QuietMove DEF DevicesInv, At
<1> QED
  BY <1>3, <1>4 DEF Enumerate

LEMMA AskKeeps ==
    ASSUME DevicesInv, NEW w \in Workers, Ask(w) PROVE WorldType' /\ ViewType' /\ ThreadsType' /\ Fresh'
<1> DEFINE devices == {row.device : row \in thread[w].seen}
<1>0. w \in Threads /\ At(w, "ask") /\ UNCHANGED <<world, facade, queued, ui, tasks>>
  BY DEF Ask, Threads
<1>1. WorldType' /\ ViewType' /\ UNCHANGED <<model, view>> /\ (HasRebuild => HasRebuild')
  BY <1>0 DEF DevicesInv, WorldType, ViewType, HasRebuild, world, facade, ui
<1>2. thread[w] \in ThreadRecords /\ OneEach(thread[w].seen) /\ thread[w].seen \subseteq RowType
  BY <1>0, ThreadTyped DEF DevicesInv
<1>3. \E seen \in SUBSET RowType, failed \in BOOLEAN :
        /\ OneEach(seen)
        /\ thread' = [thread EXCEPT ![w] =
             [thread[w] EXCEPT !.at = "observe", !.failed = failed, !.seen = seen]]
  <2>1. CASE thread' = [thread EXCEPT ![w].at = "observe", ![w].seen = Rows(devices, entries)]
    <3>1. devices \subseteq Devs
      BY <1>2 DEF RowType
    <3> HIDE DEF devices
    <3>2. Rows(devices, entries) \subseteq RowType /\ OneEach(Rows(devices, entries))
      BY <3>1, RowsTyped
    <3>3. PICK seen : seen = Rows(devices, entries)
      OBVIOUS
    <3>4. [thread[w] EXCEPT !.at = "observe", !.seen = seen]
            = [thread[w] EXCEPT !.at = "observe", !.failed = thread[w].failed, !.seen = seen]
      BY <1>2 DEF ThreadRecords
    <3>5. thread' = [thread EXCEPT ![w] = [thread[w] EXCEPT !.at = "observe", !.seen = seen]]
      BY <1>0, <2>1, <3>3 DEF DevicesInv, ThreadsType
    <3>6. thread[w].failed \in BOOLEAN
      BY <1>2 DEF ThreadRecords
    <3> QED
      BY <3>2, <3>3, <3>4, <3>5, <3>6
  <2>2. CASE thread' = [thread EXCEPT ![w].at = "observe", ![w].failed = TRUE]
    <3>1. [thread[w] EXCEPT !.at = "observe", !.failed = TRUE]
            = [thread[w] EXCEPT !.at = "observe", !.failed = TRUE, !.seen = thread[w].seen]
      BY <1>2 DEF ThreadRecords
    <3>2. thread' = [thread EXCEPT ![w] = [thread[w] EXCEPT !.at = "observe", !.failed = TRUE]]
      BY <1>0, <2>2 DEF DevicesInv, ThreadsType
    <3> QED
      BY <1>2, <3>1, <3>2
  <2> QED
    BY <2>1, <2>2 DEF Ask
<1>4. PICK seen \in SUBSET RowType, failed \in BOOLEAN :
        /\ OneEach(seen)
        /\ thread' = [thread EXCEPT ![w] =
             [thread[w] EXCEPT !.at = "observe", !.failed = failed, !.seen = seen]]
  BY <1>3
<1> DEFINE r == [thread[w] EXCEPT !.at = "observe", !.failed = failed, !.seen = seen]
<1>5. r \in ThreadRecords /\ r.seen = seen /\ r.at = "observe"
  BY <1>2 DEF ThreadRecords, Steps
<1>6. thread' = [thread EXCEPT ![w] = r]
  BY <1>4
<1> HIDE DEF r
<1> QED
  BY <1>0, <1>1, <1>4, <1>5, <1>6, QuietMove DEF DevicesInv, At

LEMMA ObserveKeeps ==
    ASSUME DevicesInv, NEW w \in Workers, Observe(w) PROVE WorldType' /\ ViewType' /\ ThreadsType' /\ Fresh'
<1> DEFINE r == [thread[w] EXCEPT !.at = "note"]
<1>0. w \in Threads /\ At(w, "observe") /\ UNCHANGED <<world, noted, model, pending, queued, ui, tasks>>
  BY DEF Observe, Threads
<1>1. WorldType' /\ ViewType' /\ UNCHANGED <<model, view>> /\ (HasRebuild => HasRebuild')
  BY <1>0 DEF DevicesInv, WorldType, ViewType, HasRebuild, world, ui
<1>2. thread' = [thread EXCEPT ![w] = r]
  BY <1>0 DEF Observe, Go, DevicesInv, ThreadsType
<1>3. r \in ThreadRecords /\ OneEach(r.seen) /\ r.at = "note"
  BY <1>0, ThreadTyped DEF DevicesInv, ThreadRecords, Steps
<1> HIDE DEF r
<1> QED
  BY <1>0, <1>1, <1>2, <1>3, QuietMove DEF DevicesInv, At

LEMMA NoteKeeps ==
    ASSUME DevicesInv, NEW w \in Workers, Note(w) PROVE WorldType' /\ ViewType' /\ ThreadsType' /\ Fresh'
<1> DEFINE r == IF thread[w].task = "refresh" THEN [thread[w] EXCEPT !.at = "apply"]
                ELSE Publishing(<<"done">>)
<1>0. w \in Threads /\ At(w, "note") /\ UNCHANGED <<world, daemonError, model, pending, queued, ui, tasks>>
  BY DEF Note, Threads
<1>1. WorldType' /\ ViewType' /\ UNCHANGED <<model, view>> /\ (HasRebuild => HasRebuild')
  BY <1>0 DEF DevicesInv, WorldType, ViewType, HasRebuild, world, ui
<1>2. thread' = [thread EXCEPT ![w] = r]
  BY <1>0 DEF Note, DevicesInv, ThreadsType
<1>3. thread[w] \in ThreadRecords /\ OneEach(thread[w].seen)
  BY <1>0, ThreadTyped DEF DevicesInv
<1>4. /\ r \in ThreadRecords /\ OneEach(r.seen)
      /\ r.at \in {"publish", "post", "message"} => r.events # <<>>
  <2>1. CASE thread[w].task = "refresh"
    <3>1. r = [thread[w] EXCEPT !.at = "apply"]
      BY <2>1
    <3> HIDE DEF r
    <3>2. r \in ThreadRecords /\ r.seen = thread[w].seen /\ r.at = "apply"
      BY <1>3, <3>1 DEF ThreadRecords, Steps
    <3> QED
      BY <1>3, <3>2
  <2>2. CASE thread[w].task # "refresh"
    <3>1. r = Publishing(<<"done">>) /\ <<"done">> \in Seq(Events) /\ <<"done">> # <<>>
      BY <2>2 DEF Events
    <3> HIDE DEF r
    <3> QED
      BY <3>1, PublishingTyped DEF OneEach
  <2> QED
    BY <2>1, <2>2
<1> HIDE DEF r
<1> QED
  BY <1>0, <1>1, <1>2, <1>4, QuietMove DEF DevicesInv, At

\* As many events as devices differ, so none only if the model is what was seen.
LEMMA ApplyKeeps ==
    ASSUME DevicesInv, NEW w \in Workers, Apply(w) PROVE WorldType' /\ ViewType' /\ ThreadsType' /\ Fresh'
<1> DEFINE seen == thread[w].seen
           difference == {row.device : row \in (model \ seen) \cup (seen \ model)}
           events == [i \in 1..Cardinality(difference) |-> "model"]
<1>0. /\ w \in Threads /\ At(w, "apply") /\ UNCHANGED <<world, pending, queued, ui, tasks>>
      /\ model' = seen /\ thread' = [thread EXCEPT ![w] = Publishing(events)]
  BY DEF Apply, Threads
<1>1. seen \subseteq RowType /\ OneEach(seen)
  BY <1>0, ThreadTyped DEF DevicesInv
<1>2. WorldType' /\ ViewType' /\ UNCHANGED <<view, posted>>
  BY <1>0, <1>1 DEF DevicesInv, WorldType, ViewType, world, ui
<1>3. Cardinality(difference) \in Nat /\ (Cardinality(difference) = 0 <=> difference = {})
  <2>1. difference \subseteq Devs
    BY <1>1 DEF DevicesInv, WorldType, RowType
  <2> HIDE DEF difference
  <2>2. IsFiniteSet(difference)
    BY <2>1, DevicesAssumption, FS_Subset
  <2> QED
    BY <2>2, FS_CardinalityType, FS_EmptySet
<1>4. difference = {} => model = seen
  OBVIOUS
<1> HIDE DEF difference, seen
<1>5. events \in Seq({"model"}) /\ Len(events) = Cardinality(difference)
  BY <1>3
<1>6. events = <<>> => UNCHANGED model
  BY <1>0, <1>3, <1>4, <1>5, EmptySeq
<1> HIDE DEF events
<1> QED
  BY <1>0, <1>2, <1>5, <1>6, Announces DEF DevicesInv

LEMMA DeviceVerbKeeps ==
    ASSUME DevicesInv, NEW w \in Workers, DeviceVerb(w) PROVE WorldType' /\ ViewType' /\ ThreadsType' /\ Fresh'
<1>0. /\ w \in Threads /\ At(w, "idle") /\ queued # <<>> /\ queued' = Tail(queued)
      /\ Head(queued).verb \in {"enable", "disable"}
      /\ UNCHANGED <<sysfs, changes, daemonError, noted, model, ui, tasks, line>>
  BY DEF DeviceVerb, Takes, Threads
<1>1. entries' \subseteq Devs /\ pending' \subseteq Devs
  <2>1. CASE UNCHANGED <<entries, pending>>
    BY <2>1 DEF DevicesInv, WorldType
  <2>2. CASE Head(queued).device \in sysfs /\ (UNCHANGED pending \/ OnEvent(Head(queued).device))
    BY <2>2 DEF DeviceVerb, OnEvent, DevicesInv, WorldType
  <2> QED
    BY <2>1, <2>2 DEF DeviceVerb
<1>2. WorldType' /\ ViewType' /\ UNCHANGED <<model, view>> /\ (HasRebuild => HasRebuild')
  BY <1>0, <1>1, TaskTaken DEF DevicesInv, WorldType, ViewType, HasRebuild, ui
<1>3. \E r \in ThreadRecords :
        /\ r.seen = {} /\ (r.at \in {"publish", "post", "message"} => r.events # <<>>)
        /\ thread' = [thread EXCEPT ![w] = r]
  <2>1. ASSUME NEW e \in Events, thread' = [thread EXCEPT ![w] = Publishing(<<e>>)]
        PROVE  \E r \in ThreadRecords :
                 /\ r.seen = {} /\ (r.at \in {"publish", "post", "message"} => r.events # <<>>)
                 /\ thread' = [thread EXCEPT ![w] = r]
    <3>1. <<e>> \in Seq(Events) /\ <<e>> # <<>>
      OBVIOUS
    <3>2. /\ Publishing(<<e>>) \in ThreadRecords /\ Publishing(<<e>>).seen = {}
          /\ Publishing(<<e>>).events # <<>>
      BY <3>1, PublishingTyped
    <3> QED
      BY <2>1, <3>2
  <2>2. CASE thread' = [thread EXCEPT ![w] = [Idle EXCEPT !.at = "observe", !.task = "verb"]]
    <3> DEFINE r == [Idle EXCEPT !.at = "observe", !.task = "verb"]
    <3>1. r \in ThreadRecords /\ r.seen = {} /\ r.at = "observe"
      <4>1. <<>> \in Seq(Events)
        OBVIOUS
      <4> QED
        BY <4>1 DEF Idle, ThreadRecords, Steps
    <3> QED
      BY <2>2, <3>1
  <2>3. \/ thread' = [thread EXCEPT ![w] = Publishing(<<"refused">>)]
        \/ thread' = [thread EXCEPT ![w] = [Idle EXCEPT !.at = "observe", !.task = "verb"]]
        \/ thread' = [thread EXCEPT ![w] = Publishing(<<"done">>)]
    BY DEF DeviceVerb
  <2>4. "refused" \in Events /\ "done" \in Events
    BY DEF Events
  <2> QED
    BY <2>1, <2>2, <2>3, <2>4
<1>4. PICK r \in ThreadRecords :
        /\ r.seen = {} /\ (r.at \in {"publish", "post", "message"} => r.events # <<>>)
        /\ thread' = [thread EXCEPT ![w] = r]
  BY <1>3
<1>5. OneEach(r.seen)
  BY <1>4 DEF OneEach
<1> QED
  BY <1>0, <1>2, <1>4, <1>5, QuietMove DEF DevicesInv, At

LEMMA FlushKeeps ==
    ASSUME DevicesInv, At("timer", "idle"), Flush PROVE WorldType' /\ ViewType' /\ ThreadsType' /\ Fresh'
<1> DEFINE d == Head(timer.batch)
           events == IF model' = model THEN <<>> ELSE <<"model">>
<1>0. /\ d \in Devs /\ "timer" \in Threads /\ UNCHANGED <<line, world, daemonError, noted, queued, ui, tasks>>
      /\ \/ /\ model' = (model \ Known(d)) \cup Rows(sysfs \cap {d}, {})
            /\ pending' = pending \ {d}
         \/ UNCHANGED <<model, pending>>
      /\ thread' = [thread EXCEPT !["timer"] = Publishing(events)]
  BY DEF Flush, Threads
<1> HIDE DEF d
<1>1. model' \subseteq RowType /\ OneEach(model') /\ pending' \subseteq Devs
  <2>1. Rows(sysfs \cap {d}, {}) \subseteq RowType /\ OneEach(Rows(sysfs \cap {d}, {}))
    BY <1>0, RowsTyped
  <2>2. \A r \in Rows(sysfs \cap {d}, {}) : r.device = d
    BY DEF Rows, Row
  <2>3. \A r \in model \ Known(d) : r.device # d
    BY DEF Known
  <2>4. CASE UNCHANGED <<model, pending>>
    BY <2>4 DEF DevicesInv, WorldType, OneEach
  <2> QED
    BY <1>0, <2>1, <2>2, <2>3, <2>4 DEF DevicesInv, WorldType, OneEach
<1>2. WorldType' /\ ViewType' /\ UNCHANGED <<view, posted>>
  BY <1>0, <1>1 DEF DevicesInv, WorldType, ViewType, world, ui
<1>3. events \in Seq({"model"}) /\ (events = <<>> => UNCHANGED model)
  <2>1. CASE model' = model
    BY <2>1
  <2>2. CASE model' # model
    <3>1. events = <<"model">> /\ <<"model">> \in Seq({"model"}) /\ <<"model">> # <<>>
      BY <2>2
    <3> HIDE DEF events
    <3> QED
      BY <3>1
  <2> QED
    BY <2>1, <2>2
<1> HIDE DEF events
<1> QED
  BY <1>0, <1>2, <1>3, Announces DEF DevicesInv

-----------------------------------------------------------------------------
(* Publication.                                                            *)

LEMMA ViewFlags ==
    ASSUME view \in Views
    PROVE  /\ view.valid \in BOOLEAN /\ view.queued \in BOOLEAN
           /\ view.rows \subseteq RowType /\ view.at \in {"idle", "claim", "fetch"}
BY DEF Views

LEMMA InvalidateKeeps ==
    ASSUME DevicesInv, NEW t \in Threads, Invalidate(t)
    PROVE  WorldType' /\ ViewType' /\ ThreadsType' /\ Fresh'
<1> DEFINE r == [thread[t] EXCEPT !.at = "post"]
<1>0. /\ At(t, "publish") /\ view' = [view EXCEPT !.valid = FALSE]
      /\ UNCHANGED <<world, facade, queued, posted, loop, tasks>>
      /\ thread' = [thread EXCEPT ![t] = r]
  BY DEF Invalidate, Go, DevicesInv, ThreadsType
<1>1. /\ view' \in Views /\ view'.valid = FALSE /\ view'.rows = view.rows
      /\ view'.queued = view.queued /\ view'.at = view.at
  BY <1>0 DEF DevicesInv, ViewType, Views
<1>2. WorldType' /\ ViewType'
  BY <1>0, <1>1 DEF DevicesInv, WorldType, ViewType, world, facade
<1>3. r \in ThreadRecords /\ r.seen = thread[t].seen /\ r.at = "post" /\ r.events = thread[t].events
  BY ThreadTyped DEF DevicesInv, ThreadRecords, Steps
<1> HIDE DEF r
<1>4. ThreadsType' /\ thread'[t] = r
  <2>1. OneEach(r.seen) /\ r.events # <<>>
    BY <1>0, <1>3, ThreadTyped DEF DevicesInv, ThreadsType, At
  <2> QED
    BY <1>0, <1>3, <2>1, ThreadMoves DEF DevicesInv
<1>5. Fresh'
  <2>1. view'.queued = TRUE => HasRebuild'
    BY <1>0, <1>1 DEF DevicesInv, Fresh, HasRebuild
  <2>2. Behind'
    BY <1>1, <1>3, <1>4 DEF Behind, At
  <2> QED
    BY <2>1, <2>2 DEF Fresh
<1> QED
  BY <1>2, <1>4, <1>5

LEMMA PostKeeps ==
    ASSUME DevicesInv, NEW t \in Threads, PostRebuild(t)
    PROVE  WorldType' /\ ViewType' /\ ThreadsType' /\ Fresh'
<1> DEFINE r == [thread[t] EXCEPT !.at = "message"]
<1>0. /\ At(t, "post") /\ view' = [view EXCEPT !.queued = TRUE]
      /\ posted' = IF view.queued THEN posted ELSE Append(posted, "rebuild")
      /\ UNCHANGED <<world, facade, queued, loop, tasks>>
      /\ thread' = [thread EXCEPT ![t] = r]
  BY DEF PostRebuild, Go, DevicesInv, ThreadsType
<1>1. /\ view' \in Views /\ view'.valid = view.valid /\ view'.rows = view.rows
      /\ view'.queued = TRUE /\ view'.at = view.at
  BY <1>0 DEF DevicesInv, ViewType, Views
<1>2. posted' \in Seq({"rebuild", "refresh"}) /\ HasRebuild'
  <2>1. posted \in Seq({"rebuild", "refresh"}) /\ view.queued \in BOOLEAN
    BY ViewFlags DEF DevicesInv, WorldType, ViewType
  <2>2. CASE view.queued = TRUE
    BY <1>0, <2>1, <2>2 DEF DevicesInv, Fresh, HasRebuild
  <2>3. CASE view.queued = FALSE
    <3>1. posted' = Append(posted, "rebuild")
      BY <1>0, <2>3
    <3>2. /\ posted' \in Seq({"rebuild", "refresh"}) /\ Len(posted') = Len(posted) + 1
          /\ posted'[Len(posted) + 1] = "rebuild"
      BY <2>1, <3>1, AppendProperties
    <3>3. Len(posted) + 1 \in DOMAIN posted'
      BY <2>1, <3>2, LenProperties
    <3> QED
      BY <3>2, <3>3 DEF HasRebuild
  <2> QED
    BY <2>1, <2>2, <2>3
<1>3. WorldType' /\ ViewType'
  BY <1>0, <1>1, <1>2 DEF DevicesInv, WorldType, ViewType, world, facade
<1>4. r \in ThreadRecords /\ r.seen = thread[t].seen /\ r.at = "message" /\ r.events = thread[t].events
  BY ThreadTyped DEF DevicesInv, ThreadRecords, Steps
<1> HIDE DEF r
<1>5. ThreadsType' /\ \A u \in Threads \ {t} : thread'[u] = thread[u]
  <2>1. OneEach(r.seen) /\ r.events # <<>>
    BY <1>0, <1>4, ThreadTyped DEF DevicesInv, ThreadsType, At
  <2> QED
    BY <1>0, <1>4, <2>1, ThreadMoves DEF DevicesInv
<1>6. Announcing => Announcing'
  BY <1>0, <1>5, OthersAnnounce DEF DevicesInv, ThreadsType, At
<1>7. Behind => Behind'
  BY <1>1, <1>6 DEF Behind
<1>8. Fresh'
  BY <1>0, <1>1, <1>2, <1>7 DEF DevicesInv, Fresh, facade
<1> QED
  BY <1>3, <1>5, <1>8

LEMMA MessageKeeps ==
    ASSUME DevicesInv, NEW t \in Threads, Message(t)
    PROVE  WorldType' /\ ViewType' /\ ThreadsType' /\ Fresh'
<1> DEFINE r == Publishing(Tail(thread[t].events))
<1>0. /\ At(t, "message") \/ (At(t, "publish") /\ Head(thread[t].events) # "model")
      /\ thread' = [thread EXCEPT ![t] = r]
      /\ posted' = IF Head(thread[t].events) = "done" THEN Append(posted, "refresh") ELSE posted
      /\ UNCHANGED <<world, facade, queued, view, loop, tasks>>
  BY DEF Message, DevicesInv, ThreadsType
<1>1. thread[t].events \in Seq(Events) /\ thread[t].events # <<>>
  BY <1>0, ThreadTyped DEF DevicesInv, ThreadsType, ThreadRecords, At
<1>2. Tail(thread[t].events) \in Seq(Events)
  BY <1>1, HeadTailProperties
<1>3. /\ r \in ThreadRecords /\ OneEach(r.seen)
      /\ r.at \in {"publish", "post", "message"} => r.events # <<>>
  <2>1. PICK left \in Seq(Events) : left = Tail(thread[t].events)
    BY <1>2
  <2>2. /\ r \in ThreadRecords /\ r.seen = {}
        /\ left = <<>> => r.at = "idle"
        /\ left # <<>> => r.events = left
    BY <2>1, PublishingTyped
  <2> HIDE DEF r
  <2> QED
    BY <2>2 DEF OneEach
<1>4. posted' \in Seq({"rebuild", "refresh"}) /\ (HasRebuild => HasRebuild')
  <2>1. posted \in Seq({"rebuild", "refresh"})
    BY DEF DevicesInv, WorldType
  <2>2. CASE posted' = posted
    BY <2>1, <2>2 DEF HasRebuild
  <2>3. CASE posted' = Append(posted, "refresh")
    <3>1. /\ posted' \in Seq({"rebuild", "refresh"}) /\ Len(posted') = Len(posted) + 1
          /\ \A i \in 1..Len(posted) : posted'[i] = posted[i]
      BY <2>1, <2>3, AppendProperties
    <3>2. DOMAIN posted = 1..Len(posted) /\ DOMAIN posted' = 1..Len(posted) + 1 /\ Len(posted) \in Nat
      BY <2>1, <3>1, LenProperties
    <3> QED
      BY <3>1, <3>2 DEF HasRebuild
  <2> QED
    BY <1>0, <2>2, <2>3
<1>5. WorldType' /\ ViewType' /\ UNCHANGED <<model, view>>
  BY <1>0, <1>4 DEF DevicesInv, WorldType, ViewType, world, facade
<1> HIDE DEF r
<1> QED
  BY <1>0, <1>3, <1>4, <1>5, QuietMove DEF DevicesInv, At

-----------------------------------------------------------------------------
(* The user interface thread, the environment and the teardown.            *)

LEMMA UiKeeps ==
    ASSUME DevicesInv, Ui \/ EditFilter PROVE WorldType' /\ ViewType' /\ ThreadsType' /\ Fresh'
<1>0. view \in Views /\ UNCHANGED <<world, facade, thread, loop>>
  BY DEF DevicesInv, ViewType, Ui, EditFilter, RunRebuild, RunRefresh, Claim, Fetch
<1>1. ThreadsType' /\ (Announcing => Announcing')
      /\ \A t \in Threads : At(t, "post") => At(t, "post")'
  BY <1>0, StillThreads DEF DevicesInv
<1>2. posted # <<>> => Tail(posted) \in Seq({"rebuild", "refresh"})
  BY HeadTailProperties DEF DevicesInv, WorldType
<1>3. CASE RunRebuild
  <2>1. /\ view' = [view EXCEPT !.queued = FALSE, !.at = "claim"] /\ view.at = "idle"
        /\ posted # <<>> /\ posted' = Tail(posted) /\ UNCHANGED <<queued, model>>
    BY <1>3 DEF RunRebuild, UiIdle, facade
  <2>2. /\ view' \in Views /\ view'.valid = view.valid /\ view'.rows = view.rows
        /\ view'.queued = FALSE /\ view'.at = "claim"
    BY <1>0, <2>1 DEF Views
  <2>3. WorldType' /\ ViewType'
    BY <1>0, <1>2, <2>1, <2>2 DEF DevicesInv, WorldType, ViewType, world, facade
  <2>4. Behind => Behind'
    BY <1>1, <2>1, <2>2 DEF Behind
  <2> QED
    BY <1>1, <2>1, <2>2, <2>3, <2>4 DEF DevicesInv, Fresh
<1>4. CASE EditFilter
  <2>1. /\ view' = [view EXCEPT !.at = "claim"] /\ view.at = "idle"
        /\ UNCHANGED <<queued, model, posted>>
    BY <1>4 DEF EditFilter, UiIdle, facade
  <2>2. /\ view' \in Views /\ view'.valid = view.valid /\ view'.rows = view.rows
        /\ view'.queued = view.queued /\ view'.at = "claim"
    BY <1>0, <2>1 DEF Views
  <2>3. WorldType' /\ ViewType'
    BY <1>0, <2>1, <2>2 DEF DevicesInv, WorldType, ViewType, world, facade
  <2>4. Behind => Behind'
    BY <1>1, <2>1, <2>2 DEF Behind
  <2> QED
    BY <1>1, <2>1, <2>2, <2>3, <2>4 DEF DevicesInv, Fresh, HasRebuild
<1>5. CASE Claim
  <2>0. view.valid \in BOOLEAN
    BY <1>0, ViewFlags
  <2>1. /\ view' = [view EXCEPT !.valid = TRUE, !.at = IF view.valid THEN "idle" ELSE "fetch"]
        /\ view.at = "claim" /\ UNCHANGED <<queued, model, posted>>
    BY <1>5 DEF Claim, facade
  <2>2. /\ view' \in Views /\ view'.rows = view.rows /\ view'.queued = view.queued
        /\ view.valid = FALSE => view'.at = "fetch"
    BY <1>0, <2>0, <2>1 DEF Views
  <2>3. WorldType' /\ ViewType'
    BY <1>0, <2>1, <2>2 DEF DevicesInv, WorldType, ViewType, world, facade
  <2>4. Behind => Behind'
    BY <1>1, <2>1, <2>2 DEF Behind
  <2> QED
    BY <1>1, <2>1, <2>2, <2>3, <2>4 DEF DevicesInv, Fresh, HasRebuild
<1>6. CASE Fetch
  <2>1. /\ view' = [view EXCEPT !.rows = model, !.at = "idle"]
        /\ UNCHANGED <<queued, model, posted>>
    BY <1>6 DEF Fetch, facade
  <2>2. view' \in Views /\ view'.rows = model /\ view'.queued = view.queued
    BY <1>0, <2>1 DEF Views, DevicesInv, WorldType
  <2>3. WorldType' /\ ViewType'
    BY <1>0, <2>1, <2>2 DEF DevicesInv, WorldType, ViewType, world, facade
  <2> QED
    BY <1>1, <2>1, <2>2, <2>3 DEF DevicesInv, Fresh, HasRebuild
<1>7. CASE RunRefresh
  <2>1. /\ posted # <<>> /\ Head(posted) = "refresh" /\ posted' = Tail(posted)
        /\ queued' = Append(queued, Refresh) /\ UNCHANGED <<view, model>>
    BY <1>7 DEF RunRefresh, facade
  <2>2. queued' \in Seq(Tasks)
    <3>1. Refresh \in Tasks
      BY DEF Refresh, Tasks
    <3> QED
      BY <2>1, <3>1, AppendProperties DEF DevicesInv, WorldType
  <2>3. HasRebuild => HasRebuild'
    <3>1. /\ Len(posted') = Len(posted) - 1 /\ posted' \in Seq({"rebuild", "refresh"})
          /\ \A i \in 1..Len(posted') : posted'[i] = posted[i + 1]
      BY <2>1, HeadTailProperties DEF DevicesInv, WorldType
    <3>2. /\ DOMAIN posted = 1..Len(posted) /\ DOMAIN posted' = 1..Len(posted')
          /\ Len(posted) \in Nat /\ posted[1] = "refresh"
      BY <2>1, <3>1, LenProperties DEF DevicesInv, WorldType
    <3>3. \A i \in DOMAIN posted \ {1} : i - 1 \in DOMAIN posted' /\ posted'[i - 1] = posted[i]
      BY <3>1, <3>2
    <3> QED
      BY <3>2, <3>3 DEF HasRebuild
  <2>4. WorldType' /\ ViewType'
    BY <1>0, <1>2, <2>1, <2>2 DEF DevicesInv, WorldType, ViewType, world, facade
  <2> QED
    BY <1>0, <2>1, <2>3, <2>4, StillFresh DEF DevicesInv
<1> QED
  BY <1>3, <1>4, <1>5, <1>6, <1>7 DEF Ui

\* The rest changes neither the rows nor what is announced.
LEMMA RestKeeps ==
    ASSUME DevicesInv,
           \/ \E d \in Devs : Change(d)
           \/ \E d \in Devs : CancelFlush(d)
           \/ Submit(Refresh) \/ \E row \in model : Submit(Verb(row))
           \/ Quit \/ ShutTimer \/ Unwind \/ Close \/ UNCHANGED deviceVars
    PROVE  WorldType' /\ ViewType' /\ ThreadsType' /\ Fresh'
<1>1. UNCHANGED <<model, thread, posted, view>>
  BY DEF Change, CancelFlush, Submit, Quit, ShutTimer, Unwind, Close, deviceVars, facade, ui
<1>2. \/ UNCHANGED queued
      \/ \E task \in Tasks : queued' = Append(queued, task)
  <2>1. Refresh \in Tasks
    BY DEF Refresh, Tasks
  <2>2. \A row \in model : Verb(row) \in Tasks
    BY DEF DevicesInv, WorldType, RowType, Verb, Tasks
  <2> QED
    BY <2>1, <2>2 DEF Change, CancelFlush, Submit, Quit, ShutTimer, Unwind, Close, deviceVars
<1>3. queued' \in Seq(Tasks)
  BY <1>2, AppendProperties DEF DevicesInv, WorldType
<1>4. sysfs' \subseteq Devs /\ entries' \subseteq Devs /\ pending' \subseteq Devs
  BY DEF DevicesInv, WorldType, Change, OnEvent, CancelFlush, Submit, Quit, ShutTimer, Unwind, Close,
         deviceVars, facade, world
<1>5. loop' \in {"running", "stopping", "draining", "closing", "gone"}
  BY DEF DevicesInv, WorldType, Change, CancelFlush, Submit, Quit, ShutTimer, Unwind, Close,
         deviceVars, ui
<1>6. WorldType' /\ ViewType'
  BY <1>1, <1>3, <1>4, <1>5 DEF DevicesInv, WorldType, ViewType
<1> QED
  BY <1>1, <1>6, StillFresh DEF DevicesInv, HasRebuild

\* What the steps do to the status line and the timer.
LEMMA StatusSteps ==
    ASSUME DevicesInv, Next
    PROVE  \/ UNCHANGED statusVars
           \/ UNCHANGED line /\ \E d \in Devs : OnEvent(d)
           \/ \E d \in Devs : CancelFlush(d)
           \/ UNCHANGED line /\ timer' = [timer EXCEPT !.stopping = TRUE]
           \/ /\ UNCHANGED line /\ timer.batch # <<>> /\ Head(timer.batch) \in Devs
              /\ timer' = [timer EXCEPT !.batch = Tail(@)]
           \/ SetMessage \/ CloseLine \/ TimerTake \/ ClearFired
<1>1. ASSUME NEW w \in Workers, DeviceVerb(w)
      PROVE  UNCHANGED statusVars \/ (UNCHANGED line /\ \E d \in Devs : OnEvent(d))
  <2>1. Head(queued).device \in sysfs => Head(queued).device \in Devs
    BY DEF DevicesInv, WorldType
  <2> QED
    BY <1>1, <2>1 DEF DeviceVerb, statusVars
<1>2. ASSUME NEW w \in Workers, Enumerate(w) \/ Ask(w) \/ Observe(w) \/ Note(w) \/ Apply(w)
      PROVE  UNCHANGED statusVars
  BY <1>2 DEF Enumerate, Ask, Observe, Note, Apply
<1>3. ASSUME NEW t \in Threads, Publish(t) PROVE UNCHANGED statusVars \/ SetMessage
  BY <1>3 DEF Publish, Invalidate, PostRebuild, Message
<1>4. ASSUME Timer PROVE \/ TimerTake \/ ClearFired
                         \/ /\ UNCHANGED line /\ timer.batch # <<>> /\ Head(timer.batch) \in Devs
                            /\ timer' = [timer EXCEPT !.batch = Tail(@)]
  BY <1>4 DEF Timer, Flush
<1>5. ASSUME Ui \/ EditFilter \/ Submit(Refresh) \/ (\E row \in model : Submit(Verb(row))) \/ Quit \/ Gone
      PROVE  UNCHANGED statusVars
  BY <1>5 DEF Ui, EditFilter, RunRebuild, RunRefresh, Claim, Fetch, Submit, Quit, Gone, vars, statusVars
<1>6. ASSUME NEW d \in Devs, Change(d) PROVE UNCHANGED line /\ OnEvent(d)
  BY <1>6 DEF Change
<1>7. ASSUME Teardown
      PROVE  \/ CloseLine \/ UNCHANGED statusVars \/ \E d \in Devs : CancelFlush(d)
             \/ UNCHANGED line /\ timer' = [timer EXCEPT !.stopping = TRUE]
  BY <1>7 DEF Teardown, ShutTimer, Unwind, Close
<1> QED
  BY <1>1, <1>2, <1>3, <1>4, <1>5, <1>6, <1>7 DEF Next, Work

LEMMA StepKeepsDevices == ASSUME DevicesInv, Next PROVE DevicesInv'
<1>1. StatusInv'
  <2>1. StatusInv
    BY DEF DevicesInv
  <2>2. CASE UNCHANGED statusVars
    BY <2>1, <2>2 DEF statusVars, StatusInv, Separate, Current, Counted, Pending
  <2> QED
    BY <2>1, <2>2, StatusSteps, EventKeepsStatus, CancelKeepsStatus, StopKeepsStatus, FlushKeepsStatus,
       MessageKeepsStatus, CloseKeepsStatus, TakeKeepsStatus, ClearKeepsStatus,
       DevicesAssumption, StatusLineAssumption
<1>2. WorldType' /\ ViewType' /\ ThreadsType' /\ Fresh'
  <2>1. ASSUME NEW w \in Workers, Work(w) PROVE WorldType' /\ ViewType' /\ ThreadsType' /\ Fresh'
    BY <2>1, EnumerateKeeps, AskKeeps, ObserveKeeps, NoteKeeps, ApplyKeeps, DeviceVerbKeeps DEF Work
  <2>2. ASSUME NEW t \in Threads, Publish(t) PROVE WorldType' /\ ViewType' /\ ThreadsType' /\ Fresh'
    BY <2>2, InvalidateKeeps, PostKeeps, MessageKeeps DEF Publish
  <2>3. CASE Timer
    BY <2>3, FlushKeeps, RestKeeps DEF Timer
  <2>4. CASE Gone
    <3>1. UNCHANGED deviceVars
      BY <2>4 DEF Gone, vars
    <3> QED
      BY <3>1, RestKeeps
  <2> QED
    BY <2>1, <2>2, <2>3, <2>4, UiKeeps, RestKeeps DEF Next, Teardown
<1> QED
  BY <1>1, <1>2 DEF DevicesInv

-----------------------------------------------------------------------------
(* The theorems.                                                           *)

\* In particular the removals that ~StatusLineVM counts are those it has scheduled,
\* and rows that are behind the model are announced.
THEOREM DevicesInvariant == Spec => []DevicesInv
<1>1. Init => DevicesInv
  <2> SUFFICES ASSUME Init PROVE DevicesInv
    OBVIOUS
  <2>1. StatusInv
    <3>1. /\ timer.queue = <<>> /\ timer.batch = <<>> /\ timer \in Timers
      BY DEF Init, InitStatus, Timers
    <3>2. Removals(<<>>) = {} /\ Once(<<>>)
      BY DEF Removals, Once
    <3>3. /\ line \in Lines /\ line.text = 0 /\ line.generation = 0 /\ line.outstanding = 0
      BY StatusLineAssumption DEF Init, InitStatus, Lines
    <3>4. IsFiniteSet({}) /\ Cardinality({}) = 0
      BY FS_EmptySet
    <3>5. Removals(timer.queue) = {} /\ Removals(timer.batch) = {}
      BY <3>1, <3>2
    <3>6. Separate
      BY <3>1, <3>2, <3>5 DEF Separate, Pending
    <3>7. Current
      BY <3>3, StatusLineAssumption DEF Current
    <3>8. Counted
      <4>1. /\ IsFiniteSet(Removals(timer.queue)) /\ Cardinality(Removals(timer.queue)) = 0
            /\ IsFiniteSet(Removals(timer.batch)) /\ Cardinality(Removals(timer.batch)) = 0
        BY <3>4, <3>5
      <4> QED
        BY <3>3, <4>1 DEF Counted
    <3> QED
      BY <3>1, <3>3, <3>6, <3>7, <3>8 DEF StatusInv
  <2>2. WorldType /\ ViewType
    BY RowsTyped DEF Init, WorldType, ViewType, Views
  <2>3. ThreadsType
    <3>1. Idle \in ThreadRecords /\ Idle.seen = {} /\ Idle.at = "idle"
      <4>1. <<>> \in Seq(Events)
        OBVIOUS
      <4> QED
        BY <4>1 DEF Idle, ThreadRecords, Steps
    <3>2. thread = [t \in Threads |-> Idle]
      BY DEF Init
    <3> QED
      BY <3>1, <3>2 DEF ThreadsType, OneEach
  <2>4. Fresh
    BY DEF Init, Fresh
  <2> QED
    BY <2>1, <2>2, <2>3, <2>4 DEF DevicesInv
<1>2. DevicesInv /\ [Next]_vars => DevicesInv'
  <2> SUFFICES ASSUME DevicesInv, UNCHANGED vars PROVE DevicesInv'
    BY StepKeepsDevices
  <2>1. UNCHANGED deviceVars /\ UNCHANGED statusVars
    BY DEF vars
  <2>2. StatusInv'
    BY <2>1 DEF DevicesInv, statusVars, StatusInv, Separate, Current, Counted, Pending
  <2> QED
    BY <2>1, <2>2, RestKeeps DEF DevicesInv
<1> QED
  BY <1>1, <1>2, PTL DEF Spec

\* Every variable of the devices half keeps its type; the removals of the status
\* line are counted exactly, and a device has one row.
THEOREM DevicesTypeCorrect == Spec => []TypeOK
<1>1. DevicesInv => TypeOK
  <2> SUFFICES ASSUME DevicesInv PROVE TypeOK
    OBVIOUS
  <2>1. StatusTypeOK
    BY DEF DevicesInv, StatusInv, Lines, Current, Counted, StatusTypeOK
  <2>2. model \cup view.rows \subseteq [device : Devs, status : {"active", "disabled"}]
    BY DEF DevicesInv, WorldType, ViewType, Views, RowType
  <2>3. ASSUME NEW d \in Devs PROVE Cardinality(Known(d)) <= 1
    <3>1. Known(d) = {} \/ \E row \in model : Known(d) = {row}
      BY DEF Known, DevicesInv, WorldType, OneEach
    <3>2. CASE Known(d) = {}
      <4>1. Cardinality(Known(d)) = 0
        BY <3>2, FS_EmptySet
      <4> QED
        BY <4>1
    <3>3. ASSUME NEW row, Known(d) = {row} PROVE Cardinality(Known(d)) <= 1
      <4>1. Cardinality({row}) = 1
        BY FS_Singleton
      <4>2. Cardinality(Known(d)) = 1
        BY <3>3, <4>1
      <4> QED
        BY <4>2
    <3> QED
      BY <3>1, <3>2, <3>3
  <2>4. \A t \in Threads : thread[t].at \in
          {"idle", "ask", "observe", "note", "apply", "publish", "post", "message"}
    BY DEF DevicesInv, ThreadsType, ThreadRecords, Steps
  <2>5. \A i \in DOMAIN queued : queued[i].verb \in {"refresh", "enable", "disable"}
    <3>1. \A i \in DOMAIN queued : queued[i] \in Tasks
      BY LenProperties, ElementOfSeq DEF DevicesInv, WorldType
    <3> QED
      BY <3>1 DEF Tasks
  <2> QED
    BY <2>1, <2>2, <2>3, <2>4, <2>5 DEF DevicesInv, WorldType, TypeOK
<1> QED
  BY <1>1, DevicesInvariant, PTL

\* An event that is published while the list is being rebuilt, on whichever thread,
\* is not lost: the list is behind the model only while it is on its way.
THEOREM NoChangeIsLost == Spec => []RowsFollowModel
<1>1. DevicesInv => RowsFollowModel
  BY DEF DevicesInv, Fresh, Behind, Announcing, HasRebuild, RowsFollowModel
<1> QED
  BY <1>1, DevicesInvariant, PTL

\* A removal that was in hand when its message was replaced does not take the newer
\* one from the line, nor after the destructor has taken a generation of its own.
THEOREM MessagesStay == Spec => MessageStays
<1> DEFINE Stays == line.text # 0 /\ line'.text = 0 => Head(timer.batch) = line.text
<1>1. ASSUME DevicesInv, Next PROVE Stays
  <2>0. line \in Lines /\ line.text \in Nat /\ line.generation \in Nat
    BY <1>1, LineTyped DEF DevicesInv, StatusInv
  <2>1. CASE UNCHANGED line
    BY <2>1
  <2>2. CASE SetMessage
    <3>1. line'.text = line.generation + 1
      BY <2>0, <2>2 DEF SetMessage, Lines
    <3> QED
      BY <2>0, <3>1
  <2>3. CASE CloseLine
    <3>1. line'.text = line.text
      BY <2>0, <2>3 DEF CloseLine, Lines
    <3> QED
      BY <3>1
  <2>4. CASE ClearFired
    <3>1. ASSUME Head(timer.batch) # line.generation PROVE line'.text = line.text
      BY <2>0, <2>4, <3>1 DEF ClearFired, Lines
    <3>2. Head(timer.batch) \in Pending
      <4>1. Head(timer.batch) \in Removals(timer.batch)
        BY <1>1, <2>4, EntriesTyped, RemovalsOfTail
           DEF ClearFired, DevicesInv, StatusInv, Separate
      <4> QED
        BY <4>1 DEF Pending
    <3>3. ASSUME Head(timer.batch) = line.generation, line.text # 0 PROVE line.text = line.generation
      BY <1>1, <3>2, <3>3 DEF DevicesInv, StatusInv, Current
    <3> QED
      BY <3>1, <3>3
  <2> QED
    BY <1>1, <2>1, <2>2, <2>3, <2>4, StatusSteps DEF statusVars, TimerTake, CancelFlush
<1>2. DevicesInv /\ [Next]_vars => [Stays]_line
  <2>1. UNCHANGED vars => UNCHANGED line
    BY DEF vars, statusVars
  <2> QED
    BY <1>1, <2>1
<1> QED
  BY <1>2, DevicesInvariant, PTL DEF Spec, MessageStays
=============================================================================
