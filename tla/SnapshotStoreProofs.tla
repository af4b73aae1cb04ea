------------------------- MODULE SnapshotStoreProofs -------------------------
(***************************************************************************)
(* Proofs about the snapshots, for any set of payloads and any retention   *)
(* limit: the store, the listing and the history computed from it, then    *)
(* the verbs of devmgrd and the command line client that use the store.    *)
(*                                                                         *)
(* The inductive invariant StoreInv ties the operation in flight to the    *)
(* disk: what each step of a put or a remove may rely on after the earlier *)
(* ones, since a crash may cut the chain of steps anywhere.  CliInv ties   *)
(* the verb in hand to the operation, and the client to the verb.          *)
(***************************************************************************)
EXTENDS SnapshotHistory, Cli, FiniteSetTheorems, WellFoundedInduction, TLAPS

\* A document never names itself as its parent (put() dedupes against HEAD
\* before it writes HEAD as the parent), so moving HEAD to the parent always
\* moves it away from the snapshot that is about to be deleted.
NoSelfParent == \A i \in DOMAIN files : files[i].parent # i

\* What the operation in flight may rely on.
PutInv ==
    /\ op.pc = "putFile" => op.next # op.id /\ op.id \notin DOMAIN files /\ op.fresh
    /\ op.pc = "putHead" => op.id \in DOMAIN files /\ (op.fresh => Healthy(op.id))
    /\ op.pc \in {"prune", "victims"} => head = op.id /\ Healthy(op.id)
    /\ op.pc = "victims" => \A k \in DOMAIN op.victims :
         /\ op.victims[k] # head
         /\ op.victims[k] \in DOMAIN files =>
              /\ files[op.victims[k]].health = "ok"
              /\ files[op.victims[k]].trigger = "auto"

RemoveInv ==
    /\ op.pc = "rmHead" => op.next # op.id
    /\ op.pc = "rmDelete" => op.id # head
    /\ op.pc \in {"rmHead", "rmDelete"} => Healthy(op.id)

ReturnInv == op.pc # "idle" => ret = NoReturn

StoreInv ==
    /\ TypeOK
    /\ NoSelfParent
    /\ PutInv
    /\ RemoveInv
    /\ ReturnInv
    /\ FreshPutReadable

-----------------------------------------------------------------------------
\* Prune candidates are healthy auto files, so there are finitely many and
\* each is determined by its id.
LEMMA CandidateFacts ==
    ASSUME TypeOK, NEW p \in Picks, NEW w \in Walks(p), NEW m \in PruneCandidates(p, w)
    PROVE  /\ m.id \in DOMAIN files
           /\ m = ScanFile(m.id)
           /\ files[m.id].health = "ok" /\ files[m.id].trigger = "auto"
           /\ OnChain(w, m) => m = p[m.id]
<1>1. m \in Scan /\ m.health = "ok" /\ m.trigger = "auto" /\ (OnChain(w, m) => m = p[m.id])
  BY DEF PruneCandidates, Listed
<1>2. ASSUME NEW i \in Payloads, NEW n \in DOMAIN bad[i], m = ScanBad(i, n) PROVE FALSE
  BY <1>1, <1>2 DEF ScanBad, Meta
<1>3. PICK i \in DOMAIN files : m = ScanFile(i)
  BY <1>1, <1>2 DEF Scan
<1>4. m.id = i
  BY <1>3 DEF ScanFile, Meta
<1>5. files[i].health # "damaged"
  BY <1>1, <1>3 DEF ScanFile, Meta
<1>6. files[i].health = "ok" /\ files[i].trigger = "auto"
  BY <1>1, <1>3, <1>5 DEF ScanFile, Meta
<1> QED BY <1>1, <1>3, <1>4, <1>6

\* A chain of finitely many files has finitely many prune candidates.
LEMMA CandidatesFinite ==
    ASSUME TypeOK, StoreAssumption, NEW p \in Picks, NEW w \in Walks(p)
    PROVE  IsFiniteSet(PruneCandidates(p, w))
<1> DEFINE C == PruneCandidates(p, w)
           f == [m \in C |-> m.id]
<1>1. \A m \in C : m.id \in Payloads /\ m = ScanFile(m.id)
  BY CandidateFacts DEF TypeOK, DiskType
<1>2. f \in Injection(C, Payloads)
  BY <1>1 DEF Injection, IsInjective
<1>3. IsFiniteSet(Payloads)
  BY DEF StoreAssumption
<1> QED BY <1>2, <1>3, FS_Injection

\* The victims never include the snapshot HEAD names: HEAD is met first on the
\* chain, and at least one candidate is always kept.
LEMMA VictimsSpareHead ==
    ASSUME TypeOK, StoreAssumption, NEW p \in Picks, NEW w \in Walks(p),
           NEW vs \in VictimOrders(p, w), NEW a \in DOMAIN vs
    PROVE  /\ vs[a].id # head
           /\ vs[a].id \in DOMAIN files
           /\ files[vs[a].id].health = "ok" /\ files[vs[a].id].trigger = "auto"
<1> DEFINE C == PruneCandidates(p, w)
           n == VictimCount(Cardinality(C))
<1>1. IsFiniteSet(C) /\ Cardinality(C) \in Nat
  BY CandidatesFinite, FS_CardinalityType
<1>2. /\ vs \in [1 .. n -> C]
      /\ \A k \in C : (\A b \in DOMAIN vs : vs[b] # k) => ~NewerThan(w, vs[a], k)
  BY DEF VictimOrders
<1>3. vs[a] \in C
  BY <1>2
<1>4. n \in Nat /\ n < Cardinality(C)
  <2>1. a \in 1 .. n
    BY <1>2
  <2>2. KeepAuto \in Nat \ {0}
    BY DEF StoreAssumption
  <2> QED BY <1>1, <2>1, <2>2 DEF VictimCount
<1>5. \E k \in C : \A b \in DOMAIN vs : vs[b] # k
  <2>1. SUFFICES ASSUME \A k \in C : \E b \in DOMAIN vs : vs[b] = k PROVE FALSE
    OBVIOUS
  <2>2. vs \in Surjection(1 .. n, C)
    BY <1>2, <2>1 DEF Surjection
  <2>3. IsFiniteSet(1 .. n) /\ Cardinality(1 .. n) = n
    BY <1>4, FS_Interval
  <2>4. Cardinality(C) <= n
    BY <2>2, <2>3, FS_Surjection
  <2> QED BY <2>4, <1>4, <1>1
<1>6. PICK k \in C : \A b \in DOMAIN vs : vs[b] # k
  BY <1>5
<1>7. ASSUME vs[a].id = head PROVE FALSE
  <2>1. 0 \in Steps /\ w[0] = head
    BY FS_CardinalityType DEF Walks, Steps, StoreAssumption
  <2>2. vs[a] = p[head]
    BY <2>1, <1>3, <1>7, CandidateFacts DEF OnChain
  <2>3. k.id # head
    <3>1. ASSUME k.id = head PROVE k = p[head]
      BY <2>1, <3>1, CandidateFacts DEF OnChain
    <3> QED BY <3>1, <2>2, <1>6
  <2>4. MetBefore(w, vs[a], k)
    BY <2>1, <2>3, <1>7 DEF MetBefore
  <2> QED BY <2>4, <1>2, <1>6 DEF NewerThan
<1> QED BY <1>3, <1>7, CandidateFacts

-----------------------------------------------------------------------------
\* Quarantining damaged files keeps every other document and the types.
LEMMA QuarantineFacts ==
    ASSUME TypeOK, NEW S, S \subseteq Damaged, Quarantine(S)
    PROVE  /\ DOMAIN files' = DOMAIN files \ S
           /\ \A i \in DOMAIN files' : files'[i] = files[i]
           /\ bad' \in [Payloads -> Seq(Document)]
           /\ \A i : Healthy(i) => Healthy(i)'
           /\ \A i \in Payloads : \A n \in DOMAIN bad[i] :
                n \in DOMAIN bad'[i] /\ bad'[i][n] = bad[i][n]
           /\ \A i \in S : \E n \in DOMAIN bad'[i] \ DOMAIN bad[i] : bad'[i][n] = files[i]
<1>1. /\ DOMAIN files' = DOMAIN files \ S
      /\ \A i \in DOMAIN files' : files'[i] = files[i]
  BY DEF Quarantine, WithoutFiles
<1>2. S \subseteq Payloads /\ \A i \in S : i \in DOMAIN files /\ files[i] \in Document
  BY DEF TypeOK, DiskType, Damaged
<1>3. \A i \in Payloads : bad[i] \in Seq(Document)
  BY DEF TypeOK, DiskType
<1>4. bad' \in [Payloads -> Seq(Document)]
  BY <1>2, <1>3 DEF Quarantine
<1>5. \A i : Healthy(i) => Healthy(i)'
  BY <1>1 DEF Healthy, Damaged
<1>6. ASSUME NEW i \in Payloads, NEW n \in DOMAIN bad[i]
      PROVE  n \in DOMAIN bad'[i] /\ bad'[i][n] = bad[i][n]
  BY <1>2, <1>3 DEF Quarantine
<1>7. ASSUME NEW i \in S
      PROVE  \E n \in DOMAIN bad'[i] \ DOMAIN bad[i] : bad'[i][n] = files[i]
  <2>1. bad'[i] = Append(bad[i], files[i]) /\ bad[i] \in Seq(Document)
    BY <1>2, <1>3 DEF Quarantine
  <2>2. Len(bad[i]) + 1 \in DOMAIN bad'[i] \ DOMAIN bad[i]
    BY <2>1, <1>2
  <2>3. bad'[i][Len(bad[i]) + 1] = files[i]
    BY <2>1, <1>2
  <2> QED BY <2>2, <2>3
<1> QED BY <1>1, <1>4, <1>5, <1>6, <1>7

\* A scan or a read quarantines nothing but what it found damaged.
LEMMA QuarantineChoice ==
    ASSUME NEW T, NEW S \in QuarantineChoices(T)
    PROVE  S \subseteq T
BY DEF QuarantineChoices

\* Quarantine keeps the disk well-formed.
LEMMA QuarantineKeepsDisk ==
    ASSUME TypeOK, DiskType, NoSelfParent, NEW S, S \subseteq Damaged, Quarantine(S),
           UNCHANGED <<head, clock, kept>>
    PROVE  DiskType' /\ NoSelfParent'
<1>1. /\ DOMAIN files' = DOMAIN files \ S
      /\ \A i \in DOMAIN files' : files'[i] = files[i]
      /\ bad' \in [Payloads -> Seq(Document)]
  BY QuarantineFacts
<1> QED BY <1>1 DEF DiskType, NoSelfParent

\* The records an operation and a return value are made of.
LEMMA IdleFacts == Idle \in Operation /\ Idle.pc = "idle"
BY DEF Idle, Operation, PCs, Ids, Triggers

\* What an operation that returns leaves behind.
LEMMA ReturnFacts ==
    /\ NoReturn \in Returns /\ NoReturn.verb = "none"
    /\ \A verb \in {"put", "read", "list", "remove"}, ok, fresh \in BOOLEAN, i \in Ids :
         /\ Return(verb, ok, i, fresh) \in Returns
         /\ Return(verb, ok, i, fresh).verb = verb
         /\ Return(verb, ok, i, fresh).ok = ok
         /\ Return(verb, ok, i, fresh).id = i
         /\ Return(verb, ok, i, fresh).fresh = fresh
BY DEF NoReturn, Return, Returns, Ids

\* A step that leaves no operation in flight has only the disk and the return
\* value to account for.
LEMMA IdleAfter ==
    ASSUME DiskType', op' = Idle \/ (op' = op /\ op \in Operation /\ op.pc = "idle"),
           ret' \in Returns, NoSelfParent', FreshPutReadable'
    PROVE  StoreInv'
<1>1. op' \in Operation /\ op'.pc = "idle"
  BY IdleFacts
<1>2. OpType'
  BY <1>1 DEF OpType
<1>3. PutInv' /\ RemoveInv' /\ ReturnInv'
  BY <1>1 DEF PutInv, RemoveInv, ReturnInv
<1> QED BY <1>2, <1>3 DEF StoreInv, TypeOK

\* The store as first opened satisfies the invariant.
LEMMA StoreInvInit == StoreAssumption /\ Init => StoreInv
<1> SUFFICES ASSUME StoreAssumption, Init PROVE StoreInv
  OBVIOUS
<1>1. DiskType
  BY DEF Init, DiskType, Document, Ids, Triggers, StoreAssumption
<1>2. NoSelfParent
  BY DEF Init, NoSelfParent, StoreAssumption
<1>3. ret \in Returns /\ op = Idle /\ FreshPutReadable
  BY ReturnFacts DEF Init, FreshPutReadable
<1>4. OpType /\ PutInv /\ RemoveInv /\ ReturnInv
  BY <1>3, IdleFacts DEF OpType, PutInv, RemoveInv, ReturnInv
<1> QED BY <1>1, <1>2, <1>3, <1>4 DEF StoreInv, TypeOK

\* Each step keeps the inductive invariant.
LEMMA StoreInvStep == StoreAssumption /\ StoreInv /\ [Next]_vars => StoreInv'
<1> SUFFICES ASSUME StoreAssumption, StoreInv, [Next]_vars PROVE StoreInv'
  OBVIOUS
<1>0. /\ TypeOK /\ DiskType /\ OpType /\ ret \in Returns /\ op \in Operation
      /\ NoSelfParent /\ PutInv /\ RemoveInv /\ ReturnInv /\ FreshPutReadable
  BY DEF StoreInv, TypeOK, OpType
<1>1. ASSUME NEW i \in Payloads, NEW t \in Triggers, PutBegin(i, t) PROVE StoreInv'
  <2>1. /\ op.pc = "idle" /\ UNCHANGED <<files, bad, head, clock>>
        /\ kept' \subseteq Payloads /\ i \in Ids
    BY <1>0, <1>1 DEF PutBegin, DiskType, Ids
  <2>2. DiskType' /\ NoSelfParent'
    BY <1>0, <2>1 DEF DiskType, NoSelfParent
  <2>3. CASE head = i
    <3>1. op' = op /\ ret' = Return("put", TRUE, i, FALSE)
      BY <1>1, <2>3 DEF PutBegin
    <3>2. ret' \in Returns /\ ret'.fresh = FALSE
      BY <2>1, <3>1 DEF Return, Returns
    <3>3. FreshPutReadable'
      BY <3>2 DEF FreshPutReadable
    <3> QED BY <1>0, <2>1, <2>2, <3>1, <3>2, <3>3, IdleAfter
  <2>4. CASE head # i
    <3>1. /\ op' = [Idle EXCEPT !.pc = IF i \in DOMAIN files THEN "putHead" ELSE "putFile",
                                !.id = i, !.trigger = t, !.next = head,
                                !.fresh = i \notin DOMAIN files]
          /\ ret' = NoReturn
      BY <1>1, <2>4 DEF PutBegin
    <3>a. /\ op'.id = i /\ op'.next = head
          /\ op'.pc = (IF i \in DOMAIN files THEN "putHead" ELSE "putFile")
          /\ op'.fresh = (i \notin DOMAIN files)
      BY <3>1, IdleFacts DEF Operation
    <3>b. op' \in Operation
      BY <1>0, <2>1, <3>1, IdleFacts DEF Operation, PCs, Ids, DiskType
    <3>2. op' \in Operation /\ op'.id = i /\ op'.next = head /\ op'.pc # "idle"
      BY <3>a, <3>b
    <3>3. TypeOK'
      BY <2>2, <3>1, <3>2, ReturnFacts DEF TypeOK, OpType
    <3>4. PutInv'
      BY <2>1, <2>4, <3>a DEF PutInv
    <3>5. RemoveInv' /\ ReturnInv' /\ FreshPutReadable'
      BY <3>1, <3>a, ReturnFacts DEF RemoveInv, ReturnInv, FreshPutReadable
    <3> QED BY <2>2, <3>3, <3>4, <3>5 DEF StoreInv
  <2> QED BY <2>3, <2>4
<1>2. CASE PutWriteFile
  <2>1. op.pc = "putFile" /\ UNCHANGED <<bad, head, kept>>
    BY <1>2 DEF PutWriteFile
  <2>2. PICK o \in Outcomes :
          /\ files' = IF Written(o)
                      THEN [i \in DOMAIN files \cup {op.id} |->
                              IF i = op.id THEN NewDocument ELSE files[i]]
                      ELSE files
          /\ clock' = IF Written(o) THEN clock + 1 ELSE clock
          /\ IF o = "ok"
             THEN op' = [op EXCEPT !.pc = "putHead"] /\ ret' = ret
             ELSE op' = Idle /\ ret' = Return("put", FALSE, op.id, FALSE)
    BY <1>2 DEF PutWriteFile
  <2>3. /\ op.id \in Payloads /\ op.id \in Ids /\ op.next \in Ids /\ op.trigger \in Triggers
        /\ op.next # op.id /\ op.fresh
    BY <1>0, <2>1 DEF OpType, Operation, PutInv
  <2>4. /\ NewDocument \in Document /\ NewDocument.parent # op.id
        /\ NewDocument.health = "ok"
    BY <1>0, <2>3 DEF NewDocument, Document, DiskType
  <2>5. DiskType' /\ NoSelfParent'
    BY <1>0, <2>1, <2>2, <2>3, <2>4 DEF DiskType, NoSelfParent
  <2>6. CASE o = "ok"
    <3>1. /\ op' = [op EXCEPT !.pc = "putHead"] /\ ret' = ret
          /\ op.id \in DOMAIN files' /\ files'[op.id] = NewDocument
      BY <2>2, <2>6 DEF Written
    <3>2. op' \in Operation /\ op'.pc = "putHead" /\ op'.id = op.id
      BY <1>0, <3>1 DEF Operation, PCs
    <3>3. TypeOK'
      BY <1>0, <2>3, <2>5, <3>1, <3>2 DEF TypeOK, OpType
    <3>4. PutInv'
      BY <2>4, <3>1, <3>2 DEF PutInv, Healthy
    <3>5. ret = NoReturn
      BY <1>0, <2>1 DEF ReturnInv
    <3>6. RemoveInv' /\ ReturnInv' /\ FreshPutReadable'
      BY <3>1, <3>2, <3>5, ReturnFacts DEF RemoveInv, ReturnInv, FreshPutReadable
    <3> QED BY <2>5, <3>3, <3>4, <3>6 DEF StoreInv
  <2>7. CASE o # "ok"
    <3>1. op' = Idle /\ ret' = Return("put", FALSE, op.id, FALSE)
      BY <2>2, <2>7
    <3>2. ret' \in Returns /\ FreshPutReadable'
      BY <2>3, <3>1, ReturnFacts DEF FreshPutReadable
    <3> QED BY <2>5, <3>1, <3>2, IdleAfter
  <2> QED BY <2>6, <2>7
<1>3. CASE PutWriteHead
  <2>1. op.pc = "putHead" /\ UNCHANGED <<files, bad, clock>>
    BY <1>3 DEF PutWriteHead
  <2>2. PICK o \in Outcomes :
          /\ head' = IF Written(o) THEN op.id ELSE head
          /\ \/ /\ o = "ok" /\ op.fresh
                /\ op' = [op EXCEPT !.pc = "prune"]
                /\ UNCHANGED <<ret, kept>>
             \/ o = "ok" /\ ~op.fresh /\ FinishPut
             \/ /\ o # "ok"
                /\ op' = Idle
                /\ ret' = Return("put", FALSE, op.id, FALSE)
                /\ UNCHANGED kept
    BY <1>3 DEF PutWriteHead
  <2>3. /\ op.id \in Payloads /\ op.id \in Ids /\ op.fresh \in BOOLEAN
        /\ op.id \in DOMAIN files /\ (op.fresh => Healthy(op.id))
    BY <1>0, <2>1 DEF OpType, Operation, PutInv
  <2>4. kept' \subseteq Payloads
    BY <1>0, <2>2, <2>3 DEF DiskType, FinishPut
  <2>5. DiskType' /\ NoSelfParent'
    BY <1>0, <2>1, <2>2, <2>3, <2>4 DEF DiskType, NoSelfParent
  <2>6. CASE o = "ok" /\ op.fresh
    <3>1. op' = [op EXCEPT !.pc = "prune"] /\ ret' = ret /\ head' = op.id
      BY <2>2, <2>6 DEF Written
    <3>2. op' \in Operation /\ op'.pc = "prune" /\ op'.id = op.id
      BY <1>0, <3>1 DEF Operation, PCs
    <3>3. TypeOK'
      BY <1>0, <2>3, <2>5, <3>1, <3>2 DEF TypeOK, OpType
    <3>4. PutInv'
      BY <2>1, <2>3, <2>6, <3>1, <3>2 DEF PutInv, Healthy
    <3>5. ret = NoReturn
      BY <1>0, <2>1 DEF ReturnInv
    <3>6. RemoveInv' /\ ReturnInv' /\ FreshPutReadable'
      BY <3>1, <3>2, <3>5, ReturnFacts DEF RemoveInv, ReturnInv, FreshPutReadable
    <3> QED BY <2>5, <3>3, <3>4, <3>6 DEF StoreInv
  <2>7. CASE ~(o = "ok" /\ op.fresh)
    <3>1. op' = Idle
      BY <2>2, <2>7 DEF FinishPut
    <3>2. \/ ret' = Return("put", TRUE, op.id, FALSE)
          \/ ret' = Return("put", FALSE, op.id, FALSE)
      BY <2>2, <2>3, <2>7 DEF FinishPut
    <3>3. ret' \in Returns /\ ret'.fresh = FALSE
      <4>1. CASE ret' = Return("put", TRUE, op.id, FALSE)
        BY <2>3, <4>1 DEF Return, Returns
      <4>2. CASE ret' = Return("put", FALSE, op.id, FALSE)
        BY <2>3, <4>2 DEF Return, Returns
      <4> QED BY <3>2, <4>1, <4>2
    <3>4. FreshPutReadable'
      BY <3>3 DEF FreshPutReadable
    <3> QED BY <2>5, <3>1, <3>3, <3>4, IdleAfter
  <2> QED BY <2>6, <2>7
<1>4. CASE PruneScan
  <2>a. PICK p \in Picks : \E w \in Walks(p) : \E vs \in VictimOrders(p, w) :
           op' = [op EXCEPT !.pc = "victims", !.victims = [k \in DOMAIN vs |-> vs[k].id]]
    BY <1>4 DEF PruneScan
  <2>b. PICK w \in Walks(p) : \E vs \in VictimOrders(p, w) :
           op' = [op EXCEPT !.pc = "victims", !.victims = [k \in DOMAIN vs |-> vs[k].id]]
    BY <2>a
  <2>1. PICK vs \in VictimOrders(p, w) :
           op' = [op EXCEPT !.pc = "victims", !.victims = [k \in DOMAIN vs |-> vs[k].id]]
    BY <2>b
  <2>2. PICK S \in QuarantineChoices(Damaged) : Quarantine(S)
    BY <1>4 DEF PruneScan
  <2>3. S \subseteq Damaged
    BY <2>2, QuarantineChoice
  <2>4. /\ DOMAIN files' = DOMAIN files \ S
        /\ \A i \in DOMAIN files' : files'[i] = files[i]
        /\ bad' \in [Payloads -> Seq(Document)]
        /\ \A i : Healthy(i) => Healthy(i)'
    BY <1>0, <2>2, <2>3, QuarantineFacts
  <2>5. \A k \in DOMAIN vs : /\ vs[k].id # head
                             /\ vs[k].id \in DOMAIN files
                             /\ files[vs[k].id].health = "ok"
                             /\ files[vs[k].id].trigger = "auto"
    BY <1>0, VictimsSpareHead
  <2>6. [k \in DOMAIN vs |-> vs[k].id] \in Seq(Payloads)
    <3>1. PICK n \in Nat : DOMAIN vs = 1 .. n
      <4>1. DOMAIN vs = 1 .. VictimCount(Cardinality(PruneCandidates(p, w)))
        BY DEF VictimOrders
      <4>2. Cardinality(PruneCandidates(p, w)) \in Nat
        BY <1>0, CandidatesFinite, FS_CardinalityType
      <4>3. VictimCount(Cardinality(PruneCandidates(p, w))) \in Nat
        BY <4>2 DEF VictimCount, StoreAssumption
      <4> QED BY <4>1, <4>3
    <3>2. \A k \in 1 .. n : vs[k].id \in Payloads
      BY <1>0, <2>5, <3>1 DEF DiskType
    <3> QED BY <3>1, <3>2
  <2>7. op.pc = "prune" /\ UNCHANGED <<head, ret, clock, kept>>
    BY <1>4 DEF PruneScan
  <2>8. op' \in Operation
    BY <1>0, <2>1, <2>6 DEF Operation, PCs
  <2>9. /\ op'.pc = "victims" /\ op'.id = op.id /\ op'.fresh = op.fresh
        /\ op'.victims = [k \in DOMAIN vs |-> vs[k].id]
    BY <1>0, <2>1 DEF Operation
  <2>10. TypeOK'
    BY <1>0, <2>4, <2>7, <2>8, <2>9 DEF TypeOK, DiskType, OpType
  <2>11. NoSelfParent'
    BY <1>0, <2>4 DEF NoSelfParent
  <2>12. PutInv'
    <3>1. head' = op'.id /\ Healthy(op.id)'
      BY <1>0, <2>4, <2>7, <2>9 DEF PutInv
    <3>2. \A k \in DOMAIN op'.victims :
            /\ op'.victims[k] # head'
            /\ op'.victims[k] \in DOMAIN files' =>
                 /\ files'[op'.victims[k]].health = "ok"
                 /\ files'[op'.victims[k]].trigger = "auto"
      BY <2>4, <2>5, <2>7, <2>9
    <3> QED BY <3>1, <3>2, <2>9 DEF PutInv
  <2>13. RemoveInv' /\ ReturnInv' /\ FreshPutReadable'
    BY <1>0, <2>7, <2>9, ReturnFacts DEF RemoveInv, ReturnInv, FreshPutReadable
  <2> QED BY <2>10, <2>11, <2>12, <2>13 DEF StoreInv
<1>5. CASE PruneDelete
  <2>1. /\ op.pc = "victims" /\ op.victims # <<>>
        /\ op' = [op EXCEPT !.victims = Tail(op.victims)]
        /\ UNCHANGED <<bad, head, ret, clock, kept>>
    BY <1>5 DEF PruneDelete
  <2>2. op.victims \in Seq(Payloads) /\ Tail(op.victims) \in Seq(Payloads)
    BY <1>0, <2>1 DEF Operation
  <2>3. /\ op' \in Operation /\ op'.pc = "victims" /\ op'.id = op.id
        /\ op'.victims = Tail(op.victims)
    BY <1>0, <2>1, <2>2 DEF Operation
  <2>4. /\ DOMAIN files' \subseteq DOMAIN files
        /\ \A i \in DOMAIN files' : files'[i] = files[i]
        /\ \A i \in DOMAIN files : i # Head(op.victims) => i \in DOMAIN files'
    BY <1>5 DEF PruneDelete, WithoutFiles
  <2>5. 1 \in DOMAIN op.victims /\ Head(op.victims) = op.victims[1]
    BY <2>1, <2>2
  <2>6. Head(op.victims) # head
    BY <1>0, <2>1, <2>5 DEF PutInv
  <2>7. \A k \in DOMAIN op'.victims :
           k + 1 \in DOMAIN op.victims /\ op'.victims[k] = op.victims[k + 1]
    BY <2>1, <2>2, <2>3
  <2>8. TypeOK'
    BY <1>0, <2>1, <2>3, <2>4 DEF TypeOK, DiskType, OpType
  <2>9. NoSelfParent'
    BY <1>0, <2>4 DEF NoSelfParent
  <2>10. PutInv'
    <3>1. head' = op'.id /\ Healthy(op.id)'
      BY <1>0, <2>1, <2>3, <2>4, <2>6 DEF PutInv, Healthy
    <3>2. \A k \in DOMAIN op'.victims :
            /\ op'.victims[k] # head'
            /\ op'.victims[k] \in DOMAIN files' =>
                 /\ files'[op'.victims[k]].health = "ok"
                 /\ files'[op'.victims[k]].trigger = "auto"
      BY <1>0, <2>1, <2>4, <2>7 DEF PutInv
    <3> QED BY <3>1, <3>2, <2>3 DEF PutInv
  <2>11. RemoveInv' /\ ReturnInv' /\ FreshPutReadable'
    BY <1>0, <2>1, <2>3, ReturnFacts DEF RemoveInv, ReturnInv, FreshPutReadable
  <2> QED BY <2>8, <2>9, <2>10, <2>11 DEF StoreInv
<1>6. CASE PruneEnd
  <2>1. /\ op.pc = "victims" /\ op' = Idle /\ UNCHANGED <<files, bad, head, clock>>
        /\ ret' = Return("put", TRUE, op.id, op.fresh)
    BY <1>6 DEF PruneEnd, FinishPut
  <2>2. op.id \in Payloads /\ op.id \in Ids /\ op.fresh \in BOOLEAN /\ Healthy(op.id)
    BY <1>0, <2>1 DEF OpType, Operation, PutInv
  <2>3. kept' \subseteq Payloads
    BY <1>0, <1>6, <2>2 DEF PruneEnd, FinishPut, DiskType
  <2>4. DiskType' /\ NoSelfParent'
    BY <1>0, <2>1, <2>3 DEF DiskType, NoSelfParent
  <2>5. ret' \in Returns /\ ret'.id = op.id
    BY <2>1, <2>2 DEF Return, Returns
  <2>6. FreshPutReadable'
    BY <2>1, <2>2, <2>5 DEF FreshPutReadable, Healthy
  <2> QED BY <2>1, <2>4, <2>5, <2>6, IdleAfter
<1>7. ASSUME NEW i \in Payloads, Read(i) PROVE StoreInv'
  <2>1. PICK S \in QuarantineChoices({i} \cap Damaged) : Quarantine(S)
    BY <1>7 DEF Read, ReadLocked
  <2>2. S \subseteq Damaged
    BY <2>1, QuarantineChoice
  <2>3. /\ op.pc = "idle" /\ UNCHANGED <<head, op, clock, kept>>
        /\ ret' = Return("read", Healthy(i), i, FALSE)
    BY <1>7 DEF Read
  <2>4. DiskType' /\ NoSelfParent'
    BY <1>0, <2>1, <2>2, <2>3, QuarantineKeepsDisk
  <2>5. ret' \in Returns /\ FreshPutReadable'
    BY <2>3 DEF Return, Returns, FreshPutReadable, Healthy, Ids
  <2> QED BY <1>0, <2>3, <2>4, <2>5, IdleAfter
<1>8. CASE List
  <2>1. PICK S \in QuarantineChoices(Damaged) : Quarantine(S)
    BY <1>8 DEF List
  <2>2. S \subseteq Damaged
    BY <2>1, QuarantineChoice
  <2>3. /\ op.pc = "idle" /\ UNCHANGED <<head, op, clock, kept>>
        /\ ret' = Return("list", TRUE, None, FALSE)
    BY <1>8 DEF List
  <2>4. DiskType' /\ NoSelfParent'
    BY <1>0, <2>1, <2>2, <2>3, QuarantineKeepsDisk
  <2>5. ret' \in Returns /\ FreshPutReadable'
    BY <2>3 DEF Return, Returns, FreshPutReadable, Ids
  <2> QED BY <1>0, <2>3, <2>4, <2>5, IdleAfter
<1>9. ASSUME NEW i \in Payloads, RemoveBegin(i) PROVE StoreInv'
  <2>1. PICK S \in QuarantineChoices({i} \cap Damaged) : Quarantine(S)
    BY <1>9 DEF RemoveBegin, ReadLocked
  <2>2. S \subseteq Damaged
    BY <2>1, QuarantineChoice
  <2>3. op.pc = "idle" /\ UNCHANGED <<head, clock, kept>>
    BY <1>9 DEF RemoveBegin
  <2>4. DiskType' /\ NoSelfParent' /\ \A j : Healthy(j) => Healthy(j)'
    BY <1>0, <2>1, <2>2, <2>3, QuarantineKeepsDisk, QuarantineFacts
  <2>5. CASE Healthy(i)
    <3>1. /\ op' = [Idle EXCEPT !.pc = IF head = i THEN "rmHead" ELSE "rmDelete",
                                !.id = i, !.next = files[i].parent]
          /\ ret' = NoReturn
      BY <1>9, <2>5 DEF RemoveBegin
    <3>2. files[i].parent \in Ids /\ files[i].parent # i /\ i \in Ids
      BY <1>0, <2>5 DEF DiskType, Document, NoSelfParent, Healthy, Ids
    <3>3. /\ op'.pc = (IF head = i THEN "rmHead" ELSE "rmDelete")
          /\ op'.id = i /\ op'.next = files[i].parent
      BY <3>1, IdleFacts DEF Operation
    <3>4. op' \in Operation
      BY <3>1, <3>2, IdleFacts DEF Operation, PCs
    <3>5. TypeOK'
      BY <2>4, <3>1, <3>3, <3>4, ReturnFacts DEF TypeOK, OpType
    <3>6. RemoveInv'
      BY <2>3, <2>4, <2>5, <3>2, <3>3 DEF RemoveInv
    <3>7. PutInv' /\ ReturnInv' /\ FreshPutReadable'
      BY <3>1, <3>3, ReturnFacts DEF PutInv, ReturnInv, FreshPutReadable
    <3> QED BY <2>4, <3>5, <3>6, <3>7 DEF StoreInv
  <2>6. CASE ~Healthy(i)
    <3>1. op' = op /\ ret' = Return("remove", FALSE, i, FALSE)
      BY <1>9, <2>6 DEF RemoveBegin
    <3>2. ret' \in Returns /\ FreshPutReadable'
      BY <3>1 DEF Return, Returns, FreshPutReadable, Ids
    <3> QED BY <1>0, <2>3, <2>4, <3>1, <3>2, IdleAfter
  <2> QED BY <2>5, <2>6
<1>10. CASE RemoveWriteHead
  <2>1. op.pc = "rmHead" /\ UNCHANGED <<files, bad, clock, kept>>
    BY <1>10 DEF RemoveWriteHead
  <2>2. PICK o \in Outcomes :
          /\ head' = IF Written(o) THEN op.next ELSE head
          /\ IF o = "ok"
             THEN op' = [op EXCEPT !.pc = "rmDelete"] /\ ret' = ret
             ELSE op' = Idle /\ ret' = Return("remove", FALSE, op.id, FALSE)
    BY <1>10 DEF RemoveWriteHead
  <2>3. /\ op.id \in Payloads /\ op.id \in Ids /\ op.next \in Ids /\ op.next # op.id
        /\ Healthy(op.id) /\ ret = NoReturn
    BY <1>0, <2>1 DEF OpType, Operation, RemoveInv, ReturnInv
  <2>4. DiskType' /\ NoSelfParent'
    BY <1>0, <2>1, <2>2, <2>3 DEF DiskType, NoSelfParent
  <2>5. CASE o = "ok"
    <3>1. op' = [op EXCEPT !.pc = "rmDelete"] /\ ret' = ret /\ head' = op.next
      BY <2>2, <2>5 DEF Written
    <3>2. op' \in Operation /\ op'.pc = "rmDelete" /\ op'.id = op.id
      BY <1>0, <3>1 DEF Operation, PCs
    <3>3. TypeOK'
      BY <1>0, <2>3, <2>4, <3>1, <3>2 DEF TypeOK, OpType
    <3>4. PutInv' /\ RemoveInv' /\ ReturnInv' /\ FreshPutReadable'
      BY <2>1, <2>3, <3>1, <3>2, ReturnFacts
      DEF PutInv, RemoveInv, ReturnInv, FreshPutReadable, Healthy
    <3> QED BY <2>4, <3>3, <3>4 DEF StoreInv
  <2>6. CASE o # "ok"
    <3>1. op' = Idle /\ ret' = Return("remove", FALSE, op.id, FALSE)
      BY <2>2, <2>6
    <3>2. ret' \in Returns /\ FreshPutReadable'
      BY <2>3, <3>1 DEF Return, Returns, FreshPutReadable
    <3> QED BY <2>4, <3>1, <3>2, IdleAfter
  <2> QED BY <2>5, <2>6
<1>11. CASE RemoveDelete
  <2>1. /\ op.pc = "rmDelete" /\ op' = Idle /\ UNCHANGED <<bad, head, clock>>
        /\ kept' \subseteq kept
        /\ DOMAIN files' \subseteq DOMAIN files
        /\ \A i \in DOMAIN files' : files'[i] = files[i]
    BY <1>11 DEF RemoveDelete, WithoutFiles
  <2>2. PICK o \in RemoveOutcomes : ret' = Return("remove", o = "ok", op.id, FALSE)
    BY <1>11 DEF RemoveDelete
  <2>3. op.id \in Ids
    BY <1>0 DEF Operation
  <2>4. DiskType' /\ NoSelfParent'
    BY <1>0, <2>1 DEF DiskType, NoSelfParent
  <2>5. ret' \in Returns /\ FreshPutReadable'
    BY <2>2, <2>3 DEF Return, Returns, FreshPutReadable
  <2> QED BY <2>1, <2>4, <2>5, IdleAfter
<1>12. CASE Crash
  <2>1. op' = Idle /\ ret' = NoReturn /\ UNCHANGED <<files, bad, head, clock, kept>>
    BY <1>12 DEF Crash
  <2>2. DiskType' /\ NoSelfParent' /\ FreshPutReadable' /\ ret' \in Returns
    BY <1>0, <2>1, ReturnFacts DEF DiskType, NoSelfParent, FreshPutReadable
  <2> QED BY <2>1, <2>2, IdleAfter
<1>13. ASSUME NEW i \in Payloads, Damage(i) PROVE StoreInv'
  <2>1. /\ op.pc = "idle" /\ ret' = NoReturn /\ UNCHANGED <<bad, head, op, clock, kept>>
        /\ i \in DOMAIN files
    BY <1>13 DEF Damage, Healthy
  <2>2. PICK doc \in {[files[i] EXCEPT !.health = "damaged"],
                      [health |-> "damaged", parent |-> None, at |-> 0, trigger |-> "auto"]} :
          files' = [files EXCEPT ![i] = doc]
    BY <1>13 DEF Damage
  <2>3. files[i] \in Document /\ files[i].parent # i /\ None # i
    BY <1>0, <2>1 DEF DiskType, NoSelfParent, StoreAssumption
  <2>4. doc \in Document /\ doc.parent # i
    BY <2>2, <2>3 DEF Document, Ids, Triggers
  <2>5. DiskType' /\ NoSelfParent'
    BY <1>0, <2>1, <2>2, <2>4 DEF DiskType, NoSelfParent
  <2>6. ret' \in Returns /\ FreshPutReadable'
    BY <2>1, ReturnFacts DEF FreshPutReadable
  <2> QED BY <1>0, <2>1, <2>5, <2>6, IdleAfter
<1>14. CASE UNCHANGED vars
  BY <1>0, <1>14 DEF vars, StoreInv, TypeOK, DiskType, OpType, NoSelfParent, PutInv,
                     RemoveInv, ReturnInv, FreshPutReadable, Healthy
<1> QED
  BY <1>1, <1>2, <1>3, <1>4, <1>5, <1>6, <1>7, <1>8, <1>9, <1>10, <1>11, <1>12, <1>13,
     <1>14 DEF Next

\* The inductive invariant holds in every reachable state.
THEOREM StoreInvariant == Spec => []StoreInv
<1>1. StoreAssumption
  BY StoreAssumption
<1> QED BY <1>1, StoreInvInit, StoreInvStep, PTL DEF Spec
\* The store's disk, operation and return value stay well-typed.
THEOREM StoreTypeCorrect == Spec => []TypeOK
BY StoreInvariant, PTL DEF StoreInv

\* For every payload set and retention limit: a put() that created a snapshot
\* and reported success left one that can be read back, its own prune included.
THEOREM FreshPutIsReadable == Spec => []FreshPutReadable
BY StoreInvariant, PTL DEF StoreInv

\* What the step in flight relies on, and what a quarantine does, is enough for
\* each step to respect evidence, manual snapshots and HEAD.
LEMMA StepsAreSafe ==
    StoreAssumption /\ StoreInv /\ [Next]_vars => [EvidenceStep /\ ManualStep /\ HeadStep]_vars
<1> SUFFICES ASSUME StoreAssumption, StoreInv, Next PROVE EvidenceStep /\ ManualStep /\ HeadStep
  OBVIOUS
<1> DEFINE Goal == EvidenceStep /\ ManualStep /\ HeadStep
<1>0. /\ TypeOK /\ DiskType /\ OpType /\ op \in Operation
      /\ NoSelfParent /\ PutInv /\ RemoveInv
  BY DEF StoreInv, TypeOK, OpType
<1>a. ASSUME UNCHANGED <<files, bad>>, head' = head \/ head' \in DOMAIN files
                                         \/ (op.pc = "rmHead" /\ head' = op.next)
      PROVE  Goal
  BY <1>a DEF EvidenceStep, ManualStep, HeadStep
<1>b. ASSUME NEW S, S \subseteq Damaged, Quarantine(S), head' = head PROVE Goal
  <2>1. /\ DOMAIN files' = DOMAIN files \ S
        /\ \A i \in DOMAIN files' : files'[i] = files[i]
        /\ \A i \in Payloads : \A n \in DOMAIN bad[i] :
             n \in DOMAIN bad'[i] /\ bad'[i][n] = bad[i][n]
        /\ \A i \in S : \E n \in DOMAIN bad'[i] \ DOMAIN bad[i] : bad'[i][n] = files[i]
    BY <1>0, <1>b, QuarantineFacts
  <2>2. \A i \in S : i \in DOMAIN files /\ files[i].health = "damaged"
    BY <1>b DEF Damaged
  <2>3. EvidenceStep
    BY <2>1, <2>2 DEF EvidenceStep
  <2>4. ManualStep
    BY <2>1, <2>2 DEF ManualStep, Healthy
  <2>5. HeadStep
    BY <1>b, <2>1, <2>2 DEF HeadStep
  <2> QED BY <2>3, <2>4, <2>5
<1>c. ASSUME NEW i, UNCHANGED <<bad, head>>, i # head,
             files' = files \/ files' = WithoutFiles({i}),
             i \in DOMAIN files => files[i].health = "ok",
             i \in DOMAIN files /\ files[i].trigger = "manual" => op.pc = "rmDelete" /\ op.id = i
      PROVE  Goal
  <2>1. /\ \A j \in DOMAIN files : j # i => j \in DOMAIN files' /\ files'[j] = files[j]
        /\ DOMAIN files' \subseteq DOMAIN files
        /\ \A j \in DOMAIN files' : files'[j] = files[j]
    BY <1>c DEF WithoutFiles
  <2>2. EvidenceStep
    BY <1>c, <2>1 DEF EvidenceStep
  <2>3. ManualStep
    BY <1>c, <2>1 DEF ManualStep, Healthy
  <2>4. HeadStep
    BY <1>c, <2>1 DEF HeadStep
  <2> QED BY <2>2, <2>3, <2>4
<1>1. ASSUME NEW i \in Payloads, NEW t \in Triggers, PutBegin(i, t) PROVE Goal
  BY <1>1, <1>a DEF PutBegin
<1>2. CASE PutWriteFile
  <2>1. /\ op.pc = "putFile" /\ UNCHANGED <<bad, head>>
        /\ DOMAIN files \subseteq DOMAIN files'
        /\ \A i \in DOMAIN files : i # op.id => files'[i] = files[i]
    BY <1>2 DEF PutWriteFile
  <2>2. op.id \notin DOMAIN files
    BY <1>0, <2>1 DEF PutInv
  <2> QED BY <2>1, <2>2 DEF EvidenceStep, ManualStep, HeadStep
<1>3. CASE PutWriteHead
  <2>1. op.id \in DOMAIN files
    BY <1>0, <1>3 DEF PutWriteHead, PutInv
  <2> QED BY <1>3, <1>a, <2>1 DEF PutWriteHead
<1>4. CASE PruneScan
  BY <1>4, <1>b, QuarantineChoice DEF PruneScan
<1>5. CASE PruneDelete
  <2>1. op.pc = "victims" /\ op.victims # <<>> /\ op.victims \in Seq(Payloads)
    BY <1>0, <1>5 DEF PruneDelete, Operation
  <2>2. 1 \in DOMAIN op.victims /\ Head(op.victims) = op.victims[1]
    BY <2>1
  <2>3. /\ Head(op.victims) # head
        /\ Head(op.victims) \in DOMAIN files =>
             /\ files[Head(op.victims)].health = "ok"
             /\ files[Head(op.victims)].trigger = "auto"
    BY <1>0, <2>1, <2>2 DEF PutInv
  <2> QED BY <1>5, <1>c, <2>3 DEF PruneDelete
<1>6. CASE PruneEnd
  BY <1>6, <1>a DEF PruneEnd
<1>7. ASSUME NEW i \in Payloads, Read(i) PROVE Goal
  <2>1. PICK S \in QuarantineChoices({i} \cap Damaged) : Quarantine(S)
    BY <1>7 DEF Read, ReadLocked
  <2>2. S \subseteq Damaged
    BY <2>1, QuarantineChoice
  <2> QED BY <1>7, <1>b, <2>1, <2>2 DEF Read
<1>8. CASE List
  BY <1>8, <1>b, QuarantineChoice DEF List
<1>9. ASSUME NEW i \in Payloads, RemoveBegin(i) PROVE Goal
  <2>1. PICK S \in QuarantineChoices({i} \cap Damaged) : Quarantine(S)
    BY <1>9 DEF RemoveBegin, ReadLocked
  <2>2. S \subseteq Damaged
    BY <2>1, QuarantineChoice
  <2> QED BY <1>9, <1>b, <2>1, <2>2 DEF RemoveBegin
<1>10. CASE RemoveWriteHead
  BY <1>10, <1>a DEF RemoveWriteHead
<1>11. CASE RemoveDelete
  <2>1. op.pc = "rmDelete" /\ op.id # head /\ Healthy(op.id)
    BY <1>0, <1>11 DEF RemoveDelete, RemoveInv
  <2> QED BY <1>11, <1>c, <2>1 DEF RemoveDelete, Healthy
<1>12. CASE Crash
  BY <1>12, <1>a DEF Crash
<1>13. ASSUME NEW i \in Payloads, Damage(i) PROVE Goal
  <2>1. PICK doc \in {[files[i] EXCEPT !.health = "damaged"],
                      [health |-> "damaged", parent |-> None, at |-> 0, trigger |-> "auto"]} :
          files' = [files EXCEPT ![i] = doc]
    BY <1>13 DEF Damage
  <2>2. /\ i \in DOMAIN files /\ files[i].health = "ok" /\ files[i] \in Document
        /\ UNCHANGED <<bad, head>>
    BY <1>0, <1>13 DEF Damage, Healthy, DiskType
  <2>3. doc.health = "damaged"
    BY <2>1, <2>2 DEF Document
  <2> QED BY <2>1, <2>2, <2>3 DEF EvidenceStep, ManualStep, HeadStep
<1> QED
  BY <1>1, <1>2, <1>3, <1>4, <1>5, <1>6, <1>7, <1>8, <1>9, <1>10, <1>11, <1>12, <1>13 DEF Next

\* Nothing the daemon does, and no crash, destroys evidence of a damaged or
\* newer-format snapshot.
THEOREM EvidenceIsPreserved == Spec => EvidencePreserved
<1>1. StoreAssumption
  BY StoreAssumption
<1>2. StoreAssumption /\ StoreInv /\ [Next]_vars => [EvidenceStep]_vars
  BY StepsAreSafe
<1> QED BY <1>1, <1>2, StoreInvariant, PTL DEF Spec, EvidencePreserved

\* A manual snapshot is lost only to a remove() of that very id.
THEOREM ManualLeavesOnRequest == Spec => ManualOnlyOnRequest
<1>1. StoreAssumption
  BY StoreAssumption
<1>2. StoreAssumption /\ StoreInv /\ [Next]_vars => [ManualStep]_vars
  BY StepsAreSafe
<1> QED BY <1>1, <1>2, StoreInvariant, PTL DEF Spec, ManualOnlyOnRequest

\* No prune and no remove() unlinks the file of the current HEAD.
THEOREM HeadFileIsKept == Spec => HeadFileKept
<1>1. StoreAssumption
  BY StoreAssumption
<1>2. StoreAssumption /\ StoreInv /\ [Next]_vars => [HeadStep]_vars
  BY StepsAreSafe
<1> QED BY <1>1, <1>2, StoreInvariant, PTL DEF Spec, HeadFileKept

-----------------------------------------------------------------------------
(* Retention.                                                              *)

\* The scan has one entry for a file without quarantined siblings, so a prune
\* counts every healthy automatic snapshot that has none.
LEMMA UnshadowedIsCounted ==
    ASSUME TypeOK, NEW p \in Picks, NEW w \in Walks(p), NEW i \in UnshadowedAutos
    PROVE  ScanFile(i) \in PruneCandidates(p, w) /\ ScanFile(i).id = i
<1>1. i \in DOMAIN files /\ files[i].health = "ok" /\ files[i].trigger = "auto" /\ bad[i] = <<>>
  BY DEF UnshadowedAutos, Healthy
<1>2. /\ ScanFile(i) \in Scan /\ ScanFile(i).id = i
      /\ ScanFile(i).health = "ok" /\ ScanFile(i).trigger = "auto"
  BY <1>1 DEF Scan, ScanFile, Meta
<1>3. p[i] \in Scan /\ p[i].id = i
  BY <1>2 DEF Picks
<1>4. ASSUME NEW m \in Scan, m.id = i PROVE m = ScanFile(i)
  <2>1. ASSUME NEW j \in DOMAIN files, m = ScanFile(j) PROVE m = ScanFile(i)
    BY <1>4, <2>1 DEF ScanFile, Meta
  <2>2. ASSUME NEW j \in Payloads, NEW n \in DOMAIN bad[j], m = ScanBad(j, n) PROVE FALSE
    <3>1. j = i
      BY <1>4, <2>2 DEF ScanBad, Meta
    <3> QED BY <1>1, <2>2, <3>1
  <2> QED BY <1>4, <2>1, <2>2 DEF Scan
<1>5. p[i] = ScanFile(i)
  BY <1>3, <1>4
<1> QED BY <1>2, <1>5 DEF PruneCandidates, Listed

\* What the prune spares is at most KeepAuto snapshots.
LEMMA PruneSparesFew ==
    ASSUME TypeOK, StoreAssumption, NEW p \in Picks, NEW w \in Walks(p),
           NEW vs \in VictimOrders(p, w)
    PROVE  LET spared == UnshadowedAutos \ {vs[k].id : k \in DOMAIN vs}
           IN IsFiniteSet(spared) /\ Cardinality(spared) <= KeepAuto
<1> DEFINE C == PruneCandidates(p, w)
           n == VictimCount(Cardinality(C))
           V == {vs[k] : k \in DOMAIN vs}
           spared == UnshadowedAutos \ {vs[k].id : k \in DOMAIN vs}
           f == [i \in spared |-> ScanFile(i)]
<1>1. IsFiniteSet(C) /\ Cardinality(C) \in Nat /\ KeepAuto \in Nat
  BY CandidatesFinite, FS_CardinalityType DEF StoreAssumption
<1>2. /\ vs \in [1 .. n -> C] /\ n \in Nat
      /\ \A a, b \in DOMAIN vs : a < b => vs[a] # vs[b]
  BY <1>1 DEF VictimOrders, VictimCount
<1>3. IsFiniteSet(V) /\ Cardinality(V) = n
  <2>1. vs \in Injection(1 .. n, V) /\ vs \in Surjection(1 .. n, V)
    BY <1>2 DEF Injection, IsInjective, Surjection
  <2>2. IsFiniteSet(1 .. n) /\ Cardinality(1 .. n) = n
    BY <1>2, FS_Interval
  <2> QED BY <2>1, <2>2, FS_Surjection
<1>4. IsFiniteSet(C \ V) /\ Cardinality(C \ V) = Cardinality(C) - n
  <2>1. V \subseteq C
    BY <1>2
  <2>2. C \cap V = V
    BY <2>1
  <2>3. IsFiniteSet(C \ V) /\ Cardinality(C \ V) = Cardinality(C) - Cardinality(C \cap V)
    BY <1>1, FS_Difference
  <2> QED BY <1>3, <2>2, <2>3
<1>5. f \in Injection(spared, C \ V)
  <2>1. \A i \in spared : ScanFile(i) \in C /\ ScanFile(i).id = i
    BY UnshadowedIsCounted
  <2>2. \A i \in spared : ScanFile(i) \notin V
    BY <2>1
  <2> QED BY <2>1, <2>2 DEF Injection, IsInjective
<1>6. IsFiniteSet(spared) /\ Cardinality(spared) <= Cardinality(C \ V)
  BY <1>4, <1>5, FS_Injection
<1>7. Cardinality(C) - n <= KeepAuto
  BY <1>1 DEF VictimCount
<1>8. Cardinality(spared) \in Nat
  BY <1>6, FS_CardinalityType
<1>9. Cardinality(spared) <= KeepAuto
  BY <1>1, <1>2, <1>4, <1>6, <1>7, <1>8
<1> QED BY <1>6, <1>9

\* While a prune runs, what it has not listed as a victim is within the limit.
ToGo == {op.victims[k] : k \in DOMAIN op.victims}
SparedInv ==
    op.pc = "victims" => /\ IsFiniteSet(UnshadowedAutos \ ToGo)
                         /\ Cardinality(UnshadowedAutos \ ToGo) <= KeepAuto

\* Unlinking the victims one by one leaves what the prune spares.
LEMMA RetentionStep ==
    ASSUME StoreAssumption, "unlink" \notin Faults, StoreInv, SparedInv, PruneBound, [Next]_vars
    PROVE  SparedInv' /\ PruneBound'
<1>0. /\ TypeOK /\ DiskType /\ OpType /\ op \in Operation /\ PutInv /\ ReturnInv
      /\ bad \in [Payloads -> Seq(Document)] /\ DOMAIN files \subseteq Payloads
      /\ KeepAuto \in Nat
  BY DEF StoreInv, TypeOK, OpType, DiskType, StoreAssumption
<1>a. ASSUME op'.pc # "victims", ret'.verb # "put" \/ ret'.ok = FALSE \/ ret'.fresh = FALSE
      PROVE  SparedInv' /\ PruneBound'
  BY <1>a DEF SparedInv, PruneBound
<1>1. CASE PruneScan
  <2>1. PICK p \in Picks : \E w \in Walks(p) : \E vs \in VictimOrders(p, w) :
           op' = [op EXCEPT !.pc = "victims", !.victims = [k \in DOMAIN vs |-> vs[k].id]]
    BY <1>1 DEF PruneScan
  <2>2. PICK w \in Walks(p) : \E vs \in VictimOrders(p, w) :
           op' = [op EXCEPT !.pc = "victims", !.victims = [k \in DOMAIN vs |-> vs[k].id]]
    BY <2>1
  <2>3. PICK vs \in VictimOrders(p, w) :
           op' = [op EXCEPT !.pc = "victims", !.victims = [k \in DOMAIN vs |-> vs[k].id]]
    BY <2>2
  <2>4. PICK S \in QuarantineChoices(Damaged) : Quarantine(S)
    BY <1>1 DEF PruneScan
  <2>5. S \subseteq Damaged
    BY <2>4, QuarantineChoice
  <2>6. UnshadowedAutos' \subseteq UnshadowedAutos
    <3>1. /\ DOMAIN files' = DOMAIN files \ S
          /\ \A i \in DOMAIN files' : files'[i] = files[i]
          /\ \A i \in Payloads : \A n \in DOMAIN bad[i] : n \in DOMAIN bad'[i]
      BY <1>0, <2>4, <2>5, QuarantineFacts
    <3>2. \A i \in Payloads : bad'[i] = <<>> => bad[i] = <<>>
      <4>1. \A i \in Payloads : bad[i] \in Seq(Document)
        BY <1>0
      <4>2. ASSUME NEW i \in Payloads, bad'[i] = <<>>, bad[i] # <<>> PROVE FALSE
        <5>1. 1 \in DOMAIN bad[i]
          BY <4>1, <4>2
        <5> QED BY <3>1, <4>2, <5>1
      <4> QED BY <4>2
    <3> QED BY <1>0, <3>1, <3>2 DEF UnshadowedAutos, Healthy
  <2>7. ToGo' = {vs[k].id : k \in DOMAIN vs}
    <3>1. op'.victims = [k \in DOMAIN vs |-> vs[k].id]
      BY <1>0, <2>3 DEF Operation
    <3> QED BY <3>1 DEF ToGo
  <2>8. IsFiniteSet(UnshadowedAutos \ ToGo') /\ Cardinality(UnshadowedAutos \ ToGo') <= KeepAuto
    BY <1>0, <2>7, PruneSparesFew
  <2>9. (UnshadowedAutos \ ToGo)' \in SUBSET (UnshadowedAutos \ ToGo')
    BY <2>6
  <2>10. SparedInv'
    <3>1. /\ IsFiniteSet((UnshadowedAutos \ ToGo)')
          /\ Cardinality((UnshadowedAutos \ ToGo)') <= Cardinality(UnshadowedAutos \ ToGo')
      BY <2>8, <2>9, FS_Subset
    <3>2. /\ Cardinality((UnshadowedAutos \ ToGo)') \in Nat
          /\ Cardinality(UnshadowedAutos \ ToGo') \in Nat
      BY <2>8, <3>1, FS_CardinalityType
    <3>3. Cardinality((UnshadowedAutos \ ToGo)') <= KeepAuto
      BY <1>0, <2>8, <3>1, <3>2
    <3> QED BY <3>1, <3>3 DEF SparedInv
  <2>11. ret' = NoReturn
    BY <1>0, <1>1 DEF PruneScan, ReturnInv
  <2> QED BY <2>10, <2>11, ReturnFacts DEF PruneBound
<1>2. CASE PruneDelete
  <2>1. /\ op.pc = "victims" /\ op.victims # <<>> /\ op.victims \in Seq(Payloads)
        /\ op' = [op EXCEPT !.victims = Tail(op.victims)]
        /\ files' = WithoutFiles({Head(op.victims)})
        /\ UNCHANGED <<bad, ret>>
    BY <1>0, <1>2 DEF PruneDelete, Operation, RemoveOutcomes
  <2>2. op'.victims = Tail(op.victims)
    BY <1>0, <2>1 DEF Operation
  <2>3. ToGo = {Head(op.victims)} \cup ToGo'
    <3>1. Head(op.victims) = op.victims[1] /\ 1 \in DOMAIN op.victims
      BY <2>1
    <3>2. \A k \in DOMAIN op'.victims :
             k + 1 \in DOMAIN op.victims /\ op'.victims[k] = op.victims[k + 1]
      BY <2>1, <2>2
    <3>3. \A k \in DOMAIN op.victims : k # 1 =>
             k - 1 \in DOMAIN op'.victims /\ op'.victims[k - 1] = op.victims[k]
      BY <2>1, <2>2
    <3>4. ToGo \subseteq {Head(op.victims)} \cup ToGo'
      BY <3>1, <3>3 DEF ToGo
    <3>5. {Head(op.victims)} \cup ToGo' \subseteq ToGo
      BY <3>1, <3>2 DEF ToGo
    <3> QED BY <3>4, <3>5
  <2>4. UnshadowedAutos' = UnshadowedAutos \ {Head(op.victims)}
    BY <2>1 DEF UnshadowedAutos, Healthy, WithoutFiles
  <2>5. (UnshadowedAutos \ ToGo)' = UnshadowedAutos \ ToGo
    BY <2>3, <2>4
  <2>6. SparedInv'
    BY <2>1, <2>5 DEF SparedInv
  <2>7. ret' = NoReturn
    BY <1>0, <2>1 DEF ReturnInv
  <2> QED BY <2>6, <2>7, ReturnFacts DEF PruneBound
<1>3. CASE PruneEnd
  <2>1. /\ op.pc = "victims" /\ op.victims = <<>> /\ op' = Idle
        /\ UNCHANGED <<files, bad>>
    BY <1>3 DEF PruneEnd, FinishPut
  <2>2. UnshadowedAutos \ ToGo = UnshadowedAutos
    BY <2>1 DEF ToGo
  <2>3. UnshadowedAutos' = UnshadowedAutos
    BY <2>1 DEF UnshadowedAutos, Healthy
  <2>4. PruneBound'
    BY <2>1, <2>2, <2>3 DEF SparedInv, PruneBound
  <2> QED BY <2>1, <2>4, IdleFacts DEF SparedInv
<1>4. ASSUME NEW i \in Payloads, NEW t \in Triggers, PutBegin(i, t) PROVE SparedInv' /\ PruneBound'
  <2>1. CASE head = i
    <3>1. op' = op /\ op.pc = "idle" /\ ret' = Return("put", TRUE, i, FALSE)
      BY <1>4, <2>1 DEF PutBegin
    <3>2. ret'.fresh = FALSE
      BY <3>1 DEF Return
    <3> QED BY <3>1, <3>2, <1>a
  <2>2. CASE head # i
    <3>1. /\ ret' = NoReturn
          /\ op' = [Idle EXCEPT !.pc = IF i \in DOMAIN files THEN "putHead" ELSE "putFile",
                                !.id = i, !.trigger = t, !.next = head,
                                !.fresh = i \notin DOMAIN files]
      BY <1>4, <2>2 DEF PutBegin
    <3>2. op'.pc # "victims"
      BY <3>1, IdleFacts DEF Operation
    <3> QED BY <3>1, <3>2, <1>a, ReturnFacts
  <2> QED BY <2>1, <2>2
<1>5. CASE PutWriteFile
  <2>1. \/ op' = [op EXCEPT !.pc = "putHead"] /\ ret' = ret /\ op.pc = "putFile"
        \/ op' = Idle /\ ret' = Return("put", FALSE, op.id, FALSE)
    BY <1>5 DEF PutWriteFile
  <2>2. op'.pc # "victims"
    BY <1>0, <2>1, IdleFacts DEF Operation
  <2>3. ret'.verb # "put" \/ ret'.fresh = FALSE
    BY <1>0, <2>1, ReturnFacts DEF ReturnInv, Return
  <2> QED BY <2>2, <2>3, <1>a
<1>6. CASE PutWriteHead
  <2>1. \/ op' = [op EXCEPT !.pc = "prune"] /\ ret' = ret /\ op.pc = "putHead"
        \/ op' = Idle /\ ret' = Return("put", TRUE, op.id, op.fresh) /\ ~op.fresh
        \/ op' = Idle /\ ret' = Return("put", FALSE, op.id, FALSE)
    BY <1>6 DEF PutWriteHead, FinishPut
  <2>2. op'.pc # "victims"
    BY <1>0, <2>1, IdleFacts DEF Operation
  <2>3. ret'.verb # "put" \/ ret'.fresh = FALSE
    <3>1. op.fresh \in BOOLEAN
      BY <1>0 DEF Operation
    <3> QED BY <1>0, <2>1, <3>1, ReturnFacts DEF ReturnInv, Return
  <2> QED BY <2>2, <2>3, <1>a
<1>7. ASSUME NEW i \in Payloads, Read(i) PROVE SparedInv' /\ PruneBound'
  BY <1>7, <1>a DEF Read, Return
<1>8. CASE List
  BY <1>8, <1>a DEF List, Return
<1>9. ASSUME NEW i \in Payloads, RemoveBegin(i) PROVE SparedInv' /\ PruneBound'
  <2>1. CASE Healthy(i)
    <3>1. /\ ret' = NoReturn
          /\ op' = [Idle EXCEPT !.pc = IF head = i THEN "rmHead" ELSE "rmDelete",
                                !.id = i, !.next = files[i].parent]
      BY <1>9, <2>1 DEF RemoveBegin
    <3>2. op'.pc # "victims"
      BY <3>1, IdleFacts DEF Operation
    <3> QED BY <3>1, <3>2, <1>a, ReturnFacts
  <2>2. CASE ~Healthy(i)
    <3>1. op' = op /\ op.pc = "idle" /\ ret' = Return("remove", FALSE, i, FALSE)
      BY <1>9, <2>2 DEF RemoveBegin
    <3>2. ret'.fresh = FALSE
      BY <3>1 DEF Return
    <3> QED BY <3>1, <3>2, <1>a
  <2> QED BY <2>1, <2>2
<1>10. CASE RemoveWriteHead
  <2>1. \/ op' = [op EXCEPT !.pc = "rmDelete"] /\ ret' = ret /\ op.pc = "rmHead"
        \/ op' = Idle /\ ret' = Return("remove", FALSE, op.id, FALSE)
    BY <1>10 DEF RemoveWriteHead
  <2>2. op'.pc # "victims"
    BY <1>0, <2>1, IdleFacts DEF Operation
  <2>3. ret'.verb # "put" \/ ret'.fresh = FALSE
    BY <1>0, <2>1, ReturnFacts DEF ReturnInv, Return
  <2> QED BY <2>2, <2>3, <1>a
<1>11. CASE RemoveDelete
  BY <1>11, <1>a, IdleFacts DEF RemoveDelete, Return
<1>12. CASE Crash
  BY <1>12, <1>a, IdleFacts, ReturnFacts DEF Crash
<1>13. ASSUME NEW i \in Payloads, Damage(i) PROVE SparedInv' /\ PruneBound'
  BY <1>13, <1>a, ReturnFacts DEF Damage
<1>14. CASE UNCHANGED vars
  BY <1>14 DEF vars, SparedInv, PruneBound, UnshadowedAutos, ToGo, Healthy
<1> QED
  BY <1>1, <1>2, <1>3, <1>4, <1>5, <1>6, <1>7, <1>8, <1>9, <1>10, <1>11, <1>12, <1>13,
     <1>14 DEF Next

\* Retention, for any limit and any history of crashes, damage and cut prunes: as
\* long as no unlink fails, a put() that created a snapshot leaves at most KeepAuto
\* healthy automatic ones without quarantined siblings.
THEOREM RetentionIsBounded == "unlink" \notin Faults => (Spec => []PruneBound)
<1> SUFFICES ASSUME "unlink" \notin Faults PROVE Spec => []PruneBound
  OBVIOUS
<1>1. StoreAssumption
  BY StoreAssumption
<1>2. Init => SparedInv /\ PruneBound
  BY IdleFacts, ReturnFacts DEF Init, SparedInv, PruneBound
<1>3. StoreInv /\ SparedInv /\ PruneBound /\ [Next]_vars => SparedInv' /\ PruneBound'
  BY <1>1, RetentionStep
<1> QED BY <1>2, <1>3, StoreInvariant, PTL DEF Spec

-----------------------------------------------------------------------------
(* What a listing says of HEAD and of descent.                             *)

\* A scan is finite, and every entry carries the id of a payload.
LEMMA ScanFacts ==
    ASSUME TypeOK, StoreAssumption
    PROVE  IsFiniteSet(Scan) /\ \A m \in Scan : m.id \in Payloads
<1>0. /\ DOMAIN files \subseteq Payloads /\ IsFiniteSet(Payloads)
      /\ bad \in [Payloads -> Seq(Document)]
  BY DEF TypeOK, DiskType, StoreAssumption
<1> DEFINE F == {ScanFile(i) : i \in DOMAIN files}
           B(i) == {ScanBad(i, n) : n \in DOMAIN bad[i]}
           BB == {B(i) : i \in Payloads}
<1>1. IsFiniteSet(F)
  <2>1. [i \in DOMAIN files |-> ScanFile(i)] \in Surjection(DOMAIN files, F)
    BY DEF Surjection
  <2>2. IsFiniteSet(DOMAIN files)
    BY <1>0, FS_Subset
  <2> QED BY <2>1, <2>2, FS_Surjection
<1>2. ASSUME NEW i \in Payloads PROVE IsFiniteSet(B(i))
  <2>1. [n \in DOMAIN bad[i] |-> ScanBad(i, n)] \in Surjection(DOMAIN bad[i], B(i))
    BY DEF Surjection
  <2>2. PICK k \in Nat : DOMAIN bad[i] = 1 .. k
    <3>1. bad[i] \in Seq(Document)
      BY <1>0
    <3> QED BY <3>1
  <2>3. IsFiniteSet(DOMAIN bad[i])
    BY <2>2, FS_Interval
  <2> QED BY <2>1, <2>3, FS_Surjection
<1>3. IsFiniteSet(BB)
  <2> HIDE DEF B
  <2>1. [i \in Payloads |-> B(i)] \in Surjection(Payloads, BB)
    BY DEF Surjection
  <2> QED BY <1>0, <2>1, FS_Surjection
<1>4. IsFiniteSet(UNION BB)
  <2>1. \A T \in BB : IsFiniteSet(T)
    BY <1>2
  <2> HIDE DEF BB
  <2> QED BY <1>3, <2>1, FS_UNION
<1>5. Scan = F \cup UNION BB
  BY DEF Scan
<1>6. IsFiniteSet(Scan)
  <2> HIDE DEF F, BB
  <2> QED BY <1>1, <1>4, <1>5, FS_Union
<1>7. ASSUME NEW m \in Scan PROVE m.id \in Payloads
  <2>1. ASSUME NEW i \in DOMAIN files, m = ScanFile(i) PROVE m.id \in Payloads
    BY <1>0, <2>1 DEF ScanFile, Meta
  <2>2. ASSUME NEW i \in Payloads, NEW n \in DOMAIN bad[i], m = ScanBad(i, n) PROVE m.id \in Payloads
    BY <2>2 DEF ScanBad, Meta
  <2> QED BY <2>1, <2>2 DEF Scan
<1> QED BY <1>6, <1>7

\* A listing in terms of the choices behind it.
IsListing(l, p, w) ==
    /\ p \in Picks /\ w \in Walks(p)
    /\ l \in [1 .. Cardinality(Listed(p, w)) -> Listed(p, w)]
    /\ \A m, n \in DOMAIN l : m < n => l[m] # l[n] /\ ~NewerThan(w, l[n], l[m])

\* The walk starts at HEAD, and what it meets has one entry, the picked one; a
\* listing repeats nothing and leaves nothing out.
LEMMA ListingFacts ==
    ASSUME TypeOK, StoreAssumption, NEW p, NEW w, NEW l, IsListing(l, p, w)
    PROVE  /\ \E n \in Nat : DOMAIN l = 1 .. n /\ l \in Seq(Scan)
           /\ \A m \in Scan : m.id \in DOMAIN p /\ p[m.id] \in Scan /\ p[m.id].id = m.id
           /\ \A i \in DOMAIN p : i \in Payloads /\ \E n \in DOMAIN l : l[n] = p[i]
           /\ \A n \in DOMAIN l : /\ l[n] \in Scan
                                  /\ OnChain(w, l[n]) => l[n] = p[l[n].id]
           /\ \A m, n \in DOMAIN l : l[m] = l[n] => m = n
           /\ 0 \in Steps /\ w[0] = head
<1> DEFINE L == Listed(p, w)
           c == Cardinality(L)
<1>0. /\ p \in Picks /\ w \in Walks(p) /\ l \in [1 .. c -> L]
      /\ \A m, n \in DOMAIN l : m < n => l[m] # l[n]
  BY DEF IsListing
<1>1. IsFiniteSet(L) /\ c \in Nat
  <2>1. L \in SUBSET Scan
    BY DEF Listed
  <2> QED BY <2>1, ScanFacts, FS_Subset, FS_CardinalityType
<1>2. \A m, n \in DOMAIN l : l[m] = l[n] => m = n
  <2> SUFFICES ASSUME NEW m \in DOMAIN l, NEW n \in DOMAIN l, l[m] = l[n] PROVE m = n
    OBVIOUS
  <2>1. m \in Int /\ n \in Int /\ (m < n \/ n < m \/ m = n)
    BY <1>0, <1>1
  <2> QED BY <1>0, <2>1
<1>3. \A m \in L : \E n \in DOMAIN l : l[n] = m
  <2>1. l \in Injection(1 .. c, L)
    BY <1>0, <1>2 DEF Injection, IsInjective
  <2>2. Cardinality(1 .. c) = c
    BY <1>1, FS_Interval
  <2>3. l \in Surjection(1 .. c, L)
    BY <1>1, <2>1, <2>2, FS_Injection
  <2> QED BY <1>0, <2>3 DEF Surjection
<1>4. \A m \in Scan : m.id \in DOMAIN p /\ p[m.id] \in Scan /\ p[m.id].id = m.id
  BY <1>0 DEF Picks
<1>5. ASSUME NEW i \in DOMAIN p PROVE i \in Payloads /\ \E n \in DOMAIN l : l[n] = p[i]
  <2>1. p[i] \in Scan /\ p[i].id = i
    BY <1>0, <1>5 DEF Picks
  <2>2. p[i] \in L
    BY <2>1 DEF Listed
  <2> QED BY <1>3, <2>1, <2>2, ScanFacts
<1>6. \A n \in DOMAIN l : l[n] \in Scan /\ (OnChain(w, l[n]) => l[n] = p[l[n].id])
  BY <1>0 DEF Listed
<1>7. 0 \in Steps /\ w[0] = head
  BY <1>0, FS_CardinalityType DEF Walks, Steps, StoreAssumption
<1>8. DOMAIN l = 1 .. c /\ l \in Seq(Scan)
  BY <1>0, <1>1, <1>6
<1> QED BY <1>1, <1>2, <1>4, <1>5, <1>6, <1>7, <1>8

\* HEAD's snapshot, when it is listed, is the first row of every listing.
LEMMA HeadComesFirst ==
    ASSUME TypeOK, StoreAssumption, NEW p, NEW w, NEW l, IsListing(l, p, w), head \in DOMAIN p
    PROVE  1 \in DOMAIN l /\ l[1] = p[head] /\ l[1].id = head
<1>0. PICK n \in Nat : DOMAIN l = 1 .. n
  BY ListingFacts
<1>1. PICK k \in DOMAIN l : l[k] = p[head]
  BY ListingFacts
<1>2. 1 \in DOMAIN l
  BY <1>0, <1>1
<1>3. p[head].id = head
  BY DEF IsListing, Picks
<1>4. 0 \in Steps /\ w[0] = head
  BY ListingFacts
<1>5. CASE l[1].id = head
  <2>1. OnChain(w, l[1])
    BY <1>4, <1>5 DEF OnChain
  <2>2. l[1] = p[head]
    BY <1>2, <1>5, <2>1, ListingFacts
  <2> QED BY <1>2, <1>5, <2>2
<1>6. CASE l[1].id # head
  <2>1. MetBefore(w, l[k], l[1])
    BY <1>1, <1>3, <1>4, <1>6 DEF MetBefore
  <2>2. k # 1 /\ k \in 1 .. n
    BY <1>0, <1>1, <1>3, <1>6
  <2>3. 1 < k
    BY <1>0, <2>2
  <2> QED BY <1>1, <1>2, <2>1, <2>3 DEF IsListing, NewerThan
<1> QED BY <1>5, <1>6

\* The first row that nobody claims is the first of all when nobody claims it.
LEMMA MarkedIsFirst ==
    ASSUME NEW S \in SUBSET Nat, 1 \in S, 0 \notin S
    PROVE  Marked(S) = 1
<1>1. \A m \in S : 1 <= m
  OBVIOUS
<1>2. \A n \in S : (\A m \in S : n <= m) => n = 1
  OBVIOUS
<1>3. (CHOOSE n \in S : \A m \in S : n <= m) = 1
  BY <1>1, <1>2
<1> QED BY <1>3 DEF Marked

LEMMA HeadIsMarkedHere == StoreAssumption /\ TypeOK => HeadIsMarked
<1> SUFFICES ASSUME StoreAssumption, TypeOK, HeadListed, NEW l \in Listings,
                    head \notin ClaimedAsParent(l)
             PROVE  IsHead(l, head)
  BY DEF HeadIsMarked
<1>1. PICK p \in Picks : \E w \in Walks(p) :
         /\ l \in [1 .. Cardinality(Listed(p, w)) -> Listed(p, w)]
         /\ \A m, n \in DOMAIN l : m < n => l[m] # l[n] /\ ~NewerThan(w, l[n], l[m])
  BY DEF Listings
<1>2. PICK w \in Walks(p) : IsListing(l, p, w)
  BY <1>1 DEF IsListing
<1>3. head \in DOMAIN p /\ head \in Payloads
  BY <1>2, ListingFacts DEF HeadListed
<1>4. 1 \in DOMAIN l /\ l[1].id = head
  BY <1>2, <1>3, HeadComesFirst
<1>5. PICK n \in Nat : DOMAIN l = 1 .. n
  BY <1>2, ListingFacts
<1>6. HeadRow(l) = 1
  <2> DEFINE S == {k \in DOMAIN l : l[k].id \notin ClaimedAsParent(l)}
  <2>1. 1 \in S /\ S \in SUBSET Nat /\ 0 \notin S
    BY <1>4, <1>5
  <2> HIDE DEF S
  <2>2. Marked(S) = 1
    BY <2>1, MarkedIsFirst
  <2> QED BY <2>2 DEF S, HeadRow
<1>7. head # None
  BY <1>3 DEF StoreAssumption
<1> QED BY <1>4, <1>6, <1>7 DEF IsHead, HeadId

\* The HEAD marker finds HEAD, for any number of snapshots, any directory order and
\* any parent links, unless a listed snapshot descends from HEAD.
THEOREM HeadIsFound == Spec => []HeadIsMarked
<1>1. StoreAssumption
  BY StoreAssumption
<1>2. TypeOK => HeadIsMarked
  BY <1>1, HeadIsMarkedHere
<1> QED BY <1>2, StoreTypeCorrect, PTL

\* A set of natural numbers has a least element, the library's induction without
\* an operator to instantiate.
LEMMA LeastOf ==
    ASSUME NEW S \in SUBSET Nat, S # {}
    PROVE  \E m \in S : \A k \in S : m <= k
<1>1. PICK x \in S : \A y \in S : ~(<<y, x>> \in OpToRel(<, Nat))
  BY NatLessThanWellFounded, WFMin, Zenon
<1>2. \A y \in S : ~(y < x)
  BY <1>1 DEF OpToRel
<1> QED BY <1>2

\* Induction up to a bound, over a set instead of a predicate.
LEMMA InductionUpTo ==
    ASSUME NEW N \in Nat, NEW S, 0 \in S, \A n \in 0 .. N - 1 : n \in S => n + 1 \in S
    PROVE  0 .. N \subseteq S
<1> DEFINE Missed == {n \in 0 .. N : n \notin S}
<1>1. SUFFICES ASSUME Missed # {} PROVE FALSE
  OBVIOUS
<1>2. PICK m \in Missed : \A k \in Missed : m <= k
  <2>1. Missed \in SUBSET Nat
    OBVIOUS
  <2> HIDE DEF Missed
  <2> QED BY <1>1, <2>1, LeastOf
<1>3. m # 0 /\ m \in 0 .. N /\ m \notin S
  OBVIOUS
<1>4. m - 1 \in 0 .. N - 1 /\ m - 1 \in 0 .. N
  BY <1>3
<1>5. m - 1 \in S
  BY <1>2, <1>3, <1>4
<1>6. (m - 1) + 1 \in S
  BY <1>4, <1>5
<1> QED BY <1>3, <1>6

\* The climb exists, step by step.
IsClimb(l, row, N, up) ==
    /\ up = [n \in 0 .. N |-> up[n]]
    /\ up[0] = <<row>>
    /\ \A n \in 1 .. N : up[n] = Climb(l, up[n - 1])

LEMMA ClimbExists ==
    ASSUME NEW l, NEW row, NEW N \in Nat
    PROVE  \E up : IsClimb(l, row, N, up)
<1> DEFINE S == {n \in Nat : \E up : IsClimb(l, row, n, up)}
<1>1. 0 \in S
  <2>1. IsClimb(l, row, 0, [n \in 0 .. 0 |-> <<row>>])
    BY DEF IsClimb
  <2> QED BY <2>1
<1>2. ASSUME NEW n \in 0 .. N - 1, n \in S PROVE n + 1 \in S
  <2>1. PICK up : IsClimb(l, row, n, up)
    BY <1>2
  <2> DEFINE next == [k \in 0 .. n + 1 |-> IF k = n + 1 THEN Climb(l, up[n]) ELSE up[k]]
  <2>2. /\ next = [k \in 0 .. n + 1 |-> next[k]]
        /\ next[0] = <<row>>
    BY <2>1 DEF IsClimb
  <2>3. ASSUME NEW k \in 1 .. n + 1 PROVE next[k] = Climb(l, next[k - 1])
    <3>1. CASE k = n + 1
      <4>1. next[k] = Climb(l, up[n]) /\ next[k - 1] = up[n]
        BY <3>1
      <4> QED BY <4>1
    <3>2. CASE k # n + 1
      <4>1. next[k] = up[k] /\ next[k - 1] = up[k - 1] /\ k \in 1 .. n
        BY <3>2
      <4> QED BY <2>1, <4>1 DEF IsClimb
    <3> QED BY <3>1, <3>2
  <2>4. IsClimb(l, row, n + 1, next)
    <3> HIDE DEF next
    <3> QED BY <2>2, <2>3 DEF IsClimb
  <2> QED BY <2>4
<1>3. 0 .. N \subseteq S
  <2> HIDE DEF S
  <2> QED BY <1>1, <1>2, InductionUpTo
<1> QED BY <1>3

LEMMA AncestryIsClimb ==
    ASSUME NEW l, NEW row, Len(l) \in Nat
    PROVE  \E up : IsClimb(l, row, Len(l), up) /\ Ancestry(l, row) = up[Len(l)]
<1> DEFINE F(g) == [n \in 0 .. Len(l) |-> IF n = 0 THEN <<row>> ELSE Climb(l, g[n - 1])]
           up == CHOOSE g : g = F(g)
<1>1. PICK g : IsClimb(l, row, Len(l), g)
  BY ClimbExists
<1>2. g = F(g)
  <2>1. \A n \in 0 .. Len(l) : n # 0 => n \in 1 .. Len(l)
    OBVIOUS
  <2> QED BY <1>1, <2>1 DEF IsClimb
<1>3. up = F(up)
  <2> HIDE DEF F
  <2> QED BY <1>2
<1>4. up = [n \in 0 .. Len(l) |-> IF n = 0 THEN <<row>> ELSE Climb(l, up[n - 1])]
  <2> HIDE DEF up
  <2> QED BY <1>3
<1>5. Ancestry(l, row) = up[Len(l)]
  BY DEF Ancestry
<1>6. IsClimb(l, row, Len(l), up)
  <2> HIDE DEF up
  <2>0. \A n \in 0 .. Len(l) : up[n] = IF n = 0 THEN <<row>> ELSE Climb(l, up[n - 1])
    BY <1>4
  <2>1. up[0] = <<row>> /\ \A n \in 1 .. Len(l) : up[n] = Climb(l, up[n - 1])
    BY <2>0
  <2>2. up = [n \in 0 .. Len(l) |-> up[n]]
    BY <1>4
  <2> QED BY <2>1, <2>2 DEF IsClimb
<1> QED BY <1>5, <1>6

\* A chain of distinct rows, each one the row of the parent before it.
IsChain(l, row, s) ==
    /\ s \in Seq(Scan) /\ Len(s) \in Nat \ {0} /\ s[1] = row
    /\ \A k \in 1 .. Len(s) - 1 :
         s[k].parent \in ListedIds(l) /\ s[k + 1] = ById(l, s[k].parent)
    /\ \A j, k \in 1 .. Len(s) : s[j].id = s[k].id => j = k
    /\ \A k \in 1 .. Len(s) : s[k].id \in ListedIds(l)

\* It goes no further.
IsComplete(l, s) ==
    s[Len(s)].parent \in ListedIds(l) => \E k \in 1 .. Len(s) : s[k].id = s[Len(s)].parent

LEMMA ByIdFacts ==
    ASSUME NEW l, NEW N \in Nat, DOMAIN l = 1 .. N, NEW i \in ListedIds(l)
    PROVE  \E n \in DOMAIN l : ById(l, i) = l[n] /\ l[n].id = i
<1> DEFINE S == {n \in DOMAIN l : l[n].id = i}
<1>1. S # {} /\ S \in SUBSET Nat
  BY DEF ListedIds
<1>2. PICK n \in S : \A k \in S : n <= k
  <2> HIDE DEF S
  <2> QED BY <1>1, LeastOf
<1>3. \A m \in 1 .. n - 1 : l[m].id # i
  <2> SUFFICES ASSUME NEW m \in 1 .. n - 1, l[m].id = i PROVE FALSE
    OBVIOUS
  <2>1. m \in S /\ m < n /\ n \in Nat /\ m \in Nat
    OBVIOUS
  <2> QED BY <1>2, <2>1
<1> DEFINE P(k) == l[k].id = i /\ \A m \in 1 .. k - 1 : l[m].id # i
           c == CHOOSE k \in DOMAIN l : P(k)
<1>4. n \in DOMAIN l /\ P(n)
  BY <1>3
<1>5. c \in DOMAIN l /\ P(c)
  <2> HIDE DEF P
  <2> QED BY <1>4
<1>6. ById(l, i) = l[c]
  BY DEF ById
<1> QED BY <1>5, <1>6

\* One step of the climb keeps a chain, and lengthens it unless it is complete.
LEMMA ClimbKeepsChain ==
    ASSUME TypeOK, StoreAssumption, NEW p, NEW w, NEW l, IsListing(l, p, w),
           NEW row, NEW s, IsChain(l, row, s)
    PROVE  /\ IsChain(l, row, Climb(l, s))
           /\ Climb(l, s) = s => IsComplete(l, s)
           /\ Climb(l, s) # s => Len(Climb(l, s)) = Len(s) + 1
<1> DEFINE parent == s[Len(s)].parent
           more == parent \in ListedIds(l) /\ \A k \in DOMAIN s : s[k].id # parent
<1>0. /\ s \in Seq(Scan) /\ Len(s) \in Nat \ {0} /\ DOMAIN s = 1 .. Len(s)
      /\ \A n \in DOMAIN l : l[n] \in Scan
  BY ListingFacts DEF IsChain
<1>1. CASE ~more
  <2>1. Climb(l, s) = s
    BY <1>1 DEF Climb
  <2> QED BY <1>0, <1>1, <2>1 DEF IsComplete
<1>2. CASE more
  <2> DEFINE t == Append(s, ById(l, parent))
  <2>1. Climb(l, s) = t
    BY <1>2 DEF Climb
  <2>2. PICK n \in DOMAIN l : ById(l, parent) = l[n] /\ l[n].id = parent
    <3>1. PICK N \in Nat : DOMAIN l = 1 .. N
      BY ListingFacts
    <3> QED BY <1>2, <3>1, ByIdFacts
  <2>3. ById(l, parent) \in Scan /\ ById(l, parent).id = parent
    BY <1>0, <2>2
  <2>4. /\ t \in Seq(Scan) /\ Len(t) = Len(s) + 1 /\ t # s
        /\ \A k \in 1 .. Len(s) : t[k] = s[k]
        /\ t[Len(s) + 1] = ById(l, parent)
    <3>1. ASSUME NEW x \in Scan
          PROVE  /\ Append(s, x) \in Seq(Scan) /\ Len(Append(s, x)) = Len(s) + 1
                 /\ \A k \in 1 .. Len(s) : Append(s, x)[k] = s[k]
                 /\ Append(s, x)[Len(s) + 1] = x
      BY <1>0
    <3>2. ASSUME NEW x \in Scan, Append(s, x) = s PROVE FALSE
      <4>1. Len(s) = Len(s) + 1
        BY <3>1, <3>2
      <4> QED BY <1>0, <4>1
    <3> QED BY <2>3, <3>1, <3>2
  <2> HIDE DEF t
  <2>5. Len(t) \in Nat \ {0} /\ t[1] = row
    BY <1>0, <2>4 DEF IsChain
  <2>6. ASSUME NEW k \in 1 .. Len(t) - 1
        PROVE  t[k].parent \in ListedIds(l) /\ t[k + 1] = ById(l, t[k].parent)
    <3>1. CASE k = Len(s)
      <4>1. t[k] = s[Len(s)] /\ t[k + 1] = ById(l, parent)
        BY <1>0, <2>4, <3>1
      <4> QED BY <1>2, <4>1
    <3>2. CASE k # Len(s)
      <4>1. k \in 1 .. Len(s) - 1 /\ t[k] = s[k] /\ t[k + 1] = s[k + 1]
        <5>1. Len(t) = Len(s) + 1 /\ Len(s) \in Nat \ {0} /\ k \in 1 .. Len(t) - 1
          BY <1>0, <2>4
        <5>2. k \in 1 .. Len(s) - 1 /\ k \in 1 .. Len(s) /\ k + 1 \in 1 .. Len(s)
          BY <3>2, <5>1
        <5> QED BY <2>4, <5>2
      <4> QED BY <4>1 DEF IsChain
    <3> QED BY <3>1, <3>2
  <2>7. ASSUME NEW j \in 1 .. Len(t), NEW k \in 1 .. Len(t), t[j].id = t[k].id PROVE j = k
    <3>1. \A i \in 1 .. Len(s) : t[Len(s) + 1].id # t[i].id
      BY <1>0, <1>2, <2>3, <2>4
    <3>2. CASE j \in 1 .. Len(s) /\ k \in 1 .. Len(s)
      BY <2>4, <2>7, <3>2 DEF IsChain
    <3>3. CASE j = Len(s) + 1 \/ k = Len(s) + 1
      BY <1>0, <2>4, <2>7, <3>1, <3>3
    <3> QED BY <1>0, <2>4, <3>2, <3>3
  <2>8. ASSUME NEW k \in 1 .. Len(t) PROVE t[k].id \in ListedIds(l)
    <3>1. CASE k = Len(s) + 1
      BY <1>2, <2>3, <2>4, <3>1
    <3>2. CASE k \in 1 .. Len(s)
      BY <2>4, <3>2 DEF IsChain
    <3> QED BY <1>0, <2>4, <3>1, <3>2
  <2>9. IsChain(l, row, t)
    BY <2>4, <2>5, <2>6, <2>7, <2>8 DEF IsChain
  <2> QED BY <2>1, <2>4, <2>9
<1> QED BY <1>1, <1>2

\* A chain is no longer than the listing, since its rows have different ids.
LEMMA ChainIsShort ==
    ASSUME NEW l, NEW N \in Nat, DOMAIN l = 1 .. N, NEW row, NEW s, IsChain(l, row, s)
    PROVE  Len(s) <= N
<1> DEFINE f == [k \in 1 .. Len(s) |-> CHOOSE n \in DOMAIN l : l[n].id = s[k].id]
<1>0. Len(s) \in Nat
  BY DEF IsChain
<1>1. \A k \in 1 .. Len(s) : f[k] \in DOMAIN l /\ l[f[k]].id = s[k].id
  BY DEF IsChain, ListedIds
<1>2. f \in [1 .. Len(s) -> 1 .. N]
  BY <1>1
<1>3. f \in Injection(1 .. Len(s), 1 .. N)
  <2>1. \A j, k \in 1 .. Len(s) : f[j] = f[k] => j = k
    <3> HIDE DEF f
    <3> QED BY <1>1 DEF IsChain
  <2> HIDE DEF f
  <2> QED BY <1>2, <2>1 DEF Injection, IsInjective
<1>4. /\ IsFiniteSet(1 .. N) /\ Cardinality(1 .. N) = N
      /\ Cardinality(1 .. Len(s)) = Len(s)
  <2>1. ASSUME NEW n \in Nat PROVE IsFiniteSet(1 .. n) /\ Cardinality(1 .. n) = n
    BY FS_Interval
  <2> QED BY <1>0, <2>1
<1>5. Cardinality(1 .. Len(s)) <= Cardinality(1 .. N)
  <2> HIDE DEF f
  <2> QED BY <1>3, <1>4, FS_Injection
<1> QED BY <1>4, <1>5

\* What Ancestry computes is the complete chain from the row.
LEMMA AncestryFacts ==
    ASSUME TypeOK, StoreAssumption, NEW p, NEW w, NEW l, IsListing(l, p, w), NEW r \in DOMAIN l
    PROVE  IsChain(l, l[r], Ancestry(l, l[r])) /\ IsComplete(l, Ancestry(l, l[r]))
<1>1. PICK N \in Nat : DOMAIN l = 1 .. N /\ l \in Seq(Scan)
  BY ListingFacts
<1>2. Len(l) = N
  BY <1>1
<1>3. PICK up : IsClimb(l, l[r], N, up) /\ Ancestry(l, l[r]) = up[N]
  BY <1>2, AncestryIsClimb
<1> DEFINE S == {n \in Nat : /\ IsChain(l, l[r], up[n])
                             /\ Len(up[n]) = n + 1 \/ IsComplete(l, up[n])}
<1>4. 0 \in S
  <2>1. up[0] = <<l[r]>>
    BY <1>3 DEF IsClimb
  <2>2. <<l[r]>> \in Seq(Scan) /\ Len(<<l[r]>>) = 1 /\ <<l[r]>>[1] = l[r]
    BY <1>1
  <2>3. IsChain(l, l[r], <<l[r]>>)
    BY <2>2 DEF IsChain, ListedIds
  <2> QED BY <2>1, <2>2, <2>3
<1>5. ASSUME NEW n \in 0 .. N - 1, n \in S PROVE n + 1 \in S
  <2>1. up[n + 1] = Climb(l, up[n])
    <3>1. n + 1 \in 1 .. N /\ (n + 1) - 1 = n
      OBVIOUS
    <3> QED BY <1>3, <3>1 DEF IsClimb
  <2>2. IsChain(l, l[r], up[n])
    BY <1>5
  <2>3. /\ IsChain(l, l[r], up[n + 1])
        /\ up[n + 1] = up[n] => IsComplete(l, up[n])
        /\ up[n + 1] # up[n] => Len(up[n + 1]) = Len(up[n]) + 1
    BY <2>1, <2>2, ClimbKeepsChain
  <2>4. CASE up[n + 1] = up[n]
    BY <2>3, <2>4
  <2>5. CASE up[n + 1] # up[n] /\ Len(up[n]) = n + 1
    BY <2>3, <2>5
  <2>6. CASE up[n + 1] # up[n] /\ IsComplete(l, up[n])
    <3>1. Climb(l, up[n]) = up[n]
      BY <2>2, <2>6 DEF IsComplete, IsChain, Climb
    <3> QED BY <2>1, <2>6, <3>1
  <2> QED BY <1>5, <2>4, <2>5, <2>6
<1>6. N \in S
  <2> HIDE DEF S
  <2>1. 0 .. N \subseteq S
    BY <1>4, <1>5, InductionUpTo
  <2> QED BY <2>1
<1>7. IsChain(l, l[r], up[N])
  BY <1>6
<1>8. Len(up[N]) <= N
  BY <1>1, <1>7, ChainIsShort
<1>9. Len(up[N]) # N + 1
  BY <1>7, <1>8 DEF IsChain
<1> QED BY <1>3, <1>6, <1>7, <1>9

\* The walk meets the rows of HEAD's chain, in their order.
LEMMA WalkIsChain ==
    ASSUME TypeOK, StoreAssumption, NEW p, NEW w, NEW l, IsListing(l, p, w), head \in DOMAIN p,
           NEW s, IsChain(l, l[1], s)
    PROVE  \A k \in 1 .. Len(s) : /\ k - 1 \in Steps
                                  /\ w[k - 1] = s[k].id /\ w[k - 1] \in DOMAIN p
                                  /\ s[k] = p[w[k - 1]]
<1> DEFINE c == Cardinality(Payloads)
           Good(k) == w[k] = s[k + 1].id /\ w[k] \in DOMAIN p /\ s[k + 1] = p[w[k]]
           S == {k \in Nat : k < Len(s) => Good(k)}
<1>0. /\ c \in Nat /\ Steps = 0 .. c /\ Len(s) \in Nat \ {0} /\ s \in Seq(Scan)
  BY FS_CardinalityType DEF StoreAssumption, Steps, IsChain
<1>1. Len(s) <= c
  <2> DEFINE f == [k \in 1 .. Len(s) |-> s[k].id]
  <2>1. \A k \in 1 .. Len(s) : s[k] \in Scan
    BY <1>0
  <2>2. f \in Injection(1 .. Len(s), Payloads)
    BY <2>1, ScanFacts DEF IsChain, Injection, IsInjective
  <2>3. ASSUME NEW n \in Nat PROVE Cardinality(1 .. n) = n
    BY FS_Interval
  <2>4. IsFiniteSet(Payloads)
    BY DEF StoreAssumption
  <2>5. Cardinality(1 .. Len(s)) <= c
    <3> HIDE DEF f
    <3> QED BY <2>2, <2>4, FS_Injection
  <2> QED BY <1>0, <2>3, <2>5
<1>2. 0 \in S
  <2>1. l[1] = p[head] /\ l[1].id = head /\ w[0] = head
    BY HeadComesFirst, ListingFacts
  <2> QED BY <2>1 DEF IsChain
<1>3. ASSUME NEW k \in 0 .. Len(s) - 1, k \in S PROVE k + 1 \in S
  <2>1. SUFFICES ASSUME k + 1 < Len(s) PROVE Good(k + 1)
    BY <1>0
  <2>2. Good(k)
    BY <1>0, <1>3, <2>1
  <2>3. k + 1 \in 1 .. Len(s) - 1 /\ k + 1 \in Steps \ {0} /\ (k + 1) - 1 = k
    BY <1>0, <1>1, <2>1
  <2>4. w[k + 1] = p[w[k]].parent
    <3>1. w[k + 1] = IF w[(k + 1) - 1] \in DOMAIN p THEN p[w[(k + 1) - 1]].parent ELSE None
      BY <2>3 DEF IsListing, Walks
    <3> QED BY <2>2, <2>3, <3>1
  <2>5. w[k + 1] \in ListedIds(l) /\ s[(k + 1) + 1] = ById(l, w[k + 1])
    <3>1. /\ s[k + 1].parent \in ListedIds(l)
          /\ s[(k + 1) + 1] = ById(l, s[k + 1].parent)
      BY <2>3 DEF IsChain
    <3> QED BY <2>2, <2>4, <3>1
  <2>6. PICK n \in DOMAIN l : ById(l, w[k + 1]) = l[n] /\ l[n].id = w[k + 1]
    <3>1. PICK N \in Nat : DOMAIN l = 1 .. N
      BY ListingFacts
    <3> QED BY <2>5, <3>1, ByIdFacts
  <2>7. l[n].id \in DOMAIN p /\ OnChain(w, l[n])
    <3>1. l[n] \in Scan /\ l[n].id \in DOMAIN p
      BY ListingFacts
    <3> QED BY <2>3, <2>6, <3>1 DEF OnChain
  <2>8. l[n] = p[w[k + 1]]
    BY <2>6, <2>7, ListingFacts
  <2> QED BY <2>5, <2>6, <2>7, <2>8
<1>4. 0 .. Len(s) \subseteq S
  <2> HIDE DEF S
  <2> QED BY <1>0, <1>2, <1>3, InductionUpTo
<1>5. ASSUME NEW k \in 1 .. Len(s)
      PROVE  /\ k - 1 \in Steps
             /\ w[k - 1] = s[k].id /\ w[k - 1] \in DOMAIN p
             /\ s[k] = p[w[k - 1]]
  <2>1. k - 1 \in 0 .. Len(s) /\ k - 1 < Len(s) /\ (k - 1) + 1 = k /\ k - 1 \in Steps
    BY <1>0, <1>1
  <2>2. Good(k - 1)
    BY <1>4, <2>1
  <2> QED BY <2>1, <2>2
<1> QED BY <1>5

\* HEAD's chain is the top of the listing: a row of it that were not in its place
\* would be behind one that the walk meets later, or not at all.
LEMMA ChainIsOnTop ==
    ASSUME TypeOK, StoreAssumption, NEW p, NEW w, NEW l, IsListing(l, p, w), head \in DOMAIN p,
           NEW s, IsChain(l, l[1], s)
    PROVE  \A n \in 1 .. Len(s) : n \in DOMAIN l /\ l[n] = s[n]
<1> DEFINE Bad == {n \in 1 .. Len(s) : ~(n \in DOMAIN l /\ l[n] = s[n])}
<1>1. SUFFICES ASSUME Bad # {} PROVE FALSE
  OBVIOUS
<1>0. Len(s) \in Nat \ {0} /\ \E N \in Nat : DOMAIN l = 1 .. N
  BY ListingFacts DEF IsChain
<1>2. PICK n \in Bad : \A k \in Bad : n <= k
  <2>1. Bad \in SUBSET Nat
    OBVIOUS
  <2> HIDE DEF Bad
  <2> QED BY <1>1, <2>1, LeastOf
<1>3. n \in 1 .. Len(s) /\ ~(n \in DOMAIN l /\ l[n] = s[n])
  OBVIOUS
<1>4. \A m \in 1 .. n - 1 : m \in DOMAIN l /\ l[m] = s[m] /\ m \in 1 .. Len(s)
  <2> SUFFICES ASSUME NEW m \in 1 .. n - 1, ~(m \in DOMAIN l /\ l[m] = s[m]) PROVE FALSE
    BY <1>0, <1>3
  <2>1. m \in Bad /\ m < n /\ m \in Nat /\ n \in Nat
    BY <1>0, <1>3
  <2> QED BY <1>2, <2>1
<1>5. /\ n - 1 \in Steps /\ w[n - 1] = s[n].id /\ w[n - 1] \in DOMAIN p /\ s[n] = p[w[n - 1]]
  BY <1>3, WalkIsChain
<1>6. PICK k \in DOMAIN l : l[k] = s[n]
  BY <1>5, ListingFacts
<1>7. n < k
  <2>1. k \in Nat \ {0} /\ n \in Nat
    BY <1>0, <1>3
  <2>2. k # n
    BY <1>3, <1>6
  <2>3. ASSUME k < n PROVE FALSE
    <3>1. k \in 1 .. n - 1
      BY <2>1, <2>3
    <3>2. s[k] = s[n] /\ k \in 1 .. Len(s)
      BY <1>4, <1>6, <3>1
    <3> QED BY <1>3, <2>2, <3>2 DEF IsChain
  <2> QED BY <2>1, <2>2, <2>3
<1>8. n \in DOMAIN l
  BY <1>0, <1>3, <1>7
<1>9. \A j \in 0 .. n - 1 : w[j] # l[n].id
  <2> SUFFICES ASSUME NEW j \in 0 .. n - 1, w[j] = l[n].id PROVE FALSE
    OBVIOUS
  <2>1. j + 1 \in 1 .. Len(s) /\ (j + 1) - 1 = j
    BY <1>0, <1>3
  <2>2. j \in Steps /\ s[j + 1] = p[w[j]]
    BY <2>1, WalkIsChain
  <2>3. OnChain(w, l[n])
    BY <2>2 DEF OnChain
  <2>4. l[n] = s[j + 1]
    BY <1>8, <2>2, <2>3, ListingFacts
  <2>5. CASE j + 1 = n
    BY <1>3, <1>8, <2>4, <2>5
  <2>6. CASE j + 1 # n
    <3>1. j + 1 \in 1 .. n - 1
      BY <1>0, <1>3, <2>6
    <3>2. l[j + 1] = l[n] /\ j + 1 \in DOMAIN l
      BY <1>4, <2>4, <3>1
    <3> QED BY <1>8, <2>6, <3>2, ListingFacts
  <2> QED BY <2>5, <2>6
<1>10. MetBefore(w, l[k], l[n])
  BY <1>5, <1>6, <1>9 DEF MetBefore
<1> QED BY <1>7, <1>8, <1>10 DEF IsListing, NewerThan

\* The climb from a row of a complete chain passes the rest of it.
LEMMA DepthOnChain ==
    ASSUME TypeOK, StoreAssumption, NEW p, NEW w, NEW l, IsListing(l, p, w),
           NEW row, NEW s, IsChain(l, row, s), s[Len(s)].parent \notin ListedIds(l),
           NEW n \in 1 .. Len(s), n \in DOMAIN l, l[n] = s[n]
    PROVE  depthOf(l, l[n]) = Len(s) - n
<1> DEFINE a == Ancestry(l, l[n])
           rest == Len(s) - n
           S == {k \in Nat : k < Len(a) => k <= rest /\ a[k + 1] = s[n + k]}
<1>0. /\ IsChain(l, l[n], a) /\ IsComplete(l, a)
      /\ Len(a) \in Nat \ {0} /\ Len(s) \in Nat \ {0} /\ n \in Nat /\ rest \in Nat
      /\ a[1] = s[n]
  <2>1. IsChain(l, l[n], a) /\ IsComplete(l, a)
    BY AncestryFacts
  <2> HIDE DEF a
  <2> QED BY <2>1 DEF IsChain
<1> HIDE DEF a
<1>1. 0 \in S
  BY <1>0
<1>2. ASSUME NEW k \in 0 .. Len(a) - 1, k \in S PROVE k + 1 \in S
  <2>1. SUFFICES ASSUME k + 1 < Len(a) PROVE k + 1 <= rest /\ a[(k + 1) + 1] = s[n + (k + 1)]
    BY <1>0
  <2>2. k <= rest /\ a[k + 1] = s[n + k] /\ k \in Nat
    BY <1>0, <1>2, <2>1
  <2>3. /\ a[k + 1].parent \in ListedIds(l)
        /\ a[(k + 1) + 1] = ById(l, a[k + 1].parent)
    <3>1. k + 1 \in 1 .. Len(a) - 1
      BY <1>0, <2>1, <2>2
    <3> QED BY <1>0, <3>1 DEF IsChain
  <2>4. k # rest
    <3>1. ASSUME k = rest PROVE FALSE
      <4>1. n + k = Len(s)
        BY <1>0, <3>1
      <4> QED BY <2>2, <2>3, <4>1
    <3> QED BY <3>1
  <2>5. n + k \in 1 .. Len(s) - 1 /\ (n + k) + 1 = n + (k + 1) /\ k + 1 <= rest
    <3>1. k \in Nat /\ k < rest
      BY <1>0, <2>2, <2>4
    <3>2. ASSUME NEW m \in Nat, NEW i \in Nat, NEW j \in Nat, 1 <= i, j < m - i
          PROVE  i + j \in 1 .. m - 1 /\ (i + j) + 1 = i + (j + 1) /\ j + 1 <= m - i
      BY <3>2
    <3>3. 1 <= n /\ Len(s) \in Nat
      BY <1>0
    <3> QED BY <1>0, <3>1, <3>2, <3>3
  <2>6. s[(n + k) + 1] = ById(l, s[n + k].parent)
    BY <2>5 DEF IsChain
  <2> QED BY <2>2, <2>3, <2>5, <2>6
<1>3. 0 .. Len(a) \subseteq S
  <2> HIDE DEF S
  <2> QED BY <1>0, <1>1, <1>2, InductionUpTo
<1>4. \A k \in 0 .. Len(a) - 1 : k <= rest /\ a[k + 1] = s[n + k]
  <2> SUFFICES ASSUME NEW k \in 0 .. Len(a) - 1 PROVE k <= rest /\ a[k + 1] = s[n + k]
    OBVIOUS
  <2>1. k \in 0 .. Len(a) /\ k < Len(a)
    BY <1>0
  <2> QED BY <1>3, <2>1
<1>5. Len(a) - 1 <= rest
  BY <1>0, <1>4
<1>6. ASSUME Len(a) - 1 < rest PROVE FALSE
  <2> DEFINE e == n + (Len(a) - 1)
  <2>1. e \in 1 .. Len(s) - 1 /\ e \in Nat /\ a[Len(a)] = s[e]
    <3>1. Len(a) - 1 \in 0 .. Len(a) - 1 /\ (Len(a) - 1) + 1 = Len(a)
      BY <1>0
    <3>2. a[Len(a)] = s[n + (Len(a) - 1)]
      BY <1>4, <3>1
    <3> QED BY <1>0, <1>6, <3>2
  <2>2. s[e].parent \in ListedIds(l) /\ s[e + 1] = ById(l, s[e].parent)
    BY <2>1 DEF IsChain
  <2>3. s[e + 1].id = s[e].parent
    <3>1. PICK N \in Nat : DOMAIN l = 1 .. N
      BY ListingFacts
    <3>2. \E m \in DOMAIN l : ById(l, s[e].parent) = l[m] /\ l[m].id = s[e].parent
      BY <2>2, <3>1, ByIdFacts
    <3> QED BY <2>2, <3>2
  <2>4. PICK k \in 1 .. Len(a) : a[k].id = s[e].parent
    BY <1>0, <2>1, <2>2 DEF IsComplete
  <2>5. a[k] = s[n + (k - 1)] /\ n + (k - 1) \in 1 .. Len(s) /\ n + (k - 1) <= e
    <3>1. k - 1 \in 0 .. Len(a) - 1 /\ (k - 1) + 1 = k
      BY <1>0
    <3>2. k - 1 <= rest /\ a[k] = s[n + (k - 1)]
      BY <1>4, <3>1
    <3>3. n \in Nat /\ 1 <= n /\ k \in Nat /\ 1 <= k /\ k <= Len(a) /\ Len(a) \in Nat /\ Len(s) \in Nat
      BY <1>0
    <3>4. n + (k - 1) \in 1 .. Len(s)
      <4>1. k - 1 <= Len(s) - n
        BY <3>2
      <4> HIDE DEF rest, S, e
      <4> QED BY <3>3, <4>1
    <3>5. n + (k - 1) <= e
      <4> HIDE DEF rest, S
      <4> QED BY <3>3
    <3> QED BY <3>2, <3>4, <3>5
  <2>6. e + 1 \in 1 .. Len(s) /\ e + 1 # n + (k - 1)
    <3>1. n + (k - 1) \in Int /\ e \in Int /\ e + 1 \in 1 .. Len(s)
      <4>1. e \in 1 .. Len(s) - 1 /\ Len(s) \in Nat
        BY <1>0, <2>1
      <4>2. n + (k - 1) \in Int
        BY <1>0
      <4> HIDE DEF e
      <4> QED BY <4>1, <4>2
    <3> HIDE DEF e
    <3> QED BY <2>5, <3>1
  <2>7. s[e + 1].id = s[n + (k - 1)].id
    BY <2>3, <2>4, <2>5
  <2> HIDE DEF e
  <2> QED BY <2>5, <2>6, <2>7 DEF IsChain
<1>7. Len(a) - 1 = rest
  BY <1>0, <1>5, <1>6
<1> QED BY <1>7 DEF a, depthOf

\* No row of HEAD's chain but its last one starts a group, so its rows hang on
\* the first one.
LEMMA IndentOnChain ==
    ASSUME NEW chain, NEW N \in Nat, NEW n \in 1 .. N, DOMAIN chain = 1 .. N,
           \A k \in 1 .. n - 1 : ~chain[k].chainStart,
           NEW d \in Nat, chain[1].depth = d, chain[n].depth = d - (n - 1)
    PROVE  chainIndents(chain)[n] = n - 1
<1> DEFINE P(t) == /\ t = 1 \/ chain[t - 1].chainStart
                   /\ \A k \in t .. n - 1 : ~chain[k].chainStart
           tip == CHOOSE t \in 1 .. n : P(t)
<1>1. 1 \in 1 .. n /\ P(1)
  OBVIOUS
<1>2. tip \in 1 .. n /\ P(tip)
  <2> HIDE DEF P
  <2> QED BY <1>1
<1>3. tip = 1
  <2>1. ASSUME tip # 1 PROVE FALSE
    <3>1. chain[tip - 1].chainStart
      BY <1>2, <2>1
    <3>2. tip - 1 \in 1 .. n - 1
      <4> HIDE DEF tip
      <4> QED BY <1>2, <2>1
    <3> QED BY <3>1, <3>2
  <2> QED BY <2>1
<1>4. chainIndents(chain)[n] =
        IF chain[tip].depth > chain[n].depth THEN chain[tip].depth - chain[n].depth ELSE 0
  BY DEF chainIndents
<1>5. chainIndents(chain)[n] =
        IF chain[1].depth > chain[n].depth THEN chain[1].depth - chain[n].depth ELSE 0
  <2> HIDE DEF tip
  <2> QED BY <1>3, <1>4
<1> QED BY <1>5

LEMMA HeadChainOnTopHere == StoreAssumption /\ TypeOK => HeadChainOnTop
<1> SUFFICES ASSUME StoreAssumption, TypeOK, HeadListed, NEW l \in Listings,
                    Acyclic(l, Ancestry(l, ById(l, head))[1]),
                    NEW n \in DOMAIN Ancestry(l, ById(l, head))
             PROVE  /\ l[n] = Ancestry(l, ById(l, head))[n]
                    /\ chainIndents(buildSnapshotChain(l))[n] = n - 1
  BY DEF HeadChainOnTop
<1> DEFINE s == Ancestry(l, ById(l, head))
           chain == buildSnapshotChain(l)
<1>1. PICK p \in Picks : \E w \in Walks(p) :
         /\ l \in [1 .. Cardinality(Listed(p, w)) -> Listed(p, w)]
         /\ \A i, j \in DOMAIN l : i < j => l[i] # l[j] /\ ~NewerThan(w, l[j], l[i])
  BY DEF Listings
<1>2. PICK w \in Walks(p) : IsListing(l, p, w)
  BY <1>1 DEF IsListing
<1>3. head \in DOMAIN p
  BY <1>2, ListingFacts DEF HeadListed
<1>4. 1 \in DOMAIN l /\ l[1].id = head /\ l[1] = p[head]
  BY <1>2, <1>3, HeadComesFirst
<1>5. PICK N \in Nat : DOMAIN l = 1 .. N
  BY <1>2, ListingFacts
<1>6. ById(l, head) = l[1]
  <2>1. head \in ListedIds(l)
    BY <1>4 DEF ListedIds
  <2>2. PICK m \in DOMAIN l : ById(l, head) = l[m] /\ l[m].id = head
    BY <1>5, <2>1, ByIdFacts
  <2>3. OnChain(w, l[m])
    BY <1>2, <2>2, ListingFacts DEF OnChain
  <2> QED BY <1>2, <1>4, <2>2, <2>3, ListingFacts
<1>7. /\ IsChain(l, l[1], s) /\ IsComplete(l, s) /\ Len(s) \in Nat \ {0}
      /\ DOMAIN s = 1 .. Len(s) /\ s[1] = l[1]
  <2>1. IsChain(l, l[1], s) /\ IsComplete(l, s)
    BY <1>2, <1>4, <1>6, AncestryFacts
  <2> HIDE DEF s
  <2> QED BY <2>1 DEF IsChain
<1>8. s[Len(s)].parent \notin ListedIds(l)
  BY <1>6, <1>7 DEF Acyclic, ChainStart
<1> HIDE DEF s
<1>9. \A k \in 1 .. Len(s) : k \in DOMAIN l /\ l[k] = s[k]
  BY <1>2, <1>3, <1>7, ChainIsOnTop
<1>10. n \in 1 .. Len(s)
  BY <1>7 DEF s
<1>11. chain = [k \in DOMAIN l |->
                  [meta |-> l[k], chainStart |-> ChainStart(l, l[k]), depth |-> depthOf(l, l[k]),
                   head |-> k = HeadRow(l), lastGood |-> k = LastGoodRow(l)]]
  BY DEF buildSnapshotChain
<1> HIDE DEF chain
<1>12. \A k \in 1 .. Len(s) : chain[k].depth = Len(s) - k
  <2> SUFFICES ASSUME NEW k \in 1 .. Len(s) PROVE chain[k].depth = Len(s) - k
    OBVIOUS
  <2>1. k \in DOMAIN l /\ l[k] = s[k]
    BY <1>9
  <2>2. depthOf(l, l[k]) = Len(s) - k
    BY <1>2, <1>7, <1>8, <2>1, DepthOnChain
  <2> QED BY <1>11, <2>1, <2>2
<1>13. \A k \in 1 .. n - 1 : ~chain[k].chainStart
  <2> SUFFICES ASSUME NEW k \in 1 .. n - 1 PROVE ~chain[k].chainStart
    OBVIOUS
  <2>1. k \in 1 .. Len(s) - 1 /\ k \in 1 .. Len(s)
    BY <1>7, <1>10
  <2>2. s[k].parent \in ListedIds(l)
    BY <1>7, <2>1 DEF IsChain
  <2>3. k \in DOMAIN l /\ l[k] = s[k]
    BY <1>9, <2>1
  <2> QED BY <1>11, <2>2, <2>3 DEF ChainStart
<1>14. chainIndents(chain)[n] = n - 1
  <2> DEFINE d == Len(s) - 1
  <2>1. n \in 1 .. N /\ DOMAIN chain = 1 .. N
    BY <1>5, <1>9, <1>10, <1>11
  <2>2. chain[1].depth = d /\ chain[n].depth = d - (n - 1) /\ d \in Nat
    BY <1>7, <1>10, <1>12
  <2> HIDE DEF d
  <2> QED BY <1>13, <2>1, <2>2, IndentOnChain
<1>15. l[n] = s[n]
  BY <1>9, <1>10
<1> QED BY <1>14, <1>15 DEF s, chain

\* The chain view shows descent, for any number of snapshots and any history: the
\* snapshots HEAD descends from are the top rows, each one step to the right of the
\* one taken from it, unless parent links run in a circle.
THEOREM HeadChainIsOnTop == Spec => []HeadChainOnTop
<1>1. StoreAssumption
  BY StoreAssumption
<1>2. TypeOK => HeadChainOnTop
  BY <1>1, HeadChainOnTopHere
<1> QED BY <1>2, StoreTypeCorrect, PTL

-----------------------------------------------------------------------------
(* The diff of two payloads, for any payloads.                             *)

\* Of any places, one is read first.
LEMMA FirstPlace ==
    ASSUME NEW S \in SUBSET (Nat \X Nat), S # {}
    PROVE  \E m \in S : \A p \in S : p = m \/ ReadBefore(m, p)
<1>1. \A p \in S : p[1] \in Nat /\ p[2] \in Nat /\ p = <<p[1], p[2]>>
  OBVIOUS
<1>2. PICK a \in {p[1] : p \in S} : \A k \in {p[1] : p \in S} : a <= k
  <2> DEFINE A == {p[1] : p \in S}
  <2>1. A \in SUBSET Nat /\ A # {}
    BY <1>1
  <2> HIDE DEF A
  <2>2. \E m \in A : \A k \in A : m <= k
    BY <2>1, LeastOf
  <2> QED
    BY <2>2 DEF A
<1>3. PICK b \in {p[2] : p \in {q \in S : q[1] = a}} :
             \A k \in {p[2] : p \in {q \in S : q[1] = a}} : b <= k
  <2> DEFINE B == {p[2] : p \in {q \in S : q[1] = a}}
  <2>1. B \in SUBSET Nat /\ B # {}
    BY <1>1, <1>2
  <2> HIDE DEF B
  <2>2. \E m \in B : \A k \in B : m <= k
    BY <2>1, LeastOf
  <2> QED
    BY <2>2 DEF B
<1>4. PICK m \in S : m[1] = a /\ m[2] = b
  BY <1>3
<1>5. ASSUME NEW p \in S PROVE p = m \/ ReadBefore(m, p)
  <2>1. a <= p[1] /\ (p[1] = a => b <= p[2])
    BY <1>2, <1>3
  <2>2. CASE p[1] = a /\ p[2] = b
    BY <1>1, <1>4, <2>2
  <2>3. CASE p[1] = a /\ p[2] # b
    BY <1>1, <1>4, <2>1, <2>3 DEF ReadBefore
  <2>4. CASE p[1] # a
    BY <1>1, <1>4, <2>1, <2>4 DEF ReadBefore
  <2> QED
    BY <2>2, <2>3, <2>4
<1> QED
  BY <1>5

\* s names the places of S, each once, as they are read.
IsInOrder(S, s) ==
    /\ s \in SetToSeqs(S)
    /\ \A j, k \in DOMAIN s : j < k => ReadBefore(s[j], s[k])

LEMMA OrderGrows ==
    ASSUME NEW Q, IsFiniteSet(Q), NEW m \in Q, \A p \in Q : p = m \/ ReadBefore(m, p),
           NEW r, IsInOrder(Q \ {m}, r)
    PROVE  \E s : IsInOrder(Q, s)
<1> DEFINE n == Cardinality(Q \ {m})
           s == [k \in 1 .. n + 1 |-> IF k = 1 THEN m ELSE r[k - 1]]
<1>1. n \in Nat /\ Cardinality(Q) = n + 1
  <2>1. IsFiniteSet(Q \ {m}) /\ Cardinality(Q) \in Nat /\ Cardinality(Q \ {m}) = Cardinality(Q) - 1
    BY FS_RemoveElement, FS_CardinalityType
  <2> QED
    BY <2>1, FS_CardinalityType
<1>2. /\ r \in [1 .. n -> Q \ {m}] /\ \A j, k \in 1 .. n : j # k => r[j] # r[k]
      /\ \A j, k \in 1 .. n : j < k => ReadBefore(r[j], r[k])
  BY DEF IsInOrder, SetToSeqs
<1> HIDE DEF n
<1>3. \A k \in 1 .. n + 1 : k # 1 => k - 1 \in 1 .. n /\ s[k] = r[k - 1] /\ s[k] \in Q \ {m}
  BY <1>1, <1>2
<1>4. s[1] = m /\ DOMAIN s = 1 .. n + 1 /\ 1 \in 1 .. n + 1
  BY <1>1
<1>5. s \in [1 .. n + 1 -> Q]
  BY <1>3, <1>4
<1> HIDE DEF s
<1>6. ASSUME NEW j \in 1 .. n + 1, NEW k \in 1 .. n + 1, j # k PROVE s[j] # s[k]
  <2>1. CASE j = 1 \/ k = 1
    BY <1>3, <1>4, <1>6, <2>1
  <2>2. CASE j # 1 /\ k # 1
    <3>1. j - 1 # k - 1
      BY <1>6
    <3> QED
      BY <1>2, <1>3, <2>2, <3>1
  <2> QED
    BY <2>1, <2>2
<1>7. ASSUME NEW j \in 1 .. n + 1, NEW k \in 1 .. n + 1, j < k PROVE ReadBefore(s[j], s[k])
  <2>1. k # 1
    BY <1>7
  <2>2. CASE j = 1
    BY <1>3, <1>4, <2>1, <2>2
  <2>3. CASE j # 1
    <3>1. j - 1 < k - 1
      BY <1>1, <1>7
    <3> QED
      BY <1>2, <1>3, <2>1, <2>3, <3>1
  <2> QED
    BY <2>2, <2>3
<1>8. s \in SetToSeqs(Q)
  BY <1>1, <1>5, <1>6 DEF SetToSeqs
<1> QED
  BY <1>4, <1>7, <1>8 DEF IsInOrder

\* There is an order of any finitely many places, ...
LEMMA OrderExists ==
    ASSUME NEW S \in SUBSET (Nat \X Nat), IsFiniteSet(S)
    PROVE  \E s : IsInOrder(S, s)
<1> DEFINE N == Cardinality(S)
           T == {n \in Nat : \A Q \in SUBSET S : Cardinality(Q) = n => \E s : IsInOrder(Q, s)}
<1>1. N \in Nat
  BY FS_CardinalityType
<1>2. 0 \in T
  <2>1. ASSUME NEW Q \in SUBSET S, Cardinality(Q) = 0 PROVE \E s : IsInOrder(Q, s)
    <3>1. Q = {}
      BY <2>1, FS_Subset, FS_EmptySet
    <3>2. [k \in 1 .. 0 |-> 0] \in [1 .. 0 -> Q]
      OBVIOUS
    <3>3. IsInOrder(Q, [k \in 1 .. 0 |-> 0])
      BY <2>1, <3>2 DEF IsInOrder, SetToSeqs
    <3> QED
      BY <3>3
  <2> QED
    BY <2>1
<1>3. ASSUME NEW n \in 0 .. N - 1, n \in T PROVE n + 1 \in T
  <2>0. n \in Nat /\ n + 1 \in Nat
    BY <1>1, <1>3
  <2>1. ASSUME NEW Q \in SUBSET S, Cardinality(Q) = n + 1 PROVE \E s : IsInOrder(Q, s)
    <3>1. IsFiniteSet(Q)
      BY FS_Subset
    <3>2. Q # {}
      <4>1. Cardinality({}) = 0
        BY FS_EmptySet
      <4>2. n + 1 # 0
        BY <2>0
      <4> QED
        BY <2>1, <4>1, <4>2
    <3>3. PICK m \in Q : \A p \in Q : p = m \/ ReadBefore(m, p)
      <4>1. Q \in SUBSET (Nat \X Nat)
        OBVIOUS
      <4> QED
        BY <3>2, <4>1, FirstPlace
    <3>4. Cardinality(Q \ {m}) = n
      <4>1. Cardinality(Q \ {m}) = Cardinality(Q) - 1
        BY <3>1, FS_RemoveElement
      <4> QED
        BY <2>0, <2>1, <4>1
    <3>5. PICK r : IsInOrder(Q \ {m}, r)
      <4>1. Q \ {m} \in SUBSET S
        OBVIOUS
      <4> QED
        BY <1>3, <3>4, <4>1
    <3> QED
      BY <3>1, <3>3, <3>5, OrderGrows
  <2> QED
    BY <2>0, <2>1
<1>4. N \in T
  <2> HIDE DEF T
  <2>1. 0 .. N \subseteq T
    <3> HIDE DEF N
    <3> QED
      BY <1>1, <1>2, <1>3, InductionUpTo
  <2> QED
    BY <1>1, <2>1
<1> QED
  BY <1>4

\* ... and it leaves none out.
LEMMA OrderCovers ==
    ASSUME NEW S \in SUBSET (Nat \X Nat), IsFiniteSet(S)
    PROVE  {InOrder(S)[k] : k \in DOMAIN InOrder(S)} = S
<1> DEFINE n == Cardinality(S)
           s == InOrder(S)
<1>1. IsInOrder(S, s)
  <2>1. \E t \in SetToSeqs(S) : \A j, k \in DOMAIN t : j < k => ReadBefore(t[j], t[k])
    BY OrderExists DEF IsInOrder
  <2> QED
    BY <2>1 DEF InOrder, IsInOrder
<1> HIDE DEF s
<1>2. s \in [1 .. n -> S] /\ \A j, k \in 1 .. n : j # k => s[j] # s[k]
  BY <1>1 DEF IsInOrder, SetToSeqs
<1>3. s \in Injection(1 .. n, S)
  BY <1>2 DEF Injection, IsInjective
<1>4. n \in Nat /\ Cardinality(1 .. n) = n
  BY FS_CardinalityType, FS_Interval
<1> HIDE DEF n
<1>5. s \in Surjection(1 .. n, S)
  <2>1. Cardinality(S) = n
    BY DEF n
  <2> QED
    BY <1>3, <1>4, <2>1, FS_Injection
<1>6. {s[k] : k \in DOMAIN s} = S
  BY <1>2, <1>5 DEF Surjection
<1> QED
  BY <1>6 DEF s

\* The files of a payload have finitely many lines.
LEMMA PlacesAreFinite ==
    ASSUME NEW p, IsPayload(p)
    PROVE  /\ Places(p.files) \in SUBSET (Nat \X Nat) /\ IsFiniteSet(Places(p.files))
           /\ \A a \in Places(p.files) : /\ a[1] \in DOMAIN p.files
                                        /\ a[2] \in DOMAIN p.files[a[1]]
           /\ \A n \in DOMAIN p.files : \A k \in DOMAIN p.files[n] : <<n, k>> \in Places(p.files)
<1> DEFINE of == p.files
           f == [n \in DOMAIN of |-> {n} \X DOMAIN of[n]]
           T == {{n} \X DOMAIN of[n] : n \in DOMAIN of}
<1>1. IsFiniteSet(DOMAIN of) /\ DOMAIN of \subseteq Nat
  BY DEF IsPayload
<1>2. ASSUME NEW n \in DOMAIN of PROVE /\ Len(of[n]) \in Nat /\ DOMAIN of[n] = 1 .. Len(of[n])
  <2>1. of[n] \in Seq(DirectiveLine)
    BY DEF IsPayload
  <2> QED
    BY <2>1
<1> HIDE DEF of
<1>3. \A U \in T : IsFiniteSet(U)
  <2>1. ASSUME NEW n \in DOMAIN of PROVE IsFiniteSet({n} \X DOMAIN of[n])
    <3>1. IsFiniteSet(1 .. Len(of[n]))
      BY <1>2, FS_Interval
    <3>2. IsFiniteSet({n})
      BY FS_Singleton
    <3> QED
      BY <1>2, <3>1, <3>2, FS_Product
  <2> QED
    BY <2>1
<1>4. IsFiniteSet(T)
  <2>1. f \in Surjection(DOMAIN of, T)
    BY DEF Surjection
  <2> QED
    BY <1>1, <2>1, FS_Surjection
<1>5. Places(of) = UNION T
  BY DEF Places
<1>6. IsFiniteSet(Places(of))
  <2> HIDE DEF T
  <2> QED
    BY <1>3, <1>4, <1>5, FS_UNION
<1>7. Places(of) \in SUBSET (Nat \X Nat)
  <2>1. \A n \in DOMAIN of : DOMAIN of[n] \subseteq Nat
    BY <1>2
  <2> QED
    BY <1>1, <1>5, <2>1
<1>8. /\ \A a \in Places(of) : a[1] \in DOMAIN of /\ a[2] \in DOMAIN of[a[1]]
      /\ \A n \in DOMAIN of : \A k \in DOMAIN of[n] : <<n, k>> \in Places(of)
  BY <1>5
<1> QED
  BY <1>6, <1>7, <1>8 DEF of

\* What is collected of a module is what its lines direct, and nothing of a module
\* that no line names.
Says(p, m, d) ==
    \E n \in DOMAIN p.files : \E k \in DOMAIN p.files[n] :
        Directs(p.files[n][k], m) /\ Directive(p.files[n][k]) = d

StateOf(p, m) == StateOr(moduleStates(p.files), m, <<>>)

LEMMA StateSays ==
    ASSUME NEW p, IsPayload(p), NEW m, NEW d
    PROVE  Says(p, m, d) <=> \E k \in DOMAIN StateOf(p, m) : StateOf(p, m)[k] = d
<1> DEFINE of == p.files
           S == {a \in Places(of) : Directs(Line(of, a), m)}
           s == InOrder(S)
<1>1. S \in SUBSET (Nat \X Nat) /\ IsFiniteSet(S)
  BY PlacesAreFinite, FS_Subset
<1>2. {s[k] : k \in DOMAIN s} = S
  BY <1>1, OrderCovers
<1>3. Says(p, m, d) <=> \E a \in S : Directive(Line(of, a)) = d
  <2>1. ASSUME NEW a \in S, Directive(Line(of, a)) = d PROVE Says(p, m, d)
    <3>1. a[1] \in DOMAIN of /\ a[2] \in DOMAIN of[a[1]]
      BY PlacesAreFinite
    <3> QED
      BY <2>1, <3>1 DEF Says, Line
  <2>2. ASSUME Says(p, m, d) PROVE \E a \in S : Directive(Line(of, a)) = d
    <3>1. PICK n \in DOMAIN of : \E k \in DOMAIN of[n] : Directs(of[n][k], m) /\ Directive(of[n][k]) = d
      BY <2>2 DEF Says
    <3>2. PICK k \in DOMAIN of[n] : Directs(of[n][k], m) /\ Directive(of[n][k]) = d
      BY <3>1
    <3>3. <<n, k>> \in Places(of)
      BY PlacesAreFinite
    <3>4. Line(of, <<n, k>>) = of[n][k]
      BY DEF Line
    <3> QED
      BY <3>2, <3>3, <3>4
  <2> QED
    BY <2>1, <2>2
<1>4. m \in DOMAIN moduleStates(of) <=> S # {}
  <2>1. \A a \in Places(of) : Directs(Line(of, a), m) <=> a \in Directing(of) /\ Line(of, a).module = m
    BY DEF Directing, Directs
  <2> QED
    BY <2>1 DEF moduleStates, Directing
<1>5. CASE S = {}
  <2>1. StateOf(p, m) = <<>>
    BY <1>4, <1>5 DEF StateOf, StateOr
  <2> QED
    BY <1>3, <1>5, <2>1
<1>6. CASE S # {}
  <2>1. StateOf(p, m) = Collected(of, m)
    BY <1>4, <1>6 DEF StateOf, StateOr, moduleStates
  <2>2. Collected(of, m) = [k \in DOMAIN s |-> Directive(Line(of, s[k]))]
    BY DEF Collected
  <2> HIDE DEF s, S
  <2>3. (\E a \in S : Directive(Line(of, a)) = d)
          <=> \E k \in DOMAIN s : Directive(Line(of, s[k])) = d
    BY <1>2
  <2> QED
    BY <1>3, <2>1, <2>2, <2>3
<1> QED
  BY <1>5, <1>6

\* Equal states of every module direct the same.
LEMMA SameModules ==
    ASSUME NEW p, NEW q, IsPayload(p), IsPayload(q), diffModules(p, q) = {}
    PROVE  ToldModprobe(p) = ToldModprobe(q)
<1>1. ASSUME NEW m PROVE StateOf(p, m) = StateOf(q, m)
  <2> DEFINE b == moduleStates(p.files)
             a == moduleStates(q.files)
             K == {i \in DOMAIN b \cup DOMAIN a : StateOr(b, i, <<>>) # StateOr(a, i, <<>>)}
  <2>1. \A k \in K : DiffRow("module", k, StateOr(b, k, <<>>), StateOr(a, k, <<>>)) \in diffModules(p, q)
    BY DEF diffModules, Rows
  <2>2. K = {}
    BY <2>1
  <2>3. StateOf(p, m) = StateOr(b, m, <<>>) /\ StateOf(q, m) = StateOr(a, m, <<>>)
    BY DEF StateOf
  <2> HIDE DEF b, a
  <2>4. CASE m \in DOMAIN b \cup DOMAIN a
    BY <2>2, <2>3, <2>4
  <2>5. CASE m \notin DOMAIN b \cup DOMAIN a
    BY <2>3, <2>5 DEF StateOr
  <2> QED
    BY <2>4, <2>5
<1>2. ASSUME NEW m, NEW d PROVE Says(p, m, d) <=> Says(q, m, d)
  BY <1>1, StateSays
<1>3. ASSUME NEW x
      PROVE  \A t : t \in ToldModprobe(x) <=> \E m, d : t = <<m, d>> /\ Says(x, m, d)
  <2>1. ASSUME NEW t \in ToldModprobe(x) PROVE \E m, d : t = <<m, d>> /\ Says(x, m, d)
    <3>1. PICK l \in UNION {ToSet(x.files[n]) : n \in DOMAIN x.files} :
             Directs(l, l.module) /\ t = <<l.module, Directive(l)>>
      BY <2>1 DEF ToldModprobe
    <3>2. \E n \in DOMAIN x.files : \E k \in DOMAIN x.files[n] : x.files[n][k] = l
      BY DEF ToSet
    <3>3. Says(x, l.module, Directive(l))
      BY <3>1, <3>2 DEF Says
    <3> QED
      BY <3>1, <3>3
  <2>2. ASSUME NEW m, NEW d, Says(x, m, d) PROVE <<m, d>> \in ToldModprobe(x)
    <3>1. PICK n \in DOMAIN x.files : \E k \in DOMAIN x.files[n] :
             Directs(x.files[n][k], m) /\ Directive(x.files[n][k]) = d
      BY <2>2 DEF Says
    <3>2. PICK k \in DOMAIN x.files[n] : Directs(x.files[n][k], m) /\ Directive(x.files[n][k]) = d
      BY <3>1
    <3>3. x.files[n][k].module = m
      BY <3>2 DEF Directs
    <3> QED
      BY <3>2, <3>3 DEF ToldModprobe, ToSet
  <2> QED
    BY <2>1, <2>2
<1>4. \A t : t \in ToldModprobe(p) <=> t \in ToldModprobe(q)
  BY <1>2, <1>3
<1> QED
  BY <1>4

\* The label of an entry whose key has a position is the key, so the state under it
\* is the mechanism of that entry.
LEMMA LabelIsKey ==
    ASSUME NEW p, IsPayload(p), NEW e \in p.entries
    PROVE  /\ deviceEntryLabel(e) = [model |-> e.model, serial |-> e.serial, place |-> e.position]
           /\ deviceEntryLabel(e) \in DOMAIN deviceStates(p.entries)
           /\ deviceStates(p.entries)[deviceEntryLabel(e)] = e.mechanism
<1>1. ASSUME NEW f \in p.entries
      PROVE  deviceEntryLabel(f) = [model |-> f.model, serial |-> f.serial, place |-> f.position]
  <2>1. f.position # "none"
    BY DEF IsPayload
  <2> QED
    BY <2>1 DEF deviceEntryLabel
<1>2. ASSUME NEW f \in p.entries, deviceEntryLabel(f) = deviceEntryLabel(e) PROVE f = e
  <2>1. f.model = e.model /\ f.serial = e.serial /\ f.position = e.position
    <3> DEFINE g == [model |-> f.model, serial |-> f.serial, place |-> f.position]
               h == [model |-> e.model, serial |-> e.serial, place |-> e.position]
    <3>1. g = h
      BY <1>1, <1>2
    <3>2. g.model = h.model /\ g.serial = h.serial /\ g.place = h.place
      BY <3>1
    <3> QED
      BY <3>2
  <2> QED
    BY <2>1 DEF IsPayload
<1>3. deviceEntryLabel(e) \in DOMAIN deviceStates(p.entries)
  BY DEF deviceStates
<1>4. (CHOOSE f \in p.entries : deviceEntryLabel(f) = deviceEntryLabel(e)) = e
  BY <1>2
<1>5. deviceStates(p.entries)[deviceEntryLabel(e)] = e.mechanism
  BY <1>3, <1>4 DEF deviceStates
<1> QED
  BY <1>1, <1>3, <1>5

\* Equal states under every label are those of the same devices.
LEMMA SameDevicesOneWay ==
    ASSUME NEW p, NEW q, IsPayload(p), IsPayload(q), NEW e \in p.entries,
           StateOr(deviceStates(p.entries), deviceEntryLabel(e), "enabled")
             = StateOr(deviceStates(q.entries), deviceEntryLabel(e), "enabled")
    PROVE  \E f \in q.entries : /\ f.model = e.model /\ f.serial = e.serial
                               /\ f.position = e.position /\ f.mechanism = e.mechanism
<1> DEFINE l == deviceEntryLabel(e)
<1>1. e.mechanism # "enabled"
  BY DEF IsPayload
<1>2. StateOr(deviceStates(p.entries), l, "enabled") = e.mechanism
  BY LabelIsKey DEF StateOr
<1>3. l \in DOMAIN deviceStates(q.entries) /\ deviceStates(q.entries)[l] = e.mechanism
  <2> HIDE DEF l
  <2> QED
    BY <1>1, <1>2 DEF StateOr, l
<1>4. PICK f \in q.entries : deviceEntryLabel(f) = l
  BY <1>3 DEF deviceStates
<1>5. f.mechanism = e.mechanism
  BY <1>3, <1>4, LabelIsKey
<1>6. f.model = e.model /\ f.serial = e.serial /\ f.position = e.position
  <2> DEFINE g == [model |-> f.model, serial |-> f.serial, place |-> f.position]
             h == [model |-> e.model, serial |-> e.serial, place |-> e.position]
  <2>1. g = h
    BY <1>4, LabelIsKey
  <2>2. g.model = h.model /\ g.serial = h.serial /\ g.place = h.place
    BY <2>1
  <2> QED
    BY <2>2
<1> QED
  BY <1>5, <1>6

LEMMA SameDevices ==
    ASSUME NEW p, NEW q, IsPayload(p), IsPayload(q), diffDevices(p, q) = {}
    PROVE  DisabledBy(p) = DisabledBy(q)
<1> DEFINE b == deviceStates(p.entries)
           a == deviceStates(q.entries)
<1>1. ASSUME NEW i \in DOMAIN b \cup DOMAIN a
      PROVE  StateOr(b, i, "enabled") = StateOr(a, i, "enabled")
  <2> DEFINE K == {k \in DOMAIN b \cup DOMAIN a : StateOr(b, k, "enabled") # StateOr(a, k, "enabled")}
  <2>1. \A k \in K : DiffRow("device", k, StateOr(b, k, "enabled"), StateOr(a, k, "enabled"))
                      \in diffDevices(p, q)
    BY DEF diffDevices, Rows
  <2>2. K = {}
    BY <2>1
  <2> QED
    BY <2>2
<1> DEFINE Seen(e) == [model |-> e.model, serial |-> e.serial, position |-> e.position,
                       mechanism |-> e.mechanism]
<1>2. ASSUME NEW e \in p.entries PROVE \E f \in q.entries : Seen(f) = Seen(e)
  <2>1. deviceEntryLabel(e) \in DOMAIN b
    BY LabelIsKey
  <2>2. StateOr(b, deviceEntryLabel(e), "enabled") = StateOr(a, deviceEntryLabel(e), "enabled")
    BY <1>1, <2>1
  <2> HIDE DEF a, b
  <2>3. \E f \in q.entries : /\ f.model = e.model /\ f.serial = e.serial
                             /\ f.position = e.position /\ f.mechanism = e.mechanism
    BY <2>2, SameDevicesOneWay DEF a, b
  <2> QED
    BY <2>3
<1>3. ASSUME NEW e \in q.entries PROVE \E f \in p.entries : Seen(f) = Seen(e)
  <2>1. deviceEntryLabel(e) \in DOMAIN a
    BY LabelIsKey
  <2>2. StateOr(a, deviceEntryLabel(e), "enabled") = StateOr(b, deviceEntryLabel(e), "enabled")
    BY <1>1, <2>1
  <2> HIDE DEF a, b
  <2>3. \E f \in p.entries : /\ f.model = e.model /\ f.serial = e.serial
                             /\ f.position = e.position /\ f.mechanism = e.mechanism
    BY <2>2, SameDevicesOneWay DEF a, b
  <2> QED
    BY <2>3
<1>4. DisabledBy(p) = {Seen(e) : e \in p.entries} /\ DisabledBy(q) = {Seen(e) : e \in q.entries}
  BY DEF DisabledBy
<1> HIDE DEF Seen
<1> QED
  BY <1>2, <1>3, <1>4

\* The diff of any two payloads tells whether a restore would do anything: it is
\* empty for a payload and itself, and if it is empty then the same devices are
\* disabled in the same way and modprobe is told the same.
THEOREM EmptyDiffTells ==
    ASSUME NEW p, NEW q, IsPayload(p), IsPayload(q)
    PROVE  /\ p = q => diffPayloads(p, q) = {}
           /\ diffPayloads(p, q) = {} => SameEffect(p, q)
<1>1. ASSUME p = q PROVE diffPayloads(p, q) = {}
  <2>1. diffDevices(p, q) = {} /\ diffModules(p, q) = {}
    BY <1>1 DEF diffDevices, diffModules, Rows
  <2>2. diffModprobeFiles(p, q) = {}
    BY <1>1 DEF diffModprobeFiles, FileState
  <2> QED
    BY <2>1, <2>2 DEF diffPayloads
<1>2. ASSUME diffPayloads(p, q) = {} PROVE SameEffect(p, q)
  <2>1. diffDevices(p, q) = {} /\ diffModules(p, q) = {}
    BY <1>2 DEF diffPayloads
  <2> QED
    BY <2>1, SameDevices, SameModules DEF SameEffect
<1> QED
  BY <1>1, <1>2

-----------------------------------------------------------------------------
(* The verbs and the command line client, over the store.                  *)

Verbs == {"list", "create", "diff", "restore", "delete", "change"}
PutPCs == {"putFile", "putHead", "prune", "victims"}
RemovePCs == {"rmHead", "rmDelete"}

\* Where a call may be, and what the store does for it there.
CallInv ==
    /\ {"at", "verb", "caller", "ids", "was", "rows", "diff", "answer"} \subseteq DOMAIN call
    /\ {"code", "marked"} \subseteq DOMAIN call.answer
    /\ call.at = "idle" => call = NotCalled
    /\ call.at # "idle" => call.verb \in Verbs
    /\ \/ call.at \in {"idle", "called", "answered"}
       \/ call.at = "list" /\ call.verb = "list"
       \/ call.at \in {"create", "created"} /\ call.verb = "create"
       \/ call.at \in {"diff", "target"} /\ call.verb = "diff"
       \/ call.at \in {"restore", "capture", "entries", "files"} /\ call.verb = "restore"
       \/ call.at \in {"delete", "deleted"} /\ call.verb = "delete"
       \/ call.at \in {"change", "act"} /\ call.verb = "change"
    /\ op.pc \in PutPCs => call.at \in {"created", "entries", "act"}
    /\ op.pc \in RemovePCs => call.at = "deleted"
    /\ call.verb \in {"diff", "restore", "delete"} /\ call.at \notin {"called", "answered"} =>
         call.ids[1] \in Payloads
    /\ call.at \in {"diff", "target"} => call.ids[2] \in Ids
    /\ {"at", "verb", "words", "found", "rows", "code"} \subseteq DOMAIN cli
    /\ call.caller = "cli" <=> cli.at \in {"resolving", "acting"}

\* A verb uses the store through its operations only.
LEMMA VerbsUseTheStore ==
    ASSUME TypeOK, CallInv, [CliNext]_cliVars
    PROVE  [Next]_vars
<1>1. CASE UNCHANGED cliVars
  BY <1>1 DEF cliVars, verbVars
<1>2. ASSUME Serve PROVE [Next]_vars
  <2>1. CASE Take
    BY <2>1 DEF Take
  <2>2. CASE ListVerb
    BY <2>2 DEF ListVerb, Next
  <2>3. CASE DiffBase
    BY <2>3 DEF DiffBase, Next, InHand, CallInv
  <2>4. CASE DiffTarget
    <3>1. CASE call.ids[2] = None
      BY <2>4, <3>1 DEF DiffTarget
    <3>2. CASE call.ids[2] # None
      <4>1. call.ids[2] \in Payloads
        BY <2>4, <3>2 DEF DiffTarget, InHand, CallInv, Ids
      <4> QED BY <2>4, <3>2, <4>1 DEF DiffTarget, Next
    <3> QED BY <3>1, <3>2
  <2>5. CASE CreateVerb \/ Capture
    BY <2>5 DEF CreateVerb, Capture, CapturePut, Next, Triggers
  <2>6. CASE CreateEnd \/ DeleteEnd \/ ReplaceEntries \/ ReplaceFiles \/ ChangeVerb
    BY <2>6 DEF CreateEnd, DeleteEnd, ReplaceEntries, ReplaceFiles, ChangeVerb
  <2>7. CASE DeleteVerb
    BY <2>7 DEF DeleteVerb, Next, InHand, CallInv
  <2>8. CASE RestoreRead
    BY <2>8 DEF RestoreRead, Next, InHand, CallInv
  <2>9. CASE StoreStep
    BY <2>9 DEF StoreStep, Next
  <2> QED BY <1>2, <2>1, <2>2, <2>3, <2>4, <2>5, <2>6, <2>7, <2>8, <2>9 DEF Serve
<1>3. CASE Devmgrd
  BY <1>2, <1>3 DEF Devmgrd, Die, Next
<1>4. CASE Disk
  BY <1>4 DEF Disk, Next
<1>5. CASE \/ \E c \in Commands : Start(c.verb, c.words)
           \/ Send \/ SendFails \/ Hear \/ GiveUp \/ OtherCalls \/ OtherHears
  BY <1>5 DEF Start, Daemon, Send, doList, doCreate, doDiff, printRestorePreview, doRestore,
              doDelete, Arrive, SendFails, Hear, GiveUp, OtherCalls, OtherHears, verbVars
<1> QED BY <1>1, <1>3, <1>4, <1>5 DEF CliNext

LEMMA CallInvInit == InitCli => CallInv
BY DEF InitCli, InitVerbs, Init, Idle, NotCalled, NoProcess, CallInv, PutPCs, RemovePCs

\* What a store step does to where the store is.
LEMMA StoreStepPCs ==
    ASSUME TypeOK, StoreStep
    PROVE  /\ op.pc \in PutPCs \cup RemovePCs
           /\ op'.pc = "idle" \/ (op.pc \in PutPCs /\ op'.pc \in PutPCs)
                              \/ (op.pc \in RemovePCs /\ op'.pc \in RemovePCs)
           /\ call' = call
<1> USE DEF PutPCs, RemovePCs
<1>0. "pc" \in DOMAIN op
  BY DEF TypeOK, OpType, Operation
<1>1. CASE PutWriteFile
  <2>1. op.pc = "putFile" /\ (op'.pc = "putHead" \/ op' = Idle)
    BY <1>0, <1>1 DEF PutWriteFile
  <2> QED BY <2>1, StoreStep DEF StoreStep, Idle
<1>2. CASE PutWriteHead
  <2>1. op.pc = "putHead" /\ (op'.pc = "prune" \/ op' = Idle)
    BY <1>0, <1>2 DEF PutWriteHead, FinishPut
  <2> QED BY <2>1, StoreStep DEF StoreStep, Idle
<1>3. CASE PruneScan
  <2>1. op.pc = "prune" /\ op'.pc = "victims"
    BY <1>0, <1>3 DEF PruneScan
  <2> QED BY <2>1, StoreStep DEF StoreStep
<1>4. CASE PruneDelete
  <2>1. op.pc = "victims" /\ op'.pc = "victims"
    BY <1>0, <1>4 DEF PruneDelete
  <2> QED BY <2>1, StoreStep DEF StoreStep
<1>5. CASE PruneEnd
  <2>1. op.pc = "victims" /\ op' = Idle
    BY <1>5 DEF PruneEnd, FinishPut
  <2> QED BY <2>1, StoreStep DEF StoreStep, Idle
<1>6. CASE RemoveWriteHead
  <2>1. op.pc = "rmHead" /\ (op'.pc = "rmDelete" \/ op' = Idle)
    BY <1>0, <1>6 DEF RemoveWriteHead
  <2> QED BY <2>1, StoreStep DEF StoreStep, Idle
<1>7. CASE RemoveDelete
  <2>1. op.pc = "rmDelete" /\ op' = Idle
    BY <1>7 DEF RemoveDelete
  <2> QED BY <2>1, StoreStep DEF StoreStep, Idle
<1> QED BY <1>1, <1>2, <1>3, <1>4, <1>5, <1>6, <1>7, StoreStep DEF StoreStep

\* What the start of a put or of a removal does to it.
LEMMA PutBeginPC ==
    ASSUME NEW i, NEW t, PutBegin(i, t)
    PROVE  op.pc = "idle" /\ op'.pc \in {"idle", "putFile", "putHead"}
BY DEF PutBegin, Idle

LEMMA RemoveBeginPC ==
    ASSUME NEW i, RemoveBegin(i)
    PROVE  /\ op.pc = "idle" /\ op'.pc \in {"idle", "rmHead", "rmDelete"}
           /\ ~Healthy(i) => op'.pc = "idle"
BY DEF RemoveBegin, Idle

\* A reply carries a code and a mark.
LEMMA ReplyAnswers ==
    ASSUME NEW code, NEW marked, Reply(code, marked)
    PROVE  \E answer : /\ call' = [call EXCEPT !.at = "answered", !.answer = answer]
                       /\ {"code", "marked"} \subseteq DOMAIN answer
<1> DEFINE answer == [code |-> IF code = "ok" THEN code ELSE CoreError(ErrorName(code)),
                      marked |-> marked]
<1>1. call' = [call EXCEPT !.at = "answered", !.answer = answer]
  BY DEF Reply
<1>2. {"code", "marked"} \subseteq DOMAIN answer
  OBVIOUS
<1> HIDE DEF answer
<1> QED
  BY <1>1, <1>2

\* Every step of a front end and of devmgrd keeps CallInv.
LEMMA CallInvStep ==
    ASSUME TypeOK, CallInv, [CliNext]_cliVars
    PROVE  CallInv'
<1>1. CASE UNCHANGED cliVars
  BY <1>1 DEF cliVars, verbVars, vars, CallInv, PutPCs, RemovePCs
<1>2. ASSUME NEW caller, NEW verb \in Verbs, NEW ids, Arrive(caller, verb, ids),
             \/ caller = "cli" /\ \E at \in {"resolving", "acting"} : cli' = [cli EXCEPT !.at = at]
             \/ caller # "cli" /\ cli' = cli
      PROVE  CallInv'
  BY <1>2 DEF Arrive, InHand, CallInv, NotCalled, vars, PutPCs, RemovePCs, Verbs
<1>3. ASSUME Serve, UNCHANGED cli PROVE CallInv'
  <2> USE DEF CallInv, InHand, Step, Fails, Reply, PutPCs, RemovePCs, Verbs
  <2>1. CASE Take
    <3>1. call.at = "called" /\ op.pc = "idle" /\ op' = op
      BY <2>1 DEF Take, vars
    <3>2. \/ Validated /\ call' = [call EXCEPT !.at = call.verb]
          \/ \E answer : /\ call' = [call EXCEPT !.at = "answered", !.answer = answer]
                         /\ {"code", "marked"} \subseteq DOMAIN answer
      <4> HIDE DEF Fails, Reply, CallInv
      <4>1. CASE Validated /\ call' = [call EXCEPT !.at = call.verb]
        BY <4>1
      <4>2. CASE \E code, marked : Reply(code, marked)
        BY <4>2, ReplyAnswers
      <4> QED
        BY <2>1, <4>1, <4>2 DEF Take, Authorized, Fails
    <3>3. CASE Validated /\ call' = [call EXCEPT !.at = call.verb]
      <4>1. /\ call'.at = call.verb /\ call'.verb = call.verb /\ call'.ids = call.ids
            /\ call'.answer = call.answer /\ call'.caller = call.caller
            /\ DOMAIN call' = DOMAIN call
        BY <3>3
      <4>2. /\ call.verb = "diff" => call.ids[1] \in Payloads /\ call.ids[2] \in Ids
            /\ call.verb \in {"restore", "delete"} => call.ids[1] \in Payloads
        BY <3>3 DEF Validated
      <4> QED
        BY <1>3, <3>1, <4>1, <4>2
    <3>4. CASE \E answer : /\ call' = [call EXCEPT !.at = "answered", !.answer = answer]
                           /\ {"code", "marked"} \subseteq DOMAIN answer
      <4>1. /\ call'.at = "answered" /\ call'.verb = call.verb /\ call'.caller = call.caller
            /\ {"code", "marked"} \subseteq DOMAIN call'.answer
            /\ DOMAIN call' = DOMAIN call
        BY <3>4
      <4> QED
        BY <1>3, <3>1, <4>1
    <3> QED
      BY <3>2, <3>3, <3>4
  <2>2. CASE ListVerb
    BY <1>3, <2>2 DEF ListVerb, List
  <2>3. CASE DiffBase
    BY <1>3, <2>3 DEF DiffBase, Read
  <2>4. CASE DiffTarget
    BY <1>3, <2>4 DEF DiffTarget, Read, Compared, vars
  <2>5. CASE CreateVerb
    BY <1>3, <2>5, PutBeginPC DEF CreateVerb, CapturePut
  <2>6. CASE Capture
    BY <1>3, <2>6, PutBeginPC DEF Capture, CapturePut
  <2>7. CASE CreateEnd \/ DeleteEnd
    <3>1. /\ InHand("created") \/ InHand("deleted")
          /\ \E code : Fails(code) \/ Reply(code, FALSE)
          /\ UNCHANGED vars
      BY <2>7 DEF CreateEnd, DeleteEnd
    <3> QED BY <1>3, <3>1 DEF vars
  <2>8. CASE DeleteVerb
    BY <1>3, <2>8, RemoveBeginPC DEF DeleteVerb
  <2>9. CASE RestoreRead
    BY <1>3, <2>9 DEF RestoreRead, Read
  <2>10. CASE ReplaceEntries \/ ReplaceFiles \/ ChangeVerb
    BY <1>3, <2>10 DEF ReplaceEntries, ReplaceFiles, ChangeVerb, vars
  <2>11. CASE StoreStep
    BY <1>3, <2>11, StoreStepPCs
  <2> QED BY <1>3, <2>1, <2>2, <2>3, <2>4, <2>5, <2>6, <2>7, <2>8, <2>9, <2>10, <2>11 DEF Serve
<1>4. CASE Devmgrd
  <2>1. CASE Serve
    BY <1>3, <1>4, <2>1 DEF Devmgrd
  <2>2. CASE Die
    BY <1>4, <2>2 DEF Devmgrd, Die, Crash, Idle, vars, CallInv, PutPCs, RemovePCs
  <2> QED BY <1>4, <2>1, <2>2 DEF Devmgrd
<1>5. CASE Send
  <2>1. \E verb \in Verbs : \E ids : Arrive("cli", verb, ids)
    BY <1>5 DEF Send, doList, doCreate, doDiff, printRestorePreview, doRestore, doDelete, Verbs
  <2>2. \E at \in {"resolving", "acting"} : cli' = [cli EXCEPT !.at = at]
    BY <1>5 DEF Send
  <2> QED BY <1>2, <2>1, <2>2
<1>6. CASE OtherCalls
  <2>1. \E verb \in Verbs : \E ids : Arrive("other", verb, ids)
    BY <1>6, CliAssumption DEF OtherCalls, Verbs
  <2>2. cli' = cli
    BY <1>6 DEF OtherCalls
  <2> QED BY <1>2, <2>1, <2>2
<1>7. CASE Hear
  <2>1. /\ call.caller = "cli" /\ call.at = "answered" /\ call' = NotCalled
        /\ UNCHANGED vars
    BY <1>7 DEF Hear, Answered
  <2>2. /\ cli'.at \in {"resolve", "act", "exited"}
        /\ {"at", "verb", "words", "found", "rows", "code"} \subseteq DOMAIN cli'
    BY <1>7 DEF Hear, Answered, ReportError, Exit, resolveId, Resolved, CallInv
  <2> QED BY <2>1, <2>2 DEF vars, CallInv, NotCalled, PutPCs, RemovePCs
<1>8. CASE GiveUp
  <2>1. /\ call.caller = "cli" /\ call' = [call EXCEPT !.caller = "other"]
        /\ UNCHANGED vars
    BY <1>8 DEF GiveUp, CallInv
  <2>2. /\ cli'.at = "exited"
        /\ {"at", "verb", "words", "found", "rows", "code"} \subseteq DOMAIN cli'
    BY <1>8 DEF GiveUp, ReportError, Exit, CallInv
  <2> QED BY <2>1, <2>2 DEF vars, CallInv, NotCalled, PutPCs, RemovePCs
<1>9. CASE (\E c \in Commands : Start(c.verb, c.words)) \/ SendFails
  <2>1. /\ cli.at \in {"none", "resolve", "act"} /\ UNCHANGED verbVars
        /\ cli'.at \in {"resolve", "act", "exited"}
        /\ {"at", "verb", "words", "found", "rows", "code"} \subseteq DOMAIN cli'
    BY <1>9 DEF Start, SendFails, Daemon, ReportError, Exit, NoProcess, CallInv
  <2> QED BY <2>1 DEF verbVars, vars, CallInv, PutPCs, RemovePCs
<1>10. CASE OtherHears
  BY <1>10 DEF OtherHears, Answered, vars, CallInv, NotCalled, PutPCs, RemovePCs
<1>11. CASE Disk
  BY <1>11 DEF Disk, Damage, CallInv, PutPCs, RemovePCs
<1> QED
  BY <1>1, <1>4, <1>5, <1>6, <1>7, <1>8, <1>9, <1>10, <1>11 DEF CliNext

THEOREM VerbsInvariant == CliSpec => [](StoreInv /\ CallInv)
<1>1. InitCli => StoreInv /\ CallInv
  BY StoreAssumption, StoreInvInit, CallInvInit DEF InitCli, InitVerbs
<1>2. StoreInv /\ CallInv /\ [CliNext]_cliVars => (StoreInv /\ CallInv)'
  <2> SUFFICES ASSUME StoreInv, CallInv, [CliNext]_cliVars PROVE StoreInv' /\ CallInv'
    OBVIOUS
  <2>1. TypeOK
    BY DEF StoreInv
  <2> QED BY <2>1, StoreAssumption, VerbsUseTheStore, CallInvStep, StoreInvStep
<1> QED BY <1>1, <1>2, PTL DEF CliSpec

\* The store under the verbs is the store of SnapshotStore: whatever the daemon
\* is asked, by the command line client or by others, and wherever it dies, the
\* store only takes its own steps.  All that is proved of Spec holds of CliSpec.
THEOREM VerbsKeepTheStore == CliSpec => Spec
<1>1. InitCli => Init
  BY DEF InitCli, InitVerbs
<1>2. StoreInv /\ CallInv /\ [CliNext]_cliVars => [Next]_vars
  BY VerbsUseTheStore DEF StoreInv
<1> QED BY <1>1, <1>2, VerbsInvariant, PTL DEF CliSpec, Spec

-----------------------------------------------------------------------------
\* Only one row answers for the word that was typed.
OneMatch == \E m : cli.found = <<m.id>> /\ cli.rows = {m} /\ m.id \in cli.words[1]

\* How far the command line client is.
ClientInv ==
    /\ cli.at = "none" => did = {} /\ cli.found = <<>> /\ cli.rows = {}
    /\ cli.at \notin {"none", "exited"} => WellFormed(cli.verb, cli.words)
    /\ cli.at \in {"resolve", "resolving"} /\ cli.verb \in {"restore", "delete"} =>
         cli.found = <<>> /\ cli.rows = {}
    /\ (cli.at \in {"act", "acting"} \/ did # {}) /\ cli.verb \in {"restore", "delete"} => OneMatch
    /\ did # {} => cli.at \in {"acting", "exited"}
    /\ cli.at = "resolving" => call.verb = "list"
    /\ cli.at = "acting" =>
         CASE cli.verb \in {"list", "history"} -> call.verb = "list"
           [] cli.verb \in {"diff", "preview"} -> call.verb = "diff"
           [] cli.verb = "create" -> call.verb = "create"
           [] cli.verb \in {"restore", "delete"} -> call.verb = cli.verb /\ call.ids = cli.found
           [] OTHER -> FALSE

\* A refusal, a listing and a comparison leave what a user can see as it was; so
\* does every verb until it starts to change something.
Refusals == {"Permission", "NotFound", "InvalidArgs"}
UntouchedInv ==
    call.caller = "cli" =>
        /\ call.verb \in {"list", "diff"} => did = {}
        /\ call.at \in {"called", "create", "delete", "restore", "capture"} => did = {}
        /\ call.at = "answered" /\ call.answer.code \in Refusals => did = {}

\* What a verb has established so far.
WorkInv ==
    /\ DOMAIN live = {"entries", "files"}
    /\ call.at = "created" =>
         /\ op.pc # "idle" => op.id = live
         /\ op.pc = "idle" /\ ret.ok => head = live
    /\ call.at = "deleted" =>
         /\ op.pc # "idle" => op.id = call.ids[1]
         /\ op.pc = "idle" /\ ret.ok => call.ids[1] \notin DOMAIN files
    /\ call.at = "files" => live.entries = call.ids[1].entries
    /\ call.at = "answered" /\ call.answer.code = "ok" =>
         /\ call.verb = "create" => head = live
         /\ call.verb = "delete" => call.ids[1] \notin DOMAIN files
         /\ call.verb = "restore" => live.entries = call.ids[1].entries

\* The live state is a payload, and what a comparison answered is still the diff.
CompareInv ==
    /\ IsPayload(live)
    /\ JustCompared =>
         /\ call.ids[1] \in Payloads /\ call.ids[2] \in Ids
         /\ call.diff = diffPayloads(call.ids[1], IF call.ids[2] = None THEN live ELSE call.ids[2])

-----------------------------------------------------------------------------
\* A quarantine takes no readable snapshot away.
LEMMA QuarantineSparesHealthy ==
    ASSUME NEW S, S \subseteq Damaged, Quarantine(S)
    PROVE  HealthyIds' = HealthyIds
<1>1. \A i \in Payloads : Healthy(i) <=> Healthy(i)'
  BY DEF Quarantine, WithoutFiles, Damaged, Healthy
<1> QED BY <1>1 DEF HealthyIds

LEMMA ReadsSpareHealthy ==
    ASSUME List \/ (\E i : Read(i) \/ RemoveBegin(i))
    PROVE  HealthyIds' = HealthyIds /\ head' = head
<1>1. \E S : S \subseteq Damaged /\ Quarantine(S)
  BY DEF List, Read, RemoveBegin, ReadLocked, QuarantineChoices
<1> QED BY <1>1, QuarantineSparesHealthy DEF List, Read, RemoveBegin

\* The start of a put changes nothing on the disk.
LEMMA PutBeginSparesDisk ==
    ASSUME NEW i, NEW t, PutBegin(i, t)
    PROVE  HealthyIds' = HealthyIds /\ head' = head
BY DEF PutBegin, HealthyIds, Healthy

LEMMA UnchangedSparesDisk ==
    ASSUME UNCHANGED vars
    PROVE  HealthyIds' = HealthyIds /\ head' = head
BY DEF vars, HealthyIds, Healthy

LEMMA ClientInvInit ==
    ASSUME StoreAssumption, VerbsAssumption, InitCli
    PROVE  ClientInv /\ UntouchedInv /\ WorkInv /\ CompareInv
<1>1. ClientInv /\ UntouchedInv
  BY DEF InitCli, InitVerbs, NotCalled, NoProcess, ClientInv, UntouchedInv
<1>2. IsPayload(live) /\ DOMAIN live = {"entries", "files"} /\ call.at = "idle"
  BY DEF InitCli, InitVerbs, NotCalled, VerbsAssumption, IsPayload
<1> QED BY <1>1, <1>2 DEF WorkInv, CompareInv, JustCompared

\* What devmgrd changes of what a user can see: nothing for a listing or a
\* comparison, nothing before it acts, and nothing when it refuses.
Spared == live' = live /\ head' = head /\ HealthyIds' = HealthyIds
Harmless ==
    \/ call.verb \in {"list", "diff"}
    \/ call'.at \in {"create", "delete", "restore", "capture"}
    \/ call'.at = "answered" /\ call'.answer.code \in Refusals

LEMMA HarmlessSpares ==
    ASSUME TypeOK, CallInv, Serve \/ Die
    PROVE  /\ call'.verb = call.verb /\ call'.caller = call.caller /\ call'.ids = call.ids
           /\ call.at \notin {"idle", "answered"} /\ call'.at \notin {"idle", "called"}
           /\ Harmless => /\ Spared
                          /\ \/ call.verb \in {"list", "diff"}
                             \/ call.at \in {"called", "create", "delete", "restore", "capture"}
<1> DEFINE Early == \/ call.verb \in {"list", "diff"}
                    \/ call.at \in {"called", "create", "delete", "restore", "capture"}
           Same == call'.verb = call.verb /\ call'.caller = call.caller /\ call'.ids = call.ids
           Busy == call.at \notin {"idle", "answered"} /\ call'.at \notin {"idle", "called"}
<1>0. /\ {"at", "verb", "caller", "ids", "was", "rows", "diff", "answer"} \subseteq DOMAIN call
      /\ {"code", "marked"} \subseteq DOMAIN call.answer
  BY DEF CallInv
<1>1. CASE Take
  <2>1. call.at = "called" /\ UNCHANGED <<vars, live>>
    BY <1>1 DEF Take, InHand
  <2>2. Same /\ Busy
    BY <1>0, <1>1, <2>1 DEF Take, Authorized, Step, Fails, Reply, CallInv, Verbs
  <2> QED BY <2>1, <2>2, UnchangedSparesDisk DEF Spared
<1>2. CASE ListVerb
  <2>1. call.at = "list" /\ call.verb = "list" /\ live' = live /\ List
    BY <1>2 DEF ListVerb, InHand, CallInv
  <2>2. Same /\ Busy
    BY <1>0, <1>2, <2>1 DEF ListVerb
  <2> QED BY <2>1, <2>2, ReadsSpareHealthy DEF Spared
<1>3. CASE DiffBase
  <2>1. call.at = "diff" /\ call.verb = "diff" /\ live' = live /\ \E i : Read(i)
    BY <1>3 DEF DiffBase, InHand, CallInv
  <2>2. Same /\ Busy
    BY <1>0, <1>3, <2>1 DEF DiffBase, Step, Fails, Reply
  <2> QED BY <2>1, <2>2, ReadsSpareHealthy DEF Spared
<1>4. CASE DiffTarget
  <2>1. call.at = "target" /\ call.verb = "diff" /\ live' = live /\ (UNCHANGED vars \/ \E i : Read(i))
    BY <1>4 DEF DiffTarget, InHand, CallInv
  <2>2. Same /\ Busy
    BY <1>0, <1>4, <2>1 DEF DiffTarget, Compared, Fails, Reply
  <2> QED BY <2>1, <2>2, ReadsSpareHealthy, UnchangedSparesDisk DEF Spared
<1>5. CASE CreateVerb
  <2>1. call.at = "create" /\ live' = live /\ \E i, t : PutBegin(i, t)
    BY <1>5 DEF CreateVerb, CapturePut, InHand
  <2>2. Same /\ Busy
    BY <1>0, <1>5, <2>1 DEF CreateVerb, Step
  <2> QED BY <2>1, <2>2, PutBeginSparesDisk DEF Spared
<1>6. CASE DeleteVerb
  <2>1. call.at = "delete" /\ live' = live /\ \E i : RemoveBegin(i)
    BY <1>6 DEF DeleteVerb, InHand
  <2>2. Same /\ Busy
    BY <1>0, <1>6, <2>1 DEF DeleteVerb, Step, Fails, Reply
  <2> QED BY <2>1, <2>2, ReadsSpareHealthy DEF Spared
<1>7. CASE RestoreRead
  <2>1. call.at = "restore" /\ live' = live /\ \E i : Read(i)
    BY <1>7 DEF RestoreRead, InHand
  <2>2. Same /\ Busy
    BY <1>0, <1>7, <2>1 DEF RestoreRead, Step, Fails, Reply
  <2> QED BY <2>1, <2>2, ReadsSpareHealthy DEF Spared
<1>8. CASE Capture
  <2>1. call.at \in {"capture", "change"} /\ call'.at \in {"entries", "act"} /\ Same
    BY <1>0, <1>8 DEF Capture, InHand
  <2>2. call.verb \notin {"list", "diff"}
    BY <2>1 DEF CallInv
  <2> QED BY <2>1, <2>2 DEF Harmless
<1>9. CASE CreateEnd \/ DeleteEnd \/ ReplaceEntries \/ ReplaceFiles \/ ChangeVerb
  <2>1. call.at \in {"created", "deleted", "entries", "files", "act"}
    BY <1>9 DEF CreateEnd, DeleteEnd, ReplaceEntries, ReplaceFiles, ChangeVerb, InHand
  <2>2. Step("files") \/ Reply("ok", FALSE) \/ Fails("Io")
    BY <1>9 DEF CreateEnd, DeleteEnd, ReplaceEntries, ReplaceFiles, ChangeVerb
  <2>3. /\ Same /\ call'.at \in {"files", "answered"}
        /\ call'.at = "answered" => call'.answer.code \in {"ok", "Io"}
    <3>1. CoreError(ErrorName("Io")) = "Io"
      BY DEF CoreError, ErrorName, NotAnswering, NotThere
    <3>2. CASE Step("files")
      BY <1>0, <3>2 DEF Step
    <3>3. CASE Reply("ok", FALSE)
      BY <1>0, <3>3 DEF Reply
    <3>4. CASE Fails("Io")
      BY <1>0, <3>1, <3>4 DEF Fails, Reply
    <3> QED BY <2>2, <3>2, <3>3, <3>4
  <2>4. call.verb \notin {"list", "diff"}
    BY <2>1 DEF CallInv
  <2> QED BY <2>1, <2>3, <2>4 DEF Harmless, Refusals
<1>10. CASE StoreStep
  <2>1. call' = call /\ call.at \in {"created", "entries", "act", "deleted"}
    BY <1>10, StoreStepPCs DEF CallInv
  <2>2. call.verb \notin {"list", "diff"}
    BY <2>1 DEF CallInv
  <2> QED BY <2>1, <2>2 DEF Harmless
<1>11. CASE Die
  <2>1. /\ call.at \notin {"idle", "answered"} /\ live' = live
        /\ Same /\ call'.at = "answered" /\ call'.answer.code = "Busy"
    BY <1>0, <1>11 DEF Die, CoreError, NotAnswering, NotThere
  <2>2. head' = head /\ HealthyIds' = HealthyIds
    BY <1>11, UnchangedSparesDisk DEF Die, Crash, HealthyIds, Healthy
  <2> QED BY <2>1, <2>2 DEF Harmless, Spared, Refusals
<1> QED
  BY <1>1, <1>2, <1>3, <1>4, <1>5, <1>6, <1>7, <1>8, <1>9, <1>10, <1>11 DEF Serve

\* Where nothing a user can see has changed, the history says so.
LEMMA HarmlessIsNotDone ==
    ASSUME Devmgrd, did = {} \/ call.caller # "cli", Spared
    PROVE  did' = did
BY DEF Devmgrd, Spared

LEMMA UntouchedStep ==
    ASSUME TypeOK, CallInv, ClientInv, UntouchedInv, [CliNext]_cliVars
    PROVE  UntouchedInv'
<1>1. CASE UNCHANGED cliVars
  BY <1>1 DEF cliVars, verbVars, UntouchedInv
<1>2. CASE Devmgrd
  <2>1. SUFFICES ASSUME call'.caller = "cli"
                 PROVE  /\ call'.verb \in {"list", "diff"} => did' = {}
                        /\ call'.at \in {"called", "create", "delete", "restore", "capture"} => did' = {}
                        /\ call'.at = "answered" /\ call'.answer.code \in Refusals => did' = {}
    BY DEF UntouchedInv
  <2>2. Serve \/ Die
    BY <1>2 DEF Devmgrd
  <2>3. SUFFICES ASSUME Harmless PROVE did' = {}
    BY <2>2, HarmlessSpares DEF Harmless
  <2>4. Spared /\ did = {}
    BY <2>1, <2>2, <2>3, HarmlessSpares DEF UntouchedInv
  <2> QED BY <1>2, <2>4, HarmlessIsNotDone
<1>3. CASE Send
  <2>1. did' = did /\ cli.at \in {"resolve", "act"}
    BY <1>3 DEF Send
  <2> QED BY <2>1 DEF ClientInv, UntouchedInv
<1>4. CASE Hear \/ GiveUp \/ OtherHears \/ OtherCalls
  <2>1. call'.caller # "cli"
    <3>1. CASE Hear \/ OtherHears
      BY <3>1 DEF Hear, OtherHears, NotCalled
    <3>2. CASE GiveUp
      BY <3>2 DEF GiveUp, CallInv
    <3>3. CASE OtherCalls
      BY <3>3 DEF OtherCalls, Arrive, NotCalled
    <3> QED BY <1>4, <3>1, <3>2, <3>3
  <2> QED BY <2>1 DEF UntouchedInv
<1>5. CASE (\E c \in Commands : Start(c.verb, c.words)) \/ SendFails \/ Disk
  BY <1>5 DEF Start, SendFails, Disk, Daemon, verbVars, UntouchedInv
<1> QED BY <1>1, <1>2, <1>3, <1>4, <1>5 DEF CliNext

LEMMA ClientStep ==
    ASSUME TypeOK, CallInv, ClientInv, UntouchedInv, [CliNext]_cliVars
    PROVE  ClientInv'
<1>0. {"at", "verb", "words", "found", "rows", "code"} \subseteq DOMAIN cli
  BY DEF CallInv
<1>1. CASE UNCHANGED cliVars
  BY <1>1 DEF cliVars, verbVars, ClientInv, OneMatch, WellFormed
<1>2. CASE Devmgrd
  <2>1. Serve \/ Die
    BY <1>2 DEF Devmgrd
  <2>2. cli' = cli /\ call'.verb = call.verb /\ call'.ids = call.ids
    BY <1>2, <2>1, HarmlessSpares DEF Devmgrd
  <2>3. did' = did \/ cli.at = "acting"
    <3>1. CASE call.caller # "cli"
      BY <1>2, <3>1 DEF Devmgrd
    <3>2. CASE call.caller = "cli" /\ cli.at # "acting"
      <4>1. cli.at = "resolving" /\ call.verb = "list" /\ did = {}
        BY <3>2 DEF CallInv, ClientInv
      <4>2. Spared
        BY <2>1, <4>1, HarmlessSpares DEF Harmless
      <4> QED BY <1>2, <4>1, <4>2, HarmlessIsNotDone
    <3> QED BY <3>1, <3>2
  <2> QED BY <2>2, <2>3 DEF ClientInv, OneMatch, WellFormed
<1>3. ASSUME NEW c \in Commands, cli.at # "exited", Start(c.verb, c.words) PROVE ClientInv'
  <2>1. /\ cli.at = "none" /\ did' = did /\ did = {} /\ call' = call
        /\ cli'.verb = c.verb /\ cli'.words = c.words /\ cli'.found = <<>> /\ cli'.rows = {}
        /\ cli'.at = IF ~WellFormed(c.verb, c.words) THEN "exited"
                     ELSE IF c.words # <<>> THEN "resolve" ELSE "act"
    BY <1>3 DEF Start, NoProcess, Daemon, verbVars, ClientInv
  <2>2. WellFormed(c.verb, c.words) /\ c.words = <<>> => c.verb \notin {"restore", "delete"}
    BY DEF WellFormed
  <2> QED BY <2>1, <2>2 DEF ClientInv, OneMatch, WellFormed
<1>4. CASE Send
  <2>1. did' = did /\ cli'.found = cli.found /\ cli'.rows = cli.rows /\ cli'.verb = cli.verb
        /\ cli'.words = cli.words
    BY <1>0, <1>4 DEF Send
  <2>2. CASE cli.at = "resolve"
    <3>1. cli'.at = "resolving" /\ call'.verb = "list"
      BY <1>0, <1>4, <2>2 DEF Send, Arrive, NotCalled
    <3> QED BY <2>1, <2>2, <3>1 DEF ClientInv, OneMatch, WellFormed
  <2>3. CASE cli.at = "act"
    <3>1. cli'.at = "acting"
      BY <1>0, <1>4, <2>3 DEF Send
    <3>2. CASE cli.verb \in {"list", "history"} /\ call'.verb = "list"
      BY <2>1, <2>3, <3>1, <3>2 DEF ClientInv, OneMatch, WellFormed
    <3>3. CASE cli.verb \in {"diff", "preview"} /\ call'.verb = "diff"
      BY <2>1, <2>3, <3>1, <3>3 DEF ClientInv, OneMatch, WellFormed
    <3>4. CASE cli.verb = "create" /\ call'.verb = "create"
      BY <2>1, <2>3, <3>1, <3>4 DEF ClientInv, OneMatch, WellFormed
    <3>5. CASE cli.verb \in {"restore", "delete"} /\ call'.verb = cli.verb /\ call'.ids = cli.found
      BY <2>1, <2>3, <3>1, <3>5 DEF ClientInv, OneMatch, WellFormed
    <3>6. \/ cli.verb \in {"list", "history"} /\ call'.verb = "list"
          \/ cli.verb \in {"diff", "preview"} /\ call'.verb = "diff"
          \/ cli.verb = "create" /\ call'.verb = "create"
          \/ cli.verb \in {"restore", "delete"} /\ call'.verb = cli.verb /\ call'.ids = cli.found
      <4>1. ASSUME NEW verb, NEW ids, Arrive("cli", verb, ids)
            PROVE  call'.verb = verb /\ call'.ids = ids
        BY <4>1 DEF Arrive, NotCalled
      <4> QED BY <1>4, <2>3, <4>1 DEF Send, doList, doCreate, doDiff, printRestorePreview,
                                      doRestore, doDelete
    <3> QED BY <3>2, <3>3, <3>4, <3>5, <3>6
  <2> QED BY <1>4, <2>2, <2>3 DEF Send
<1>5. ASSUME NEW code, NEW marked, ReportError(code, marked) \/ Exit(code),
             cli.at \in {"resolve", "resolving", "act", "acting"}, did' = did
      PROVE  ClientInv'
  <2>1. /\ cli'.at = "exited" /\ cli'.found = cli.found /\ cli'.rows = cli.rows
        /\ cli'.verb = cli.verb /\ cli'.words = cli.words
    BY <1>0, <1>5 DEF ReportError, Exit
  <2> QED BY <1>5, <2>1 DEF ClientInv, OneMatch
<1>6. CASE SendFails \/ GiveUp
  BY <1>5, <1>6 DEF SendFails, GiveUp, Daemon
<1>7. CASE Hear
  <2>1. cli.at \in {"resolving", "acting"} /\ did' = did
    BY <1>7 DEF Hear, Answered, CallInv
  <2>2. CASE cli.at = "resolving" /\ \E m \in Matches : Matches = {m} /\ Resolved(m)
    <3>1. PICK m \in Matches : Matches = {m} /\ Resolved(m)
      BY <2>2
    <3>2. /\ cli'.at \in {"resolve", "act"} /\ did = {}
          /\ cli'.verb = cli.verb /\ cli'.words = cli.words
          /\ cli'.found = Append(cli.found, m.id) /\ cli'.rows = cli.rows \cup {m}
          /\ cli'.at = "resolve" => Len(cli.found) + 1 < Len(cli.words)
      BY <1>0, <2>2, <3>1 DEF Resolved, ClientInv
    <3>3. WellFormed(cli.verb, cli.words)
      BY <2>2 DEF ClientInv
    <3>4. CASE cli.verb \in {"restore", "delete"}
      <4>1. cli.found = <<>> /\ cli.rows = {} /\ Len(cli.words) = 1
        BY <2>2, <3>3, <3>4 DEF ClientInv, WellFormed
      <4>2. cli'.at = "act" /\ cli'.found = <<m.id>> /\ cli'.rows = {m}
        BY <3>2, <4>1
      <4>3. m.id \in cli.words[1]
        BY <3>1, <4>1 DEF Matches, Word
      <4> QED BY <2>1, <3>2, <3>3, <3>4, <4>2, <4>3 DEF ClientInv, OneMatch, WellFormed
    <3>5. CASE cli.verb \notin {"restore", "delete"}
      BY <2>1, <3>2, <3>3, <3>5 DEF ClientInv, OneMatch, WellFormed
    <3> QED BY <3>4, <3>5
  <2>3. \/ cli.at = "resolving" /\ \E m \in Matches : Matches = {m} /\ Resolved(m)
        \/ \E code, marked : ReportError(code, marked) \/ Exit(code)
    BY <1>7 DEF Hear, resolveId
  <2> QED BY <1>5, <2>1, <2>2, <2>3
<1>8. CASE OtherCalls \/ OtherHears
  <2>1. cli' = cli /\ did' = did /\ cli.at \notin {"resolving", "acting"}
    <3>1. CASE OtherCalls
      <4>1. call = NotCalled
        BY <3>1 DEF OtherCalls, Arrive, InHand, CallInv
      <4> QED BY <3>1, <4>1 DEF OtherCalls, NotCalled, CallInv
    <3>2. CASE OtherHears
      BY <3>2 DEF OtherHears, Answered, CallInv
    <3> QED BY <1>8, <3>1, <3>2
  <2> QED BY <2>1 DEF ClientInv, OneMatch, WellFormed
<1>9. CASE Disk
  BY <1>9 DEF Disk, ClientInv, OneMatch, WellFormed
<1> QED BY <1>1, <1>2, <1>3, <1>4, <1>6, <1>7, <1>8, <1>9 DEF CliNext

\* What a step of the store does for the put or the removal it belongs to.
LEMMA StoreStepWork ==
    ASSUME StoreInv, StoreStep
    PROVE  /\ live' = live /\ call' = call
           /\ op'.pc # "idle" => op'.id = op.id
           /\ op'.pc = "idle" /\ ret'.ok /\ op.pc \in PutPCs => head' = op.id
           /\ op'.pc = "idle" /\ ret'.ok /\ op.pc \in RemovePCs => op.id \notin DOMAIN files'
<1> USE DEF PutPCs, RemovePCs
<1>0. /\ {"pc", "id", "trigger", "fresh", "next", "victims"} = DOMAIN op
      /\ op.pc \in {"prune", "victims"} => head = op.id
      /\ Idle.pc = "idle"
  BY DEF StoreInv, TypeOK, OpType, Operation, PutInv, Idle
<1>1. live' = live /\ call' = call
  BY DEF StoreStep
<1>2. CASE PutWriteFile
  <2>1. \/ op' = [op EXCEPT !.pc = "putHead"]
        \/ op' = Idle /\ ret' = Return("put", FALSE, op.id, FALSE)
    BY <1>2 DEF PutWriteFile
  <2> QED BY <1>0, <1>1, <1>2, <2>1 DEF PutWriteFile, Return
<1>3. CASE PutWriteHead
  <2>1. PICK o \in Outcomes :
          /\ head' = IF Written(o) THEN op.id ELSE head
          /\ \/ o = "ok" /\ op' = [op EXCEPT !.pc = "prune"]
             \/ o = "ok" /\ op' = Idle
             \/ o # "ok" /\ op' = Idle /\ ret' = Return("put", FALSE, op.id, FALSE)
    BY <1>3 DEF PutWriteHead, FinishPut
  <2>2. o = "ok" => head' = op.id
    BY <2>1 DEF Written
  <2> QED BY <1>0, <1>1, <1>3, <2>1, <2>2 DEF PutWriteHead, Return
<1>4. CASE PruneScan \/ PruneDelete
  <2>1. op.pc \in {"prune", "victims"} /\ op'.pc = "victims" /\ op'.id = op.id
    BY <1>0, <1>4 DEF PruneScan, PruneDelete
  <2> QED BY <1>1, <2>1
<1>5. CASE PruneEnd
  BY <1>0, <1>1, <1>5 DEF PruneEnd, FinishPut
<1>6. CASE RemoveWriteHead
  <2>1. \/ op' = [op EXCEPT !.pc = "rmDelete"]
        \/ op' = Idle /\ ret' = Return("remove", FALSE, op.id, FALSE)
    BY <1>6 DEF RemoveWriteHead
  <2> QED BY <1>0, <1>1, <1>6, <2>1 DEF RemoveWriteHead, Return
<1>7. CASE RemoveDelete
  <2>1. PICK o \in RemoveOutcomes :
          /\ files' = IF o = "ok" THEN WithoutFiles({op.id}) ELSE files
          /\ ret' = Return("remove", o = "ok", op.id, FALSE)
    BY <1>7 DEF RemoveDelete
  <2>2. ret'.ok => op.id \notin DOMAIN files'
    BY <2>1 DEF Return, WithoutFiles
  <2> QED BY <1>0, <1>1, <1>7, <2>2 DEF RemoveDelete
<1> QED BY <1>2, <1>3, <1>4, <1>5, <1>6, <1>7 DEF StoreStep

LEMMA WorkStep ==
    ASSUME StoreInv, CallInv, WorkInv, VerbsAssumption, [CliNext]_cliVars
    PROVE  WorkInv'
<1>0. /\ {"at", "verb", "caller", "ids", "was", "rows", "diff", "answer"} \subseteq DOMAIN call
      /\ {"code", "marked"} \subseteq DOMAIN call.answer
      /\ "pc" \in DOMAIN op
      /\ DOMAIN live = {"entries", "files"}
  BY DEF CallInv, StoreInv, TypeOK, OpType, Operation, WorkInv
<1>1. CASE UNCHANGED cliVars
  BY <1>1 DEF cliVars, verbVars, vars, WorkInv
<1>2. ASSUME call'.at \notin {"created", "deleted", "files", "answered"},
             live' = live
      PROVE  WorkInv'
  BY <1>0, <1>2 DEF WorkInv
<1>3. ASSUME call'.at = "answered", call'.answer.code # "ok", DOMAIN live' = {"entries", "files"}
      PROVE  WorkInv'
  BY <1>3 DEF WorkInv
<1>4. CASE Devmgrd
  <2>0. ASSUME NEW code, Fails(code) \/ (\E marked \in BOOLEAN : Reply("Io", marked)), code # "ok"
        PROVE  call'.at = "answered" /\ call'.answer.code # "ok"
    <3>1. \A c : CoreError(ErrorName(c)) # "ok"
      BY DEF CoreError, ErrorName, NotAnswering, NotThere
    <3>2. CASE Fails(code)
      BY <1>0, <2>0, <3>1, <3>2 DEF Fails, Reply
    <3>3. CASE \E marked \in BOOLEAN : Reply("Io", marked)
      <4>1. PICK marked \in BOOLEAN : Reply("Io", marked)
        BY <3>3
      <4>2. CoreError(ErrorName("Io")) # "ok"
        BY <3>1
      <4> QED BY <1>0, <4>1, <4>2 DEF Reply
    <3> QED BY <2>0, <3>2, <3>3
  <2>1. CASE Take
    <3>1. live' = live
      BY <2>1 DEF Take
    <3>2. CASE Step(call.verb)
      <4>1. call'.at \in Verbs
        BY <1>0, <2>1, <3>2 DEF Step, Take, InHand, CallInv
      <4> QED BY <1>2, <3>1, <4>1 DEF Verbs
    <3>3. CASE \E code : code # "ok" /\ (Fails(code) \/ \E marked \in BOOLEAN : Reply("Io", marked))
      BY <1>0, <1>3, <2>0, <3>1, <3>3
    <3> QED BY <2>1, <3>2, <3>3 DEF Take, Authorized
  <2>2. CASE ListVerb \/ DiffBase \/ DiffTarget
    <3>1. /\ live' = live /\ call'.verb = call.verb
          /\ call'.at \in {"answered", "target"}
      BY <1>0, <2>2 DEF ListVerb, DiffBase, DiffTarget, Step, Fails, Reply, Compared
    <3>2. call.verb \in {"list", "diff"}
      BY <2>2 DEF ListVerb, DiffBase, DiffTarget, InHand, CallInv
    <3> QED BY <1>0, <3>1, <3>2 DEF WorkInv
  <2>3. CASE CreateVerb
    <3>1. call'.at = "created" /\ live' = live /\ PutBegin(live, "manual")
      BY <1>0, <2>3 DEF CreateVerb, CapturePut, Step
    <3>2. /\ op'.pc # "idle" => op'.id = live
          /\ op'.pc = "idle" => head' = live
      BY <3>1 DEF PutBegin, Idle
    <3> QED BY <1>0, <3>1, <3>2 DEF WorkInv
  <2>4. CASE CreateEnd
    <3>1. /\ call.at = "created" /\ op.pc = "idle" /\ UNCHANGED <<vars, live>>
          /\ call'.at = "answered" /\ call'.verb = call.verb /\ call'.ids = call.ids
          /\ call'.answer.code = "ok" => ret.ok
      BY <1>0, <2>0, <2>4 DEF CreateEnd, InHand, Fails, Reply
    <3>2. call.verb = "create"
      BY <3>1 DEF CallInv
    <3> QED BY <1>0, <3>1, <3>2 DEF WorkInv, vars
  <2>5. CASE DeleteVerb
    <3>1. live' = live /\ RemoveBegin(call.ids[1])
      BY <2>5 DEF DeleteVerb
    <3>2. CASE ~Healthy(call.ids[1])
      <4>1. ReadCode(call.ids[1]) # "ok"
        BY <3>2 DEF ReadCode
      <4> QED BY <1>0, <1>3, <2>0, <2>5, <3>1, <3>2, <4>1 DEF DeleteVerb
    <3>3. CASE Healthy(call.ids[1])
      <4>1. call'.at = "deleted" /\ call'.ids = call.ids
        BY <1>0, <2>5, <3>3 DEF DeleteVerb, Step
      <4>2. op'.pc # "idle" /\ op'.id = call.ids[1]
        BY <3>1, <3>3 DEF RemoveBegin, Idle
      <4> QED BY <1>0, <3>1, <4>1, <4>2 DEF WorkInv
    <3> QED BY <3>2, <3>3
  <2>6. CASE DeleteEnd
    <3>1. /\ call.at = "deleted" /\ op.pc = "idle" /\ UNCHANGED <<vars, live>>
          /\ call'.at = "answered" /\ call'.verb = call.verb /\ call'.ids = call.ids
          /\ call'.answer.code = "ok" => ret.ok
      BY <1>0, <2>0, <2>6 DEF DeleteEnd, InHand, Fails, Reply
    <3>2. call.verb = "delete"
      BY <3>1 DEF CallInv
    <3> QED BY <1>0, <3>1, <3>2 DEF WorkInv, vars
  <2>7. CASE RestoreRead
    <3>1. live' = live
      BY <2>7 DEF RestoreRead
    <3>2. CASE Healthy(call.ids[1])
      <4>1. call'.at = "capture"
        BY <1>0, <2>7, <3>2 DEF RestoreRead, Step
      <4> QED BY <1>2, <3>1, <4>1
    <3>3. CASE ~Healthy(call.ids[1])
      <4>1. ReadCode(call.ids[1]) # "ok"
        BY <3>3 DEF ReadCode
      <4> QED BY <1>0, <1>3, <2>0, <2>7, <3>1, <3>3, <4>1 DEF RestoreRead
    <3> QED BY <3>2, <3>3
  <2>8. CASE Capture
    <3>1. live' = live /\ call'.at \in {"entries", "act"}
      BY <1>0, <2>8 DEF Capture
    <3> QED BY <1>2, <3>1
  <2>9. CASE ReplaceEntries
    <3>1. call.verb = "restore"
      BY <2>9 DEF ReplaceEntries, InHand, CallInv
    <3>2. CASE Fails("Io")
      <4>1. DOMAIN live' = {"entries", "files"}
        BY <1>0, <2>9 DEF ReplaceEntries
      <4> QED BY <1>3, <2>0, <3>2, <4>1
    <3>3. CASE live' = [live EXCEPT !.entries = call.ids[1].entries] /\ Step("files")
      <4>1. call'.at = "files" /\ call'.ids = call.ids /\ live'.entries = call.ids[1].entries
            /\ DOMAIN live' = {"entries", "files"}
        BY <1>0, <3>3 DEF Step
      <4> QED BY <4>1 DEF WorkInv
    <3> QED BY <2>9, <3>2, <3>3 DEF ReplaceEntries
  <2>10. CASE ReplaceFiles
    <3>1. /\ call.at = "files" /\ call'.at = "answered" /\ call'.ids = call.ids
          /\ call'.verb = call.verb
          /\ live'.entries = live.entries /\ DOMAIN live' = {"entries", "files"}
      BY <1>0, <2>10 DEF ReplaceFiles, InHand, Reply
    <3>2. call.verb = "restore"
      BY <3>1 DEF CallInv
    <3> QED BY <3>1, <3>2 DEF WorkInv
  <2>11. CASE ChangeVerb
    <3>1. /\ call'.at = "answered" /\ call'.verb = call.verb /\ call.verb = "change"
          /\ live' \in Payloads \/ live' = live
      BY <1>0, <2>11 DEF ChangeVerb, InHand, Reply, CallInv
    <3>2. DOMAIN live' = {"entries", "files"}
      BY <1>0, <3>1 DEF VerbsAssumption, IsPayload
    <3> QED BY <3>1, <3>2 DEF WorkInv
  <2>12. CASE StoreStep
    <3>1. call.at \in {"created", "entries", "act", "deleted"} /\ call' = call /\ live' = live
          /\ op.pc \in PutPCs \cup RemovePCs
      BY <2>12, StoreStepPCs DEF CallInv, StoreInv, StoreStep
    <3>2. CASE call.at \in {"entries", "act"}
      BY <1>2, <3>1, <3>2
    <3>3. CASE call.at = "created"
      <4>1. op.pc \in PutPCs
        BY <3>1, <3>3 DEF CallInv
      <4>2. op.id = live
        BY <3>3, <4>1 DEF WorkInv, PutPCs
      <4> QED BY <1>0, <2>12, <3>1, <3>3, <4>1, <4>2, StoreStepWork DEF WorkInv
    <3>4. CASE call.at = "deleted"
      <4>1. op.pc \in RemovePCs
        BY <3>1, <3>4 DEF CallInv
      <4>2. op.id = call.ids[1]
        BY <3>4, <4>1 DEF WorkInv, RemovePCs
      <4> QED BY <1>0, <2>12, <3>1, <3>4, <4>1, <4>2, StoreStepWork DEF WorkInv
    <3> QED BY <3>1, <3>2, <3>3, <3>4
  <2>13. CASE Die
    <3>1. call'.at = "answered" /\ call'.answer.code = "Busy" /\ live' = live
      BY <1>0, <2>13 DEF Die, CoreError, NotAnswering, NotThere
    <3> QED BY <1>0, <1>3, <3>1
  <2> QED BY <1>4, <2>1, <2>2, <2>3, <2>4, <2>5, <2>6, <2>7, <2>8, <2>9, <2>10, <2>11, <2>12, <2>13
          DEF Devmgrd, Serve
<1>5. CASE Send \/ OtherCalls \/ Hear \/ OtherHears \/ Disk
  <2>1. CASE Send \/ OtherCalls
    <3>1. \E caller, verb, ids : Arrive(caller, verb, ids)
      BY <2>1 DEF Send, OtherCalls, doList, doCreate, doDiff, printRestorePreview, doRestore, doDelete
    <3>2. call'.at = "called" /\ live' = live
      BY <3>1 DEF Arrive, NotCalled
    <3> QED BY <1>2, <3>2
  <2>2. CASE Hear \/ OtherHears \/ Disk
    <3>1. call'.at = "idle" /\ live' = live
      BY <2>2 DEF Hear, OtherHears, Disk, NotCalled
    <3> QED BY <1>2, <3>1
  <2> QED BY <1>5, <2>1, <2>2
<1>6. CASE GiveUp
  <2>1. /\ UNCHANGED <<vars, live>> /\ call'.at = call.at /\ call'.verb = call.verb
        /\ call'.ids = call.ids /\ call'.answer = call.answer
    BY <1>0, <1>6 DEF GiveUp
  <2> QED BY <2>1 DEF WorkInv, vars
<1>7. CASE (\E c \in Commands : Start(c.verb, c.words)) \/ SendFails
  BY <1>7 DEF Start, SendFails, Daemon, verbVars, vars, WorkInv
<1> QED BY <1>1, <1>4, <1>5, <1>6, <1>7 DEF CliNext

\* What replaces the live state is a payload again.
LEMMA RestoredIsPayload ==
    ASSUME NEW p, IsPayload(p), NEW q, IsPayload(q)
    PROVE  IsPayload([p EXCEPT !.entries = q.entries])
<1> DEFINE r == [p EXCEPT !.entries = q.entries]
<1>1. DOMAIN r = {"entries", "files"} /\ r.entries = q.entries /\ r.files = p.files
  BY DEF IsPayload
<1> HIDE DEF r
<1>2. IsPayload(r)
  BY <1>1 DEF IsPayload
<1> QED BY <1>2 DEF r

LEMMA WrittenBackIsPayload ==
    ASSUME IsPayload(live), IsPayload(call.ids[1]), NEW failed
    PROVE  IsPayload([live EXCEPT !.files = WriteBack(failed)])
<1> DEFINE r == [live EXCEPT !.files = WriteBack(failed)]
           now == live.files
           then == call.ids[1].files
           names == (DOMAIN then \ failed) \cup (DOMAIN now \cap failed)
           w == [n \in names |-> IF n \in failed THEN now[n] ELSE then[n]]
<1>1. DOMAIN r = {"entries", "files"} /\ r.entries = live.entries /\ r.files = w
  BY DEF IsPayload, WriteBack
<1>2. /\ IsFiniteSet(DOMAIN then) /\ DOMAIN then \subseteq Nat
      /\ IsFiniteSet(DOMAIN now) /\ DOMAIN now \subseteq Nat
      /\ \A n \in DOMAIN then : then[n] \in Seq(DirectiveLine)
      /\ \A n \in DOMAIN now : now[n] \in Seq(DirectiveLine)
  BY DEF IsPayload
<1> HIDE DEF r, now, then
<1>3. IsFiniteSet(names) /\ names \subseteq Nat
  <2>1. IsFiniteSet(DOMAIN then \cup DOMAIN now)
    BY <1>2, FS_Union
  <2>2. names \in SUBSET (DOMAIN then \cup DOMAIN now)
    OBVIOUS
  <2> HIDE DEF names
  <2>3. IsFiniteSet(names)
    BY <2>1, <2>2, FS_Subset
  <2> QED BY <1>2, <2>2, <2>3
<1>4. \A n \in names : w[n] \in Seq(DirectiveLine)
  BY <1>2
<1>5. DOMAIN w = names
  OBVIOUS
<1> HIDE DEF w, names
<1>6. IsPayload(r)
  BY <1>1, <1>3, <1>4, <1>5 DEF IsPayload
<1> QED BY <1>6 DEF r

LEMMA LiveStep ==
    ASSUME CallInv, IsPayload(live), VerbsAssumption, [CliNext]_cliVars
    PROVE  IsPayload(live)'
<1>1. ASSUME live' = live PROVE IsPayload(live)'
  BY <1>1
<1>2. CASE ReplaceEntries
  <2>1. IsPayload(call.ids[1])
    BY <1>2 DEF ReplaceEntries, InHand, CallInv, VerbsAssumption
  <2>2. live' = live \/ live' = [live EXCEPT !.entries = call.ids[1].entries]
    BY <1>2 DEF ReplaceEntries
  <2> QED BY <1>1, <2>1, <2>2, RestoredIsPayload
<1>3. CASE ReplaceFiles
  <2>1. IsPayload(call.ids[1])
    BY <1>3 DEF ReplaceFiles, InHand, CallInv, VerbsAssumption
  <2>2. \E failed : live' = [live EXCEPT !.files = WriteBack(failed)]
    BY <1>3 DEF ReplaceFiles
  <2> QED BY <2>1, <2>2, WrittenBackIsPayload
<1>4. CASE ChangeVerb
  <2>1. live' \in Payloads \/ live' = live
    BY <1>4 DEF ChangeVerb
  <2> QED BY <1>1, <2>1 DEF VerbsAssumption
<1>5. CASE UNCHANGED cliVars
  BY <1>1, <1>5 DEF cliVars, verbVars
<1>6. CASE Devmgrd /\ ~ReplaceEntries /\ ~ReplaceFiles /\ ~ChangeVerb
  <2>1. live' = live
    BY <1>6 DEF Devmgrd, Serve, Take, ListVerb, DiffBase, DiffTarget, CreateVerb, CreateEnd,
                DeleteVerb, DeleteEnd, RestoreRead, Capture, StoreStep, Die
  <2> QED BY <1>1, <2>1
<1>7. CASE CliNext /\ ~Devmgrd
  <2>1. live' = live
    BY <1>7 DEF CliNext, Start, Send, SendFails, Hear, GiveUp, OtherCalls, OtherHears, Disk, Daemon,
                verbVars, Arrive, doList, doCreate, doDiff, printRestorePreview, doRestore, doDelete
  <2> QED BY <1>1, <2>1
<1> QED BY <1>2, <1>3, <1>4, <1>5, <1>6, <1>7 DEF CliNext

\* A comparison that succeeds is answered with the diff of what it read.
LEMMA CompareServes ==
    ASSUME TypeOK, CallInv, Serve \/ Die, JustCompared'
    PROVE  /\ call.at = "target" /\ call.verb = "diff" /\ call'.ids = call.ids /\ live' = live
           /\ call'.diff = diffPayloads(call.ids[1], IF call.ids[2] = None THEN live ELSE call.ids[2])
<1>0. /\ {"at", "verb", "caller", "ids", "was", "rows", "diff", "answer"} \subseteq DOMAIN call
      /\ {"code", "marked"} \subseteq DOMAIN call.answer
  BY DEF CallInv
<1>1. call.verb = "diff" /\ call'.ids = call.ids /\ live' = live
  BY HarmlessSpares DEF JustCompared, Harmless, Spared
<1>2. call'.at = "answered" /\ call'.answer.code = "ok"
  BY DEF JustCompared
<1>3. call.at \in {"called", "diff", "target"}
  BY <1>1, HarmlessSpares DEF CallInv
<1>4. \A c : CoreError(ErrorName(c)) # "ok"
  BY DEF CoreError, ErrorName, NotAnswering, NotThere
<1>5. ASSUME NEW code, Fails(code), code # "ok" PROVE FALSE
  BY <1>0, <1>2, <1>4, <1>5 DEF Fails, Reply
<1>6. CASE Take
  <2>1. CASE Step(call.verb)
    BY <1>0, <1>1, <1>2, <2>1 DEF Step
  <2>2. CASE \E code : code # "ok" /\ Fails(code)
    BY <1>5, <2>2
  <2> QED BY <1>1, <1>6, <2>1, <2>2 DEF Take, Authorized, Asked
<1>7. CASE DiffBase
  <2>1. CASE Healthy(call.ids[1])
    BY <1>0, <1>2, <1>7, <2>1 DEF DiffBase, Step
  <2>2. CASE ~Healthy(call.ids[1])
    <3>1. ReadCode(call.ids[1]) # "ok"
      BY <2>2 DEF ReadCode
    <3> QED BY <1>5, <1>7, <2>2, <3>1 DEF DiffBase
  <2> QED BY <2>1, <2>2
<1>8. CASE DiffTarget
  <2>0. call.at = "target"
    BY <1>8 DEF DiffTarget, InHand
  <2>1. ASSUME NEW target, Compared(target) PROVE call'.diff = diffPayloads(call.ids[1], target)
    BY <1>0, <2>1 DEF Compared
  <2>2. CASE call.ids[2] = None
    BY <1>1, <1>8, <2>0, <2>1, <2>2 DEF DiffTarget
  <2>3. CASE call.ids[2] # None /\ Healthy(call.ids[2])
    BY <1>1, <1>8, <2>0, <2>1, <2>3 DEF DiffTarget
  <2>4. CASE call.ids[2] # None /\ ~Healthy(call.ids[2])
    <3>1. ReadCode(call.ids[2]) # "ok"
      BY <2>4 DEF ReadCode
    <3> QED BY <1>5, <1>8, <2>4, <3>1 DEF DiffTarget
  <2> QED BY <2>2, <2>3, <2>4
<1>9. CASE Die
  BY <1>0, <1>2, <1>9 DEF Die, CoreError, NotAnswering, NotThere
<1>10. CASE StoreStep
  <2>1. call' = call
    BY <1>10 DEF StoreStep
  <2> QED BY <1>2, <1>3, <2>1
<1> QED
  BY <1>3, <1>6, <1>7, <1>8, <1>9, <1>10
  DEF Serve, ListVerb, CreateVerb, CreateEnd, DeleteVerb, DeleteEnd, RestoreRead, Capture,
      ReplaceEntries, ReplaceFiles, ChangeVerb, InHand

LEMMA CompareStep ==
    ASSUME TypeOK, CallInv, CompareInv, VerbsAssumption, [CliNext]_cliVars
    PROVE  CompareInv'
<1>1. IsPayload(live)'
  BY LiveStep DEF CompareInv
<1>2. ASSUME call'.at \in {"idle", "called"} PROVE CompareInv'
  BY <1>1, <1>2 DEF CompareInv, JustCompared
<1>3. ASSUME live' = live, call'.at = call.at, call'.verb = call.verb, call'.ids = call.ids,
             call'.diff = call.diff, call'.answer = call.answer
      PROVE  CompareInv'
  BY <1>1, <1>3 DEF CompareInv, JustCompared
<1>4. CASE Devmgrd
  <2>1. ASSUME JustCompared'
        PROVE  /\ call'.ids[1] \in Payloads /\ call'.ids[2] \in Ids
               /\ call'.diff = diffPayloads(call'.ids[1], IF call'.ids[2] = None THEN live' ELSE call'.ids[2])
    <3>1. Serve \/ Die
      BY <1>4 DEF Devmgrd
    <3>2. /\ call.at = "target" /\ call.verb = "diff" /\ call'.ids = call.ids /\ live' = live
          /\ call'.diff = diffPayloads(call.ids[1], IF call.ids[2] = None THEN live ELSE call.ids[2])
      BY <2>1, <3>1, CompareServes
    <3>3. call.ids[1] \in Payloads /\ call.ids[2] \in Ids
      BY <3>2 DEF CallInv
    <3> QED BY <3>2, <3>3
  <2> QED BY <1>1, <2>1 DEF CompareInv
<1>5. CASE Send \/ OtherCalls
  <2>1. \E caller, verb, ids : Arrive(caller, verb, ids)
    BY <1>5 DEF Send, OtherCalls, doList, doCreate, doDiff, printRestorePreview, doRestore, doDelete
  <2>2. call'.at = "called"
    BY <2>1 DEF Arrive, NotCalled
  <2> QED BY <1>2, <2>2
<1>6. CASE Hear \/ OtherHears
  <2>1. call'.at = "idle"
    BY <1>6 DEF Hear, OtherHears, NotCalled
  <2> QED BY <1>2, <2>1
<1>7. CASE GiveUp
  <2>1. {"at", "verb", "caller", "ids", "was", "rows", "diff", "answer"} \subseteq DOMAIN call
    BY DEF CallInv
  <2>2. live' = live /\ call' = [call EXCEPT !.caller = "other"]
    BY <1>7 DEF GiveUp
  <2> QED BY <1>3, <2>1, <2>2
<1>8. CASE (\E c \in Commands : Start(c.verb, c.words)) \/ SendFails \/ Disk \/ UNCHANGED cliVars
  <2>1. UNCHANGED <<live, call>>
    BY <1>8 DEF Start, SendFails, Disk, Daemon, cliVars, verbVars
  <2> QED BY <1>3, <2>1
<1> QED BY <1>4, <1>5, <1>6, <1>7, <1>8 DEF CliNext

\* The client, the verb in hand and the store belong together: ClientInv says
\* what the process knows, UntouchedInv and WorkInv what the verb has done, and
\* CompareInv what it has compared.
CliInv == StoreInv /\ CallInv /\ ClientInv /\ UntouchedInv /\ WorkInv /\ CompareInv

THEOREM CliInvariant == CliSpec => []CliInv
<1>1. StoreAssumption /\ VerbsAssumption
  BY StoreAssumption, VerbsAssumption
<1>2. InitCli => CliInv
  BY <1>1, StoreInvInit, CallInvInit, ClientInvInit DEF CliInv, InitCli, InitVerbs
<1>3. CliInv /\ [CliNext]_cliVars => CliInv'
  <2> SUFFICES ASSUME CliInv, [CliNext]_cliVars PROVE CliInv'
    OBVIOUS
  <2>1. TypeOK /\ StoreInv /\ CallInv /\ ClientInv /\ UntouchedInv /\ WorkInv /\ CompareInv
    BY DEF CliInv, StoreInv
  <2>2. StoreInv'
    BY <1>1, <2>1, VerbsUseTheStore, StoreInvStep
  <2>3. CallInv'
    BY <2>1, CallInvStep
  <2>4. ClientInv'
    BY <2>1, ClientStep
  <2>5. UntouchedInv'
    BY <2>1, UntouchedStep
  <2>6. WorkInv'
    BY <1>1, <2>1, WorkStep
  <2>7. CompareInv'
    BY <1>1, <2>1, CompareStep
  <2> QED BY <2>2, <2>3, <2>4, <2>5, <2>6, <2>7 DEF CliInv
<1> QED BY <1>2, <1>3, PTL DEF CliSpec

\* "Ambiguous prefix: change nothing", for any commands and any number of calls of
\* other clients: a restore or a delete that changed something acted on the one
\* snapshot that its own listing showed for the word.
THEOREM ActsOnOneMatch == CliSpec => []ActsOnTheMatch
<1>1. ClientInv => ActsOnTheMatch
  <2> SUFFICES ASSUME ClientInv, did # {}, cli.verb \in {"restore", "delete"}
               PROVE  {m \in cli.rows : m.id \in cli.words[1]}
                        = {CHOOSE m \in cli.rows : m.id = cli.found[1]}
    BY DEF ActsOnTheMatch
  <2>1. PICK m : cli.found = <<m.id>> /\ cli.rows = {m} /\ m.id \in cli.words[1]
    BY DEF ClientInv, OneMatch
  <2>2. {n \in cli.rows : n.id \in cli.words[1]} = {m}
    BY <2>1
  <2>3. (CHOOSE n \in cli.rows : n.id = cli.found[1]) = m
    <3>1. m \in cli.rows /\ m.id = cli.found[1] /\ \A n \in cli.rows : n = m
      BY <2>1
    <3> QED BY <3>1
  <2> QED BY <2>2, <2>3
<1> QED BY <1>1, CliInvariant, PTL DEF CliInv

\* What devmgr says of a difference is so, for any payloads, whoever compares them and
\* whatever the others do meanwhile: nothing differs when the snapshots are the same,
\* and if nothing differs then a restore would disable the same devices in the same
\* way and tell modprobe the same.
THEOREM DiffsTell == CliSpec => []DiffTells
<1>1. VerbsAssumption
  BY VerbsAssumption
<1>2. CompareInv => DiffTells
  <2> DEFINE target == IF call.ids[2] = None THEN live ELSE call.ids[2]
  <2>1. SUFFICES ASSUME CompareInv, JustCompared
                 PROVE  /\ call.ids[1] = target => call.diff = {}
                        /\ call.diff = {} => SameEffect(call.ids[1], target)
    BY DEF DiffTells
  <2>2. IsPayload(call.ids[1]) /\ IsPayload(target)
    BY <1>1, <2>1 DEF CompareInv, VerbsAssumption, Ids
  <2>3. call.diff = diffPayloads(call.ids[1], target)
    BY <2>1 DEF CompareInv
  <2> HIDE DEF target
  <2> QED BY <2>2, <2>3, EmptyDiffTells
<1> QED BY <1>2, CliInvariant, PTL DEF CliInv

\* What exit codes 1, 2 and 3 are about.
LEMMA ExitFacts ==
    ASSUME NEW code, NEW marked
    PROVE  /\ ExitCode(code, marked) \in {1, 2, 3} => code \in Refusals
           /\ ExitCode(code, marked) # 0
BY DEF ExitCode, Refusals

LEMMA ExitStep ==
    ASSUME CallInv, ClientInv, UntouchedInv, WorkInv, cli.at # "exited", CliNext,
           cli'.at = "exited"
    PROVE  ExitSays
<1>0. {"at", "verb", "words", "found", "rows", "code"} \subseteq DOMAIN cli
  BY DEF CallInv
<1>1. ASSUME did = {}, cli'.code # 0 PROVE ExitSays
  BY <1>1 DEF ExitSays
<1>2. ASSUME NEW c \in Commands, Start(c.verb, c.words) PROVE ExitSays
  <2>1. cli'.at \in {"resolve", "act"} \/ cli'.code = ExitCode("InvalidArgs", FALSE)
    BY <1>2 DEF Start, NoProcess, ClientInv
  <2>2. did = {}
    BY <1>2 DEF Start, ClientInv
  <2> QED BY <1>1, <2>1, <2>2, ExitFacts
<1>3. CASE SendFails
  <2>1. did = {}
    BY <1>3 DEF SendFails, ClientInv
  <2>2. \E code, marked : cli'.code = ExitCode(code, marked)
    BY <1>0, <1>3 DEF SendFails, ReportError, Exit
  <2> QED BY <1>1, <2>1, <2>2, ExitFacts
<1>4. CASE GiveUp
  <2>1. cli'.code = 4
    BY <1>0, <1>4 DEF GiveUp, ReportError, Exit, ExitCode, CoreError, NotAnswering
  <2> QED BY <2>1 DEF ExitSays
<1>5. CASE Hear
  <2>1. call.caller = "cli" /\ call.at = "answered" /\ UNCHANGED <<vars, live>>
    BY <1>5 DEF Hear, Answered
  <2>2. CASE call.answer.code # "ok"
    <3>1. cli'.code = ExitCode(call.answer.code, call.answer.marked)
      BY <1>0, <1>5, <2>2 DEF Hear, ReportError, Exit
    <3>2. cli'.code # 0 /\ (cli'.code \in {1, 2, 3} => did = {})
      BY <2>1, <3>1, ExitFacts DEF UntouchedInv
    <3> QED BY <3>2 DEF ExitSays
  <2>3. CASE call.answer.code = "ok" /\ cli.at = "resolving"
    <3>1. did = {}
      BY <2>3 DEF ClientInv
    <3>2. cli'.code = ExitCode("NotFound", FALSE)
      BY <1>0, <1>5, <2>3 DEF Hear, resolveId, Resolved, ReportError, Exit
    <3> QED BY <1>1, <3>1, <3>2, ExitFacts
  <2>4. CASE call.answer.code = "ok" /\ cli.at # "resolving"
    <3>1. cli' = [cli EXCEPT !.at = "exited", !.code = 0]
      BY <1>5, <2>4 DEF Hear, Exit
    <3>2. cli'.code = 0 /\ cli'.verb = cli.verb /\ cli'.found = cli.found
      BY <1>0, <3>1
    <3>3. cli.at = "acting"
      BY <2>1, <2>4 DEF CallInv
    <3>4. CASE cli.verb \in {"list", "history", "diff", "preview"}
      <4>1. did = {}
        BY <2>1, <3>3, <3>4 DEF ClientInv, UntouchedInv
      <4> QED BY <3>2, <3>4, <4>1 DEF ExitSays
    <3>5. CASE cli.verb = "create"
      <4>1. head = live
        BY <2>1, <2>4, <3>3, <3>5 DEF ClientInv, WorkInv
      <4> QED BY <3>2, <3>5, <4>1 DEF ExitSays
    <3>6. CASE cli.verb \in {"restore", "delete"}
      <4>1. call.verb = cli.verb /\ call.ids = cli.found
        BY <3>3, <3>6 DEF ClientInv
      <4>2. /\ cli.verb = "delete" => cli.found[1] \notin DOMAIN files
            /\ cli.verb = "restore" => live.entries = cli.found[1].entries
        BY <2>1, <2>4, <4>1 DEF WorkInv
      <4> QED BY <3>2, <3>6, <4>2 DEF ExitSays
    <3> QED BY <3>3, <3>4, <3>5, <3>6 DEF ClientInv
  <2> QED BY <2>2, <2>3, <2>4
<1>6. CASE Send \/ OtherCalls \/ OtherHears \/ Devmgrd \/ Disk
  <2>1. cli'.at # "exited"
    BY <1>0, <1>6 DEF Send, OtherCalls, OtherHears, Devmgrd, Disk
  <2> QED BY <2>1
<1> QED BY <1>2, <1>3, <1>4, <1>5, <1>6 DEF CliNext

\* An exit code tells a script what happened, for any commands, faults and number
\* of calls of other clients.
THEOREM ExitCodesTell == CliSpec => ExitCodeTells
<1>1. CliInv /\ [CliNext]_cliVars =>
        [cli.at # "exited" /\ cli'.at = "exited" => ExitSays]_cliVars
  <2> SUFFICES ASSUME CliInv, CliNext, cli.at # "exited", cli'.at = "exited" PROVE ExitSays
    OBVIOUS
  <2> QED BY ExitStep DEF CliInv
<1> QED BY <1>1, CliInvariant, PTL DEF CliSpec, ExitCodeTells
=============================================================================
