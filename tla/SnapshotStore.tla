---------------------------- MODULE SnapshotStore ----------------------------
(***************************************************************************)
(* JsonSnapshotStore (daemon/src/snapshot_store.cpp): one <id>.json file   *)
(* per snapshot plus a HEAD pointer file, under /var/lib/devmgrd/snapshots.*)
(*                                                                         *)
(* Every public operation holds the store mutex from start to end, so the  *)
(* only thing that can happen between two file-system effects of one       *)
(* operation is a crash of the daemon.  An operation is therefore a chain  *)
(* of steps, one per durable effect, and Crash may cut the chain anywhere. *)
(*                                                                         *)
(* Abstraction: a snapshot id is the SHA-256 of the canonical payload, so  *)
(* ids and payloads are identified (the hash is taken to be injective).    *)
(* Names, labels, counts and the JSON text are left out.                   *)
(***************************************************************************)
EXTENDS Naturals, Sequences, FiniteSets

CONSTANTS
    Payloads,   \* captured states; a payload is its own content hash
    None,       \* "no id": empty HEAD, null parent
    KeepAuto,   \* kKeepAutoSnapshots (20 in the code)
    FutureIds,  \* ids whose file a newer daemon wrote before a downgrade
    MaxFiles,   \* bound: snapshot files ever written
    MaxDamage,  \* bound: ids whose file the environment ever damages
    Faults      \* which of "write", "rename" (a quarantine) and "unlink" may fail

ASSUME StoreAssumption ==
    /\ None \notin Payloads
    /\ IsFiniteSet(Payloads)
    /\ KeepAuto \in Nat \ {0}
    /\ FutureIds \subseteq Payloads
    /\ MaxFiles \in Nat /\ MaxDamage \in Nat
    /\ Faults \subseteq {"write", "rename", "unlink"}

VARIABLES
    files,  \* <id>.json files on disk, id -> document
    bad,    \* quarantined <id>.json.bad-<timestamp>[.n] files, id -> documents
    head,   \* content of HEAD
    op,     \* the operation in flight (volatile)
    ret,    \* what the operation that just finished returned
    clock,  \* createdAtUtc source, one tick per file written
    kept    \* history: ids handed out for a manual create, not yet deleted

vars == <<files, bad, head, op, ret, clock, kept>>

Ids == Payloads \cup {None}
Triggers == {"auto", "manual"}

\* A document on disk.  "damaged": does not parse or fails the hash check.
\* "future": formatVersion above kSnapshotFormatVersion.
Document == [health : {"ok", "damaged", "future"}, parent : Ids, at : Nat,
             trigger : Triggers]

PCs == {"idle", "putFile", "putHead", "prune", "victims", "rmHead", "rmDelete"}

Operation == [pc : PCs, id : Ids, trigger : Triggers, fresh : BOOLEAN, next : Ids,
              victims : Seq(Payloads)]

Idle == [pc |-> "idle", id |-> None, trigger |-> "auto", fresh |-> FALSE,
         next |-> None, victims |-> <<>>]

NoReturn == [verb |-> "none", ok |-> FALSE, id |-> None, fresh |-> FALSE]
Return(verb, ok, id, fresh) == [verb |-> verb, ok |-> ok, id |-> id, fresh |-> fresh]

Returns == [verb : {"none", "put", "read", "list", "remove"}, ok : BOOLEAN, id : Ids,
            fresh : BOOLEAN]

Healthy(i) == i \in DOMAIN files /\ files[i].health = "ok"
Damaged == {i \in DOMAIN files : files[i].health = "damaged"}

-----------------------------------------------------------------------------
(* atomicWriteFile: "fail" stops before the rename and changes nothing;    *)
(* "late" is a failed fsync of the directory after the rename, which       *)
(* reports an error for a file that has already been replaced.             *)
Outcomes == IF "write" \in Faults THEN {"ok", "fail", "late"} ELSE {"ok"}
Written(outcome) == outcome \in {"ok", "late"}

\* fs::remove either unlinks or reports an error.
RemoveOutcomes == IF "unlink" \in Faults THEN {"ok", "fail"} ELSE {"ok"}

WithoutFiles(S) == [i \in DOMAIN files \ S |-> files[i]]

\* quarantineFile renames the files in S aside, each to an unused name, so no
\* earlier evidence is replaced.
Quarantine(S) ==
    /\ files' = WithoutFiles(S)
    /\ bad' = [i \in Payloads |-> IF i \in S THEN Append(bad[i], files[i]) ELSE bad[i]]

\* Errors of the quarantine rename are swallowed, so any part of it may fail.
QuarantineChoices(S) == IF "rename" \in Faults THEN SUBSET S ELSE {S}

-----------------------------------------------------------------------------
(* scanLocked and orderNewestFirst.                                        *)

Meta(i, src, health, parent, at, trigger) ==
    [id |-> i, src |-> src, health |-> health, parent |-> parent, at |-> at,
     trigger |-> trigger]

\* One directory entry as scanLocked reports it.  A file found damaged by
\* this very scan is reported from an empty document; one quarantined earlier
\* still shows the fields that parse.
\* The store names a file after the document's own id; bestEffortMeta prefers the
\* latter, so damage that alters the id inside a file is left out.
ScanFile(i) ==
    IF files[i].health = "damaged"
    THEN Meta(i, <<"json", 0>>, "corrupt", None, 0, "auto")
    ELSE Meta(i, <<"json", 0>>, files[i].health, files[i].parent, files[i].at, files[i].trigger)

ScanBad(i, n) ==
    Meta(i, <<"bad", n>>, "corrupt", bad[i][n].parent, bad[i][n].at, bad[i][n].trigger)

Scan == {ScanFile(i) : i \in DOMAIN files}
          \cup UNION {{ScanBad(i, n) : n \in DOMAIN bad[i]} : i \in Payloads}

\* byId.emplace keeps the first entry the directory iteration returned for an
\* id; the order of a directory iteration is unspecified.
Picks == {p \in [{m.id : m \in Scan} -> Scan] : \A i \in DOMAIN p : p[i].id = i}

\* The HEAD -> parent walk over the picked entries.  It ends at an id with no
\* entry; positions after a revisit (the code's `taken' set) repeat earlier ids
\* and do not matter, since only first positions count.
Steps == 0 .. Cardinality(Payloads)

Walks(p) ==
    {w \in [Steps -> Ids] :
        /\ w[0] = head
        /\ \A n \in Steps \ {0} :
             w[n] = IF w[n - 1] \in DOMAIN p THEN p[w[n - 1]].parent ELSE None}

OnChain(w, m) == \E n \in Steps : w[n] = m.id

\* m is met strictly before k on the chain.
MetBefore(w, m, k) ==
    \E n \in Steps : w[n] = m.id /\ \A j \in 0 .. n : w[j] # k.id

\* What list() returns: the picked entry of every id on the chain, then every
\* entry whose id is off the chain.
Listed(p, w) == {m \in Scan : OnChain(w, m) => m = p[m.id]}

\* m is strictly before k in the newest-first order; entries off the chain
\* with the same timestamp keep directory order, which is unspecified.
NewerThan(w, m, k) ==
    \/ MetBefore(w, m, k)
    \/ ~OnChain(w, m) /\ ~OnChain(w, k) /\ m.at > k.at

\* Mutants: the prune counts manual snapshots, or files it cannot read.
PruneAnyTrigger(p, w) == {m \in Listed(p, w) : m.health = "ok"}
PruneAnyHealth(p, w) == {m \in Listed(p, w) : m.trigger = "auto"}

\* pruneLocked counts the healthy auto snapshots only.
PruneCandidates(p, w) == {m \in Listed(p, w) : m.health = "ok" /\ m.trigger = "auto"}

\* Mutants: one snapshot too many is kept, or none is.
KeepOneMore(n) == IF n > KeepAuto + 1 THEN n - KeepAuto - 1 ELSE 0
KeepNone(n) == IF n > KeepAuto THEN n ELSE 0

\* It keeps the first KeepAuto of the order and deletes the rest, newest first.
VictimCount(n) == IF n > KeepAuto THEN n - KeepAuto ELSE 0

VictimOrders(p, w) ==
    LET C == PruneCandidates(p, w)
    IN {vs \in [1 .. VictimCount(Cardinality(C)) -> C] :
          /\ \A a, b \in DOMAIN vs : a < b => vs[a] # vs[b] /\ ~NewerThan(w, vs[b], vs[a])
          /\ \A a \in DOMAIN vs : \A k \in C :
               (\A b \in DOMAIN vs : vs[b] # k) => ~NewerThan(w, vs[a], k)}

-----------------------------------------------------------------------------
Init ==
    /\ files = [i \in FutureIds |->
                  [health |-> "future", parent |-> None, at |-> 0, trigger |-> "auto"]]
    /\ bad = [i \in Payloads |-> <<>>]
    /\ head = None
    /\ op = Idle
    /\ ret = NoReturn
    /\ clock = 0
    /\ kept = {}

\* put(), up to its first durable effect.  Unchanged state is deduplicated
\* against HEAD; a payload already on disk only moves HEAD.
PutBegin(i, trigger) ==
    /\ op.pc = "idle"
    /\ IF head = i
       THEN /\ ret' = Return("put", TRUE, i, FALSE)
            /\ kept' = IF trigger = "manual" THEN kept \cup {i} ELSE kept
            /\ op' = op
       ELSE /\ i \in DOMAIN files \/ clock < MaxFiles
            /\ op' = [Idle EXCEPT !.pc = IF i \in DOMAIN files THEN "putHead" ELSE "putFile",
                                  !.id = i, !.trigger = trigger, !.next = head,
                                  !.fresh = i \notin DOMAIN files]
            /\ ret' = NoReturn
            /\ UNCHANGED kept
    /\ UNCHANGED <<files, bad, head, clock>>

NewDocument == [health |-> "ok", parent |-> op.next, at |-> clock + 1, trigger |-> op.trigger]

\* Mutant: the error of the document's write is ignored.
PutWriteFileUnchecked ==
    /\ op.pc = "putFile"
    /\ \E o \in Outcomes :
         files' = IF Written(o)
                  THEN [i \in DOMAIN files \cup {op.id} |->
                          IF i = op.id THEN NewDocument ELSE files[i]]
                  ELSE files
    /\ clock' = clock + 1
    /\ op' = [op EXCEPT !.pc = "putHead"]
    /\ UNCHANGED <<bad, head, ret, kept>>

PutWriteFile ==
    /\ op.pc = "putFile"
    /\ \E o \in Outcomes :
         /\ files' = IF Written(o)
                     THEN [i \in DOMAIN files \cup {op.id} |->
                             IF i = op.id THEN NewDocument ELSE files[i]]
                     ELSE files
         /\ clock' = IF Written(o) THEN clock + 1 ELSE clock
         /\ IF o = "ok"
            THEN op' = [op EXCEPT !.pc = "putHead"] /\ ret' = ret
            ELSE op' = Idle /\ ret' = Return("put", FALSE, op.id, FALSE)
    /\ UNCHANGED <<bad, head, kept>>

\* put()'s return to the caller.
FinishPut ==
    /\ op' = Idle
    /\ ret' = Return("put", TRUE, op.id, op.fresh)
    /\ kept' = IF op.trigger = "manual" THEN kept \cup {op.id} ELSE kept

PutWriteHead ==
    /\ op.pc = "putHead"
    /\ \E o \in Outcomes :
         /\ head' = IF Written(o) THEN op.id ELSE head
         /\ \/ /\ o = "ok" /\ op.fresh
               /\ op' = [op EXCEPT !.pc = "prune"]
               /\ UNCHANGED <<ret, kept>>
            \/ o = "ok" /\ ~op.fresh /\ FinishPut
            \/ /\ o # "ok"
               /\ op' = Idle
               /\ ret' = Return("put", FALSE, op.id, FALSE)
               /\ UNCHANGED kept
    /\ UNCHANGED <<files, bad, clock>>

\* pruneLocked: the scan quarantines whatever fails its check, then the
\* victims are unlinked one by one, ignoring errors.
PruneScan ==
    /\ op.pc = "prune"
    /\ \E p \in Picks : \E w \in Walks(p) : \E vs \in VictimOrders(p, w) :
         op' = [op EXCEPT !.pc = "victims", !.victims = [k \in DOMAIN vs |-> vs[k].id]]
    /\ \E S \in QuarantineChoices(Damaged) : Quarantine(S)
    /\ UNCHANGED <<head, ret, clock, kept>>

PruneDelete ==
    /\ op.pc = "victims" /\ op.victims # <<>>
    /\ \E o \in RemoveOutcomes :
         files' = IF o = "ok" THEN WithoutFiles({Head(op.victims)}) ELSE files
    /\ op' = [op EXCEPT !.victims = Tail(op.victims)]
    /\ UNCHANGED <<bad, head, ret, clock, kept>>

PruneEnd ==
    /\ op.pc = "victims" /\ op.victims = <<>>
    /\ FinishPut
    /\ UNCHANGED <<files, bad, head, clock>>

\* readLocked: refuses what is absent or from the future, quarantines what is
\* damaged.
ReadLocked(i) == \E S \in QuarantineChoices({i} \cap Damaged) : Quarantine(S)

Read(i) ==
    /\ op.pc = "idle"
    /\ ReadLocked(i)
    /\ ret' = Return("read", Healthy(i), i, FALSE)
    /\ UNCHANGED <<head, op, clock, kept>>

List ==
    /\ op.pc = "idle"
    /\ \E S \in QuarantineChoices(Damaged) : Quarantine(S)
    /\ ret' = Return("list", TRUE, None, FALSE)
    /\ UNCHANGED <<head, op, clock, kept>>

\* remove(): only a readable snapshot can be deleted; HEAD moves first.
RemoveBegin(i) ==
    /\ op.pc = "idle"
    /\ ReadLocked(i)
    /\ IF Healthy(i)
       THEN /\ op' = [Idle EXCEPT !.pc = IF head = i THEN "rmHead" ELSE "rmDelete",
                                  !.id = i, !.next = files[i].parent]
            /\ ret' = NoReturn
       ELSE /\ op' = op
            /\ ret' = Return("remove", FALSE, i, FALSE)
    /\ UNCHANGED <<head, clock, kept>>

RemoveWriteHead ==
    /\ op.pc = "rmHead"
    /\ \E o \in Outcomes :
         /\ head' = IF Written(o) THEN op.next ELSE head
         /\ IF o = "ok"
            THEN op' = [op EXCEPT !.pc = "rmDelete"] /\ ret' = ret
            ELSE op' = Idle /\ ret' = Return("remove", FALSE, op.id, FALSE)
    /\ UNCHANGED <<files, bad, clock, kept>>

RemoveDelete ==
    /\ op.pc = "rmDelete"
    /\ \E o \in RemoveOutcomes :
         /\ files' = IF o = "ok" THEN WithoutFiles({op.id}) ELSE files
         /\ kept' = IF o = "ok" THEN kept \ {op.id} ELSE kept
         /\ ret' = Return("remove", o = "ok", op.id, FALSE)
    /\ op' = Idle
    /\ UNCHANGED <<bad, head, clock>>

\* The daemon dies; only the disk survives (tmp files are never listed).
Crash ==
    /\ op.pc # "idle"
    /\ op' = Idle
    /\ ret' = NoReturn
    /\ UNCHANGED <<files, bad, head, clock, kept>>

\* Environment: a stored document is damaged; whether its metadata still
\* parses is open.
EverDamaged == Damaged \cup {i \in Payloads : bad[i] # <<>>}
Damage(i) ==
    /\ op.pc = "idle"
    /\ Healthy(i)
    /\ Cardinality(EverDamaged) < MaxDamage
    /\ \E doc \in {[files[i] EXCEPT !.health = "damaged"],
                   [health |-> "damaged", parent |-> None, at |-> 0, trigger |-> "auto"]} :
         files' = [files EXCEPT ![i] = doc]
    /\ ret' = NoReturn
    /\ UNCHANGED <<bad, head, op, clock, kept>>

Next ==
    \/ \E i \in Payloads, t \in Triggers : PutBegin(i, t)
    \/ PutWriteFile \/ PutWriteHead \/ PruneScan \/ PruneDelete \/ PruneEnd
    \/ \E i \in Payloads : Read(i) \/ RemoveBegin(i) \/ Damage(i)
    \/ List
    \/ RemoveWriteHead \/ RemoveDelete
    \/ Crash

Spec == Init /\ [][Next]_vars

-----------------------------------------------------------------------------
(* Properties.                                                             *)

\* Every variable stays in its type; an operation in flight carries a real id,
\* and a prune only ever holds ids it read from healthy files.
DiskType ==
    /\ DOMAIN files \subseteq Payloads
    /\ \A i \in DOMAIN files : files[i] \in Document
    /\ bad \in [Payloads -> Seq(Document)]
    /\ head \in Ids
    /\ clock \in Nat
    /\ kept \subseteq Payloads
OpType == op \in Operation /\ (op.pc # "idle" => op.id \in Payloads)
TypeOK == DiskType /\ OpType /\ ret \in Returns

\* Evidence is never destroyed: a file that does not verify leaves its name
\* only by being renamed to a .bad file, a newer-format file is never touched,
\* and a .bad file is never removed or replaced (quarantineFile's fresh names,
\* readLocked's refusals, pruneLocked's health test), crashes included.
EvidenceStep ==
    /\ \A i \in Payloads : \A n \in DOMAIN bad[i] :
         n \in DOMAIN bad'[i] /\ bad'[i][n] = bad[i][n]
    /\ \A i \in DOMAIN files : files[i].health # "ok" =>
         \/ i \in DOMAIN files' /\ files'[i] = files[i]
         \/ /\ files[i].health = "damaged" /\ i \notin DOMAIN files'
            /\ \E n \in DOMAIN bad'[i] \ DOMAIN bad[i] : bad'[i][n] = files[i]
EvidencePreserved == [][EvidenceStep]_vars

\* A manual snapshot leaves the store only because remove() was asked for that
\* very id or because it was damaged and quarantined: no prune, whatever order
\* it computed, and no crash may lose it; while it stays, its document never
\* changes ("content-addressed files are immutable once written").
ManualStep ==
    \A i \in DOMAIN files : Healthy(i) /\ files[i].trigger = "manual" =>
        \/ i \in DOMAIN files' /\ (files'[i] = files[i] \/ files'[i].health = "damaged")
        \/ i \notin DOMAIN files' /\ op.pc = "rmDelete" /\ op.id = i
ManualOnlyOnRequest == [][ManualStep]_vars

\* The file HEAD names stays there: neither pruneLocked nor remove(), cut by a
\* crash at any point, unlinks the file of the current HEAD.  HEAD can start
\* to name a missing file only by its file being quarantined or by remove()
\* moving HEAD to a parent that is itself already gone.
HeadStep ==
    head \in DOMAIN files /\ head' \notin DOMAIN files' =>
        \/ head' = head /\ files[head].health = "damaged"
        \/ op.pc = "rmHead" /\ head' = op.next
HeadFileKept == [][HeadStep]_vars

\* A put that created a new snapshot and reported success left a snapshot that
\* can be read back: its own trailing prune, with any directory order, parent
\* cycle or .bad sibling, does not count it among the victims.
FreshPutReadable == ret.verb = "put" /\ ret.ok /\ ret.fresh => Healthy(ret.id)

\* Retention: when a new snapshot was stored and no unlink failed, at most
\* KeepAuto healthy auto snapshots remain, even when crashes cut earlier
\* prunes.  An id that also has a .bad sibling may be hidden from the count.
UnshadowedAutos ==
    {i \in DOMAIN files : /\ Healthy(i) /\ files[i].trigger = "auto"
                          /\ bad[i] = <<>>}
PruneBound ==
    ret.verb = "put" /\ ret.ok /\ ret.fresh => Cardinality(UnshadowedAutos) <= KeepAuto

-----------------------------------------------------------------------------
(* Statements of the repository's comments and specs that the code does    *)
(* not meet.                                                               *)

\* snapshot-lifecycle spec: a mutation must not proceed without its safety
\* net, which is what a successful put stands for.  Dedupe compares with HEAD
\* only, and answers success for a HEAD whose file is gone.
PutIsSafetyNet == ret.verb = "put" /\ ret.ok => ret.id \in DOMAIN files

\* snapshot-store spec: "Manual snapshots SHALL be exempt from pruning and
\* persist until explicitly deleted".  A manual create deduplicated onto an
\* auto snapshot leaves it "auto", and a later prune deletes it.
ManualPersists == EverDamaged = {} => kept \subseteq DOMAIN files
=============================================================================
