---------------------------- MODULE SnapshotDiff ----------------------------
(***************************************************************************)
(* What changed between two snapshot payloads (core/src/snapshot_diff.cpp),*)
(* as the CLI's diff and every restore preview show it: rows for devices,  *)
(* for kernel modules as the directives in the modprobe files configure    *)
(* them, and for files that changed otherwise.                             *)
(*                                                                         *)
(* A payload is [entries, files]: the set of entries for disabled devices, *)
(* each with its key, its last path, its mechanism and whether the guard   *)
(* suspended it; and the devmgr-*.conf files, a name mapped to its lines.  *)
(* A name is a number, its place in the order std::map keeps.              *)
(*                                                                         *)
(* Abstraction: a state is the sequence of directives, not the string that *)
(* joins them with ", ", and a label is a record, not its text; both       *)
(* strings are taken to tell apart what they were made of.                 *)
(***************************************************************************)
EXTENDS Naturals, FiniteSets, Sequences, SequencesExt

DiffRow(kind, key, before, after) == [kind |-> kind, key |-> key, before |-> before, after |-> after]

\* unionKeys and stateOr: one row for each key whose states differ, a key that is
\* missing having the state `otherwise'.
StateOr(states, key, otherwise) == IF key \in DOMAIN states THEN states[key] ELSE otherwise
Rows(kind, before, after, otherwise) ==
    {DiffRow(kind, k, StateOr(before, k, otherwise), StateOr(after, k, otherwise)) :
       k \in {i \in DOMAIN before \cup DOMAIN after :
                StateOr(before, i, otherwise) # StateOr(after, i, otherwise)}}

\* tokenize and the keywords: what a line without its comment directs.  A line
\* of another keyword, or without what its keyword needs, directs nothing.
Directs(line, module) ==
    /\ line.module = module
    /\ \/ line.keyword = "blacklist"
       \/ line.keyword \in {"options", "install"} /\ line.argument # "none"

\* joinFrom: what it adds to the state of its module, where a blacklist needs no
\* more than its keyword.
Directive(line) ==
    [keyword |-> line.keyword,
     argument |-> IF line.keyword = "blacklist" THEN "none" ELSE line.argument]

\* The lines of some files as <<name, number>>, in the order they are read.
Places(files) == UNION {{name} \X DOMAIN files[name] : name \in DOMAIN files}
Line(files, p) == files[p[1]][p[2]]
ReadBefore(p, q) == p[1] < q[1] \/ (p[1] = q[1] /\ p[2] < q[2])
InOrder(S) == CHOOSE s \in SetToSeqs(S) : \A j, k \in DOMAIN s : j < k => ReadBefore(s[j], s[k])

\* collectDirectives: what the lines say of a module, in their order.
Collected(files, module) ==
    LET s == InOrder({p \in Places(files) : Directs(Line(files, p), module)})
    IN [k \in DOMAIN s |-> Directive(Line(files, s[k]))]

\* moduleStates: each module named, with the directives of every file, so one that
\* moves to another file is no change of the module.
Directing(files) == {p \in Places(files) : Directs(Line(files, p), Line(files, p).module)}
moduleStates(files) ==
    [m \in {Line(files, p).module : p \in Directing(files)} |-> Collected(files, m)]
fileModuleStates(lines) == moduleStates([name \in {0} |-> lines])

\* deviceEntryLabel: the key, with the last path where the key has no position;
\* a key without any identity is named by the path alone.
deviceEntryLabel(e) ==
    IF e.position = "none" /\ e.model = "none" THEN [path |-> e.path]
    ELSE [model |-> e.model, serial |-> e.serial,
          place |-> IF e.position # "none" THEN e.position ELSE e.path]

\* deviceStates: an entry that is present stands for a disabled device.
deviceStates(entries) ==
    [l \in {deviceEntryLabel(e) : e \in entries} |->
       (CHOOSE e \in entries : deviceEntryLabel(e) = l).mechanism]

\* Mutant: an entry that is only in the target is not reported.
DiffDevicesOneWay(base, target) ==
    {r \in Rows("device", deviceStates(base.entries), deviceStates(target.entries), "enabled") :
       r.before # "enabled"}

diffDevices(base, target) ==
    Rows("device", deviceStates(base.entries), deviceStates(target.entries), "enabled")

diffModules(base, target) ==
    Rows("module", moduleStates(base.files), moduleStates(target.files), <<>>)

\* diffModprobeFiles: a file that is only on one side, or that is on both and
\* differs although its own directives do not.
FileState(files, other, name) ==
    CASE name \notin DOMAIN files -> "absent"
      [] name \in DOMAIN files /\ name \in DOMAIN other /\ files[name] # other[name]
           /\ fileModuleStates(files[name]) = fileModuleStates(other[name]) -> "edited"
      [] OTHER -> "present"
diffModprobeFiles(base, target) ==
    {DiffRow("modprobe", n,
             IF n \in DOMAIN base.files THEN "present" ELSE "absent",
             FileState(target.files, base.files, n)) :
       n \in {k \in DOMAIN base.files \cup DOMAIN target.files :
                \/ ~(k \in DOMAIN base.files /\ k \in DOMAIN target.files)
                \/ FileState(target.files, base.files, k) = "edited"}}

diffPayloads(base, target) ==
    diffDevices(base, target) \cup diffModules(base, target) \cup diffModprobeFiles(base, target)

-----------------------------------------------------------------------------
(* A payload as devmgrd captures it.  Every key has a position, the last   *)
(* segment of a path (positionFor), and a key has one entry only.          *)
DirectiveLine == [keyword : STRING, module : STRING, argument : STRING]
IsPayload(p) ==
    /\ DOMAIN p = {"entries", "files"}
    /\ \A e \in p.entries : e.position # "none" /\ e.mechanism # "enabled"
    /\ \A e, f \in p.entries :
         e.model = f.model /\ e.serial = f.serial /\ e.position = f.position => e = f
    /\ IsFiniteSet(DOMAIN p.files) /\ DOMAIN p.files \subseteq Nat
    /\ \A name \in DOMAIN p.files : p.files[name] \in Seq(DirectiveLine)

(* What a restore is about: the devices that are disabled, and by which    *)
(* mechanism, and what modprobe is told of each module.                    *)
DisabledBy(payload) ==
    {[model |-> e.model, serial |-> e.serial, position |-> e.position,
      mechanism |-> e.mechanism] : e \in payload.entries}
ToldModprobe(payload) ==
    {<<l.module, Directive(l)>> :
       l \in {k \in UNION {ToSet(payload.files[n]) : n \in DOMAIN payload.files} :
                Directs(k, k.module)}}
SameEffect(p, q) == DisabledBy(p) = DisabledBy(q) /\ ToldModprobe(p) = ToldModprobe(q)
=============================================================================
