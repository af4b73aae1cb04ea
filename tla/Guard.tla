------------------------------- MODULE Guard --------------------------------
(***************************************************************************)
(* critical_device_guard.cpp and criticality.cpp: what devmgrd refuses to  *)
(* switch off and what the front ends mark.  Pure policy over the facts of *)
(* a probe.                                                                *)
(*                                                                         *)
(* A sysfs path is the sequence of the names on it.                        *)
(***************************************************************************)
EXTENDS SequencesExt, FiniteSets, Integers

\* pal::CriticalityFacts: four sets of paths.
NewFacts(root, boot, keyboards, pointers) ==
    [root |-> root, boot |-> boot, keyboards |-> keyboards, pointers |-> pointers]

isUnder(path, prefix) == prefix # <<>> /\ IsPrefix(prefix, path)

anyUnder(paths, target) == \E p \in paths : isUnder(p, target)

\* Mutant: the sole keyboard is the target itself.
SoleEntry(paths, target) == paths = {target}

\* The sole remaining keyboard or pointer.
wouldRemoveAll(paths, target) ==
    paths # {} /\ \A p \in paths : isUnder(p, target)

\* Whether the device at this path may be switched off, with all below it.
evaluateDisable(facts, target) ==
    /\ ~anyUnder(facts.root, target)
    /\ ~anyUnder(facts.boot, target)
    /\ ~wouldRemoveAll(facts.keyboards, target)
    /\ ~wouldRemoveAll(facts.pointers, target)

\* Whether a module may be unloaded: used says that it has holders or a use count.
\* Each device it drives is judged by itself.
evaluateModuleUnload(facts, used, affected) ==
    ~used /\ \A path \in affected : evaluateDisable(facts, path)
=============================================================================
