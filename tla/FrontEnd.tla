------------------------------ MODULE FrontEnd -------------------------------
(***************************************************************************)
(* What the terminal and the Qt front end share: the four tabs, the        *)
(* prompts, the futures they keep, and the teardown, which runTuiApp and   *)
(* runGuiApp spell out in the same order.                                  *)
(*                                                                         *)
(* On the Devices, Modules and Updates tabs the selected row, the verdict  *)
(* of the advisory guard and the state of the row are inputs: Items are    *)
(* what may be selected there.  A verb that is refused locally only puts a *)
(* line on the status line.                                                *)
(***************************************************************************)
EXTENDS SnapshotsVM

CONSTANTS
    Items,      \* devices, modules and updates
    MaxKeys,    \* bound: verbs and tab changes of the user
    MaxJobs     \* bound: tasks in flight when the user starts another

ASSUME FrontEndAssumption ==
    MaxKeys \in Nat /\ MaxJobs \in Nat /\ None \notin Items /\ Items \cap Snapshots = {}

VARIABLES
    surface,    \* the front end that runs
    tab,        \* the tab on the screen
    prompts,    \* the prompts on the screen, the topmost first
    diffFor,    \* the snapshot the diff pane says it describes, None when it is closed
    submitted,  \* the verb submitted last from a prompt
    loop,       \* the event loop, then the teardown
    keys        \* verbs and tab changes so far

shellVars == <<surface, tab, prompts, diffFor, submitted, loop, keys>>

Tabs == {"devices", "modules", "updates", "snapshots"}

\* A prompt: the verb and the target its callback captured, and the target the
\* prompt names.  Enable, disable, bind and unbind are one "device" verb.
Targets == Items \cup Snapshots \cup {None}
Verbs ==
    {"device", "load", "unload", "install", "create", "restore", "delete", "quit"}
Ask(verb, target) == [verb |-> verb, target |-> target, shown |-> target]
Asked(verb, target) == [verb |-> verb, target |-> target]
NoPrompt == Asked("none", None)

InitShell ==
    /\ surface \in {"tui", "gui"}
    /\ tab = "devices" /\ prompts = <<>> /\ diffFor = None
    /\ submitted = NoPrompt /\ loop = "running" /\ keys = 0

\* The user acts: the loop runs and the bounds leave room.
Input(who) ==
    /\ surface = who /\ loop = "running" /\ InNoClosure
    /\ keys < MaxKeys /\ Len(jobs) < MaxJobs
    /\ keys' = keys + 1

Push(kind, id) == jobs' = Append(jobs, Task(kind, id, "pending"))

\* facade.installActive()
Installing == \E i \in DOMAIN jobs : jobs[i].kind = "install"

\* The task of a verb; its future goes to the pending set.  A second install is
\* refused on the spot.
PushVerb(verb, target) ==
    CASE verb = "install" /\ Installing -> UNCHANGED jobs
      [] verb \in {"restore", "delete", "create"} \/ (verb = "install" /\ ~Installing) ->
           Push(verb, target)
      [] OTHER -> Push("verb", None)

\* The verbs of a tab that ask y/n about its selected row, or for a text.
AskingVerbs(t) ==
    CASE t = "devices" -> {"device"}
      [] t = "modules" -> {"load", "unload"}
      [] t = "updates" -> {"install"}
      [] t = "snapshots" -> {"create", "delete"}

\* What a verb can be asked about: a row on which the guard and the view model
\* allow it.
Askable(verb) ==
    CASE verb \in {"load", "create"} -> {None}
      [] verb = "delete" -> {Deletable(vm)} \ {None}
      [] OTHER -> Items

-----------------------------------------------------------------------------
(* Teardown: the event sources are stopped, the pending futures waited     *)
(* for, and the view models and then the facade destroyed.                 *)

\* drainPending
Drain ==
    /\ loop = "stopping"
    /\ \A i \in DOMAIN jobs : jobs[i].holder # "pending"
    /\ loop' = "unwinding"
    /\ UNCHANGED <<modelVars, surface, tab, prompts, diffFor, submitted, keys>>

\* Mutant: the destructor waits for the refresh and not for the diff.
UnwindNoDiff ==
    /\ loop = "unwinding"
    /\ ~Running({"list"}, "vm")
    /\ loop' = "gone"
    /\ UNCHANGED <<modelVars, surface, tab, prompts, diffFor, submitted, keys>>

\* ~SnapshotsVM waits for its refresh and its diff; then the facade goes.
Unwind ==
    /\ loop = "unwinding"
    /\ ~Running({"list", "diff"}, "vm")
    /\ loop' = "gone"
    /\ UNCHANGED <<modelVars, surface, tab, prompts, diffFor, submitted, keys>>

ShellTypeOK ==
    /\ surface \in {"tui", "gui"} /\ tab \in Tabs
    /\ \A i \in DOMAIN prompts :
         prompts[i] \in [verb : Verbs, target : Targets, shown : Targets]
    /\ diffFor \in Snapshots \cup {None}
    /\ submitted \in {NoPrompt} \cup [verb : Verbs, target : Targets]
    /\ loop \in {"running", "stopping", "unwinding", "gone"} /\ keys \in 0..MaxKeys
=============================================================================
