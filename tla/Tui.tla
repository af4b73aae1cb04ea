-------------------------------- MODULE Tui ---------------------------------
(***************************************************************************)
(* runTuiApp: keys, one modal prompt at a time, and the closures that      *)
(* Event::Custom drains.  A modal swallows every key that does not answer  *)
(* it; a focused filter takes the keys that are not its own.               *)
(***************************************************************************)
EXTENDS FrontEnd

VARIABLE focus      \* the list of the tab, or its filter input

tuiVars == <<focus>>

Tui == surface = "tui" /\ loop = "running"

\* Mutant: the keys of the list reach it behind a modal too.
ListKeyBehindModal == Input("tui") /\ focus = "list"

\* A key that reaches the list: no modal is open and no filter has the focus.
ListKey == Input("tui") /\ prompts = <<>> /\ focus = "list"

\* switchToTab: fresh rows, and fresh data for Updates and Snapshots.
TuiSwitchTab(t) ==
    /\ ListKey
    /\ tab' = t
    /\ vm' = IF t = "snapshots" THEN Rebuild(vm) ELSE vm
    /\ CASE t = "updates" -> Push("updates", None)
         [] t = "snapshots" -> Push("list", None)
         [] OTHER -> UNCHANGED jobs
    /\ UNCHANGED <<facadeVars, posted, surface, prompts, diffFor, submitted, loop, focus>>

\* '/': Updates has no filter.
TuiFocusFilter ==
    /\ ListKey /\ tab # "updates"
    /\ focus' = "filter"
    /\ UNCHANGED <<modelVars, surface, tab, prompts, diffFor, submitted, loop>>

\* routeFilterKey: a character edits the text, Enter keeps it, Escape clears it.
TuiFilterKey ==
    /\ Input("tui") /\ prompts = <<>> /\ focus = "filter"
    /\ \/ SetFilter(IF tab = "snapshots" THEN TRUE ELSE vm.filtered) /\ UNCHANGED focus
       \/ UNCHANGED modelVars /\ focus' = "list"
       \/ SetFilter(IF tab = "snapshots" THEN FALSE ELSE vm.filtered) /\ focus' = "list"
    /\ UNCHANGED <<surface, tab, prompts, diffFor, submitted, loop>>

\* Arrow keys and the mouse.
TuiSelect(row) ==
    /\ ListKey /\ tab = "snapshots"
    /\ Select(row)
    /\ UNCHANGED <<surface, tab, prompts, diffFor, submitted, loop, focus>>

TuiAsk(verb, target) ==
    /\ ListKey /\ verb \in AskingVerbs(tab) /\ target \in Askable(verb)
    /\ prompts' = <<Ask(verb, target)>>
    /\ UNCHANGED <<modelVars, surface, tab, diffFor, submitted, loop, focus>>

\* e, U and B on Devices; l and u on Modules; u on Updates; s and x on Snapshots:
\* the confirmation or the typed input.
TuiDeviceVerb == \E target \in Targets : TuiAsk("device", target)
TuiModuleVerb == \E target \in Targets : TuiAsk("load", target) \/ TuiAsk("unload", target)
TuiInstall == \E target \in Targets : TuiAsk("install", target)
TuiCreate == TuiAsk("create", None)
TuiDelete == \E target \in Targets : TuiAsk("delete", target)

\* r on Snapshots: the preview opens at once and fills in when the diff lands.
TuiRestore ==
    /\ ListKey /\ tab = "snapshots" /\ Restorable(vm) # None
    /\ RequestPreview(Restorable(vm))
    /\ prompts' = <<Ask("restore", Restorable(vm))>>
    /\ UNCHANGED <<facadeVars, posted, surface, tab, diffFor, submitted, loop, focus>>

\* d on Snapshots
TuiDiff ==
    /\ ListKey /\ tab = "snapshots"
    /\ IF diffFor # None
       THEN diffFor' = None /\ UNCHANGED <<jobs, vm>>
       ELSE Selected(vm) # None /\ diffFor' = Selected(vm) /\ RequestPreview(Selected(vm))
    /\ UNCHANGED <<facadeVars, posted, surface, tab, prompts, submitted, loop, focus>>

\* h on Snapshots: the rows are built again, as parent chains or as a list.
TuiHistory ==
    /\ ListKey /\ tab = "snapshots"
    /\ vm' = Rebuild(vm)
    /\ UNCHANGED <<facadeVars, jobs, posted, surface, tab, prompts, diffFor, submitted, loop, focus>>

\* r on Devices and on Updates
TuiRefresh ==
    /\ ListKey
    /\ \/ tab = "devices" /\ Push("refresh", None)
       \/ tab = "updates" /\ Push("updates", None)
    /\ UNCHANGED <<facadeVars, posted, vm, surface, tab, prompts, diffFor, submitted, loop, focus>>

\* q and Escape
TuiQuit ==
    /\ ListKey
    /\ IF Installing THEN prompts' = <<Ask("quit", None)>> /\ UNCHANGED loop
       ELSE loop' = "stopping" /\ UNCHANGED prompts
    /\ UNCHANGED <<modelVars, surface, tab, diffFor, submitted, focus>>

\* y in a modal, or Return in a typed input: the callback runs.
TuiYes ==
    /\ Tui /\ InNoClosure /\ prompts # <<>> /\ Len(jobs) < MaxJobs
    /\ prompts' = Tail(prompts)
    /\ submitted' = Asked(Head(prompts).verb, Head(prompts).target)
    /\ IF Head(prompts).verb = "quit" THEN loop' = "stopping" /\ UNCHANGED jobs
       ELSE PushVerb(Head(prompts).verb, Head(prompts).target) /\ UNCHANGED loop
    /\ UNCHANGED <<facadeVars, posted, vm, surface, tab, diffFor, focus, keys>>

\* n, Escape, or Return on an empty text
TuiNo ==
    /\ Tui /\ InNoClosure /\ prompts # <<>>
    /\ prompts' = Tail(prompts)
    /\ UNCHANGED <<modelVars, surface, tab, diffFor, submitted, loop, focus, keys>>

\* Event::Custom: dispatcher.drain() runs the posted closures.
TuiDrain ==
    /\ Tui
    /\ \/ RunRebuild \/ RunRefresh \/ RunRefreshAll
       \/ /\ NextPosted("diffReady")
          /\ posted' = Tail(posted) /\ vm' = DropPending(vm)
          /\ UNCHANGED <<facadeVars, jobs>>
    /\ UNCHANGED <<shellVars, focus>>

TuiKey ==
    \/ \E t \in Tabs : TuiSwitchTab(t)
    \/ TuiFocusFilter \/ TuiFilterKey
    \/ \E row \in 1..MaxSnapshots : TuiSelect(row)
    \/ TuiDeviceVerb \/ TuiModuleVerb \/ TuiInstall \/ TuiCreate \/ TuiDelete
    \/ TuiRestore \/ TuiDiff \/ TuiHistory \/ TuiRefresh \/ TuiQuit
    \/ TuiYes \/ TuiNo

\* The target a modal names: a restore preview names the snapshot the view model
\* last fetched a diff for, the others the target they were opened with.
TuiPrompt ==
    IF surface # "tui" \/ prompts = <<>> THEN NoPrompt
    ELSE IF Head(prompts).verb = "restore" THEN Asked("restore", vm.preview)
    ELSE Asked(Head(prompts).verb, Head(prompts).shown)
=============================================================================
