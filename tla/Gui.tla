-------------------------------- MODULE Gui ---------------------------------
(***************************************************************************)
(* MainWindow: toolbar verbs, dialogs that run an event loop of their own, *)
(* in which posted closures go on running, and the enablement of the       *)
(* verbs, which updateActionPresentation settles and nothing else does.    *)
(***************************************************************************)
EXTENDS FrontEnd

VARIABLES
    restoreFor,     \* pendingPreviewRestoreId_: the restore that waits for its diff
    restoreOff,     \* restoreSnapshotAction_ was disabled by its own handler
    gateUp          \* whether devmgrd was up when the verbs were settled last

guiVars == <<restoreFor, restoreOff, gateUp>>

InitGui == restoreFor = None /\ restoreOff = FALSE /\ gateUp = ~daemonError

Gui == surface = "gui" /\ loop = "running"

\* A toolbar verb or a tab: a dialog blocks both.
Click == Input("gui") /\ prompts = <<>>

\* updateActionPresentation
Present == restoreOff' = FALSE /\ gateUp' = ~daemonError
PresentOn(tabs) == IF tab \in tabs THEN Present ELSE UNCHANGED <<restoreOff, gateUp>>

\* taskExecuted settles the verbs on these tabs only.
Woken == PresentOn({"updates", "snapshots"})

\* currentChanged of the tabs
GuiSwitchTab(t) ==
    /\ Click
    /\ tab' = t
    /\ vm' = IF t = "snapshots" THEN Rebuild(vm) ELSE vm
    /\ CASE t = "updates" -> Push("updates", None)
         [] t = "snapshots" -> Push("list", None)
         [] OTHER -> UNCHANGED jobs
    /\ Present
    /\ UNCHANGED <<facadeVars, posted, surface, prompts, diffFor, submitted, loop, restoreFor>>

\* currentChanged of the list
GuiSelect(row) ==
    /\ Click /\ tab = "snapshots"
    /\ Select(row)
    /\ Present
    /\ UNCHANGED <<surface, tab, prompts, diffFor, submitted, loop, restoreFor>>

\* textChanged, and History: the model is reset.
GuiRows ==
    /\ Click /\ tab = "snapshots"
    /\ \/ \E on \in BOOLEAN : SetFilter(on)
       \/ SetFilter(vm.filtered)
    /\ Present
    /\ UNCHANGED <<surface, tab, prompts, diffFor, submitted, loop, restoreFor>>

\* A verb that asks y/n or for a text; Install alone is not gated on devmgrd.
GuiAsk(verb, target) ==
    /\ Click /\ verb \in AskingVerbs(tab) /\ target \in Askable(verb)
    /\ gateUp \/ verb = "install"
    /\ prompts' = <<Ask(verb, target)>>
    /\ UNCHANGED <<modelVars, surface, tab, diffFor, submitted, loop, guiVars>>

\* Enable or Disable, Bind and Unbind; Load and Unload; Install; Create; Delete.
GuiDeviceVerb == \E target \in Targets : GuiAsk("device", target)
GuiModuleVerb == \E target \in Targets : GuiAsk("load", target) \/ GuiAsk("unload", target)
GuiInstall == \E target \in Targets : GuiAsk("install", target)
GuiCreate == GuiAsk("create", None)
GuiDelete == \E target \in Targets : GuiAsk("delete", target)

\* A refusal is published on this thread: the status line wakes the window.
GuiRefused ==
    /\ Click /\ tab = "snapshots" /\ gateUp
    /\ None \in {Restorable(vm), Deletable(vm)}
    /\ Present
    /\ UNCHANGED <<modelVars, surface, tab, prompts, diffFor, submitted, loop, restoreFor>>

\* Restore Snapshot: its preview opens when the diff lands.
GuiRestore ==
    /\ Click /\ tab = "snapshots" /\ gateUp /\ ~restoreOff
    /\ Restorable(vm) # None
    /\ restoreFor' = Restorable(vm)
    /\ RequestPreview(Restorable(vm))
    /\ restoreOff' = TRUE
    /\ UNCHANGED <<facadeVars, posted, surface, tab, prompts, diffFor, submitted, loop, gateUp>>

\* Diff Snapshot
GuiDiff ==
    /\ Click /\ tab = "snapshots" /\ gateUp
    /\ IF diffFor # None
       THEN diffFor' = None /\ UNCHANGED <<jobs, vm>>
       ELSE Selected(vm) # None /\ diffFor' = Selected(vm) /\ RequestPreview(Selected(vm))
    /\ UNCHANGED <<facadeVars, posted, surface, tab, prompts, submitted, loop, guiVars>>

\* Refresh and Refresh Updates are reads: devmgrd does not gate them.
GuiRefresh ==
    /\ Click
    /\ \/ tab = "devices" /\ Push("refresh", None)
       \/ tab = "updates" /\ Push("updates", None)
    /\ UNCHANGED <<facadeVars, posted, vm, surface, tab, prompts, diffFor, submitted, loop, guiVars>>

\* closeEvent
GuiClose ==
    /\ Click
    /\ IF Installing THEN prompts' = <<Ask("quit", None)>> /\ UNCHANGED loop
       ELSE loop' = "stopping" /\ UNCHANGED prompts
    /\ UNCHANGED <<modelVars, surface, tab, diffFor, submitted, guiVars>>

\* The restore dialog is opened by a closure: the window is woken when it returns.
Returned == IF Head(prompts).verb = "restore" THEN Woken ELSE UNCHANGED <<restoreOff, gateUp>>

\* Mutant: the handler of a deletion reads the selection again after the dialog.
GuiYesRereads ==
    LET target == IF Head(prompts).verb = "delete" THEN Deletable(vm) ELSE Head(prompts).target IN
    /\ Gui /\ InNoClosure /\ prompts # <<>> /\ Len(jobs) < MaxJobs
    /\ prompts' = Tail(prompts)
    /\ submitted' = Asked(Head(prompts).verb, target)
    /\ IF Head(prompts).verb = "quit" THEN loop' = "stopping" /\ UNCHANGED jobs
       ELSE PushVerb(Head(prompts).verb, target) /\ UNCHANGED loop
    /\ Returned
    /\ UNCHANGED <<facadeVars, posted, vm, surface, tab, diffFor, restoreFor, keys>>

\* Yes in the topmost dialog: the handler goes on with the target it read before.
GuiYes ==
    /\ Gui /\ InNoClosure /\ prompts # <<>> /\ Len(jobs) < MaxJobs
    /\ prompts' = Tail(prompts)
    /\ submitted' = Asked(Head(prompts).verb, Head(prompts).target)
    /\ IF Head(prompts).verb = "quit" THEN loop' = "stopping" /\ UNCHANGED jobs
       ELSE PushVerb(Head(prompts).verb, Head(prompts).target) /\ UNCHANGED loop
    /\ Returned
    /\ UNCHANGED <<facadeVars, posted, vm, surface, tab, diffFor, restoreFor, keys>>

GuiNo ==
    /\ Gui /\ InNoClosure /\ prompts # <<>>
    /\ prompts' = Tail(prompts)
    /\ Returned
    /\ UNCHANGED <<modelVars, surface, tab, diffFor, submitted, loop, restoreFor, keys>>

\* The diff-ready hook: the dialog shows previewLines() and captures the
\* snapshot the restore was asked for.
GuiDiffReady ==
    /\ NextPosted("diffReady")
    /\ posted' = Tail(posted) /\ vm' = DropPending(vm)
    /\ IF restoreFor = None THEN UNCHANGED <<prompts, restoreFor>> /\ Woken
       ELSE /\ prompts' = <<[verb |-> "restore", target |-> restoreFor, shown |-> vm.preview]>> \o prompts
            /\ restoreFor' = None
            /\ Present
    /\ UNCHANGED <<facadeVars, jobs, surface, tab, diffFor, submitted, loop, keys>>

\* Qt delivers the posted closures, in a dialog's event loop too; one that has run to
\* its end wakes the window.
GuiDrain ==
    /\ Gui
    /\ \/ GuiDiffReady
       \/ /\ RunRebuild \/ RunRefresh \/ RunRefreshAll
          /\ IF vm'.closure = "none" THEN Woken ELSE UNCHANGED <<restoreOff, gateUp>>
          /\ UNCHANGED <<shellVars, restoreFor>>

GuiInput ==
    \/ \E t \in Tabs : GuiSwitchTab(t)
    \/ \E row \in 1..MaxSnapshots : GuiSelect(row)
    \/ GuiRows \/ GuiRefused
    \/ GuiDeviceVerb \/ GuiModuleVerb \/ GuiInstall \/ GuiCreate \/ GuiDelete
    \/ GuiRestore \/ GuiDiff \/ GuiRefresh \/ GuiClose
    \/ GuiYes \/ GuiNo

GuiTypeOK ==
    restoreFor \in Snapshots \cup {None} /\ restoreOff \in BOOLEAN /\ gateUp \in BOOLEAN
=============================================================================
