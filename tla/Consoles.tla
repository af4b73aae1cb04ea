------------------------------ MODULE Consoles ------------------------------
(***************************************************************************)
(* The two front ends over one client: which one runs is chosen at the     *)
(* start.  This module states what a user of either may rely on.           *)
(***************************************************************************)
EXTENDS Tui, Gui

vars == <<modelVars, shellVars, tuiVars, guiVars>>

Init == InitSnapshots /\ InitShell /\ InitGui /\ focus = "list"

\* The user is free to do nothing; everything else goes on.
Background ==
    \/ Worker /\ UNCHANGED shellVars /\ UNCHANGED tuiVars /\ UNCHANGED guiVars
    \/ TuiDrain /\ UNCHANGED guiVars
    \/ GuiDrain /\ UNCHANGED tuiVars
    \/ (Drain \/ Unwind) /\ UNCHANGED tuiVars /\ UNCHANGED guiVars

Gone == loop = "gone" /\ UNCHANGED vars

Next ==
    \/ TuiKey /\ UNCHANGED guiVars
    \/ GuiInput /\ UNCHANGED tuiVars
    \/ Outage /\ UNCHANGED shellVars /\ UNCHANGED tuiVars /\ UNCHANGED guiVars
    \/ Background
    \/ Gone

Fairness ==
    /\ WF_vars(Worker /\ UNCHANGED <<shellVars, tuiVars, guiVars>>)
    /\ WF_vars(TuiDrain /\ UNCHANGED guiVars)
    /\ WF_vars(GuiDrain /\ UNCHANGED tuiVars)
    /\ WF_vars((Drain \/ Unwind) /\ UNCHANGED <<tuiVars, guiVars>>)

Spec == Init /\ [][Next]_vars /\ Fairness

-----------------------------------------------------------------------------
\* The type invariant of the client and of both front ends.
TypeOK == SnapshotsTypeOK /\ ShellTypeOK /\ GuiTypeOK /\ focus \in {"list", "filter"}

\* The terminal front end keeps the promise of Console: nothing that happens
\* behind a modal, a key included, changes what its answer submits.
TuiConsole == INSTANCE Console
    WITH prompt <- TuiPrompt,
         submitted <- IF surface = "tui" THEN submitted ELSE NoPrompt,
         Prompts <- [verb : Verbs, target : Targets]
TuiImplementsConsole == TuiConsole!Spec

\* The Qt front end submits a verb other than a restore only from the topmost
\* dialog, and for the target this dialog names: the closures that run in the
\* event loop of the dialog move the selection and never the target.
GuiAsksFirst ==
    [][surface = "gui" /\ submitted' # submitted /\ submitted'.verb # "restore" =>
         /\ prompts # <<>>
         /\ submitted' = Asked(Head(prompts).verb, Head(prompts).shown)]_vars

\* A restore in the Qt front end is a restore of the snapshot whose preview was
\* confirmed (snapshot-ui spec).
RestorePreviewed ==
    [][surface = "gui" /\ submitted' # submitted /\ submitted'.verb = "restore" =>
         Head(prompts).shown = submitted'.target]_vars

\* What the user does not do never moves the cursor to another snapshot while the
\* one under it is still listed: refreshes, filters and rebuilds keep it by id.
CursorKept ==
    [][\/ Selected(vm) = None \/ Selected(vm) \notin Shown(vm') \/ Selected(vm') = Selected(vm)
       \/ \E row \in 1..MaxSnapshots : TuiSelect(row) \/ GuiSelect(row)]_vars

\* No task runs once the facade is gone: every future is waited for, by the front
\* end or by the view model that keeps it.
NoTaskOutlives == loop = "gone" => jobs = <<>>

\* Somebody is about to give the rows the facade's list: the closure is posted or
\* between its two lines, or a worker that has stored a list has yet to publish it.
RebuildToCome ==
    \/ \E i \in DOMAIN posted : posted[i] = "rebuild"
    \/ vm.closure = "rebuild"
    \/ \E i \in DOMAIN jobs : jobs[i].kind = "list" /\ jobs[i].at \in {"observe", "publish", "post"}

\* The rows on the screen are those of the facade's list, unless a rebuild is to
\* come: whatever the workers do between the lines of queueRebuild and of its
\* closure, a list that was stored is never left off the screen.
RowsFollow == loop = "running" /\ vm.metas # list => RebuildToCome
=============================================================================
