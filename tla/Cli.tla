-------------------------------- MODULE Cli ---------------------------------
(***************************************************************************)
(* `devmgr snapshot ...', the recovery command line client: one process    *)
(* that checks its arguments, resolves id prefixes against a listing,      *)
(* makes one call and exits with a code scripts rely on, while other       *)
(* clients use the same devmgrd.                                           *)
(*                                                                         *)
(* A word on the command line is the set of ids it is a prefix of; the     *)
(* empty word is one of every id.  A call that is still queued when its    *)
(* process exits has no caller polkit could ask, and is left out.          *)
(***************************************************************************)
EXTENDS SnapshotVerbs

CONSTANTS
    Commands,   \* what a user may type: verbs with their words
    Others,     \* the verbs other clients call
    MaxOthers   \* bound: calls of other clients

ASSUME CliAssumption ==
    /\ \A c \in Commands : \A n \in DOMAIN c.words : c.words[n] \subseteq Ids
    /\ Others \subseteq {"create", "restore", "delete", "change"} /\ MaxOthers \in Nat

VARIABLES
    cli,    \* the process
    others, \* calls of other clients so far
    did     \* history: what its call changed

cliVars == <<verbVars, cli, others, did>>

EmptyWord == Ids
NoProcess == [at |-> "none", verb |-> "none", words |-> <<>>, found |-> <<>>, rows |-> {}, code |-> 0]
InitCli == InitVerbs /\ cli = NoProcess /\ others = 0 /\ did = {}

Daemon == UNCHANGED <<verbVars, others, did>>
Exit(code) == cli' = [cli EXCEPT !.at = "exited", !.code = code]
ReportError(code, marked) == Exit(ExitCode(code, marked))

-----------------------------------------------------------------------------
(* run and the do functions, up to the call.                               *)

\* Words that are no usage error: list and history take none, create a label.
WellFormed(verb, words) ==
    CASE verb \in {"list", "history", "create"} -> words = <<>>
      [] verb = "diff" -> Len(words) \in {1, 2}
      [] verb \in {"restore", "preview", "delete"} -> Len(words) = 1 /\ words[1] # EmptyWord
      [] OTHER -> FALSE

Start(verb, words) ==
    /\ cli.at = "none"
    /\ cli' = [NoProcess EXCEPT !.verb = verb, !.words = words,
                 !.at = CASE ~WellFormed(verb, words) -> "exited"
                          [] WellFormed(verb, words) /\ words # <<>> -> "resolve"
                          [] OTHER -> "act",
                 !.code = IF WellFormed(verb, words) THEN 0 ELSE ExitCode("InvalidArgs", FALSE)]
    /\ Daemon

\* Each word is resolved with a listing of its own; then the verb is called.
doList == cli.verb \in {"list", "history"} /\ Arrive("cli", "list", <<>>)
doCreate == cli.verb = "create" /\ Arrive("cli", "create", <<"fine">>)
doDiff ==
    /\ cli.verb = "diff"
    /\ Arrive("cli", "diff", <<cli.found[1], IF Len(cli.found) = 2 THEN cli.found[2] ELSE None>>)
printRestorePreview == cli.verb = "preview" /\ Arrive("cli", "diff", <<cli.found[1], None>>)
doRestore == cli.verb = "restore" /\ Arrive("cli", "restore", cli.found)
doDelete == cli.verb = "delete" /\ Arrive("cli", "delete", cli.found)

Send ==
    /\ \/ /\ cli.at = "resolve" /\ Arrive("cli", "list", <<>>)
          /\ cli' = [cli EXCEPT !.at = "resolving"]
       \/ /\ cli.at = "act"
          /\ doList \/ doCreate \/ doDiff \/ printRestorePreview \/ doRestore \/ doDelete
          /\ cli' = [cli EXCEPT !.at = "acting"]
    /\ UNCHANGED <<others, did>>

\* The call cannot be made: devmgrd is not there, is too old, or the bus fails.
Unmade == {CoreError(name) : name \in NotThere \cup {"Other"}} \cup {"Unsupported"}
SendFails ==
    /\ cli.at \in {"resolve", "act"}
    /\ \E code \in Unmade, marked \in BOOLEAN : ReportError(code, marked)
    /\ Daemon

-----------------------------------------------------------------------------
(* The answer.                                                             *)

Word == cli.words[Len(cli.found) + 1]
Matches == {m \in call.rows : m.id \in Word}
Resolved(m) ==
    cli' = [cli EXCEPT !.found = Append(@, m.id), !.rows = @ \cup Matches,
                       !.at = IF Len(cli.found) + 1 < Len(cli.words) THEN "resolve" ELSE "act"]

\* Mutant: an ambiguous prefix means any of its matches.
resolveIdFront ==
    IF Matches = {} THEN ReportError("NotFound", FALSE) ELSE \E m \in Matches : Resolved(m)

\* resolveId: one row of the listing, and only one, has an id the word begins;
\* else the command ends as if there was no such snapshot.
resolveId ==
    \/ \E m \in Matches : Matches = {m} /\ Resolved(m)
    \/ Cardinality(Matches) # 1 /\ ReportError("NotFound", FALSE)

Answered(caller) == call.at = "answered" /\ call.caller = caller
Hear ==
    /\ Answered("cli")
    /\ CASE call.answer.code # "ok" -> ReportError(call.answer.code, call.answer.marked)
         [] call.answer.code = "ok" /\ cli.at = "resolving" -> resolveId
         [] OTHER -> Exit(0)
    /\ call' = NotCalled
    /\ UNCHANGED <<vars, live, others, did>>

\* withTimeout: the call is given up, and devmgrd goes on with it.
GiveUp ==
    /\ cli.at \in {"resolving", "acting"}
    /\ ReportError(CoreError("Timeout"), FALSE)
    /\ call' = [call EXCEPT !.caller = "other"]
    /\ UNCHANGED <<vars, live, others, did>>

-----------------------------------------------------------------------------
(* The other clients, and devmgrd.                                         *)

OtherCalls ==
    /\ others < MaxOthers /\ others' = others + 1
    /\ \E verb \in Others : \E i \in Payloads :
         Arrive("other", verb, IF verb = "create" THEN <<"fine">> ELSE <<i>>)
    /\ UNCHANGED <<cli, did>>
OtherHears ==
    /\ Answered("other") /\ call' = NotCalled /\ UNCHANGED <<vars, live, cli, others, did>>

HealthyIds == {i \in Payloads : Healthy(i)}
Devmgrd ==
    /\ Serve \/ Die
    /\ did' = IF call.caller # "cli" THEN did
              ELSE did \cup (IF live' # live THEN {"live"} ELSE {})
                       \cup (IF head' # head THEN {"head"} ELSE {})
                       \cup (IF HealthyIds' # HealthyIds THEN {"files"} ELSE {})
    /\ UNCHANGED <<cli, others>>

Disk == call.at = "idle" /\ (\E i \in Payloads : Damage(i)) /\ UNCHANGED <<live, call, cli, others, did>>

\* Bound: a behaviour ends with the process.
CliNext ==
  /\ cli.at # "exited"
  /\ \/ \E c \in Commands : Start(c.verb, c.words)
     \/ Send \/ SendFails \/ Hear \/ GiveUp
     \/ OtherCalls \/ OtherHears \/ Devmgrd \/ Disk

CliSpec == InitCli /\ [][CliNext]_cliVars

-----------------------------------------------------------------------------
(* Properties.                                                             *)

\* What the exit code says is so (exitCodeFor, and the order of the daemon's
\* checks): a usage error, an unknown or ambiguous id and a refusal have changed
\* nothing; a command that only shows has changed nothing; success means that the
\* snapshot is gone, that HEAD is what was captured, or that the disabled devices
\* are those of the snapshot that was resolved.
ExitSays ==
    /\ cli'.code \in {1, 2, 3} => did = {}
    /\ cli'.code = 0 =>
         CASE cli.verb = "delete" -> cli.found[1] \notin DOMAIN files
           [] cli.verb = "restore" -> live.entries = cli.found[1].entries
           [] cli.verb = "create" -> head = live
           [] OTHER -> did = {}
ExitCodeTells == [][cli.at # "exited" /\ cli'.at = "exited" => ExitSays]_cliVars

\* "Ambiguous prefix: change nothing": what a restore or a delete acts on is the
\* only snapshot the listing showed for the word that was typed, whatever other
\* clients took or deleted meanwhile.
ActsOnTheMatch ==
    did # {} /\ cli.verb \in {"restore", "delete"} =>
        {m \in cli.rows : m.id \in cli.words[1]} = {CHOOSE m \in cli.rows : m.id = cli.found[1]}

\* A diff says that nothing differs when the payloads are the same, and only when
\* the same devices are disabled in the same way and modprobe is told the same
\* (diffPayloads' labels and directives, against the state at the answer).
JustCompared == call.at = "answered" /\ call.verb = "diff" /\ call.answer.code = "ok"
DiffTells ==
    JustCompared =>
        LET target == IF call.ids[2] = None THEN live ELSE call.ids[2] IN
        /\ call.ids[1] = target => call.diff = {}
        /\ call.diff = {} => SameEffect(call.ids[1], target)

-----------------------------------------------------------------------------
(* Statements of the repository's texts that the code does not meet.       *)

\* restoreGuidanceLines: "The state from before this restore is kept as safety
\* snapshot".  put answers success when HEAD already names the captured state,
\* although HEAD may name a snapshot that was pruned or deleted.
RestoreUndoable ==
    call.at = "answered" /\ call.verb = "restore" /\ call.answer.code = "ok" =>
        call.was \in DOMAIN files

\* "id may be any unique prefix": the whole id of a readable snapshot is one.  A
\* quarantined file of the same id is a second row of the listing.
FullIdResolves ==
    [][Hear /\ cli.at = "resolving" /\ call.answer.code = "ok" =>
         \A i \in Payloads : Word = {i} /\ Healthy(i) => cli'.found # cli.found]_cliVars

\* restorePreviewChangeLines: "This snapshot already matches the current state;
\* nothing would change".
NothingWouldChange ==
    JustCompared /\ call.ids[2] = None /\ call.diff = {} => call.ids[1] = live
=============================================================================
