---------------------------- MODULE SnapshotVerbs ----------------------------
(***************************************************************************)
(* The snapshot verbs of devmgrd: RequestProcessor's validation and polkit *)
(* question, and SnapshotService over the store and the live state, which  *)
(* is the set of disabled devices and the devmgr-*.conf files.             *)
(*                                                                         *)
(* One call is in hand at a time; the store's operations are the steps of  *)
(* SnapshotStore, and a crash may cut a verb anywhere.  A payload is its   *)
(* own id.  What a restore does to the hardware is in Devmgrd.             *)
(***************************************************************************)
EXTENDS SnapshotStore, SnapshotDiff, Wire

CONSTANT
    VerbFaults  \* whether polkit, or saving state.json or a .conf file, may fail

ASSUME VerbsAssumption ==
    /\ VerbFaults \in BOOLEAN
    /\ \A i \in Payloads : IsPayload(i)

VARIABLES
    live,   \* what capturePayload captures now
    call    \* the verb in hand

verbVars == <<vars, live, call>>

NotCalled == [at |-> "idle", verb |-> "none", caller |-> "none", ids |-> <<>>, was |-> None,
              rows |-> {}, diff |-> {}, answer |-> [code |-> "none", marked |-> FALSE]]
InHand(step) == call.at = step /\ op.pc = "idle"
Step(step) == call' = [call EXCEPT !.at = step]

InitVerbs == Init /\ live \in Payloads /\ call = NotCalled

-----------------------------------------------------------------------------
(* valueOrThrow and coreErrorFor: the code the caller receives; marked is  *)
(* that an I/O failure's text looks like an unreachable daemon.            *)
Reply(code, marked) ==
    call' = [call EXCEPT !.at = "answered",
                         !.answer = [code |-> IF code = "ok" THEN code ELSE CoreError(ErrorName(code)),
                                     marked |-> marked]]
Fails(code) == Reply(code, FALSE)

\* A client's call arrives when no other one is in hand; "change" is any verb that
\* changes the live state and captures it first (snapshotBefore).
Arrive(caller, verb, ids) ==
    /\ InHand("idle")
    /\ call' = [NotCalled EXCEPT !.at = "called", !.verb = verb, !.caller = caller, !.ids = ids]
    /\ UNCHANGED <<vars, live>>

\* snapshotId, where the empty target of a diff is the live state, and snapshotLabel.
Validated ==
    CASE call.verb = "create" -> ValidLabel(call.ids[1])
      [] call.verb = "diff" -> call.ids[1] \in Payloads /\ call.ids[2] \in Ids
      [] call.verb \in {"restore", "delete"} -> call.ids[1] \in Payloads
      [] OTHER -> TRUE

\* authorize: list and diff ask nobody.  polkit refuses, or it cannot be asked,
\* and the text of that failure is the bus's.
Asked == {"create", "restore", "delete", "change"}
Authorized ==
    \/ Step(call.verb)
    \/ call.verb \in Asked /\ Fails("Permission")
    \/ call.verb \in Asked /\ VerbFaults /\ \E marked \in BOOLEAN : Reply("Io", marked)

Take ==
    /\ InHand("called")
    /\ IF Validated THEN Authorized ELSE Fails("InvalidArgs")
    /\ UNCHANGED <<vars, live>>

\* readLocked's refusals.
ReadCode(i) ==
    CASE Healthy(i) -> "ok"
      [] i \notin DOMAIN files /\ bad[i] = <<>> -> "NotFound"
      [] i \in DOMAIN files /\ files[i].health = "future" -> "Unsupported"
      [] OTHER -> "Io"

-----------------------------------------------------------------------------
(* SnapshotService.                                                        *)

\* snapshotList: the rows of one scan, whatever the directory's order.
ListVerb ==
    /\ InHand("list") /\ List
    /\ \E p \in Picks : \E w \in Walks(p) :
         call' = [call EXCEPT !.at = "answered", !.rows = Listed(p, w), !.answer.code = "ok"]
    /\ UNCHANGED live

\* diff reads the base, then the target or the live state, and compares.
DiffBase ==
    /\ InHand("diff") /\ Read(call.ids[1])
    /\ IF Healthy(call.ids[1]) THEN Step("target") ELSE Fails(ReadCode(call.ids[1]))
    /\ UNCHANGED live
Compared(target) ==
    call' = [call EXCEPT !.at = "answered", !.answer.code = "ok",
                         !.diff = diffPayloads(call.ids[1], target)]
DiffTarget ==
    /\ InHand("target")
    /\ \/ call.ids[2] = None /\ Compared(live) /\ UNCHANGED vars
       \/ /\ call.ids[2] # None /\ Read(call.ids[2])
          /\ IF Healthy(call.ids[2]) THEN Compared(call.ids[2]) ELSE Fails(ReadCode(call.ids[2]))
    /\ UNCHANGED live

\* capturePayload and put.  Bound: the live state is one of the instance's payloads.
CapturePut(trigger) == live \in Payloads /\ PutBegin(live, trigger)

\* create: the live state, kept by hand.
CreateVerb == InHand("create") /\ CapturePut("manual") /\ Step("created") /\ UNCHANGED live
CreateEnd ==
    /\ InHand("created")
    /\ IF ret.ok THEN Reply("ok", FALSE) ELSE Fails("Io")
    /\ UNCHANGED <<vars, live>>

\* Mutant: what became of the file is not looked at.
DeleteEndUnchecked == InHand("deleted") /\ Reply("ok", FALSE) /\ UNCHANGED <<vars, live>>

\* remove.
DeleteVerb ==
    /\ InHand("delete") /\ RemoveBegin(call.ids[1])
    /\ IF Healthy(call.ids[1]) THEN Step("deleted") ELSE Fails(ReadCode(call.ids[1]))
    /\ UNCHANGED live
DeleteEnd ==
    /\ InHand("deleted")
    /\ IF ret.ok THEN Reply("ok", FALSE) ELSE Fails("Io")
    /\ UNCHANGED <<vars, live>>

\* restore: the payload is read first, ...
RestoreRead ==
    /\ InHand("restore") /\ Read(call.ids[1])
    /\ IF Healthy(call.ids[1]) THEN Step("capture") ELSE Fails(ReadCode(call.ids[1]))
    /\ UNCHANGED live

\* ... then the state it will replace is captured (and so is it by every verb that
\* changes something), ...
Capture ==
    /\ InHand("capture") \/ InHand("change")
    /\ CapturePut("auto")
    /\ call' = [call EXCEPT !.at = IF @ = "capture" THEN "entries" ELSE "act", !.was = live]
    /\ UNCHANGED live

\* ... then the entries are replaced, in memory at least, ...
ReplaceEntries ==
    /\ InHand("entries")
    /\ \/ ~ret.ok /\ Fails("Io") /\ UNCHANGED live
       \/ /\ ret.ok /\ live' = [live EXCEPT !.entries = call.ids[1].entries]
          /\ Step("files")
       \/ /\ ret.ok /\ VerbFaults /\ Fails("Io")
          /\ live' \in {live, [live EXCEPT !.entries = call.ids[1].entries]}
    /\ UNCHANGED vars

\* ... and writeBackModprobe removes and writes files, each failure being an item
\* of the outcome and not a failure of the restore.
WriteBack(failed) ==
    LET now == live.files
        then == call.ids[1].files
        names == (DOMAIN then \ failed) \cup (DOMAIN now \cap failed)
    IN [n \in names |-> IF n \in failed THEN now[n] ELSE then[n]]
Failing == IF VerbFaults THEN SUBSET (DOMAIN live.files \cup DOMAIN call.ids[1].files) ELSE {{}}
ReplaceFiles ==
    /\ InHand("files")
    /\ \E failed \in Failing : live' = [live EXCEPT !.files = WriteBack(failed)]
    /\ Reply("ok", FALSE)
    /\ UNCHANGED vars

\* Any other verb does its work, or fails, after its capture.
ChangeVerb ==
    /\ InHand("act")
    /\ IF ret.ok THEN live' \in Payloads ELSE UNCHANGED live
    /\ Reply("ok", FALSE)
    /\ UNCHANGED vars

\* The store's own steps.
StoreStep ==
    /\ \/ PutWriteFile \/ PutWriteHead \/ PruneScan \/ PruneDelete \/ PruneEnd
       \/ RemoveWriteHead \/ RemoveDelete
    /\ UNCHANGED <<live, call>>

\* devmgrd dies in the middle of a verb; the caller hears that nobody answers.
Die ==
    /\ call.at \notin {"idle", "answered"}
    /\ Crash \/ (op.pc = "idle" /\ UNCHANGED vars)
    /\ call' = [call EXCEPT !.at = "answered", !.answer.code = CoreError("NoReply")]
    /\ UNCHANGED live

Serve ==
    \/ Take \/ ListVerb \/ DiffBase \/ DiffTarget \/ CreateVerb \/ CreateEnd
    \/ DeleteVerb \/ DeleteEnd \/ RestoreRead \/ Capture \/ ReplaceEntries \/ ReplaceFiles
    \/ ChangeVerb \/ StoreStep
=============================================================================
