----------------------------- MODULE DisabledSet -----------------------------
(***************************************************************************)
(* What devmgrd promises about the set of disabled devices: it changes     *)
(* only by the call that is in hand, once, in the way this call says, and  *)
(* after the set it replaces was kept in a snapshot.  A call that succeeds *)
(* has saved the set.  One whose save failed fails; the file may hold the  *)
(* new set all the same, and if it does not, what the call wanted is saved *)
(* by whatever saves next, or lost by a crash.  Nothing else adds a device *)
(* to the set or drops one: not a hotplug event, not the sweep of a        *)
(* restart, not a device that moved.                                       *)
(***************************************************************************)
CONSTANTS
    Keys,       \* what identifies a device
    NoKey,
    Verbs       \* what a client may call

VARIABLES
    wanted,     \* the devices devmgrd keeps disabled
    saved,      \* those it will know of after a restart
    nets,       \* the sets that snapshots hold
    call,       \* the call in hand, and the key it has added or dropped
    answer      \* what the last call was told

setVars == <<wanted, saved, nets, call, answer>>

NoCall == [at |-> "none", verb |-> "none", key |-> NoKey, target |-> {}]
NoAnswer == [verb |-> "none", ok |-> FALSE, key |-> NoKey]
Changing == {"disable", "enable", "restore"}

Init == wanted = {} /\ saved = {} /\ nets = {} /\ call = NoCall /\ answer = NoAnswer

\* A restore is of a set that a snapshot holds.
Ask(verb, target) ==
    /\ call.at = "none"
    /\ verb = "restore" => target \in nets
    /\ call' = [at |-> "asked", verb |-> verb, key |-> NoKey, target |-> target]
    /\ answer' = NoAnswer
    /\ UNCHANGED <<wanted, saved, nets>>

Answers(verb, ok, key) ==
    /\ call' = NoCall
    /\ answer' = [verb |-> verb, ok |-> ok, key |-> IF ok THEN key ELSE NoKey]

\* Any call may fail, and one that is refused is not even begun.  A call that changes
\* the set succeeds after its change.
Reply(verb, ok) ==
    /\ IF call.at = "none" THEN ~ok ELSE verb = call.verb
    /\ ok => call.at = "done" \/ verb \notin Changing
    /\ Answers(verb, ok, call.key)
    /\ UNCHANGED <<wanted, saved, nets>>

Keep ==
    /\ call.at = "asked"
    /\ nets' = nets \cup {wanted}
    /\ \/ UNCHANGED <<call, answer>>
       \/ call.verb = "create" /\ Answers(call.verb, TRUE, NoKey)
    /\ UNCHANGED <<wanted, saved>>

Changes(key) ==
    \/ call.verb = "disable" /\ key # NoKey /\ wanted' = wanted \cup {key}
    \/ call.verb = "enable" /\ key \in wanted /\ wanted' = wanted \ {key}
    \/ call.verb = "restore" /\ key = NoKey /\ wanted' = call.target

Changed(key) == [at |-> "done", verb |-> call.verb, key |-> key, target |-> call.target]

\* The one change of a call, with its save.
Commit ==
    /\ call.at = "asked"
    /\ wanted \in nets
    /\ \E key \in Keys \cup {NoKey} :
         /\ Changes(key)
         /\ \/ saved' = wanted' /\ call' = Changed(key) /\ UNCHANGED answer
            \/ saved' = wanted' /\ Answers(call.verb, TRUE, key)
            \/ saved' \in {saved, wanted'} /\ Answers(call.verb, FALSE, key)
    /\ UNCHANGED nets

\* A device that is enabled although none of the set is meant.
Skip ==
    /\ call.at = "asked" /\ call.verb = "enable"
    /\ call' = Changed(NoKey)
    /\ UNCHANGED <<wanted, saved, nets, answer>>

\* A save for another reason takes along what an earlier call failed to save.
Flush == saved' = wanted /\ UNCHANGED <<wanted, nets, call, answer>>

Crash ==
    /\ wanted' = saved /\ call' = NoCall /\ answer' = NoAnswer
    /\ UNCHANGED <<saved, nets>>

Next ==
    \/ \E verb \in Verbs, target \in nets \cup {{}} : Ask(verb, target)
    \/ \E verb \in Verbs, ok \in BOOLEAN : Reply(verb, ok)
    \/ Keep \/ Commit \/ Skip \/ Flush \/ Crash

Spec == Init /\ [][Next]_setVars

-----------------------------------------------------------------------------
\* What a client may rely on once it was told of success: a device it disabled is
\* still disabled after a restart, and one it enabled is not.
AnswerHolds ==
    answer.ok =>
        /\ answer.verb = "disable" => answer.key \in saved
        /\ answer.verb = "enable" => answer.key \notin saved
=============================================================================
