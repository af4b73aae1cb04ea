------------------------------- MODULE Console -------------------------------
(***************************************************************************)
(* What both front ends promise about a verb that changes the system: it   *)
(* is submitted only from a prompt on the screen, and with the target this *)
(* prompt names.  Whatever else happens behind the prompt, lists that are  *)
(* rebuilt, selections that move, answers that arrive, does not retarget   *)
(* it.                                                                     *)
(***************************************************************************)
CONSTANTS
    Prompts,    \* what a prompt can ask: a verb and its target
    NoPrompt

VARIABLES
    prompt,     \* the prompt the user looks at
    submitted   \* the verb that was submitted last

Init == prompt = NoPrompt /\ submitted = NoPrompt

\* The prompt appears, is replaced or is dismissed.
Show == prompt' \in Prompts \cup {NoPrompt} /\ UNCHANGED submitted

\* The user agrees.
Agree ==
    /\ prompt \in Prompts
    /\ submitted' = prompt
    /\ prompt' \in Prompts \cup {NoPrompt}

Next == Show \/ Agree

Spec == Init /\ [][Next]_<<prompt, submitted>>
=============================================================================
