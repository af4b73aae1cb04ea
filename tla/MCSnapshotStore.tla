--------------------------- MODULE MCSnapshotStore ---------------------------
(***************************************************************************)
(* Instances of SnapshotStore for TLC.                                     *)
(***************************************************************************)
EXTENDS SnapshotHistory, TLC

CONSTANTS a, b, c

ThreePayloads == {a, b, c}
NoFuture == {}
OneFuture == {c}

\* Payloads are interchangeable except the one a newer daemon wrote.
AnyPayload == Permutations({a, b, c})
SamePayload == Permutations({a, b})
=============================================================================
