------------------------------ MODULE MCUpdates -------------------------------
(***************************************************************************)
(* Instances of Updates for TLC.                                           *)
(***************************************************************************)
EXTENDS Updates, TLC

CONSTANTS w1, w2, ssd, dock

TwoWorkers == {w1, w2}
OneDevice == {ssd}
TwoDevices == {ssd, dock}
WorkerSymmetry == Permutations(TwoWorkers)
=============================================================================
