----------------------------- MODULE MCEventBus -------------------------------
(***************************************************************************)
(* Instances of EventBus for TLC.                                          *)
(***************************************************************************)
EXTENDS EventBus, TLC

CONSTANTS t1, t2, t3

ThreeThreads == {t1, t2, t3}
=============================================================================
