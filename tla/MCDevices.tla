----------------------------- MODULE MCDevices ------------------------------
(* Two workers and one device.                                               *)
EXTENDS Devices

CONSTANTS D1, W1, W2

MCDevs == {D1}
MCWorkers == {W1, W2}
=============================================================================
