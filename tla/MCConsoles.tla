----------------------------- MODULE MCConsoles -----------------------------
(* Two or three snapshots, one row on each other tab.                        *)
EXTENDS Consoles

CONSTANT Row

MCItems == {Row}
=============================================================================
