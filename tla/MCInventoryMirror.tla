-------------------------- MODULE MCInventoryMirror --------------------------
(* InventoryMirror for TLC; the constants are numbers.                     *)
EXTENDS InventoryMirror, TLC

=============================================================================
