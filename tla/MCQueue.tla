------------------------------ MODULE MCQueue ------------------------------
(* Small instances of the circular queue for TLC.                          *)
EXTENDS QueueRefinesWindow
=============================================================================
