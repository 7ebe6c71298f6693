--------------------------- MODULE MCServiceProcess ---------------------------
(* A small instance of ServiceProcess for TLC.                            *)
EXTENDS ServiceProcess

CONSTANTS m1, m2, garbage
==============================================================================
