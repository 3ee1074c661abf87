---------------------------- MODULE MCTtsSetting ------------------------------
(* TtsSetting on small instances.                                          *)
EXTENDS TtsSetting

CONSTANTS a1, a2   \* two setting applications
===============================================================================
