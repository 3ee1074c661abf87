---------------------------- MODULE MCTtsSession ------------------------------
(* TtsSession on small instances.                                          *)
EXTENDS TtsSession

CONSTANTS h1, h2   \* two handles of the application
===============================================================================
