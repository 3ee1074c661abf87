---------------------------- MODULE MCTtsdServer ------------------------------
(* TtsdServer on small instances.                                          *)
EXTENDS TtsdServer, TLC

CONSTANTS c1, c2   \* two clients

(* The clients are interchangeable.                                        *)
Symmetry == Permutations(Uid)
===============================================================================
