----------------------------- MODULE MCEngineAgent -----------------------------
(* EngineAgent on small instances, for TLC.                                *)
EXTENDS EngineAgent

CONSTANTS e1, e2, en, ko, default

(* e1 speaks English with a man's and a woman's voice and Korean with a     *)
(* man's; e2 only Korean, with both.  Types: 1 male, 2 female (ttsp.h).     *)
MCVoicesOf ==
  [e \in Engine |->
     IF e = e1 THEN <<[lang |-> en, type |-> 1], [lang |-> en, type |-> 2],
                      [lang |-> ko, type |-> 1]>>
               ELSE <<[lang |-> ko, type |-> 2], [lang |-> ko, type |-> 1]>>]

MCShipped == [engine |-> e1, voice |-> [lang |-> en, type |-> 2], speed |-> 3]

(* The ways to ask: for any voice of a language (0), a woman's, which not   *)
(* every engine has in each language, or a child's (3), which none has.     *)
MCAsked == [lang: Lang \cup {default}, type: {0, 2, 3}]
===============================================================================
