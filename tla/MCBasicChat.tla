---- MODULE MCBasicChat ----
(* BasicChat with the models TLC looks at. *)
EXTENDS BasicChat
CONSTANTS m1, m2
====
