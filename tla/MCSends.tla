-------------------------------- MODULE MCSends --------------------------------
(* An instance of Sends for TLC: a text of the API and a list of one. *)
EXTENDS Sends

CONSTANTS a, b, k1, k2

MCTasks == {a, b} \X (1..2)
MCList  == <<b>>
=============================================================================
