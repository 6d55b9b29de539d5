----------------------------- MODULE MCProject -----------------------------
(* Model-checking instance of Project: a newer and an older program. *)
EXTENDS Project

MCNumbers == [v \in Versions |-> IF v = "1.0" THEN <<1, 0>> ELSE <<0, 9, 1>>]
MCVersion == [p \in Procs |-> IF p = "new" THEN "1.0" ELSE "0.9.1"]
=============================================================================
