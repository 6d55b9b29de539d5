------------------------------- MODULE MCJson -------------------------------
(* Model-checking instance of Json. *)
EXTENDS Json

Steps == {Name("a"), Name("b"), At(0), Appended}
MCPaths ==
    [1..1 -> Steps] \cup [1..2 -> Steps]
      \cup {<<Name("a"), Appended, Name("b")>>, <<Name("a"), Name("b"), At(1)>>}
=============================================================================
