----------------------------- MODULE MCDataFrame -----------------------------
(* Model-checking instance of DataFrame (and of Csv below it). *)
EXTENDS DataFrame

MCHeaders == {<<"x", "y">>}
MCLines == {<<"1", "a">>, <<"b", "2", "2">>, <<"b", "2">>, <<>>}
All == [kind |-> "all", n |-> 0, set |-> {}, type |-> "string"]
MCUseCols ==
    {<<All, [kind |-> "names", n |-> 0, set |-> {"x"}, type |-> "int"],
       [kind |-> "first_n", n |-> 0, set |-> {}, type |-> "unknown"]>>}
Query(rows) == [header |-> <<"x", "y">>, types |-> <<"BIGINT", "TEXT_ID">>, rows |-> rows]
MCTables == {Query(<<<<"1", "a">>, <<"2", "b">>, <<"1", "a">>>>)}
MCColPicks == {<<>>, <<2>>}
MCRowPicks == {<<>>, <<3>>}
MCFeatures == {{}}

\* Bound: a frame that was read is used only where the file is short and whole.
FewLines ==
    (\E f \in Frames \ Fresh : load = NotLoading \/ load.frame # f) =>
        Len(file) <= 2 /\ ~cut

Symmetry == Permutations(Frames) \cup Permutations(Blocks)
=============================================================================
