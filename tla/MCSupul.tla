------------------------------- MODULE MCSupul -------------------------------
(***************************************************************************)
(* Instances of SupulModel for TLC.  Two features, two labels, and CSV     *)
(* files of four rows, each written to make one thing happen to the tree.  *)
(***************************************************************************)
EXTENDS SupulModel

Row(c, n, l) == [x |-> [cat |-> c, num |-> n], y |-> l]

\* Training on it splits on cat, into two pure leaves.
ByCategory == <<Row(1, 1, 1), Row(1, 2, 1), Row(2, 1, 2), Row(2, 2, 2)>>

\* Weakens the leaf of cat 2, where num now tells the labels apart, and brings
\* the new value 3.
NewCategory == <<Row(2, 1, 1), Row(2, 1, 1), Row(2, 2, 2), Row(3, 1, 1)>>

\* After that rebuild, weakens the leaf of cat 2 and larger num once more.
LargeNumber == <<Row(2, 3, 1), Row(2, 3, 1), Row(2, 3, 1)>>

\* Training on it splits on num, into two pure leaves.
ByNumber == <<Row(1, 1, 1), Row(2, 1, 1), Row(1, 2, 2), Row(2, 2, 2)>>

\* Weakens the leaf of num <= 1, where cat now tells the labels apart.
WeakNumber == <<Row(1, 1, 2), Row(1, 1, 2), Row(2, 1, 1), Row(2, 1, 1)>>

\* Needs both features: on cat at the root, on num below cat 1.
Both == <<Row(1, 1, 1), Row(1, 1, 1), Row(1, 2, 2), Row(1, 2, 2),
          Row(2, 1, 2), Row(2, 1, 2), Row(2, 1, 2)>>

LearningBatches == {ByCategory, NewCategory, LargeNumber}
LimitBatches == {ByCategory, ByNumber, NewCategory}
DepthBatches == {Both, NewCategory}
FlatBatches == {NewCategory, ByCategory}
=============================================================================
