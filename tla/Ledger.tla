------------------------------- MODULE Ledger -------------------------------
(***************************************************************************)
(* What the incremental learner of supul promises about the instances it   *)
(* was given, with no tree, leaf or transaction in sight.  Every operation *)
(* of the api is one step: insert_chunk_csv, update, rebuild.              *)
(***************************************************************************)
EXTENDS Integers, Sequences, FiniteSets

CONSTANTS
    Limited,      \* property limit.chunk.use
    Lower, Upper  \* properties limit.chunk.instance_(lower|upper)_bound

VARIABLES
    owner,    \* the chunk every instance came in, in the order of insertion
    chunks,   \* how many chunks were ever inserted
    dropped,  \* the chunks removed since
    judged,   \* the stored instances that have a verdict of the model
    right     \* those whose verdict is their own label

vars == <<owner, chunks, dropped, judged, right>>

Instances == 1..Len(owner)
Stored == {i \in Instances : owner[i] \notin dropped}

Init == owner = <<>> /\ chunks = 0 /\ dropped = {} /\ judged = {} /\ right = {}

\* The new instances follow the old ones and belong to a new chunk.
Extended ==
    /\ chunks' = chunks + 1
    /\ Len(owner') > Len(owner)
    /\ \A i \in 1..Len(owner') :
          owner'[i] = IF i <= Len(owner) THEN owner[i] ELSE chunks + 1

\* Chunks go oldest first, only when the limit is exceeded, down to no less than
\* Lower instances and to no more than Upper.
Trimmed ==
    /\ dropped \subseteq dropped'
    /\ \A c \in dropped' : c <= chunks + 1 /\ \A b \in 1..c : b \in dropped'
    /\ dropped' # dropped =>
          /\ Limited
          /\ Cardinality(Stored) + Len(owner') - Len(owner) > Upper
          /\ Cardinality(Stored') >= Lower
    /\ Limited => Cardinality(Stored') <= Upper

Insert ==
    /\ Extended /\ Trimmed
    /\ judged' = judged \cap Stored' /\ right' = right \cap Stored'

\* All instances without a verdict get one; a verdict once given stands.
Update ==
    /\ judged # Stored
    /\ judged' = Stored
    /\ right' \subseteq Stored /\ right' \cap judged = right
    /\ UNCHANGED <<owner, chunks, dropped>>

\* A rebuild may turn verdicts over, but only to have more right ones.
Rebuild ==
    /\ right' \subseteq judged
    /\ Cardinality(right') > Cardinality(right)
    /\ UNCHANGED <<owner, chunks, dropped, judged>>

Next == Insert \/ Update \/ Rebuild

Spec == Init /\ [][Next]_vars

=============================================================================
