------------------------ MODULE MCEvictionReconciler ------------------------
(* Instances of EvictionReconciler and DocumentedBehaviour for TLC. *)
EXTENDS DocumentedBehaviour, TLC

CONSTANTS classA, classB, classC

Entry(c, p) == [class |-> c, priority |-> p]

None       == <<>>
One        == <<Entry(classA, 1)>>
\* Listed in ascending priority, so that the sort has work to do.
Two        == <<Entry(classB, 1), Entry(classA, 2)>>
\* With a tie for the last place.
Three      == <<Entry(classB, 1), Entry(classA, 2), Entry(classC, 1)>>

ItemSymmetry == Permutations(Items)
=============================================================================
