------------------------------- MODULE MCHeap -------------------------------
EXTENDS Heap, TLC

\* blocks are interchangeable
Symmetry == Permutations(Strings) \cup Permutations(Arrays)
=============================================================================
