------------------------------- MODULE MCHeap -------------------------------
(* An instance of Heap for TLC. *)
EXTENDS Heap

CONSTANTS main, w1

OneWorker == {w1}
Requests == {2, 6}

=============================================================================
