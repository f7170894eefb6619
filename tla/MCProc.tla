------------------------------- MODULE MCProc -------------------------------
(* Instances of Proc for TLC: what the programs of each run may call. *)
EXTENDS Proc, TLC

CONSTANTS c1, c2

OneCpu  == {c1}
TwoCpus == {c1, c2}
Table3  == 0..2
Table4  == 0..3

ProcessCalls == {"fork", "exit", "wait", "kill", "sbrk", "exec"}
ThreadCalls  == {"fork", "clone", "badclone", "join", "exit", "park", "badunpark"}
BlockCalls   == {"fork", "clone", "exit", "wait", "join", "kill", "sleep", "park"}

Sizes == {-3, -2, 2}

\* The CPUs are alike.
Symmetry == Permutations(Cpu)

=============================================================================
