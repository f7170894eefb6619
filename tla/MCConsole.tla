----------------------------- MODULE MCConsole -----------------------------
(* An instance of Console for TLC. *)
EXTENDS Console, TLC

CONSTANTS c0, c1, p1, p2, irq

TwoCpus == {c0, c1}
Procs == {p1, p2}
Same == Permutations(Procs)
Contexts == {p1, p2, irq}
Locks == {"input", "cons"}
Keys == {"a", "\n", "^D", "^U", "^H", "^P"}

=============================================================================
