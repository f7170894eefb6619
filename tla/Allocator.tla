----------------------------- MODULE Allocator -----------------------------
(***************************************************************************)
(* What malloc() and free() promise: a block is apart from all the blocks  *)
(* in use.  A block is a pair of its first unit and its number of units.   *)
(***************************************************************************)
EXTENDS Naturals

CONSTANTS Unit, Size

VARIABLE blocks

Units(b) == b[1]..(b[1] + b[2] - 1)

Init == blocks = {}

malloc(b) ==
  /\ \A c \in blocks : Units(b) \cap Units(c) = {}
  /\ blocks' = blocks \cup {b}

free(b) == blocks' = blocks \ {b}

Next == \/ \E a \in Unit, n \in Size : malloc(<<a, n>>)
        \/ \E b \in blocks : free(b)

Spec == Init /\ [][Next]_blocks

=============================================================================
