------------------------------- MODULE MCPipe -------------------------------
(* Instances of Pipe for TLC. *)
EXTENDS Pipe

CONSTANTS p1, p2, p3

Three    == {p1, p2, p3}
Writes   == {p1, p2}
Reads    == {p2, p3}
Lengths  == {1, 3}
OneKill  == {p2}

=============================================================================
