---------------------------- MODULE MCSemBuffer -----------------------------
(* Instances of SemBuffer for TLC. *)
EXTENDS SemBuffer

CONSTANTS t1, t2, t3, m1, m2, c1, c2

OneProducer  == {t1}
TwoConsumers == {t2, t3}
Threads      == {t1, t2, t3}
NoneKillable == {}
Mutexes      == {mtx, m1, m2}
Cvs          == {c1, c2}
Sems         == {sempty, sfull}
MtxOf        == [s \in Sems |-> IF s = sempty THEN m1 ELSE m2]
CondOf       == [s \in Sems |-> IF s = sempty THEN c1 ELSE c2]
\* The producer makes one more than the ring holds: p4test has 200, 100, 100.
ThreeOneOne  == [t \in Threads |-> IF t = t1 THEN 3 ELSE 1]

=============================================================================
