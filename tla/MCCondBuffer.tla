---------------------------- MODULE MCCondBuffer ----------------------------
(* Instances of CondBuffer for TLC. *)
EXTENDS CondBuffer

CONSTANTS t1, t2, t3

OneProducer  == {t1}
TwoConsumers == {t2, t3}
Threads      == {t1, t2, t3}
NoneKillable == {}
OneMutex     == {mtx}
TwoCvs       == {empty, fill}
\* The producer makes what the two consumers take: p4test has 200, 100, 100.
ThreeTwoOne  == [t \in Threads |-> IF t = t1 THEN 3 ELSE IF t = t2 THEN 2 ELSE 1]

=============================================================================
