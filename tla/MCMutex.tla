------------------------------- MODULE MCMutex ------------------------------
(* Instances of MutexClient for TLC. *)
EXTENDS MutexClient

CONSTANTS t1, t2, t3, m1

ThreeThreads == {t1, t2, t3}
OneMutex     == {m1}
TwoKillable  == {t1, t2}

=============================================================================
