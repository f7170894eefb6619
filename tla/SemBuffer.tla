----------------------------- MODULE SemBuffer ------------------------------
(***************************************************************************)
(* The semaphore test of user/p4test.c: sem_producer() and sem_consumer()  *)
(* count the free and the filled places of the ring buffer with the        *)
(* semaphores sempty and sfull and exclude each other with mtx.            *)
(***************************************************************************)
EXTENDS Semaphore, Ring, FiniteSets

CONSTANTS
  Producer, Consumer,   \* the threads
  loops,                \* the number of iterations of each thread
  mtx, sempty, sfull

ASSUME SemBufferAssumption ==
  /\ Slot = Producer \cup Consumer /\ Worker = Slot
  /\ Producer \cap Consumer = {}
  /\ Sem = {sempty, sfull} /\ sempty # sfull
  /\ mtx \in Mtx /\ \A s \in Sem : semMtx[s] # mtx
  /\ loops \in [Slot -> Nat]

VARIABLE i    \* the loop counters of the threads

vars == <<semVars, ringVars, i>>

Init ==
  /\ SemInit([s \in Sem |-> IF s = sempty THEN MAX ELSE 0])
  /\ pc = [t \in Slot |-> "loop"]
  /\ ret = pc /\ cret = pc /\ sret = pc
  /\ RingInit
  /\ i = [t \in Slot |-> 0]

first(t)  == IF t \in Producer THEN sempty ELSE sfull
second(t) == IF t \in Producer THEN sfull ELSE sempty

-----------------------------------------------------------------------------
\* What the calls that t has returned from had on its stack is gone.
Forget(t) ==
  /\ next' = [next EXCEPT ![t] = t]
  /\ carg' = [carg EXCEPT ![t] = CHOOSE c \in Cv : TRUE]
  /\ cret' = [cret EXCEPT ![t] = "loop"]

\* The head of the for loop and the sem_wait() behind it.
wait_place(t) ==
  /\ At(t, "loop")
  /\ i[t] < loops[t]
  /\ sem_wait(t, first(t), "lock")
  /\ UNCHANGED <<ringVars, i>>

exit(t) ==
  /\ At(t, "loop")
  /\ i[t] >= loops[t]
  /\ Goto(t, "done")
  /\ state' = [state EXCEPT ![t] = "ZOMBIE"]
  /\ Forget(t)
  /\ UNCHANGED <<parkFlags, killed, flag, guard, q, arg, ret,
                 cvq, clock, semOwn, ringVars, i>>

lock(t) ==
  /\ At(t, "lock")
  /\ mutex_lock(t, mtx, "access")
  /\ UNCHANGED <<cvOwn, semOwn, ringVars, i>>

\* The first half of put(i) or of get().
access(t) ==
  /\ At(t, "access")
  /\ IF t \in Producer THEN put_store(i[t]) ELSE get_load(t)
  /\ Goto(t, "advance")
  /\ Forget(t)
  /\ UNCHANGED <<parkVars, flag, guard, q, arg, ret, cvq, clock, semOwn, i>>

\* The second half, and mutex_unlock(&mtx).
advance(t) ==
  /\ At(t, "advance")
  /\ IF t \in Producer THEN put_done ELSE get_done(t)
  /\ mutex_unlock(t, mtx, "post")
  /\ UNCHANGED <<cvOwn, semOwn, i>>

post_Same(t) ==
  /\ At(t, "post")
  /\ sem_post(t, first(t), "loop")
  /\ i' = [i EXCEPT ![t] = @ + 1]
  /\ UNCHANGED ringVars

\* sem_post() of the other semaphore, and i++.
post(t) ==
  /\ At(t, "post")
  /\ sem_post(t, second(t), "loop")
  /\ i' = [i EXCEPT ![t] = @ + 1]
  /\ UNCHANGED ringVars

Step(t) ==
  \/ SemStep(t) /\ UNCHANGED <<ringVars, i>>
  \/ wait_place(t) \/ exit(t) \/ lock(t) \/ access(t) \/ advance(t) \/ post(t)

Next == \E t \in Slot : Step(t)

Spec == Init /\ [][Next]_vars

\* The scheduler runs every runnable thread again and again.
FairSpec == Spec /\ \A t \in Slot : WF_vars(Step(t))

-----------------------------------------------------------------------------

Values == UNION {0..loops[t] : t \in Producer}

Channel == INSTANCE BoundedFifo
             WITH Item <- Values, Size <- MAX, content <- Content

\* The two semaphores alone keep puts off a full and gets off an empty ring:
\* the program behaves as a bounded first-in-first-out channel.
ImplementsFifo == Channel!FifoSpec

\* Every thread of the test runs to its exit(): no deadlock, no lost wakeup.
Termination == <>(\A t \in Slot : pc[t] = "done")

=============================================================================
