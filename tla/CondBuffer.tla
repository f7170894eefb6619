----------------------------- MODULE CondBuffer -----------------------------
(***************************************************************************)
(* The condition variable test of user/p4test.c: cond_producer() and       *)
(* cond_consumer() share a ring buffer under one mutex and two condition   *)
(* variables.                                                              *)
(***************************************************************************)
EXTENDS CondVar, Ring, FiniteSets

CONSTANTS
  Producer, Consumer,   \* the threads
  loops,                \* the number of iterations of each thread
  mtx, empty, fill,     \* the mutex and the condition variables
  Broadcast             \* the threads may also wake by cv_broadcast()

ASSUME BufferAssumption ==
  /\ Slot = Producer \cup Consumer /\ Worker = Slot
  /\ Producer \cap Consumer = {}
  /\ Mtx = {mtx} /\ Cv = {empty, fill} /\ empty # fill
  /\ loops \in [Slot -> Nat] /\ Broadcast \in BOOLEAN

VARIABLE i    \* the loop counters of the threads

vars == <<cvVars, ringVars, i>>

Init ==
  /\ CvInit
  /\ pc = [t \in Slot |-> IF t \in Producer THEN "p_loop" ELSE "c_loop"]
  /\ ret = pc /\ cret = pc
  /\ RingInit
  /\ i = [t \in Slot |-> 0]

-----------------------------------------------------------------------------
\* p4test calls cv_signal(); cv_broadcast(), which the library offers, must do
\* as well in its place.
wake(t, c, r) ==
  \/ cv_signal(t, c, r)
  \/ Broadcast /\ cv_broadcast(t, c, r)

\* The head of the for loop; exit() ends the thread.
Loop(t, l, body) ==
  /\ At(t, l)
  /\ \/ /\ i[t] < loops[t]
        /\ mutex_lock(t, mtx, body)
     \/ /\ i[t] >= loops[t]
        /\ Goto(t, "done")
        /\ state' = [state EXCEPT ![t] = "ZOMBIE"]
        /\ UNCHANGED <<parkFlags, killed, flag, guard, q, arg, ret, next>>
  /\ UNCHANGED <<cvOwn, ringVars, i>>

\* mutex_unlock() at the end of the body, and i++.
EndLoop(t, l, head) ==
  /\ At(t, l)
  /\ mutex_unlock(t, mtx, head)
  /\ i' = [i EXCEPT ![t] = @ + 1]
  /\ UNCHANGED <<cvOwn, ringVars>>

\* A test of a while loop that leads to the body or into cv_wait().
While(t, l, cond, c, body) ==
  /\ At(t, l)
  /\ \/ cond /\ cv_wait(t, c, mtx, l)
     \/ ~cond /\ Goto(t, body)
              /\ UNCHANGED <<parkVars, flag, guard, q, arg, ret, next, cvOwn>>
  /\ UNCHANGED <<ringVars, i>>

(***************************************************************************)
(* cond_producer()                                                         *)
(***************************************************************************)
p_loop(t) == Loop(t, "p_loop", "p_test")

p_test(t) == While(t, "p_test", count = MAX, empty, "p_put")

p_put(t) ==
  /\ At(t, "p_put")
  /\ put_store(i[t])
  /\ Goto(t, "p_count")
  /\ UNCHANGED <<parkVars, flag, guard, q, arg, ret, next, cvOwn, i>>

\* The end of put(), and the call of cv_signal(&fill).
p_count(t) ==
  /\ At(t, "p_count")
  /\ put_done
  /\ wake(t, fill, "p_unlock")
  /\ UNCHANGED i

p_unlock(t) == EndLoop(t, "p_unlock", "p_loop")

(***************************************************************************)
(* cond_consumer()                                                         *)
(***************************************************************************)
c_loop(t) == Loop(t, "c_loop", "c_test")

c_test_If(t) ==
  /\ At(t, "c_test")
  /\ \/ count = 0 /\ cv_wait(t, fill, mtx, "c_get")
     \/ count # 0 /\ Goto(t, "c_get")
              /\ UNCHANGED <<parkVars, flag, guard, q, arg, ret, next, cvOwn>>
  /\ UNCHANGED <<ringVars, i>>

c_test(t) == While(t, "c_test", count = 0, fill, "c_get")

c_get(t) ==
  /\ At(t, "c_get")
  /\ get_load(t)
  /\ Goto(t, "c_count")
  /\ UNCHANGED <<parkVars, flag, guard, q, arg, ret, next, cvOwn, i>>

\* The end of get(), and the call of cv_signal(&empty).
c_count(t) ==
  /\ At(t, "c_count")
  /\ get_done(t)
  /\ wake(t, empty, "c_unlock")
  /\ UNCHANGED i

c_unlock(t) == EndLoop(t, "c_unlock", "c_loop")

Step(t) ==
  \/ CvStep(t) /\ UNCHANGED <<ringVars, i>>
  \/ p_loop(t) \/ p_test(t) \/ p_put(t) \/ p_count(t) \/ p_unlock(t)
  \/ c_loop(t) \/ c_test(t) \/ c_get(t) \/ c_count(t) \/ c_unlock(t)

Next == \E t \in Slot : Step(t)

Spec == Init /\ [][Next]_vars

\* The scheduler runs every runnable thread again and again.
FairSpec == Spec /\ \A t \in Slot : WF_vars(Step(t))

-----------------------------------------------------------------------------

Values == UNION {0..loops[t] : t \in Producer}

Channel == INSTANCE BoundedFifo
             WITH Item <- Values, Size <- MAX, content <- Content

\* The ring with its mutex and condition variables behaves as a bounded
\* first-in-first-out channel: nothing is lost, repeated or overtaken.
ImplementsFifo == Channel!FifoSpec

\* t is on cv's queue, asleep in cv_wait() or about to be.
Waiting(t, c) == t \in Elems(cvq[c])

\* cv_wait(), which unlocks the mutex between setpark() and park(): a thread
\* asleep in park() is on one of the queues, or someone has taken it off the
\* queue and will unpark it.
NoLostWakeup ==
  \A t \in Slot : state[t] = "SLEEPING" =>
    \/ t \in Elems(q[mtx]) \/ \E c \in Cv : Waiting(t, c)
    \/ \E u \in Slot : pc[u] \in {"mu_unpark", "sg_unpark", "bc_unpark"} /\ next[u] = t

\* Every thread of the test runs to its exit(): no deadlock, no lost wakeup.
Termination == <>(\A t \in Slot : pc[t] = "done")

=============================================================================
