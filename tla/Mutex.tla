------------------------------- MODULE Mutex --------------------------------
(***************************************************************************)
(* The blocking mutex of the thread library: user/mutex.c over             *)
(* user/spinlock.c, user/pidqueue.c and the kernel's park calls.           *)
(*                                                                         *)
(* A thread of the library is a Slot of the process table.  It can take a  *)
(* step when the kernel could have it on a CPU; RUNNABLE stands for both   *)
(* RUNNABLE and RUNNING here, because which runnable threads have a CPU    *)
(* only restricts the interleavings allowed below.                         *)
(*                                                                         *)
(* pc[t] is the statement t executes next, arg[t] the mtx argument of the  *)
(* mutex call t is in and ret[t] the statement after that call.  Between   *)
(* two labels a thread touches no variable another thread may touch, save  *)
(* for the guard spinlock's own data, which only its holder touches.       *)
(***************************************************************************)
EXTENDS Park, Naturals, Sequences

CONSTANTS
  Mtx,        \* the mutexes of the program
  Killable    \* the threads that kill() may be called for

ASSUME KillableAssumption == Killable \subseteq Slot
ASSUME MtxAssumption == Mtx # {}

VARIABLES
  flag,       \* mtx->flag
  guard,      \* mtx->guard->locked
  q,          \* mtx->q: the pids (here: slots) in list order
  pc, arg, ret,
  next        \* the pid mutex_unlock() has taken off the queue

mutexVars == <<parkVars, flag, guard, q, pc, arg, ret, next>>

Elems(s) == {s[i] : i \in 1..Len(s)}

\* A thread may execute its next statement.
CanRun(t) == state[t] = "RUNNABLE"

-----------------------------------------------------------------------------
\* user/spinlock.c.  A failed xchg writes the 1 that is there already.

spin_lock(m) ==
  /\ guard[m] = 0
  /\ guard' = [guard EXCEPT ![m] = 1]

spin_unlock(m) ==
  guard' = [guard EXCEPT ![m] = 0]

\* user/pidqueue.c: a singly linked list, added to at the tail.

queue_add_Front(m, t) ==
  q' = [q EXCEPT ![m] = <<t>> \o @]

queue_add(m, t) ==
  q' = [q EXCEPT ![m] = Append(@, t)]

queue_remove(m) ==
  q' = [q EXCEPT ![m] = Tail(@)]

-----------------------------------------------------------------------------
(***************************************************************************)
(* mutex_lock(mtx)                                                         *)
(***************************************************************************)
At(t, l) == CanRun(t) /\ pc[t] = l

Goto(t, l) == pc' = [pc EXCEPT ![t] = l]

mutex_lock(t, m, r) ==
  /\ Goto(t, "ml_spin")
  /\ arg' = [arg EXCEPT ![t] = m]
  /\ ret' = [ret EXCEPT ![t] = r]
  /\ UNCHANGED <<parkVars, flag, guard, q, next>>

ml_spin(t) ==
  /\ At(t, "ml_spin")
  /\ spin_lock(arg[t])
  /\ Goto(t, "ml_test")
  /\ UNCHANGED <<parkVars, flag, q, arg, ret, next>>

ml_test(t) ==
  /\ At(t, "ml_test")
  /\ \/ /\ flag[arg[t]] = 0
        /\ flag' = [flag EXCEPT ![arg[t]] = 1]
        /\ Goto(t, "ml_got")
        /\ UNCHANGED q
     \/ /\ flag[arg[t]] # 0
        /\ queue_add(arg[t], t)
        /\ Goto(t, "ml_setpark")
        /\ UNCHANGED flag
  /\ UNCHANGED <<parkVars, guard, arg, ret, next>>

ml_got(t) ==
  /\ At(t, "ml_got")
  /\ spin_unlock(arg[t])
  /\ Goto(t, ret[t])
  /\ UNCHANGED <<parkVars, flag, q, arg, ret, next>>

ml_setpark(t) ==
  /\ At(t, "ml_setpark")
  /\ setpark(t)
  /\ Goto(t, "ml_unguard")
  /\ UNCHANGED <<flag, guard, q, arg, ret, next>>

ml_unguard(t) ==
  /\ At(t, "ml_unguard")
  /\ spin_unlock(arg[t])
  /\ Goto(t, "ml_park")
  /\ UNCHANGED <<parkVars, flag, q, arg, ret, next>>

ml_park(t) ==
  /\ At(t, "ml_park")
  /\ park(t)
  /\ Goto(t, "ml_parked")
  /\ UNCHANGED <<flag, guard, q, arg, ret, next>>

\* park() returns to user mode, which trap() allows an unkilled thread only.
ml_parked(t) ==
  /\ At(t, "ml_parked")
  /\ killed[t] = 0
  /\ Goto(t, ret[t])
  /\ UNCHANGED <<parkVars, flag, guard, q, arg, ret, next>>

(***************************************************************************)
(* mutex_unlock(mtx)                                                       *)
(***************************************************************************)
mutex_unlock(t, m, r) ==
  /\ Goto(t, "mu_spin")
  /\ arg' = [arg EXCEPT ![t] = m]
  /\ ret' = [ret EXCEPT ![t] = r]
  /\ UNCHANGED <<parkVars, flag, guard, q, next>>

mu_spin(t) ==
  /\ At(t, "mu_spin")
  /\ spin_lock(arg[t])
  /\ Goto(t, "mu_test")
  /\ UNCHANGED <<parkVars, flag, q, arg, ret, next>>

mu_test_AlwaysFree(t) ==
  /\ At(t, "mu_test")
  /\ flag' = [flag EXCEPT ![arg[t]] = 0]
  /\ \/ /\ q[arg[t]] = <<>>
        /\ Goto(t, "mu_unguard")
        /\ UNCHANGED <<q, next>>
     \/ /\ q[arg[t]] # <<>>
        /\ next' = [next EXCEPT ![t] = Head(q[arg[t]])]
        /\ queue_remove(arg[t])
        /\ Goto(t, "mu_unpark")
  /\ UNCHANGED <<parkVars, guard, arg, ret>>

\* Free the lock, or pass it on with flag still 1 to the first in the queue.
mu_test(t) ==
  /\ At(t, "mu_test")
  /\ \/ /\ q[arg[t]] = <<>>
        /\ flag' = [flag EXCEPT ![arg[t]] = 0]
        /\ Goto(t, "mu_unguard")
        /\ UNCHANGED <<q, next>>
     \/ /\ q[arg[t]] # <<>>
        /\ next' = [next EXCEPT ![t] = Head(q[arg[t]])]
        /\ queue_remove(arg[t])
        /\ Goto(t, "mu_unpark")
        /\ UNCHANGED flag
  /\ UNCHANGED <<parkVars, guard, arg, ret>>

mu_unpark(t) ==
  /\ At(t, "mu_unpark")
  /\ unpark(next[t])
  /\ Goto(t, "mu_unguard")
  /\ UNCHANGED <<flag, guard, q, arg, ret, next>>

mu_unguard(t) ==
  /\ At(t, "mu_unguard")
  /\ spin_unlock(arg[t])
  /\ Goto(t, ret[t])
  /\ UNCHANGED <<parkVars, flag, q, arg, ret, next>>

MutexStep(t) ==
  \/ ml_spin(t) \/ ml_test(t) \/ ml_got(t) \/ ml_setpark(t)
  \/ ml_unguard(t) \/ ml_park(t) \/ ml_parked(t)
  \/ mu_spin(t) \/ mu_test(t) \/ mu_unpark(t) \/ mu_unguard(t)

-----------------------------------------------------------------------------
(***************************************************************************)
(* Killing.  A killed thread exits at a trap: on its way out of a system   *)
(* call or at a timer interrupt, so before any statement.  It leaves its   *)
(* locks and queue entries as they are.                                    *)
(***************************************************************************)
Kill(t) ==
  /\ t \in Killable
  /\ kill(t)
  /\ UNCHANGED <<flag, guard, q, pc, arg, ret, next>>

Die(t) ==
  /\ CanRun(t)
  /\ killed[t] = 1
  /\ state' = [state EXCEPT ![t] = "ZOMBIE"]
  /\ UNCHANGED <<parkFlags, killed, flag, guard, q, pc, arg, ret, next>>

MutexInit ==
  /\ ParkInit
  /\ state = [t \in Slot |-> "RUNNABLE"]
  /\ flag = [m \in Mtx |-> 0]
  /\ guard = [m \in Mtx |-> 0]
  /\ q = [m \in Mtx |-> <<>>]
  /\ arg = [t \in Slot |-> CHOOSE m \in Mtx : TRUE]
  /\ next = [t \in Slot |-> t]

=============================================================================
