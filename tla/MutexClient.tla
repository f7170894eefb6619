----------------------------- MODULE MutexClient ----------------------------
(***************************************************************************)
(* Threads that repeatedly lock a mutex, work, and unlock it, the way      *)
(* add() of user/p4test.c does; any of the Killable ones may be killed at  *)
(* any point.  The module states what the mutex guarantees them.           *)
(***************************************************************************)
EXTENDS Mutex

CONSTANT NoOne
ASSUME NoOneAssumption == NoOne \notin Slot

vars == mutexVars

Init ==
  /\ MutexInit
  /\ pc = [t \in Slot |-> "out"]
  /\ ret = [t \in Slot |-> "out"]

Enter(t) ==
  /\ At(t, "out")
  /\ \E m \in Mtx : mutex_lock(t, m, "cs")

Leave(t) ==
  /\ At(t, "cs")
  /\ mutex_unlock(t, arg[t], "out")

ThreadStep(t) == Leave(t) \/ MutexStep(t) \/ Die(t)

Next == \E t \in Slot : Enter(t) \/ ThreadStep(t) \/ Kill(t)

Spec == Init /\ [][Next]_vars

(***************************************************************************)
(* Every runnable thread is scheduled again and again, and add() does a    *)
(* bounded amount of work between mutex_lock and mutex_unlock.  Nothing    *)
(* obliges a thread to come back for the lock.                             *)
(***************************************************************************)
Fairness == \A t \in Slot : WF_vars(ThreadStep(t))

FairSpec == Spec /\ Fairness

-----------------------------------------------------------------------------
Labels == {"out", "cs", "ml_spin", "ml_test", "ml_got", "ml_setpark",
           "ml_unguard", "ml_park", "ml_parked",
           "mu_spin", "mu_test", "mu_unpark", "mu_unguard"}

\* Every variable of the library and every field of struct proc has its type.
TypeOK ==
  /\ ParkTypeOK
  /\ flag \in [Mtx -> {0, 1}]
  /\ guard \in [Mtx -> {0, 1}]
  /\ q \in [Mtx -> Seq(Slot)]
  /\ pc \in [Slot -> Labels]
  /\ arg \in [Slot -> Mtx]
  /\ ret \in [Slot -> {"out", "cs"}]
  /\ next \in [Slot -> Slot]

\* Where a thread that has the lock for certain can be.
HasLock == {"ml_got", "cs", "mu_spin", "mu_test"}

\* t waits in park() or is about to.
Parking(t) == pc[t] \in {"ml_park", "ml_parked"}

\* t has m: by taking a free one, or because an unlocker took it off the queue.
Owns(t, m) ==
  /\ arg[t] = m
  /\ \/ pc[t] \in HasLock
     \/ Parking(t) /\ t \notin Elems(q[m])

\* mutex_lock() and mutex_unlock(): no two threads are between them for the
\* same mutex, even if threads are killed while they hold or await it.
MutualExclusion ==
  \A t, u \in Slot :
    (pc[t] = "cs" /\ pc[u] = "cs" /\ arg[t] = arg[u]) => t = u

\* An unlocker has taken t off the queue and will unpark it next.
BeingWoken(t) == \E u \in Slot : pc[u] = "mu_unpark" /\ next[u] = t

\* The handoff of mutex_unlock() against setpark()/park(): a thread that
\* sleeps in park() without having been killed is in the queue or an unlocker
\* is on its way to unpark(it): no unpark() is lost between setpark() and
\* park(), and no thread sleeps on with the mutex already in hand.
NoLostHandoff ==
  \A t \in Slot :
    state[t] = "SLEEPING" /\ killed[t] = 0 =>
      t \in Elems(q[arg[t]]) \/ BeingWoken(t)

\* "When awoken, we will implicitly have the lock" (mutex_lock): a thread that
\* has come out of park() to go on in user mode owns the mutex it asked for.
AwokenOwns ==
  \A t \in Slot :
    pc[t] = "ml_parked" /\ CanRun(t) /\ killed[t] = 0 => Owns(t, arg[t])

\* A mutex is taken exactly while one thread owns it, also during a handoff:
\* mutex_unlock() leaves flag at 1 for the thread it wakes.
FlagMeansOwned ==
  \A m \in Mtx :
    \/ flag[m] = 0 /\ \A t \in Slot : ~Owns(t, m)
    \/ flag[m] = 1 /\ \E t \in Slot : \A u \in Slot : Owns(u, m) <=> u = t

\* The thread to which the code has given m.
Owner(m) ==
  IF \E t \in Slot : Owns(t, m) THEN CHOOSE t \in Slot : Owns(t, m) ELSE NoOne

Fifo == INSTANCE FifoLock
          WITH owner <- [m \in Mtx |-> Owner(m)], waiting <- q

\* mutex.c implements the first-come-first-served lock of FifoLock.
ImplementsFifoLock == Fifo!LockSpec

\* A thread that mutex_lock() has put on the queue gets the mutex, however the
\* other threads contend for the guard spinlock, unless a thread is killed: one
\* that is leaves the queue, the guard or the mutex as they are.
QueuedGetsLock ==
  \A t \in Slot :
    t \in Elems(q[arg[t]]) ~> pc[t] = "cs" \/ \E u \in Slot : killed[u] = 1

-----------------------------------------------------------------------------
(***************************************************************************)
(* The inductive invariant behind the safety properties.                   *)
(***************************************************************************)
InGuard == {"ml_test", "ml_got", "ml_setpark", "ml_unguard",
            "mu_test", "mu_unpark", "mu_unguard"}

NoDup(s) == \A i, j \in 1..Len(s) : s[i] = s[j] => i = j

\* The guard spinlock of a mutex has one holder.
GuardInv ==
  /\ \A t \in Slot : pc[t] \in InGuard => guard[arg[t]] = 1
  /\ \A t, u \in Slot :
       pc[t] \in InGuard /\ pc[u] \in InGuard /\ arg[t] = arg[u] => t = u

\* Each call comes back to the right place.
RetInv ==
  \A t \in Slot :
    /\ pc[t] \in {"ml_spin", "ml_test", "ml_got", "ml_setpark",
                  "ml_unguard", "ml_park", "ml_parked"} => ret[t] = "cs"
    /\ pc[t] \in {"mu_spin", "mu_test", "mu_unpark", "mu_unguard"} =>
         ret[t] = "out"

\* The queue of a mutex holds threads in mutex_lock() for it, once each.
QueueInv ==
  /\ \A m \in Mtx : NoDup(q[m])
  /\ \A m \in Mtx, t \in Slot : t \in Elems(q[m]) =>
       /\ arg[t] = m
       /\ pc[t] \in {"ml_setpark", "ml_unguard", "ml_park", "ml_parked"}
  /\ \A t \in Slot :
       pc[t] \in {"ml_setpark", "ml_unguard"} => t \in Elems(q[arg[t]])

\* flag is 1 exactly while some thread owns the mutex, and only one does.
OwnerInv ==
  \A m \in Mtx :
    /\ flag[m] = 1 <=> \E t \in Slot : Owns(t, m)
    /\ \A t, u \in Slot : Owns(t, m) /\ Owns(u, m) => t = u

\* The park flags of a thread tell where it is, and whether it was unparked.
ParkOK(t) ==
  /\ state[t] = "SLEEPING" => pc[t] = "ml_parked" /\ isParked[t] = 1
  /\ isParked[t] = 1 => pc[t] = "ml_parked" /\ (state[t] = "SLEEPING" \/ killed[t] = 1)
  /\ pc[t] \in {"ml_unguard", "ml_park"} <=> setPark[t] = 1
  /\ immediateUnpark[t] = 1 => pc[t] = "ml_park" /\ ~BeingWoken(t)
                            /\ t \notin Elems(q[arg[t]])
  /\ pc[t] = "ml_park" /\ immediateUnpark[t] = 0 =>
       t \in Elems(q[arg[t]]) \/ BeingWoken(t)
  /\ pc[t] = "ml_parked" /\ killed[t] = 0
       /\ (t \in Elems(q[arg[t]]) \/ BeingWoken(t)) => state[t] = "SLEEPING"

ParkInv == \A t \in Slot : ParkOK(t)

\* The thread an unlocker is about to unpark is parking and off the queue.
WakeInv ==
  \A u \in Slot : pc[u] = "mu_unpark" =>
    /\ arg[next[u]] = arg[u]
    /\ Parking(next[u])
    /\ next[u] \notin Elems(q[arg[u]])

\* Together they are inductive.
MutexInv ==
  TypeOK /\ GuardInv /\ RetInv /\ QueueInv /\ OwnerInv /\ ParkInv /\ WakeInv
         /\ NoLostHandoff

=============================================================================
