------------------------------ MODULE CondVar -------------------------------
(***************************************************************************)
(* The condition variable of the thread library, user/condvar.c, over the  *)
(* mutex and the park calls.  carg[t] is the cv argument of the call t is  *)
(* in and cret[t] the statement after it; the mtx argument of cv_wait()    *)
(* stays in arg[t] while cv_wait() unlocks and relocks the mutex.          *)
(*                                                                         *)
(* Taking cv->q->clock and the queue operation behind it are one step:     *)
(* only the holder of clock touches the queue.                             *)
(***************************************************************************)
EXTENDS Mutex

CONSTANT Cv

ASSUME CvAssumption == Cv # {}

VARIABLES
  cvq,        \* cv->q
  clock,      \* cv->q->clock->locked
  carg, cret

cvOwn  == <<cvq, clock, carg, cret>>
cvVars == <<mutexVars, cvOwn>>

ClockFree(t) == clock[carg[t]] = 0

TakeClock(t) == clock' = [clock EXCEPT ![carg[t]] = 1]

DropClock(t) == clock' = [clock EXCEPT ![carg[t]] = 0]

-----------------------------------------------------------------------------
(***************************************************************************)
(* cv_wait(cv, mtx)                                                        *)
(***************************************************************************)
cv_wait(t, c, m, r) ==
  /\ Goto(t, "cw_add")
  /\ carg' = [carg EXCEPT ![t] = c]
  /\ cret' = [cret EXCEPT ![t] = r]
  /\ arg' = [arg EXCEPT ![t] = m]
  /\ UNCHANGED <<parkVars, flag, guard, q, ret, next, cvq, clock>>

cw_add(t) ==
  /\ At(t, "cw_add")
  /\ ClockFree(t)
  /\ TakeClock(t)
  /\ cvq' = [cvq EXCEPT ![carg[t]] = Append(@, t)]
  /\ Goto(t, "cw_setpark")
  /\ UNCHANGED <<parkVars, flag, guard, q, arg, ret, next, carg, cret>>

cw_setpark_Skipped(t) ==
  /\ At(t, "cw_setpark")
  /\ Goto(t, "cw_unlock")
  /\ UNCHANGED <<parkVars, flag, guard, q, arg, ret, next, cvOwn>>

cw_setpark(t) ==
  /\ At(t, "cw_setpark")
  /\ setpark(t)
  /\ Goto(t, "cw_unlock")
  /\ UNCHANGED <<flag, guard, q, arg, ret, next, cvOwn>>

\* Drop the queue's lock, then call mutex_unlock(mtx).
cw_unlock(t) ==
  /\ At(t, "cw_unlock")
  /\ DropClock(t)
  /\ mutex_unlock(t, arg[t], "cw_park")
  /\ UNCHANGED <<cvq, carg, cret>>

cw_park(t) ==
  /\ At(t, "cw_park")
  /\ park(t)
  /\ Goto(t, "cw_parked")
  /\ UNCHANGED <<flag, guard, q, arg, ret, next, cvOwn>>

\* Back from park(): mutex_lock(mtx), and return from cv_wait() after it.
cw_parked(t) ==
  /\ At(t, "cw_parked")
  /\ killed[t] = 0
  /\ mutex_lock(t, arg[t], cret[t])
  /\ UNCHANGED cvOwn

(***************************************************************************)
(* cv_signal(cv) and cv_broadcast(cv)                                      *)
(***************************************************************************)
cv_signal(t, c, r) ==
  /\ Goto(t, "sg_take")
  /\ carg' = [carg EXCEPT ![t] = c]
  /\ cret' = [cret EXCEPT ![t] = r]
  /\ UNCHANGED <<parkVars, flag, guard, q, arg, ret, next, cvq, clock>>

cv_broadcast(t, c, r) ==
  /\ Goto(t, "bc_take")
  /\ carg' = [carg EXCEPT ![t] = c]
  /\ cret' = [cret EXCEPT ![t] = r]
  /\ UNCHANGED <<parkVars, flag, guard, q, arg, ret, next, cvq, clock>>

\* Take the first waiter, if there is one, off the queue.
TakeWaiter(t, found, none) ==
  /\ \/ /\ cvq[carg[t]] = <<>>
        /\ Goto(t, none)
        /\ UNCHANGED <<cvq, next>>
     \/ /\ cvq[carg[t]] # <<>>
        /\ next' = [next EXCEPT ![t] = Head(cvq[carg[t]])]
        /\ cvq' = [cvq EXCEPT ![carg[t]] = Tail(@)]
        /\ Goto(t, found)
  /\ UNCHANGED <<parkVars, flag, guard, q, arg, ret, carg, cret>>

sg_take(t) ==
  /\ At(t, "sg_take")
  /\ ClockFree(t)
  /\ TakeClock(t)
  /\ TakeWaiter(t, "sg_unpark", "sg_unlock")

sg_unpark(t) ==
  /\ At(t, "sg_unpark")
  /\ unpark(next[t])
  /\ Goto(t, "sg_unlock")
  /\ UNCHANGED <<flag, guard, q, arg, ret, next, cvOwn>>

sg_unlock(t) ==
  /\ At(t, "sg_unlock")
  /\ DropClock(t)
  /\ Goto(t, cret[t])
  /\ UNCHANGED <<parkVars, flag, guard, q, arg, ret, next, cvq, carg, cret>>

bc_take(t) ==
  /\ At(t, "bc_take")
  /\ ClockFree(t)
  /\ TakeClock(t)
  /\ TakeWaiter(t, "bc_unpark", "sg_unlock")

\* The loop of cv_broadcast(): wake one waiter and go back for the next.
bc_unpark(t) ==
  /\ At(t, "bc_unpark")
  /\ unpark(next[t])
  /\ Goto(t, "bc_next")
  /\ UNCHANGED <<flag, guard, q, arg, ret, next, cvOwn>>

bc_next(t) ==
  /\ At(t, "bc_next")
  /\ TakeWaiter(t, "bc_unpark", "sg_unlock")
  /\ UNCHANGED clock

CvStep(t) ==
  \/ MutexStep(t) /\ UNCHANGED cvOwn
  \/ cw_add(t) \/ cw_setpark(t) \/ cw_unlock(t) \/ cw_park(t) \/ cw_parked(t)
  \/ sg_take(t) \/ sg_unpark(t) \/ sg_unlock(t)
  \/ bc_take(t) \/ bc_unpark(t) \/ bc_next(t)

CvInit ==
  /\ MutexInit
  /\ cvq = [c \in Cv |-> <<>>]
  /\ clock = [c \in Cv |-> 0]
  /\ carg = [t \in Slot |-> CHOOSE c \in Cv : TRUE]

=============================================================================
