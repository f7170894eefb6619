----------------------------- MODULE Semaphore ------------------------------
(***************************************************************************)
(* The semaphore of the thread library, user/semaphore.c: a counter under  *)
(* a mutex and a condition variable of its own.  sarg[t] is the argument   *)
(* of the semaphore call t is in, sret[t] the statement after it.          *)
(***************************************************************************)
EXTENDS CondVar, Integers

CONSTANTS
  Sem,
  semMtx, semCond      \* sem->mtx and sem->cond

ASSUME SemAssumption ==
  /\ semMtx \in [Sem -> Mtx] /\ semCond \in [Sem -> Cv]
  /\ \A s, r \in Sem : semMtx[s] = semMtx[r] \/ semCond[s] = semCond[r] => s = r

VARIABLES
  value,      \* sem->value
  sarg, sret

semOwn  == <<value, sarg, sret>>
semVars == <<cvVars, semOwn>>

sem_init(initval) == value = initval

\* A call of f(sem): enter its mutex_lock(sem->mtx).
SemCall(t, s, first, r) ==
  /\ mutex_lock(t, semMtx[s], first)
  /\ sarg' = [sarg EXCEPT ![t] = s]
  /\ sret' = [sret EXCEPT ![t] = r]
  /\ UNCHANGED <<value, cvOwn>>

sem_wait(t, s, r) == SemCall(t, s, "sw_test", r)

sem_post(t, s, r) == SemCall(t, s, "sp_inc", r)

\* The while loop of sem_wait().
sw_test(t) ==
  LET s == sarg[t] IN
  /\ At(t, "sw_test")
  /\ value[s] <= 0
  /\ cv_wait(t, semCond[s], semMtx[s], "sw_test")
  /\ UNCHANGED semOwn

sw_pass(t) ==
  /\ At(t, "sw_test")
  /\ value[sarg[t]] > 0
  /\ Goto(t, "sw_dec")
  /\ UNCHANGED <<parkVars, flag, guard, q, arg, ret, next, cvOwn, semOwn>>

\* value--, and mutex_unlock(sem->mtx).
sw_dec(t) ==
  /\ At(t, "sw_dec")
  /\ value' = [value EXCEPT ![sarg[t]] = @ - 1]
  /\ mutex_unlock(t, semMtx[sarg[t]], sret[t])
  /\ UNCHANGED <<cvOwn, sarg, sret>>

\* value++, and cv_signal(sem->cond).
sp_inc(t) ==
  /\ At(t, "sp_inc")
  /\ value' = [value EXCEPT ![sarg[t]] = @ + 1]
  /\ cv_signal(t, semCond[sarg[t]], "sp_unlock")
  /\ UNCHANGED <<sarg, sret>>

sp_unlock(t) ==
  /\ At(t, "sp_unlock")
  /\ mutex_unlock(t, semMtx[sarg[t]], sret[t])
  /\ UNCHANGED <<cvOwn, semOwn>>

SemStep(t) ==
  \/ CvStep(t) /\ UNCHANGED semOwn
  \/ sw_test(t) \/ sw_pass(t) \/ sw_dec(t) \/ sp_inc(t) \/ sp_unlock(t)

SemInit(initval) ==
  /\ CvInit
  /\ sem_init(initval)
  /\ sarg = [t \in Slot |-> CHOOSE s \in Sem : TRUE]

=============================================================================
