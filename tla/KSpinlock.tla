----------------------------- MODULE KSpinlock -----------------------------
(***************************************************************************)
(* The spinlocks of the kernel (kernel/spinlock.c): acquire() and          *)
(* release() by contexts that run on CPUs.  A context is a process, which  *)
(* may be moved to another CPU while interrupts are on, or an interrupt    *)
(* handler, which runs on top of the process of its CPU.                   *)
(***************************************************************************)
EXTENDS Naturals

CONSTANTS Cpu, Lock, Context, None

ASSUME SpinAssumption == None \notin Cpu \cup Lock \cup Context

VARIABLES
  locked, owner,          \* lk->locked: a set of locks; lk->cpu
  ncli, intena, iflag,    \* of a CPU; intena and FL_IF as sets of CPUs
  at, want, back,         \* of a context: its place in acquire() and
                          \* release(), the lock and where it goes on
  on,                     \* the CPU of a context
  panic

spinVars == <<locked, owner, ncli, intena, iflag, at, want, back, on, panic>>
heldVars == <<locked, owner>>
cpuVars == <<ncli, intena, iflag>>

initlock ==
  /\ locked = {}
  /\ owner = [l \in Lock |-> None]

SpinInit ==
  /\ initlock
  /\ ncli = [c \in Cpu |-> 0] /\ intena = {} /\ iflag = Cpu
  /\ at = [x \in Context |-> "out"]
  /\ want = [x \in Context |-> None]
  /\ back = [x \in Context |-> "user"]
  /\ panic = FALSE

-----------------------------------------------------------------------------
pushcli(c) ==
  /\ intena' = IF ncli[c] > 0 THEN intena
               ELSE IF c \in iflag THEN intena \cup {c} ELSE intena \ {c}
  /\ ncli' = [ncli EXCEPT ![c] = @ + 1]
  /\ iflag' = iflag \ {c}

popcli(c) ==
  /\ ncli' = [ncli EXCEPT ![c] = @ - 1]
  /\ iflag' = IF ncli[c] = 1 /\ c \in intena THEN iflag \cup {c} ELSE iflag
  /\ UNCHANGED intena

holding(l, c) == l \in locked /\ owner[l] = c

Goes(x, place, l, next) ==
  /\ at' = [at EXCEPT ![x] = place]
  /\ want' = [want EXCEPT ![x] = l]
  /\ back' = [back EXCEPT ![x] = next]

\* Interrupts stay on.
acquire_NoCli(x, l, next) ==
  /\ panic' = holding(l, on[x])
  /\ Goes(x, "spin", l, next)
  /\ ncli' = [ncli EXCEPT ![on[x]] = @ + 1]
  /\ UNCHANGED <<heldVars, intena, iflag, on>>

acquire(x, l, next) ==
  /\ pushcli(on[x])
  /\ panic' = holding(l, on[x])
  /\ Goes(x, "spin", l, next)
  /\ UNCHANGED <<heldVars, on>>

\* while(xchg(&lk->locked, 1) != 0);
spin(x) ==
  /\ at[x] = "spin"
  /\ want[x] \notin locked
  /\ locked' = locked \cup {want[x]}
  /\ Goes(x, "own", want[x], back[x])
  /\ UNCHANGED <<owner, cpuVars, on, panic>>

own(x) ==
  /\ at[x] = "own"
  /\ owner' = [owner EXCEPT ![want[x]] = on[x]]
  /\ Goes(x, "out", None, back[x])
  /\ UNCHANGED <<locked, cpuVars, on, panic>>

release(x, l, next) ==
  /\ panic' = ~holding(l, on[x])
  /\ owner' = [owner EXCEPT ![l] = None]
  /\ Goes(x, "free", l, next)
  /\ UNCHANGED <<locked, cpuVars, on>>

\* xchg(&lk->locked, 0), and popcli()
free(x) ==
  /\ at[x] = "free"
  /\ locked' = locked \ {want[x]}
  /\ popcli(on[x])
  /\ panic' = (on[x] \in iflag \/ ncli[on[x]] = 0)
  /\ Goes(x, "out", None, back[x])
  /\ UNCHANGED <<owner, on>>

=============================================================================
