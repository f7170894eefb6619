-------------------------------- MODULE Park --------------------------------
(***************************************************************************)
(* The part of struct proc (kernel/proc.h) through which a thread blocks   *)
(* and is released by pid: setpark, park, unpark and kill of               *)
(* kernel/proc.c.  Each of them runs under ptable.lock from its first      *)
(* access to these fields to its last, so each is one atomic step here.    *)
(* A Slot is an entry of ptable.proc; the lookup by pid belongs to the     *)
(* callers.                                                                *)
(*                                                                         *)
(* The operators are the effect of a call on the fields; the modules that  *)
(* extend this one say when a thread calls them.                           *)
(***************************************************************************)

EXTENDS Naturals

CONSTANT Slot

VARIABLES
  state,             \* p->state
  isParked,          \* p->isParked
  immediateUnpark,   \* p->immediateUnpark
  setPark,           \* p->setPark
  killed             \* p->killed

parkFlags == <<isParked, immediateUnpark, setPark>>
parkVars  == <<state, isParked, immediateUnpark, setPark, killed>>

ProcState == {"UNUSED", "EMBRYO", "SLEEPING", "RUNNABLE", "RUNNING", "ZOMBIE"}

ParkTypeOK ==
  /\ state \in [Slot -> ProcState]
  /\ isParked \in [Slot -> {0, 1}]
  /\ immediateUnpark \in [Slot -> {0, 1}]
  /\ setPark \in [Slot -> {0, 1}]
  /\ killed \in [Slot -> {0, 1}]

\* The process table is in the kernel's zeroed data segment.
ParkInit ==
  /\ isParked = [s \in Slot |-> 0]
  /\ immediateUnpark = [s \in Slot |-> 0]
  /\ setPark = [s \in Slot |-> 0]
  /\ killed = [s \in Slot |-> 0]

-----------------------------------------------------------------------------

setpark_Ignored(s) ==
  UNCHANGED parkVars

\* setpark() by s: ready to park, unless an unpark is already pending.
setpark(s) ==
  /\ setPark' = [setPark EXCEPT ![s] = IF immediateUnpark[s] = 0 THEN 1 ELSE @]
  /\ UNCHANGED <<state, isParked, immediateUnpark, killed>>

\* park() by s: sleep, or consume the pending unpark and go on.
park(s) ==
  /\ setPark' = [setPark EXCEPT ![s] = 0]
  /\ \/ /\ immediateUnpark[s] = 0
        /\ state' = [state EXCEPT ![s] = "SLEEPING"]
        /\ isParked' = [isParked EXCEPT ![s] = 1]
        /\ UNCHANGED immediateUnpark
     \/ /\ immediateUnpark[s] # 0
        /\ immediateUnpark' = [immediateUnpark EXCEPT ![s] = 0]
        /\ UNCHANGED <<state, isParked>>
  /\ UNCHANGED killed

\* unpark1(): wakes s only if it really sleeps in park().
unpark1(s) ==
  /\ IF state[s] = "SLEEPING" /\ isParked[s] = 1
       THEN /\ state' = [state EXCEPT ![s] = "RUNNABLE"]
            /\ isParked' = [isParked EXCEPT ![s] = 0]
       ELSE UNCHANGED <<state, isParked>>
  /\ UNCHANGED <<immediateUnpark, setPark, killed>>

unpark_OnlySleepers(s) ==
  unpark1(s)

\* unpark() of the thread in slot s, by any thread.
unpark(s) ==
  \/ /\ setPark[s] = 0 /\ isParked[s] = 0
     /\ UNCHANGED parkVars
  \/ /\ setPark[s] = 1 /\ isParked[s] = 0
     /\ immediateUnpark' = [immediateUnpark EXCEPT ![s] = 1]
     /\ UNCHANGED <<state, isParked, setPark, killed>>
  \/ /\ isParked[s] # 0
     /\ unpark1(s)

kill_AnyState(s) ==
  /\ killed' = [killed EXCEPT ![s] = 1]
  /\ state' = [state EXCEPT ![s] = "RUNNABLE"]
  /\ UNCHANGED parkFlags

\* kill() of the process in slot s: any sleep is ended, isParked stays.
kill(s) ==
  /\ killed' = [killed EXCEPT ![s] = 1]
  /\ state' = [state EXCEPT ![s] = IF @ = "SLEEPING" THEN "RUNNABLE" ELSE @]
  /\ UNCHANGED parkFlags

=============================================================================
