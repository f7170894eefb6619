----------------------------- MODULE CondProofs -----------------------------
(***************************************************************************)
(* The condition variable test, for any threads, any numbers of turns, any *)
(* size of the buffer, and with cv_broadcast() or without: no thread       *)
(* sleeps forgotten in cv_wait() or mutex_lock(), and the buffer is a      *)
(* first-in-first-out channel.                                             *)
(***************************************************************************)
EXTENDS CondBuffer, Integers, Sequences, TLAPS

-----------------------------------------------------------------------------
(* Where a thread can be. *)

Begin(t) == IF t \in Producer THEN "p_loop" ELSE "c_loop"
Test(t)  == IF t \in Producer THEN "p_test" ELSE "c_test"
End(t)   == IF t \in Producer THEN "p_unlock" ELSE "c_unlock"
Body(t)  == IF t \in Producer THEN {"p_put", "p_count"} ELSE {"c_get", "c_count"}

Locking == {"ml_spin", "ml_test", "ml_got", "ml_setpark", "ml_unguard", "ml_park",
            "ml_parked"}
Unlocking == {"mu_spin", "mu_test", "mu_unpark", "mu_unguard"}
InCvWait == {"cw_add", "cw_setpark", "cw_unlock", "cw_park", "cw_parked"}
Signalling == {"sg_take", "sg_unpark", "sg_unlock", "bc_take", "bc_unpark", "bc_next"}
InGuard == {"ml_test", "ml_got", "ml_setpark", "ml_unguard", "mu_test", "mu_unpark",
            "mu_unguard"}
Unparking == {"mu_unpark", "sg_unpark", "bc_unpark"}

\* In the mutex_unlock() that cv_wait() calls between setpark() and park().
InWait(t) == pc[t] \in Unlocking /\ ret[t] = "cw_park"

\* Between setpark() and park(), and in park().
Ready(t)  == pc[t] \in {"ml_unguard", "ml_park", "cw_unlock", "cw_park"} \/ InWait(t)
Parked(t) == pc[t] \in {"ml_parked", "cw_parked"}

\* Where one that has been taken off the mutex's queue is, or one that has been
\* taken off a condition variable's.
LockSleeper(t) == pc[t] \in {"ml_park", "ml_parked"}
CvSleeper(t)   == pc[t] \in {"cw_park", "cw_parked"}
                    \/ (InWait(t) /\ pc[t] \in {"mu_unpark", "mu_unguard"})

\* On a condition variable's queue and still with the mutex.
CvHolder(t) == pc[t] \in {"cw_setpark", "cw_unlock"}
                 \/ (InWait(t) /\ pc[t] \in {"mu_spin", "mu_test"})

OnQueue(t) == t \in Elems(q[mtx])
OnCv(t)    == \E c \in Cv : t \in Elems(cvq[c])

Wakes(u, t) == pc[u] \in Unparking /\ next[u] = t

\* Someone is going to unpark t, or will once t's turn in a queue comes.
Due(t) == OnQueue(t) \/ OnCv(t) \/ \E u \in Slot : Wakes(u, t)

\* t has the mutex.  mutex_unlock() passes it on to a thread it takes off the queue.
Holding(t) == {"ml_got", "mu_spin", "mu_test", "cw_add", "cw_setpark", "cw_unlock",
               Test(t), End(t)} \cup Signalling \cup Body(t)
Owns(t) == pc[t] \in Holding(t) \/ (LockSleeper(t) /\ ~OnQueue(t))

NoDup(s) == \A j, k \in 1..Len(s) : s[j] = s[k] => j = k

-----------------------------------------------------------------------------
(* The invariant. *)

Types ==
  /\ state \in [Slot -> {"RUNNABLE", "SLEEPING", "ZOMBIE"}]
  /\ isParked \in [Slot -> {0, 1}] /\ setPark \in [Slot -> {0, 1}]
  /\ immediateUnpark \in [Slot -> {0, 1}] /\ DOMAIN pc = Slot /\ DOMAIN ret = Slot
  /\ arg \in [Slot -> {mtx}] /\ next \in [Slot -> Slot]
  /\ flag \in [{mtx} -> {0, 1}] /\ guard \in [{mtx} -> {0, 1}] /\ q \in [{mtx} -> Seq(Slot)]
  /\ cvq \in [Cv -> Seq(Slot)] /\ carg \in [Slot -> Cv] /\ DOMAIN cret = Slot
  /\ i \in [Slot -> Nat]

\* The calls that t is in, and where they return to.
Place(t) ==
  \/ pc[t] \in Locking /\ ret[t] = Test(t)
  \/ pc[t] \in Unlocking /\ (ret[t] = Begin(t) \/ (ret[t] = "cw_park" /\ cret[t] = Test(t)))
  \/ pc[t] \in InCvWait /\ cret[t] = Test(t)
  \/ pc[t] \in Signalling /\ cret[t] = End(t)
  \/ pc[t] \in {Begin(t), Test(t), End(t), "done"} \cup Body(t)

\* i < loops in the body of the loop.
Turns(t) ==
  \/ i[t] < loops[t]
  \/ /\ i[t] <= loops[t]
     /\ pc[t] \in {Begin(t), "done"} \/ (pc[t] \in Unlocking /\ ret[t] = Begin(t))

Places == \A t \in Slot : Place(t) /\ Turns(t)

GuardInv ==
  /\ \A t \in Slot : pc[t] \in InGuard => guard[mtx] = 1
  /\ \A t, u \in Slot : pc[t] \in InGuard /\ pc[u] \in InGuard => t = u

OwnerInv ==
  /\ \A t \in Slot : Owns(t) => flag[mtx] = 1
  /\ \A t, u \in Slot : Owns(t) /\ Owns(u) => t = u

\* A thread is on the queues that its place says, and on no other.
QueueOK(t) ==
  /\ OnQueue(t) => LockSleeper(t) \/ pc[t] \in {"ml_setpark", "ml_unguard"}
  /\ pc[t] \in {"ml_setpark", "ml_unguard"} => OnQueue(t)
  /\ \A c \in Cv : t \in Elems(cvq[c]) => carg[t] = c /\ (CvSleeper(t) \/ CvHolder(t))
  /\ CvHolder(t) => OnCv(t)

QueueInv ==
  /\ NoDup(q[mtx]) /\ \A c \in Cv : NoDup(cvq[c])
  /\ \A t \in Slot : QueueOK(t)

\* The thread that u is about to unpark is off the queues.
WakeOK(u, t) ==
  /\ ~OnQueue(t) /\ ~OnCv(t)
  /\ pc[u] = "mu_unpark" => LockSleeper(t)
  /\ pc[u] # "mu_unpark" => CvSleeper(t)

WakeInv == \A t, u \in Slot : Wakes(u, t) => WakeOK(u, t)

\* The kernel's flags say where t is and whether an unpark is due.
ParkOK(t) ==
  /\ isParked[t] = 1 <=> state[t] = "SLEEPING"
  /\ state[t] = "SLEEPING" <=> Parked(t) /\ Due(t)
  /\ setPark[t] = 1 <=> Ready(t)
  /\ immediateUnpark[t] = 1 <=> Ready(t) /\ ~Due(t)

ParkInv == \A t \in Slot : ParkOK(t)

CondInv ==
  Types /\ Places /\ GuardInv /\ OwnerInv /\ QueueInv /\ WakeInv /\ ParkInv

-----------------------------------------------------------------------------
(* The queues of pids as sets. *)

\* queue_add() adds exactly the new pid.
LEMMA ElemsAppend ==
  ASSUME NEW S, NEW s \in Seq(S), NEW x \in S
  PROVE  /\ Append(s, x) \in Seq(S)
         /\ Elems(Append(s, x)) = Elems(s) \cup {x}
         /\ NoDup(s) /\ x \notin Elems(s) => NoDup(Append(s, x))
<1>1. /\ Append(s, x) \in Seq(S)
      /\ Len(Append(s, x)) = Len(s) + 1
      /\ \A j \in 1..Len(s) : Append(s, x)[j] = s[j]
      /\ Append(s, x)[Len(s) + 1] = x
  OBVIOUS
<1>2. Len(s) \in Nat
  OBVIOUS
<1>3. Elems(Append(s, x)) = Elems(s) \cup {x}
  BY <1>1, <1>2 DEF Elems
<1>4. NoDup(s) /\ x \notin Elems(s) => NoDup(Append(s, x))
  BY <1>1, <1>2 DEF Elems, NoDup
<1> QED
  BY <1>1, <1>3, <1>4, Zenon

\* queue_remove() takes exactly the first pid off a queue without duplicates.
LEMMA ElemsTail ==
  ASSUME NEW S, NEW s \in Seq(S), s # <<>>, NoDup(s)
  PROVE  /\ Head(s) \in S
         /\ Head(s) \in Elems(s)
         /\ Tail(s) \in Seq(S)
         /\ Elems(Tail(s)) = Elems(s) \ {Head(s)}
         /\ NoDup(Tail(s))
<1>1. /\ Head(s) \in S
      /\ Tail(s) \in Seq(S)
      /\ Len(Tail(s)) = Len(s) - 1
      /\ \A j \in 1..Len(Tail(s)) : Tail(s)[j] = s[j + 1]
  OBVIOUS
<1>2. Len(s) \in Nat /\ Len(s) # 0 /\ Head(s) = s[1]
  OBVIOUS
<1>3. Head(s) \in Elems(s)
  BY <1>2 DEF Elems
<1>4. Elems(Tail(s)) \subseteq Elems(s) \ {Head(s)}
  BY <1>1, <1>2 DEF Elems, NoDup
<1>5. Elems(s) \ {Head(s)} \subseteq Elems(Tail(s))
  <2> SUFFICES ASSUME NEW j \in 1..Len(s), s[j] # Head(s)
               PROVE  s[j] \in Elems(Tail(s))
    BY Zenon DEF Elems
  <2>1. j - 1 \in 1..Len(Tail(s)) /\ Tail(s)[j - 1] = s[j]
    BY <1>1, <1>2
  <2> QED
    BY <2>1, Zenon DEF Elems
<1>6. NoDup(Tail(s))
  BY <1>1, <1>2 DEF NoDup
<1> QED
  BY <1>1, <1>3, <1>4, <1>5, <1>6, Zenon

\* An empty queue has no pids.
LEMMA ElemsEmpty == Elems(<<>>) = {} /\ NoDup(<<>>)
  BY DEF Elems, NoDup

-----------------------------------------------------------------------------
(* Types. *)

\* A step of the library keeps the types.
LEMMA TypesLibrary ==
  ASSUME Types, NEW t \in Slot, CvStep(t), UNCHANGED i
  PROVE  Types'
<1> USE BufferAssumption DEF Types, Goto, At, CanRun, parkVars, cvOwn, spin_lock, spin_unlock
<1>1. CASE ml_spin(t) /\ UNCHANGED cvOwn
  BY <1>1, Zenon DEF ml_spin
<1>2. CASE ml_test(t) /\ UNCHANGED cvOwn
  <2>1. arg[t] = mtx /\ q[mtx] \in Seq(Slot)
    BY Zenon
  <2>2. Append(q[mtx], t) \in Seq(Slot)
    BY <2>1, ElemsAppend, Zenon
  <2>a. q' = q \/ q' = [q EXCEPT ![mtx] = Append(q[mtx], t)]
    BY <1>2, <2>1, Zenon DEF ml_test, queue_add
  <2>3. q' \in [{mtx} -> Seq(Slot)]
    <3>1. [q EXCEPT ![mtx] = Append(q[mtx], t)] \in [{mtx} -> Seq(Slot)]
      BY <2>2, Zenon
    <3> QED
      BY <2>a, <3>1, Zenon
  <2>4. flag' \in [{mtx} -> {0, 1}]
    BY <1>2, ZenonT(30) DEF ml_test
  <2> QED
    BY <1>2, <2>3, <2>4, Zenon DEF ml_test
<1>3. CASE ml_got(t) /\ UNCHANGED cvOwn
  BY <1>3, Zenon DEF ml_got
<1>4. CASE ml_setpark(t) /\ UNCHANGED cvOwn
  BY <1>4, Zenon DEF ml_setpark, setpark
<1>5. CASE ml_unguard(t) /\ UNCHANGED cvOwn
  BY <1>5, Zenon DEF ml_unguard
<1>6. CASE ml_park(t) /\ UNCHANGED cvOwn
  BY <1>6, Zenon DEF ml_park, park
<1>7. CASE ml_parked(t) /\ UNCHANGED cvOwn
  BY <1>7, Zenon DEF ml_parked
<1>8. CASE mu_spin(t) /\ UNCHANGED cvOwn
  BY <1>8, Zenon DEF mu_spin
<1>9. CASE mu_test(t) /\ UNCHANGED cvOwn
  <2>1. arg[t] = mtx /\ q[mtx] \in Seq(Slot)
    BY Zenon
  <2>2. q[mtx] # <<>> => Head(q[mtx]) \in Slot /\ Tail(q[mtx]) \in Seq(Slot)
    BY <2>1
  <2>a. \/ q' = q /\ next' = next
        \/ /\ q[mtx] # <<>>
           /\ q' = [q EXCEPT ![mtx] = Tail(q[mtx])] /\ next' = [next EXCEPT ![t] = Head(q[mtx])]
    BY <1>9, <2>1, Zenon DEF mu_test, queue_remove
  <2>3. q' \in [{mtx} -> Seq(Slot)]
    <3>1. q[mtx] # <<>> => [q EXCEPT ![mtx] = Tail(q[mtx])] \in [{mtx} -> Seq(Slot)]
      BY <2>2, Zenon
    <3> QED
      BY <2>a, <3>1, Zenon
  <2>4. next' \in [Slot -> Slot]
    <3>1. q[mtx] # <<>> => [next EXCEPT ![t] = Head(q[mtx])] \in [Slot -> Slot]
      BY <2>2, Zenon
    <3> QED
      BY <2>a, <3>1, Zenon
  <2>5. flag' \in [{mtx} -> {0, 1}]
    BY <1>9, ZenonT(30) DEF mu_test
  <2> QED
    BY <1>9, <2>3, <2>4, <2>5, Zenon DEF mu_test
<1>10. CASE mu_unpark(t) /\ UNCHANGED cvOwn
  BY <1>10, ZenonT(30) DEF mu_unpark, unpark, unpark1
<1>11. CASE mu_unguard(t) /\ UNCHANGED cvOwn
  BY <1>11, Zenon DEF mu_unguard
<1>12. CASE cw_add(t)
  <2>1. carg[t] \in Cv /\ cvq[carg[t]] \in Seq(Slot)
    BY Zenon
  <2>2. Append(cvq[carg[t]], t) \in Seq(Slot)
    BY <2>1, ElemsAppend, Zenon
  <2>3. cvq' \in [Cv -> Seq(Slot)]
    BY <1>12, <2>1, <2>2, Zenon DEF cw_add
  <2> QED
    BY <1>12, <2>3, Zenon DEF cw_add
<1>13. CASE cw_setpark(t)
  BY <1>13, Zenon DEF cw_setpark, setpark
<1>14. CASE cw_unlock(t)
  BY <1>14, Zenon DEF cw_unlock, mutex_unlock
<1>15. CASE cw_park(t)
  BY <1>15, Zenon DEF cw_park, park
<1>16. CASE cw_parked(t)
  BY <1>16, Zenon DEF cw_parked, mutex_lock
<1>17. ASSUME NEW found, NEW none, TakeWaiter(t, found, none) PROVE Types'
  <2>1. carg[t] \in Cv /\ cvq[carg[t]] \in Seq(Slot)
    BY Zenon
  <2>2. cvq[carg[t]] # <<>> => Head(cvq[carg[t]]) \in Slot /\ Tail(cvq[carg[t]]) \in Seq(Slot)
    BY <2>1
  <2>a. \/ cvq' = cvq /\ next' = next
        \/ /\ cvq[carg[t]] # <<>>
           /\ cvq' = [cvq EXCEPT ![carg[t]] = Tail(cvq[carg[t]])]
           /\ next' = [next EXCEPT ![t] = Head(cvq[carg[t]])]
    BY <1>17, <2>1, Zenon DEF TakeWaiter
  <2>3. cvq' \in [Cv -> Seq(Slot)]
    <3>1. cvq[carg[t]] # <<>> =>
            [cvq EXCEPT ![carg[t]] = Tail(cvq[carg[t]])] \in [Cv -> Seq(Slot)]
      BY <2>1, <2>2, Zenon
    <3> QED
      BY <2>a, <3>1, Zenon
  <2>4. next' \in [Slot -> Slot]
    <3>1. cvq[carg[t]] # <<>> => [next EXCEPT ![t] = Head(cvq[carg[t]])] \in [Slot -> Slot]
      BY <2>2, Zenon
    <3> QED
      BY <2>a, <3>1, Zenon
  <2> QED
    BY <1>17, <2>3, <2>4, Zenon DEF TakeWaiter
<1>18. CASE sg_take(t) \/ bc_take(t) \/ bc_next(t)
  BY <1>17, <1>18, Zenon DEF sg_take, bc_take, bc_next
<1>19. CASE sg_unpark(t)
  BY <1>19, ZenonT(30) DEF sg_unpark, unpark, unpark1
<1>20. CASE bc_unpark(t)
  BY <1>20, ZenonT(30) DEF bc_unpark, unpark, unpark1
<1>21. CASE sg_unlock(t)
  BY <1>21, Zenon DEF sg_unlock
<1> QED
  BY <1>1, <1>2, <1>3, <1>4, <1>5, <1>6, <1>7, <1>8, <1>9, <1>10, <1>11, <1>12, <1>13,
     <1>14, <1>15, <1>16, <1>18, <1>19, <1>20, <1>21, ZenonT(30) DEF CvStep, MutexStep

\* A step of the program keeps the types.
LEMMA TypesStep ==
  ASSUME Types, NEW t \in Slot, Step(t)
  PROVE  Types'
<1> USE BufferAssumption DEF Types, Goto, At, CanRun, parkVars, parkFlags, cvOwn
<1>1. CASE CvStep(t) /\ UNCHANGED <<ringVars, i>>
  BY <1>1, TypesLibrary, Zenon
<1>2. ASSUME NEW l, NEW r, Loop(t, l, r) PROVE Types'
  BY <1>2, SMTT(30) DEF Loop, mutex_lock
<1>3. ASSUME NEW l, NEW r, EndLoop(t, l, r) PROVE Types'
  <2>1. i[t] + 1 \in Nat
    OBVIOUS
  <2> QED
    BY <1>3, <2>1, Zenon DEF EndLoop, mutex_unlock
<1>4. ASSUME NEW l, NEW b, NEW c \in Cv, NEW r, While(t, l, b, c, r) PROVE Types'
  <2>1. CASE cv_wait(t, c, mtx, l)
    BY <1>4, <2>1, Zenon DEF While, cv_wait
  <2>2. CASE ~cv_wait(t, c, mtx, l)
    BY <1>4, <2>2, ZenonT(30) DEF While
  <2> QED
    BY <2>1, <2>2, Zenon
<1>5. CASE p_put(t) \/ c_get(t)
  BY <1>5, ZenonT(30) DEF p_put, c_get
<1>6. ASSUME NEW c \in Cv, NEW r, wake(t, c, r), UNCHANGED i PROVE Types'
  <2>1. CASE cv_signal(t, c, r)
    BY <1>6, <2>1, Zenon DEF cv_signal
  <2>2. CASE cv_broadcast(t, c, r)
    BY <1>6, <2>2, Zenon DEF cv_broadcast
  <2> QED
    BY <1>6, <2>1, <2>2, Zenon DEF wake
<1> QED
  BY <1>1, <1>2, <1>3, <1>4, <1>5, <1>6, Zenon
  DEF Step, p_loop, p_test, p_count, p_unlock, c_loop, c_test, c_count, c_unlock

-----------------------------------------------------------------------------
(* What a step of t leaves alone. *)

\* The other threads stay where they are.
Still(u) ==
  /\ pc'[u] = pc[u] /\ ret'[u] = ret[u] /\ next'[u] = next[u]
  /\ carg'[u] = carg[u] /\ cret'[u] = cret[u] /\ i'[u] = i[u]

Alone(t) == \A u \in Slot \ {t} : Still(u)

\* u stays on the queues that it is on.
SameQueues(u) ==
  /\ OnQueue(u)' <=> OnQueue(u)
  /\ \A c \in Cv : (u \in Elems(cvq[c]))' <=> u \in Elems(cvq[c])

SameFlags(u) ==
  /\ state'[u] = state[u] /\ isParked'[u] = isParked[u]
  /\ setPark'[u] = setPark[u] /\ immediateUnpark'[u] = immediateUnpark[u]

\* Every step moves one thread only.
LEMMA AloneStep ==
  ASSUME Types, NEW t \in Slot, Step(t)
  PROVE  Alone(t)
<1> SUFFICES ASSUME NEW u \in Slot \ {t} PROVE Still(u)
  BY Zenon DEF Alone
<1>0. u # t /\ u \in DOMAIN pc /\ u \in DOMAIN ret /\ u \in DOMAIN next
      /\ u \in DOMAIN carg /\ u \in DOMAIN cret /\ u \in DOMAIN i
  BY Zenon DEF Types
<1> USE <1>0 DEF Goto, cvOwn, Still
<1>1. CASE MutexStep(t) /\ UNCHANGED cvOwn /\ UNCHANGED <<ringVars, i>>
  BY <1>1, Zenon DEF MutexStep, ml_spin, ml_test, ml_got, ml_setpark, ml_unguard, ml_park,
     ml_parked, mu_spin, mu_test, mu_unpark, mu_unguard
<1>2. CASE (cw_add(t) \/ cw_setpark(t) \/ cw_unlock(t) \/ cw_park(t) \/ cw_parked(t))
             /\ UNCHANGED <<ringVars, i>>
  BY <1>2, Zenon DEF cw_add, cw_setpark, cw_unlock, cw_park, cw_parked, mutex_lock, mutex_unlock
<1>3. CASE (sg_take(t) \/ sg_unpark(t) \/ sg_unlock(t) \/ bc_take(t) \/ bc_unpark(t)
             \/ bc_next(t)) /\ UNCHANGED <<ringVars, i>>
  BY <1>3, Zenon DEF sg_take, sg_unpark, sg_unlock, bc_take, bc_unpark, bc_next, TakeWaiter
<1>4. ASSUME NEW l, NEW r, Loop(t, l, r) PROVE Still(u)
  BY <1>4, Zenon DEF Loop, mutex_lock
<1>5. ASSUME NEW l, NEW r, EndLoop(t, l, r) PROVE Still(u)
  BY <1>5, Zenon DEF EndLoop, mutex_unlock
<1>6. ASSUME NEW l, NEW b, NEW c, NEW r, While(t, l, b, c, r) PROVE Still(u)
  BY <1>6, Zenon DEF While, cv_wait
<1>7. CASE p_put(t) \/ c_get(t)
  BY <1>7, Zenon DEF p_put, c_get
<1>8. CASE p_count(t) \/ c_count(t)
  BY <1>8, Zenon DEF p_count, c_count, wake, cv_signal, cv_broadcast
<1> QED
  BY <1>1, <1>2, <1>3, <1>4, <1>5, <1>6, <1>7, <1>8, Zenon
  DEF Step, CvStep, p_loop, p_test, p_unlock, c_loop, c_test, c_unlock

\* What the invariant says of a thread that stays where it is stays true.
LEMMA Same ==
  ASSUME NEW u \in Slot, Still(u)
  PROVE  /\ Place(u)' <=> Place(u)
         /\ Turns(u)' <=> Turns(u)
         /\ Ready(u)' <=> Ready(u)
         /\ Parked(u)' <=> Parked(u)
         /\ LockSleeper(u)' <=> LockSleeper(u)
         /\ CvSleeper(u)' <=> CvSleeper(u)
         /\ CvHolder(u)' <=> CvHolder(u)
         /\ SameQueues(u) => (Owns(u)' <=> Owns(u))
         /\ SameQueues(u) => (OnCv(u)' <=> OnCv(u))
         /\ SameQueues(u) => (QueueOK(u)' <=> QueueOK(u))
         /\ \A x \in Slot : Wakes(u, x)' <=> Wakes(u, x)
<1> USE DEF Still
<1>1. /\ Place(u)' <=> Place(u)
      /\ Turns(u)' <=> Turns(u)
  BY Zenon DEF Place, Turns
<1>2. InWait(u)' <=> InWait(u)
  BY Zenon DEF InWait
<1>3. /\ Ready(u)' <=> Ready(u)
      /\ Parked(u)' <=> Parked(u)
      /\ LockSleeper(u)' <=> LockSleeper(u)
      /\ CvSleeper(u)' <=> CvSleeper(u)
      /\ CvHolder(u)' <=> CvHolder(u)
  BY <1>2, Zenon DEF Ready, Parked, LockSleeper, CvSleeper, CvHolder
<1>4. ASSUME SameQueues(u) PROVE OnCv(u)' <=> OnCv(u)
  BY <1>4, Zenon DEF SameQueues, OnCv
<1>5. ASSUME SameQueues(u) PROVE Owns(u)' <=> Owns(u)
  BY <1>3, <1>5, Zenon DEF SameQueues, Owns
<1>6. ASSUME SameQueues(u) PROVE QueueOK(u)' <=> QueueOK(u)
  BY <1>3, <1>4, <1>6, Zenon DEF SameQueues, QueueOK
<1>7. \A x \in Slot : Wakes(u, x)' <=> Wakes(u, x)
  BY Zenon DEF Wakes
<1> QED
  BY <1>1, <1>3, <1>4, <1>5, <1>6, <1>7, Zenon

\* Queues that do not change.
LEMMA SameLists ==
  ASSUME q' = q, cvq' = cvq, NEW u \in Slot
  PROVE  SameQueues(u)
BY Zenon DEF SameQueues, OnQueue

\* A step of t moves nobody else.
LEMMA PlacesMove ==
  ASSUME Places, NEW t \in Slot, Alone(t), Place(t)', Turns(t)'
  PROVE  Places'
<1>1. ASSUME NEW u \in Slot, u # t PROVE Place(u)' /\ Turns(u)'
  BY <1>1, Same, Zenon DEF Alone, Places
<1> QED
  BY <1>1, Zenon DEF Places

\* t takes the guard, or keeps it, or drops it, or has nothing to do with it.
LEMMA GuardMove ==
  ASSUME GuardInv, NEW t \in Slot, Alone(t),
         \/ pc[t] \notin InGuard /\ pc'[t] \notin InGuard /\ guard' = guard
         \/ guard[mtx] = 0 /\ guard'[mtx] = 1
         \/ pc[t] \in InGuard /\ pc'[t] \in InGuard /\ guard' = guard
         \/ pc[t] \in InGuard /\ pc'[t] \notin InGuard
  PROVE  GuardInv'
<1> USE DEF GuardInv, Alone, Still
<1>0. \A u \in Slot : u # t => pc'[u] = pc[u]
  BY Zenon
<1>1. CASE pc[t] \notin InGuard /\ pc'[t] \notin InGuard /\ guard' = guard
  BY <1>0, <1>1, Zenon
<1>2. CASE guard[mtx] = 0 /\ guard'[mtx] = 1
  <2>1. \A u \in Slot : pc[u] \notin InGuard
    BY <1>2
  <2>2. \A u \in Slot : pc'[u] \in InGuard => u = t
    BY <1>0, <2>1, Zenon
  <2> QED
    BY <1>2, <2>2, Zenon
<1>3. CASE pc[t] \in InGuard /\ pc'[t] \in InGuard /\ guard' = guard
  BY <1>0, <1>3, Zenon
<1>4. CASE pc[t] \in InGuard /\ pc'[t] \notin InGuard
  <2>1. \A u \in Slot : pc'[u] \notin InGuard
    BY <1>0, <1>4, Zenon
  <2> QED
    BY <2>1, Zenon
<1> QED
  BY <1>1, <1>2, <1>3, <1>4, Zenon

\* t gets the mutex only from mutex_lock() and from the thread that had it.
LEMMA OwnerMove ==
  ASSUME OwnerInv, NEW t \in Slot, Alone(t), \A u \in Slot \ {t} : SameQueues(u),
         Owns(t)' => Owns(t), flag' = flag
  PROVE  OwnerInv'
<1>1. \A u \in Slot : Owns(u)' => Owns(u)
  BY Same, Zenon DEF Alone
<1> QED
  BY <1>1, Zenon DEF OwnerInv

-----------------------------------------------------------------------------
(* The queues, the wakers and the kernel's flags. *)

\* A step of t that takes nobody off a queue and unparks nobody.
LEMMA Turn ==
  ASSUME QueueInv, WakeInv, ParkInv, NEW t \in Slot, Alone(t),
         \A u \in Slot \ {t} : SameQueues(u) /\ SameFlags(u),
         NoDup(q[mtx])', \A c \in Cv : NoDup(cvq[c])',
         pc[t] \notin Unparking, pc'[t] \notin Unparking,
         QueueOK(t)', ParkOK(t)',
         \A u \in Slot : Wakes(u, t) => WakeOK(u, t)'
  PROVE  QueueInv' /\ WakeInv' /\ ParkInv'
<1>0. \A u \in Slot : u # t => Still(u) /\ SameQueues(u) /\ SameFlags(u)
  BY Zenon DEF Alone
<1>1. QueueInv'
  <2>1. ASSUME NEW u \in Slot PROVE QueueOK(u)'
    BY <1>0, Same, Zenon DEF QueueInv
  <2> QED
    BY <2>1, Zenon DEF QueueInv
<1>2. \A u, x \in Slot : Wakes(u, x)' <=> Wakes(u, x)
  <2>1. ASSUME NEW x \in Slot PROVE ~Wakes(t, x) /\ ~Wakes(t, x)'
    BY Zenon DEF Wakes
  <2> QED
    BY <1>0, <2>1, Same, Zenon
<1>3. WakeInv'
  <2> SUFFICES ASSUME NEW u \in Slot, NEW x \in Slot, Wakes(u, x) PROVE WakeOK(u, x)'
    BY <1>2, Zenon DEF WakeInv
  <2>1. CASE x = t
    BY <2>1, Zenon
  <2>2. CASE x # t
    <3>1. WakeOK(u, x) /\ u # t
      BY Zenon DEF WakeInv, Wakes
    <3>2. pc'[u] = pc[u]
      BY <1>0, <3>1, Zenon DEF Still
    <3>3. /\ OnQueue(x)' <=> OnQueue(x)
          /\ OnCv(x)' <=> OnCv(x)
          /\ LockSleeper(x)' <=> LockSleeper(x)
          /\ CvSleeper(x)' <=> CvSleeper(x)
      BY <1>0, <2>2, Same, Zenon DEF SameQueues
    <3> QED
      BY <3>1, <3>2, <3>3, Zenon DEF WakeOK
  <2> QED
    BY <2>1, <2>2, Zenon
<1>4. ParkInv'
  <2>1. ASSUME NEW u \in Slot, u # t PROVE ParkOK(u)'
    <3>1. ParkOK(u) /\ SameFlags(u)
      BY <1>0, <2>1, Zenon DEF ParkInv
    <3>2. /\ Ready(u)' <=> Ready(u)
          /\ Parked(u)' <=> Parked(u)
          /\ OnQueue(u)' <=> OnQueue(u)
          /\ OnCv(u)' <=> OnCv(u)
      BY <1>0, <2>1, Same, Zenon DEF SameQueues
    <3>3. Due(u)' <=> Due(u)
      BY <1>2, <3>2, Zenon DEF Due
    <3> QED
      BY <3>1, <3>2, <3>3, Zenon DEF ParkOK, SameFlags
  <2> QED
    BY <2>1, Zenon DEF ParkInv
<1> QED
  BY <1>1, <1>3, <1>4, Zenon

\* Nothing to do with queues and parking.
Idle(t) ==
  /\ ~Ready(t) /\ ~Parked(t)
  /\ pc[t] \notin Unparking \cup {"ml_setpark", "cw_setpark"}

\* An idle thread is on no queue and no one is going to unpark it.
LEMMA IdleFree ==
  ASSUME QueueInv, WakeInv, ParkInv, NEW t \in Slot, Idle(t)
  PROVE  /\ ~OnQueue(t) /\ ~OnCv(t) /\ \A u \in Slot : ~Wakes(u, t)
         /\ ~Due(t)
         /\ setPark[t] # 1 /\ immediateUnpark[t] # 1 /\ isParked[t] # 1
<1>1. ~LockSleeper(t) /\ ~CvSleeper(t) /\ ~CvHolder(t) /\ pc[t] \notin {"ml_setpark", "ml_unguard"}
  BY Zenon DEF Idle, Ready, Parked, LockSleeper, CvSleeper, CvHolder, Unparking
<1>2. ~OnQueue(t) /\ ~OnCv(t)
  BY <1>1, Zenon DEF QueueInv, QueueOK, OnCv
<1>3. \A u \in Slot : ~Wakes(u, t)
  BY <1>1, Zenon DEF WakeInv, WakeOK
<1>4. ~Due(t)
  BY <1>2, <1>3, Zenon DEF Due
<1>5. setPark[t] # 1 /\ immediateUnpark[t] # 1 /\ isParked[t] # 1
  BY Zenon DEF ParkInv, ParkOK, Idle
<1> QED
  BY <1>2, <1>3, <1>4, <1>5, Zenon

\* A step of an idle thread that stays idle.
LEMMA IdleTurn ==
  ASSUME QueueInv, WakeInv, ParkInv, NEW t \in Slot, Alone(t), Idle(t), Idle(t)',
         q' = q, cvq' = cvq, UNCHANGED parkFlags,
         \A u \in Slot \ {t} : state'[u] = state[u], state'[t] # "SLEEPING"
  PROVE  QueueInv' /\ WakeInv' /\ ParkInv'
<1>1. \A u \in Slot : SameQueues(u)
  BY SameLists, Zenon
<1>2. \A u \in Slot \ {t} : SameFlags(u)
  BY Zenon DEF SameFlags, parkFlags
<1>3. NoDup(q[mtx])' /\ \A c \in Cv : NoDup(cvq[c])'
  BY Zenon DEF QueueInv
<1>4. pc[t] \notin Unparking /\ pc'[t] \notin Unparking
  BY Zenon DEF Idle
<1>5. /\ ~OnQueue(t) /\ ~OnCv(t) /\ \A u \in Slot : ~Wakes(u, t)
      /\ ~Due(t)
      /\ setPark[t] # 1 /\ immediateUnpark[t] # 1 /\ isParked[t] # 1
  BY IdleFree
<1>6. ~OnQueue(t)' /\ ~OnCv(t)'
  BY <1>1, <1>5, Zenon DEF SameQueues, OnCv
<1>7. QueueOK(t)'
  <2>1. ~CvHolder(t)' /\ pc'[t] \notin {"ml_setpark", "ml_unguard"}
    BY Zenon DEF Idle, Ready, CvHolder
  <2> QED
    BY <1>6, <2>1, Zenon DEF QueueOK, OnCv
<1>8. ParkOK(t)'
  BY <1>5, Zenon DEF ParkOK, Idle, parkFlags
<1> QED
  BY <1>1, <1>2, <1>3, <1>4, <1>5, <1>7, <1>8, Turn, Zenon

\* A step of t that takes x off a queue and is going to unpark it.
LEMMA Take ==
  ASSUME QueueInv, WakeInv, ParkInv, NEW t \in Slot, NEW x \in Slot, x # t, Alone(t),
         \A u \in Slot \ {x} : SameQueues(u), \A u \in Slot : SameFlags(u),
         NoDup(q[mtx])', \A c \in Cv : NoDup(cvq[c])',
         OnQueue(x) \/ OnCv(x), ~OnQueue(x)', ~OnCv(x)',
         LockSleeper(x) \/ CvSleeper(x), WakeOK(t, x)',
         pc[t] \notin Unparking, pc'[t] \in Unparking, next'[t] = x,
         QueueOK(t)', ~Parked(t), ~Parked(t)', Ready(t)' <=> Ready(t),
         \A u \in Slot : ~Wakes(u, t)
  PROVE  QueueInv' /\ WakeInv' /\ ParkInv'
<1>0. \A u \in Slot : u # t => Still(u)
  BY Zenon DEF Alone
<1>1. /\ LockSleeper(x)' <=> LockSleeper(x)
      /\ CvSleeper(x)' <=> CvSleeper(x)
      /\ CvHolder(x)' <=> CvHolder(x)
  BY <1>0, Same, Zenon
<1>2. QueueInv'
  <2>1. ~CvHolder(x)' /\ pc'[x] \notin {"ml_setpark", "ml_unguard"}
    BY <1>1, Zenon DEF LockSleeper, CvSleeper, CvHolder, InWait, Unlocking
  <2>2. QueueOK(x)'
    BY <2>1, Zenon DEF QueueOK, OnCv
  <2>3. ASSUME NEW u \in Slot PROVE QueueOK(u)'
    <3>1. CASE u # t /\ u # x
      BY <1>0, <3>1, Same, Zenon DEF QueueInv
    <3> QED
      BY <2>2, <3>1, Zenon
  <2> QED
    BY <2>3, Zenon DEF QueueInv
<1>3. \A u \in Slot : ~Wakes(u, x)
  BY Zenon DEF WakeInv, WakeOK
<1>4. \A u, y \in Slot : Wakes(u, y)' <=> Wakes(u, y) \/ (u = t /\ y = x)
  <2>1. ASSUME NEW y \in Slot PROVE ~Wakes(t, y) /\ (Wakes(t, y)' <=> y = x)
    BY Zenon DEF Wakes
  <2> QED
    BY <1>0, <2>1, Same, Zenon
<1>5. WakeInv'
  <2> SUFFICES ASSUME NEW u \in Slot, NEW y \in Slot, Wakes(u, y)' PROVE WakeOK(u, y)'
    BY Zenon DEF WakeInv
  <2>1. CASE u = t /\ y = x
    BY <2>1, Zenon
  <2>2. CASE ~(u = t /\ y = x)
    <3>1. Wakes(u, y)
      BY <1>4, <2>2, Zenon
    <3>2. WakeOK(u, y) /\ u # t /\ y # x /\ y # t
      BY <1>3, <3>1, Zenon DEF WakeInv, Wakes
    <3>3. pc'[u] = pc[u]
      BY <1>0, <3>2, Zenon DEF Still
    <3>4. /\ OnQueue(y)' <=> OnQueue(y)
          /\ OnCv(y)' <=> OnCv(y)
          /\ LockSleeper(y)' <=> LockSleeper(y)
          /\ CvSleeper(y)' <=> CvSleeper(y)
      BY <1>0, <3>2, Same, Zenon DEF SameQueues
    <3> QED
      BY <3>2, <3>3, <3>4, Zenon DEF WakeOK
  <2> QED
    BY <2>1, <2>2, Zenon
<1>6. ParkInv'
  <2> SUFFICES ASSUME NEW u \in Slot PROVE ParkOK(u)'
    BY Zenon DEF ParkInv
  <2>1. /\ Ready(u)' <=> Ready(u)
        /\ Parked(u)' <=> Parked(u)
    BY <1>0, Same, Zenon
  <2>2. Due(u)' <=> Due(u)
    <3>1. CASE u = x
      <4>1. Wakes(t, x)'
        BY Zenon DEF Wakes
      <4> QED
        BY <3>1, <4>1, Zenon DEF Due
    <3>2. CASE u # x
      <4>1. /\ OnQueue(u)' <=> OnQueue(u)
            /\ OnCv(u)' <=> OnCv(u)
        BY <3>2, Zenon DEF SameQueues, OnCv
      <4> QED
        BY <1>4, <3>2, <4>1, Zenon DEF Due
    <3> QED
      BY <3>1, <3>2, Zenon
  <2>3. ParkOK(u) /\ SameFlags(u)
    BY Zenon DEF ParkInv
  <2> QED
    BY <2>1, <2>2, <2>3, Zenon DEF ParkOK, SameFlags
<1> QED
  BY <1>2, <1>5, <1>6, Zenon

\* No two threads are going to unpark the same one: they would hold the guard,
\* or the mutex, at the same time, or find it in two places.
LEMMA OneWaker ==
  ASSUME CondInv, NEW t \in Slot, NEW u \in Slot, NEW v \in Slot, Wakes(u, t), Wakes(v, t)
  PROVE  u = v
<1>1. WakeOK(u, t) /\ WakeOK(v, t)
  BY Zenon DEF CondInv, WakeInv
<1>2. ~(LockSleeper(t) /\ CvSleeper(t))
  BY Zenon DEF LockSleeper, CvSleeper, InWait, Unlocking
<1>3. CASE pc[u] = "mu_unpark"
  <2>1. pc[v] = "mu_unpark"
    BY <1>1, <1>2, <1>3, Zenon DEF WakeOK
  <2>2. pc[u] \in InGuard /\ pc[v] \in InGuard
    BY <1>3, <2>1, Zenon DEF InGuard
  <2> QED
    BY <2>2, Zenon DEF CondInv, GuardInv
<1>4. CASE pc[u] # "mu_unpark"
  <2>1. pc[v] # "mu_unpark"
    BY <1>1, <1>2, <1>4, Zenon DEF WakeOK
  <2>2. Owns(u) /\ Owns(v)
    BY <1>4, <2>1, Zenon DEF Wakes, Unparking, Owns, Holding, Signalling
  <2> QED
    BY <2>2, Zenon DEF CondInv, OwnerInv
<1> QED
  BY <1>3, <1>4, Zenon

\* A step of t that unparks the thread it has taken off a queue.
LEMMA Unpark ==
  ASSUME CondInv, NEW t \in Slot, Alone(t), pc[t] \in Unparking, pc'[t] \notin Unparking,
         q' = q, cvq' = cvq, NEW x \in Slot, next[t] = x, unpark(x),
         QueueOK(t)', ~Parked(t), ~Parked(t)', Ready(t)' <=> Ready(t),
         CvSleeper(t) => CvSleeper(t)', ~LockSleeper(t)
  PROVE  QueueInv' /\ WakeInv' /\ ParkInv'
<1>0. \A u \in Slot : u # t => Still(u)
  BY Zenon DEF Alone
<1>1. \A u \in Slot : SameQueues(u)
  BY SameLists, Zenon
<1>2. Wakes(t, x)
  BY Zenon DEF Wakes
<1>3. QueueInv'
  <2>1. ASSUME NEW u \in Slot PROVE QueueOK(u)'
    BY <1>0, <1>1, Same, Zenon DEF CondInv, QueueInv
  <2> QED
    BY <2>1, Zenon DEF CondInv, QueueInv
<1>4. \A u, y \in Slot : Wakes(u, y)' <=> Wakes(u, y) /\ y # x
  <2>1. ASSUME NEW y \in Slot PROVE ~Wakes(t, y)' /\ (Wakes(t, y) <=> y = x)
    BY Zenon DEF Wakes
  <2>2. ASSUME NEW u \in Slot, u # t PROVE ~Wakes(u, x)
    BY <1>2, <2>2, OneWaker, Zenon
  <2> QED
    BY <1>0, <2>1, <2>2, Same, Zenon
<1>5. x # t
  <2>1. WakeOK(t, x)
    BY <1>2, Zenon DEF CondInv, WakeInv
  <2>2. CASE pc[t] = "mu_unpark"
    BY <2>1, <2>2, Zenon DEF WakeOK
  <2>3. CASE pc[t] # "mu_unpark"
    <3>1. pc[t] \in {"sg_unpark", "bc_unpark"}
      BY <2>3, Zenon DEF Unparking
    <3>2. ~CvSleeper(t)
      BY <3>1, Zenon DEF CvSleeper, InWait, Unlocking
    <3> QED
      BY <2>1, <2>3, <3>2, Zenon DEF WakeOK
  <2> QED
    BY <2>2, <2>3, Zenon
<1>6. WakeInv'
  <2> SUFFICES ASSUME NEW u \in Slot, NEW y \in Slot, Wakes(u, y), y # x PROVE WakeOK(u, y)'
    BY <1>4, Zenon DEF WakeInv
  <2>1. WakeOK(u, y) /\ u # t
    BY Zenon DEF CondInv, WakeInv, Wakes
  <2>2. pc'[u] = pc[u]
    BY <1>0, <2>1, Zenon DEF Still
  <2>3. /\ OnQueue(y)' <=> OnQueue(y)
        /\ OnCv(y)' <=> OnCv(y)
    BY <1>1, Zenon DEF SameQueues, OnCv
  <2>4. /\ LockSleeper(y) => LockSleeper(y)'
        /\ CvSleeper(y) => CvSleeper(y)'
    BY <1>0, Same, Zenon
  <2> QED
    BY <2>1, <2>2, <2>3, <2>4, Zenon DEF WakeOK
<1>7. ASSUME NEW u \in Slot
      PROVE  /\ Ready(u)' <=> Ready(u)
             /\ Parked(u)' <=> Parked(u)
  BY <1>0, <1>7, Same, Zenon
<1>8. ASSUME NEW u \in Slot, u # x PROVE ParkOK(u)'
  <2>1. SameFlags(u)
    BY <1>8, Zenon DEF unpark, unpark1, SameFlags, parkVars, CondInv, Types
  <2>2. /\ OnQueue(u)' <=> OnQueue(u)
        /\ OnCv(u)' <=> OnCv(u)
    BY <1>1, Zenon DEF SameQueues, OnCv
  <2>3. Due(u)' <=> Due(u)
    BY <1>4, <1>8, <2>2, Zenon DEF Due
  <2> QED
    BY <1>7, <2>1, <2>3, Zenon DEF ParkOK, SameFlags, CondInv, ParkInv
<1>9. ParkOK(x)'
  <2>1. Due(x) /\ ~Due(x)'
    <3>1. WakeOK(t, x)
      BY <1>2, Zenon DEF CondInv, WakeInv
    <3>2. ~OnQueue(x)' /\ ~OnCv(x)'
      BY <1>1, <1>2, <3>1, Zenon DEF SameQueues, OnCv, WakeOK
    <3> QED
      BY <1>2, <1>4, <3>2, Zenon DEF Due
  <2>2. ParkOK(x) /\ (Ready(x) \/ Parked(x)) /\ ~(Ready(x) /\ Parked(x))
    <3>1. WakeOK(t, x)
      BY <1>2, Zenon DEF CondInv, WakeInv
    <3>2. LockSleeper(x) \/ CvSleeper(x)
      BY <3>1, Zenon DEF WakeOK
    <3>3. Ready(x) \/ Parked(x)
      BY <3>2, Zenon DEF LockSleeper, CvSleeper, Ready, Parked
    <3>4. ~(Ready(x) /\ Parked(x))
      BY Zenon DEF Ready, Parked, InWait, Unlocking
    <3> QED
      BY <1>2, <3>3, <3>4, Zenon DEF CondInv, ParkInv
  <2>3. /\ isParked[x] \in {0, 1} /\ setPark[x] \in {0, 1} /\ immediateUnpark[x] \in {0, 1}
        /\ x \in DOMAIN state /\ x \in DOMAIN isParked /\ x \in DOMAIN immediateUnpark
    BY <1>2, Zenon DEF CondInv, Types
  <2>4. /\ Ready(x)' <=> Ready(x)
        /\ Parked(x)' <=> Parked(x)
    BY <1>2, <1>7, Zenon
  <2>5. CASE Parked(x)
    <3>1. isParked[x] = 1 /\ state[x] = "SLEEPING" /\ setPark[x] = 0 /\ immediateUnpark[x] = 0
      BY <2>1, <2>2, <2>3, <2>5, Zenon DEF ParkOK
    <3>2. /\ state'[x] = "RUNNABLE" /\ isParked'[x] = 0
          /\ setPark' = setPark /\ immediateUnpark' = immediateUnpark
      BY <2>3, <3>1 DEF unpark, unpark1
    <3> QED
      BY <2>1, <2>2, <2>4, <2>5, <3>1, <3>2 DEF ParkOK
  <2>6. CASE Ready(x)
    <3>1. isParked[x] = 0 /\ state[x] # "SLEEPING" /\ setPark[x] = 1
      BY <2>1, <2>2, <2>3, <2>6, Zenon DEF ParkOK
    <3>2. /\ state' = state /\ isParked' = isParked
          /\ setPark' = setPark /\ immediateUnpark'[x] = 1
      BY <2>3, <3>1 DEF unpark
    <3> QED
      BY <2>1, <2>2, <2>4, <2>6, <3>1, <3>2 DEF ParkOK
  <2> QED
    BY <2>2, <2>5, <2>6, Zenon
<1> QED
  BY <1>3, <1>6, <1>8, <1>9, Zenon DEF ParkInv

-----------------------------------------------------------------------------
(* One step at a time. *)

\* All of the invariant but the types.
Rest == Places /\ GuardInv /\ OwnerInv /\ QueueInv /\ WakeInv /\ ParkInv

\* t takes the guard, or keeps it, or drops it, or has nothing to do with it.
GuardRule(t) ==
  \/ pc[t] \notin InGuard /\ pc'[t] \notin InGuard /\ guard' = guard
  \/ guard[mtx] = 0 /\ guard'[mtx] = 1
  \/ pc[t] \in InGuard /\ pc'[t] \in InGuard /\ guard' = guard
  \/ pc[t] \in InGuard /\ pc'[t] \notin InGuard

\* Outside of cv_wait() and of the calls that park and unpark.
Elsewhere == {"ml_spin", "ml_test", "ml_got", "cw_add", "sg_take", "sg_unlock", "bc_take",
              "bc_next", "p_loop", "p_test", "p_put", "p_count", "p_unlock",
              "c_loop", "c_test", "c_get", "c_count", "c_unlock", "done"}

\* The places at which a thread neither sleeps, nor prepares to, nor wakes another.
LEMMA IdleThere ==
  ASSUME NEW t \in Slot
  PROVE  /\ pc[t] \in Elsewhere => Idle(t)
         /\ pc'[t] \in Elsewhere => Idle(t)'
         /\ pc[t] \in {"mu_spin", "mu_test", "mu_unguard"} /\ ret[t] # "cw_park" => Idle(t)
         /\ pc'[t] \in {"mu_spin", "mu_test", "mu_unguard"} /\ ret'[t] # "cw_park" => Idle(t)'
<1> USE DEF Idle, Ready, Parked, InWait, Unlocking, Unparking
<1>1. /\ pc[t] \in Elsewhere => Idle(t)
      /\ pc'[t] \in Elsewhere => Idle(t)'
  BY Zenon DEF Elsewhere
<1>2. /\ pc[t] \in {"mu_spin", "mu_test", "mu_unguard"} /\ ret[t] # "cw_park" => Idle(t)
      /\ pc'[t] \in {"mu_spin", "mu_test", "mu_unguard"} /\ ret'[t] # "cw_park" => Idle(t)'
  BY Zenon
<1> QED
  BY <1>1, <1>2, Zenon

\* The places of the program itself.
LEMMA Program ==
  ASSUME NEW t \in Slot
  PROVE  /\ Begin(t) \in {"p_loop", "c_loop"} /\ Test(t) \in {"p_test", "c_test"}
         /\ End(t) \in {"p_unlock", "c_unlock"}
         /\ Body(t) \subseteq {"p_put", "p_count", "c_get", "c_count"}
BY Zenon DEF Begin, Test, End, Body

\* The mutex is held from its mutex_lock() to its mutex_unlock().
LEMMA HeldThere ==
  ASSUME NEW t \in Slot
  PROVE  /\ pc[t] \in Holding(t) => Owns(t)
         /\ pc'[t] \in {"ml_spin", "ml_test", "ml_setpark", "ml_unguard", "mu_unpark", "mu_unguard",
                        "cw_park", "cw_parked", "p_loop", "c_loop", "done"} => ~Owns(t)'
<1>1. pc[t] \in Holding(t) => Owns(t)
  BY Zenon DEF Owns
<1>2. ASSUME pc'[t] \in {"ml_spin", "ml_test", "ml_setpark", "ml_unguard", "mu_unpark",
                         "mu_unguard", "cw_park", "cw_parked", "p_loop", "c_loop", "done"}
      PROVE  ~Owns(t)'
  <2>1. ~LockSleeper(t)'
    BY <1>2, Zenon DEF LockSleeper
  <2>2. pc'[t] \notin Signalling
    BY <1>2, Zenon DEF Signalling
  <2>3. pc'[t] \notin {"ml_got", "mu_spin", "mu_test", "cw_add", "cw_setpark", "cw_unlock"}
    BY <1>2, Zenon
  <2>4. pc'[t] \notin {Test(t), End(t)} \cup Body(t)
    BY <1>2, Zenon DEF Test, End, Body
  <2> QED
    BY <2>1, <2>2, <2>3, <2>4, Zenon DEF Owns, Holding
<1> QED
  BY <1>1, <1>2, Zenon

\* In the body of the loop a turn is left.
LEMMA TurnLeft ==
  ASSUME Places, NEW t \in Slot,
         \/ pc[t] \in Locking \cup InCvWait \cup Signalling \cup {Test(t), End(t)} \cup Body(t)
         \/ pc[t] \in Unlocking /\ ret[t] = "cw_park"
  PROVE  i[t] < loops[t]
<1>1. Turns(t)
  BY Zenon DEF Places
<1>2. pc[t] \notin {Begin(t), "done"}
  BY ZenonT(30) DEF Locking, InCvWait, Signalling, Unlocking, Begin, Test, End, Body
<1>3. ~(pc[t] \in Unlocking /\ ret[t] = Begin(t))
  BY Zenon DEF Locking, InCvWait, Signalling, Unlocking, Begin, Test, End, Body
<1> QED
  BY <1>1, <1>2, <1>3, Zenon DEF Turns

\* A step of an idle thread that stays idle.
LEMMA IdleMove ==
  ASSUME CondInv, NEW t \in Slot, CanRun(t), Alone(t), Idle(t), Idle(t)',
         Place(t)', Turns(t)', GuardRule(t), Owns(t)' => Owns(t),
         q' = q, cvq' = cvq, flag' = flag, UNCHANGED parkVars
  PROVE  Rest'
<1>1. Places'
  BY PlacesMove, Zenon DEF CondInv
<1>2. GuardInv'
  BY GuardMove, Zenon DEF CondInv, GuardRule
<1>3. OwnerInv'
  BY SameLists, OwnerMove, Zenon DEF CondInv
<1>4. QueueInv' /\ WakeInv' /\ ParkInv'
  <2>1. UNCHANGED parkFlags /\ state' = state /\ state[t] # "SLEEPING"
    BY Zenon DEF parkVars, parkFlags, CanRun
  <2> QED
    BY <2>1, IdleTurn, Zenon DEF CondInv
<1> QED
  BY <1>1, <1>2, <1>3, <1>4, Zenon DEF Rest

\* Where the calls of t return to.
LEMMA Returns ==
  ASSUME Places, NEW t \in Slot
  PROVE  /\ pc[t] \in Locking => ret[t] = Test(t) /\ i[t] < loops[t]
         /\ pc[t] \in InCvWait => cret[t] = Test(t) /\ i[t] < loops[t]
         /\ pc[t] \in Signalling => cret[t] = End(t) /\ i[t] < loops[t]
         /\ pc[t] \in Unlocking =>
              ret[t] = Begin(t) \/ (ret[t] = "cw_park" /\ cret[t] = Test(t) /\ i[t] < loops[t])
<1>1. Place(t)
  BY Zenon DEF Places
<1>2. pc[t] \in {Begin(t), Test(t), End(t), "done"} \cup Body(t) =>
        pc[t] \in Elsewhere \ (Locking \cup InCvWait \cup Signalling)
  BY Zenon DEF Begin, Test, End, Body, Elsewhere, Locking, InCvWait, Signalling
<1>3. pc[t] \in {Begin(t), Test(t), End(t), "done"} \cup Body(t) => pc[t] \notin Unlocking
  BY Zenon DEF Begin, Test, End, Body, Unlocking
<1>4. pc[t] \in Locking => pc[t] \notin Unlocking \cup InCvWait \cup Signalling
  BY Zenon DEF Locking, Unlocking, InCvWait, Signalling
<1>5. pc[t] \in Unlocking => pc[t] \notin Locking \cup InCvWait \cup Signalling
  BY Zenon DEF Locking, Unlocking, InCvWait, Signalling
<1>6. pc[t] \in InCvWait => pc[t] \notin Signalling
  BY Zenon DEF InCvWait, Signalling
<1> QED
  BY <1>1, <1>2, <1>3, <1>4, <1>5, <1>6, TurnLeft, Zenon DEF Place

\* A thread that unparks nobody changes for nobody else whether an unpark is due.
LEMMA DueSame ==
  ASSUME NEW t \in Slot, Alone(t), pc[t] \notin Unparking, pc'[t] \notin Unparking,
         NEW u \in Slot, SameQueues(u)
  PROVE  Due(u)' <=> Due(u)
<1>1. ASSUME NEW v \in Slot PROVE Wakes(v, u)' <=> Wakes(v, u)
  <2>1. CASE v = t
    BY <2>1, Zenon DEF Wakes
  <2>2. CASE v # t
    BY <2>2, Same, Zenon DEF Alone
  <2> QED
    BY <2>1, <2>2, Zenon
<1>2. OnCv(u)' <=> OnCv(u)
  BY Zenon DEF SameQueues, OnCv
<1> QED
  BY <1>1, <1>2, Zenon DEF Due, SameQueues

\* park() is called after setpark(): a thread is not on both sides of it.
LEMMA ReadyNotParked ==
  ASSUME NEW t \in Slot
  PROVE  ~(Ready(t) /\ Parked(t)) /\ ~(Ready(t)' /\ Parked(t)')
BY Zenon DEF Ready, Parked, InWait, Unlocking

\* The queues stay, and t stays where those that are going to unpark it want it.
LEMMA StaysOff ==
  ASSUME WakeInv, NEW t \in Slot, Alone(t), pc[t] \notin Unparking, SameQueues(t),
         LockSleeper(t) => LockSleeper(t)', CvSleeper(t) => CvSleeper(t)'
  PROVE  \A u \in Slot : Wakes(u, t) => WakeOK(u, t)'
<1> SUFFICES ASSUME NEW u \in Slot, Wakes(u, t) PROVE WakeOK(u, t)'
  BY Zenon
<1>1. WakeOK(u, t) /\ u # t
  BY Zenon DEF WakeInv, Wakes
<1>2. pc'[u] = pc[u]
  BY <1>1, Zenon DEF Alone, Still
<1>3. ~OnQueue(t)' /\ ~OnCv(t)'
  BY <1>1, Zenon DEF WakeOK, SameQueues, OnCv
<1> QED
  BY <1>1, <1>2, <1>3, Zenon DEF WakeOK

\* Between setpark() and park().
LEMMA ReadyTurn ==
  ASSUME CondInv, NEW t \in Slot, Alone(t), q' = q, cvq' = cvq, UNCHANGED parkVars,
         Ready(t), Ready(t)', pc[t] \notin Unparking, pc'[t] \notin Unparking, QueueOK(t)',
         LockSleeper(t) => LockSleeper(t)', CvSleeper(t) => CvSleeper(t)'
  PROVE  QueueInv' /\ WakeInv' /\ ParkInv'
<1>1. \A u \in Slot : SameQueues(u)
  BY SameLists, Zenon
<1>2. \A u \in Slot : SameFlags(u)
  BY Zenon DEF SameFlags, parkVars
<1>3. NoDup(q[mtx])' /\ \A c \in Cv : NoDup(cvq[c])'
  BY Zenon DEF CondInv, QueueInv
<1>4. ParkOK(t)'
  <2>1. Due(t)' <=> Due(t)
    BY <1>1, DueSame, Zenon
  <2>2. ParkOK(t) /\ SameFlags(t)
    BY <1>2, Zenon DEF CondInv, ParkInv
  <2>3. ~Parked(t) /\ ~Parked(t)'
    BY ReadyNotParked, Zenon
  <2> QED
    BY <2>1, <2>2, <2>3, Zenon DEF ParkOK, SameFlags
<1>5. \A u \in Slot : Wakes(u, t) => WakeOK(u, t)'
  BY <1>1, StaysOff, Zenon DEF CondInv
<1> QED
  BY <1>1, <1>2, <1>3, <1>4, <1>5, Turn, Zenon DEF CondInv

\* setpark() by a thread that is on a queue.
LEMMA SetparkTurn ==
  ASSUME CondInv, NEW t \in Slot, Alone(t), q' = q, cvq' = cvq, setpark(t),
         ~Ready(t), ~Parked(t), OnQueue(t) \/ OnCv(t), Ready(t)', QueueOK(t)',
         pc[t] \notin Unparking, pc'[t] \notin Unparking
  PROVE  QueueInv' /\ WakeInv' /\ ParkInv'
<1>1. \A u \in Slot : SameQueues(u)
  BY SameLists, Zenon
<1>2. t \in DOMAIN setPark /\ immediateUnpark[t] \in {0, 1}
  BY Zenon DEF CondInv, Types
<1>3. \A u \in Slot \ {t} : SameFlags(u)
  BY Zenon DEF SameFlags, setpark, CondInv, Types
<1>4. NoDup(q[mtx])' /\ \A c \in Cv : NoDup(cvq[c])'
  BY Zenon DEF CondInv, QueueInv
<1>5. ParkOK(t)'
  <2>1. Due(t)'
    BY <1>1, Zenon DEF Due, SameQueues, OnCv
  <2>2. ParkOK(t)
    BY Zenon DEF CondInv, ParkInv
  <2>3. ~Parked(t)'
    BY ReadyNotParked, Zenon
  <2>4. immediateUnpark[t] = 0
    BY <1>2, <2>2, Zenon DEF ParkOK
  <2>5. /\ setPark'[t] = 1 /\ immediateUnpark' = immediateUnpark
        /\ state' = state /\ isParked' = isParked
    BY <1>2, <2>4, Zenon DEF setpark
  <2> QED
    BY <2>1, <2>2, <2>3, <2>4, <2>5, Zenon DEF ParkOK
<1>6. \A u \in Slot : ~Wakes(u, t)
  BY Zenon DEF CondInv, WakeInv, WakeOK
<1> QED
  BY <1>1, <1>3, <1>4, <1>5, <1>6, Turn, Zenon DEF CondInv

\* park(): to sleep if an unpark is due, on if it has come already.
LEMMA ParkTurn ==
  ASSUME CondInv, NEW t \in Slot, CanRun(t), Alone(t), q' = q, cvq' = cvq, park(t),
         Ready(t), Parked(t)', pc[t] \notin Unparking, pc'[t] \notin Unparking, QueueOK(t)',
         LockSleeper(t) => LockSleeper(t)', CvSleeper(t) => CvSleeper(t)'
  PROVE  QueueInv' /\ WakeInv' /\ ParkInv'
<1>1. \A u \in Slot : SameQueues(u)
  BY SameLists, Zenon
<1>2. /\ t \in DOMAIN setPark /\ t \in DOMAIN state /\ t \in DOMAIN isParked
      /\ t \in DOMAIN immediateUnpark /\ immediateUnpark[t] \in {0, 1}
  BY Zenon DEF CondInv, Types
<1>3. \A u \in Slot \ {t} : SameFlags(u)
  BY Zenon DEF SameFlags, park, CondInv, Types
<1>4. NoDup(q[mtx])' /\ \A c \in Cv : NoDup(cvq[c])'
  BY Zenon DEF CondInv, QueueInv
<1>5. ParkOK(t)'
  <2>1. Due(t)' <=> Due(t)
    BY <1>1, DueSame, Zenon
  <2>2. ParkOK(t) /\ ~Ready(t)' /\ setPark'[t] = 0
    BY <1>2, ReadyNotParked, Zenon DEF CondInv, ParkInv, park
  <2>3. CASE immediateUnpark[t] = 0
    <3>1. Due(t)
      BY <2>2, <2>3 DEF ParkOK
    <3>2. /\ state'[t] = "SLEEPING" /\ isParked'[t] = 1 /\ immediateUnpark'[t] = 0
      BY <1>2, <2>3, Zenon DEF park
    <3> QED
      BY <2>1, <2>2, <3>1, <3>2 DEF ParkOK
  <2>4. CASE immediateUnpark[t] = 1
    <3>1. ~Due(t) /\ state[t] # "SLEEPING" /\ isParked[t] # 1
      BY <2>2, <2>4, Zenon DEF ParkOK, CanRun
    <3>2. /\ state' = state /\ isParked' = isParked /\ immediateUnpark'[t] = 0
      BY <1>2, <2>4 DEF park
    <3> QED
      BY <2>1, <2>2, <3>1, <3>2 DEF ParkOK
  <2> QED
    BY <1>2, <2>3, <2>4, Zenon
<1>6. \A u \in Slot : Wakes(u, t) => WakeOK(u, t)'
  BY <1>1, StaysOff, Zenon DEF CondInv
<1> QED
  BY <1>1, <1>3, <1>4, <1>5, <1>6, Turn, Zenon DEF CondInv

\* Back from park(), which no unpark is due for any more.
LEMMA LeaveTurn ==
  ASSUME CondInv, NEW t \in Slot, CanRun(t), Alone(t), q' = q, cvq' = cvq, UNCHANGED parkVars,
         Parked(t), Idle(t)'
  PROVE  QueueInv' /\ WakeInv' /\ ParkInv' /\ ~OnQueue(t)
<1>1. \A u \in Slot : SameQueues(u) /\ SameFlags(u)
  BY SameLists, Zenon DEF SameFlags, parkVars
<1>2. NoDup(q[mtx])' /\ \A c \in Cv : NoDup(cvq[c])'
  BY Zenon DEF CondInv, QueueInv
<1>3. pc[t] \notin Unparking /\ pc'[t] \notin Unparking
  BY Zenon DEF Parked, Idle, Unparking
<1>4. ParkOK(t) /\ ~Ready(t)
  BY ReadyNotParked, Zenon DEF CondInv, ParkInv
<1>5. ~Due(t) /\ state[t] # "SLEEPING"
  BY <1>4, Zenon DEF ParkOK, CanRun
<1>6. ~OnQueue(t) /\ ~OnCv(t) /\ \A u \in Slot : ~Wakes(u, t)
  BY <1>5, Zenon DEF Due
<1>7. ~OnQueue(t)' /\ ~OnCv(t)'
  BY <1>1, <1>6, Zenon DEF SameQueues, OnCv
<1>8. QueueOK(t)'
  <2>1. ~CvHolder(t)' /\ pc'[t] \notin {"ml_setpark", "ml_unguard"}
    BY Zenon DEF Idle, Ready, CvHolder
  <2> QED
    BY <1>7, <2>1, Zenon DEF QueueOK, OnCv
<1>9. ParkOK(t)'
  BY <1>1, <1>4, <1>5, Zenon DEF ParkOK, Idle, SameFlags
<1> QED
  BY <1>1, <1>2, <1>3, <1>6, <1>8, <1>9, Turn, Zenon DEF CondInv

\* t puts itself at the end of a queue, on its way to setpark().
LEMMA AddTurn ==
  ASSUME CondInv, NEW t \in Slot, CanRun(t), Alone(t), Idle(t), UNCHANGED parkVars,
         \A u \in Slot \ {t} : SameQueues(u),
         NoDup(q[mtx])', \A c \in Cv : NoDup(cvq[c])',
         ~Ready(t)', ~Parked(t)', pc'[t] \notin Unparking, QueueOK(t)'
  PROVE  QueueInv' /\ WakeInv' /\ ParkInv'
<1>1. \A u \in Slot : SameFlags(u)
  BY Zenon DEF SameFlags, parkVars
<1>2. /\ \A u \in Slot : ~Wakes(u, t)
      /\ setPark[t] # 1 /\ immediateUnpark[t] # 1 /\ isParked[t] # 1 /\ state[t] # "SLEEPING"
  BY IdleFree, Zenon DEF CondInv, CanRun
<1>3. ParkOK(t)'
  BY <1>1, <1>2, Zenon DEF ParkOK, SameFlags
<1>4. pc[t] \notin Unparking
  BY Zenon DEF Idle
<1> QED
  BY <1>1, <1>2, <1>3, <1>4, Turn, Zenon DEF CondInv

\* The steps of mutex_lock().
LEMMA LockStep ==
  ASSUME CondInv, NEW t \in Slot, Alone(t), UNCHANGED <<cvOwn, i>>,
         \/ ml_spin(t) \/ ml_test(t) \/ ml_got(t) \/ ml_setpark(t) \/ ml_unguard(t)
         \/ ml_park(t) \/ ml_parked(t)
  PROVE  Rest'
<1>0. /\ t \in DOMAIN pc /\ arg[t] = mtx /\ mtx \in DOMAIN guard /\ mtx \in DOMAIN flag
      /\ mtx \in DOMAIN q /\ cvq' = cvq /\ i' = i
  BY Zenon DEF CondInv, Types, cvOwn
<1>1. CASE ml_spin(t)
  <2>1. /\ CanRun(t) /\ pc[t] = "ml_spin" /\ pc'[t] = "ml_test" /\ ret' = ret
        /\ guard[mtx] = 0 /\ guard'[mtx] = 1
        /\ q' = q /\ flag' = flag /\ UNCHANGED parkVars
    BY <1>0, <1>1, Zenon DEF ml_spin, At, Goto, spin_lock
  <2>2. Idle(t) /\ Idle(t)'
    BY <2>1, IdleThere, Zenon DEF Elsewhere
  <2>3. ret[t] = Test(t) /\ i[t] < loops[t]
    BY <2>1, Returns, Zenon DEF CondInv, Locking
  <2>4. Place(t)' /\ Turns(t)'
    BY <1>0, <2>1, <2>3, Zenon DEF Place, Locking, Turns
  <2>5. GuardRule(t) /\ ~Owns(t)'
    BY <2>1, HeldThere, Zenon DEF GuardRule
  <2> QED
    BY <1>0, <2>1, <2>2, <2>4, <2>5, IdleMove, Zenon
<1>2. CASE ml_test(t)
  <2>1. /\ CanRun(t) /\ pc[t] = "ml_test" /\ pc'[t] \in {"ml_got", "ml_setpark"} /\ ret' = ret
        /\ guard' = guard /\ UNCHANGED parkVars
    BY <1>0, <1>2, Zenon DEF ml_test, At, Goto
  <2>2. Idle(t)
    BY <2>1, IdleThere, Zenon DEF Elsewhere
  <2>3. ret[t] = Test(t) /\ i[t] < loops[t]
    BY <2>1, Returns, Zenon DEF CondInv, Locking
  <2>4. Place(t)' /\ Turns(t)'
    BY <1>0, <2>1, <2>3, Zenon DEF Place, Locking, Turns
  <2>5. Places'
    BY <2>4, PlacesMove, Zenon DEF CondInv
  <2>6. GuardInv'
    <3>1. pc[t] \in InGuard /\ pc'[t] \in InGuard
      BY <2>1, Zenon DEF InGuard
    <3> QED
      BY <2>1, <3>1, GuardMove, Zenon DEF CondInv
  <2>7. CASE flag[mtx] = 0
    <3>1. pc'[t] = "ml_got" /\ flag'[mtx] = 1 /\ q' = q
      BY <1>0, <1>2, <2>7, Zenon DEF ml_test, Goto
    <3>2. Idle(t)'
      BY <3>1, IdleThere, Zenon DEF Elsewhere
    <3>3. QueueInv' /\ WakeInv' /\ ParkInv'
      <4>1. UNCHANGED parkFlags /\ state' = state /\ state[t] # "SLEEPING"
        BY <2>1, Zenon DEF parkVars, parkFlags, CanRun
      <4> QED
        BY <1>0, <2>2, <3>1, <3>2, <4>1, IdleTurn, Zenon DEF CondInv
    <3>4. OwnerInv'
      <4>1. \A u \in Slot : ~Owns(u)
        BY <2>7 DEF CondInv, OwnerInv
      <4>2. \A u \in Slot : Owns(u)' => u = t
        BY <1>0, <3>1, <4>1, Same, SameLists, ZenonT(30) DEF Alone
      <4> QED
        BY <3>1, <4>2, Zenon DEF OwnerInv
    <3> QED
      BY <2>5, <2>6, <3>3, <3>4, Zenon DEF Rest
  <2>8. CASE flag[mtx] # 0
    <3>1. pc'[t] = "ml_setpark" /\ flag' = flag /\ q'[mtx] = Append(q[mtx], t)
      BY <1>0, <1>2, <2>8, Zenon DEF ml_test, queue_add, Goto
    <3>2. ~OnQueue(t) /\ ~OnCv(t) /\ q[mtx] \in Seq(Slot) /\ NoDup(q[mtx])
      BY <2>2, IdleFree, Zenon DEF CondInv, Types, QueueInv
    <3>3. /\ Elems(q'[mtx]) = Elems(q[mtx]) \cup {t}
          /\ NoDup(q'[mtx])
      <4>1. t \notin Elems(q[mtx])
        BY <3>2, Zenon DEF OnQueue
      <4>2. /\ Elems(Append(q[mtx], t)) = Elems(q[mtx]) \cup {t}
            /\ NoDup(Append(q[mtx], t))
        BY <3>2, <4>1, ElemsAppend
      <4> QED
        BY <3>1, <4>2, Zenon
    <3>4. \A u \in Slot \ {t} : SameQueues(u)
      BY <1>0, <3>3, Zenon DEF SameQueues, OnQueue
    <3>5. OnQueue(t)' /\ ~OnCv(t)' /\ \A c \in Cv : NoDup(cvq[c])'
      BY <1>0, <3>2, <3>3, Zenon DEF OnQueue, OnCv, CondInv, QueueInv
    <3>6. ~Ready(t)' /\ ~Parked(t)' /\ pc'[t] \notin Unparking /\ ~CvHolder(t)'
      BY <3>1, Zenon DEF Ready, Parked, Unparking, CvHolder, InWait, Unlocking
    <3>7. QueueOK(t)'
      BY <3>1, <3>5, <3>6, Zenon DEF QueueOK, OnCv
    <3>8. QueueInv' /\ WakeInv' /\ ParkInv'
      BY <2>1, <2>2, <3>3, <3>4, <3>5, <3>6, <3>7, AddTurn, Zenon
    <3>9. OwnerInv'
      BY <3>1, <3>4, HeldThere, OwnerMove, Zenon DEF CondInv
    <3> QED
      BY <2>5, <2>6, <3>8, <3>9, Zenon DEF Rest
  <2> QED
    BY <2>7, <2>8, Zenon
<1>3. CASE ml_got(t)
  <2>1. /\ CanRun(t) /\ pc[t] = "ml_got" /\ pc'[t] = ret[t]
        /\ q' = q /\ flag' = flag /\ UNCHANGED parkVars
    BY <1>0, <1>3, Zenon DEF ml_got, At, Goto
  <2>2. ret[t] = Test(t) /\ i[t] < loops[t] /\ Test(t) \in {"p_test", "c_test"}
    BY <2>1, Returns, Program, Zenon DEF CondInv, Locking
  <2>3. Idle(t) /\ Idle(t)'
    BY <2>1, <2>2, IdleThere, Zenon DEF Elsewhere
  <2>4. Place(t)' /\ Turns(t)'
    BY <1>0, <2>1, <2>2, Zenon DEF Place, Turns
  <2>5. GuardRule(t) /\ Owns(t)
    <3>1. pc[t] \in InGuard /\ pc'[t] \notin InGuard
      BY <2>1, <2>2, Zenon DEF InGuard
    <3> QED
      BY <2>1, <3>1, HeldThere, Zenon DEF GuardRule, Holding
  <2> QED
    BY <1>0, <2>1, <2>3, <2>4, <2>5, IdleMove, Zenon
<1>4. CASE ml_setpark(t) \/ ml_unguard(t)
  <2>1. /\ \/ pc[t] = "ml_setpark" /\ pc'[t] = "ml_unguard" /\ setpark(t) /\ guard' = guard
           \/ pc[t] = "ml_unguard" /\ pc'[t] = "ml_park" /\ UNCHANGED parkVars
        /\ ret' = ret /\ q' = q /\ flag' = flag
    BY <1>0, <1>4, Zenon DEF ml_setpark, ml_unguard, At, Goto
  <2>2. ret[t] = Test(t) /\ i[t] < loops[t]
    BY <2>1, Returns, Zenon DEF CondInv, Locking
  <2>3. Place(t)' /\ Turns(t)'
    BY <1>0, <2>1, <2>2, Zenon DEF Place, Locking, Turns
  <2>4. Places'
    BY <2>3, PlacesMove, Zenon DEF CondInv
  <2>5. GuardInv'
    BY <2>1, GuardMove, Zenon DEF CondInv, InGuard
  <2>6. OnQueue(t) /\ OnQueue(t)' /\ \A u \in Slot : SameQueues(u)
    BY <1>0, <2>1, SameLists, Zenon DEF CondInv, QueueInv, QueueOK, SameQueues
  <2>7. OwnerInv'
    <3>1. ~Owns(t)'
      <4>1. pc'[t] \notin Holding(t)
        BY <2>1, Program, Zenon DEF Holding, Signalling
      <4> QED
        BY <2>6, <4>1, Zenon DEF Owns
    <3> QED
      BY <2>1, <2>6, <3>1, OwnerMove, Zenon DEF CondInv
  <2>8. /\ ~CvSleeper(t) /\ ~CvHolder(t) /\ ~CvHolder(t)' /\ Ready(t)' /\ ~LockSleeper(t)
        /\ pc[t] \notin Unparking /\ pc'[t] \notin Unparking
    BY <2>1, Zenon DEF CvSleeper, CvHolder, InWait, Unlocking, Ready, LockSleeper, Unparking
  <2>9. QueueOK(t)'
    <3>0. QueueOK(t)
      BY Zenon DEF CondInv, QueueInv
    <3>1. ~OnCv(t) /\ ~OnCv(t)'
      BY <1>0, <2>8, <3>0, Zenon DEF QueueOK, OnCv
    <3>2. LockSleeper(t)' \/ pc'[t] = "ml_unguard"
      BY <2>1, Zenon DEF LockSleeper
    <3> QED
      BY <2>6, <2>8, <3>1, <3>2, Zenon DEF QueueOK, OnCv
  <2>10. CASE pc[t] = "ml_setpark"
    <3>1. ~Ready(t) /\ ~Parked(t) /\ setpark(t)
      BY <2>1, <2>10, Zenon DEF Ready, Parked, InWait, Unlocking
    <3>2. QueueInv' /\ WakeInv' /\ ParkInv'
      BY <1>0, <2>1, <2>6, <2>8, <2>9, <3>1, SetparkTurn, Zenon
    <3> QED
      BY <2>4, <2>5, <2>7, <3>2, Zenon DEF Rest
  <2>11. CASE pc[t] = "ml_unguard"
    <3>1. Ready(t) /\ UNCHANGED parkVars
      BY <2>1, <2>11, Zenon DEF Ready
    <3>2. QueueInv' /\ WakeInv' /\ ParkInv'
      BY <1>0, <2>1, <2>8, <2>9, <3>1, ReadyTurn, Zenon
    <3> QED
      BY <2>4, <2>5, <2>7, <3>2, Zenon DEF Rest
  <2> QED
    BY <2>1, <2>10, <2>11, Zenon
<1>5. CASE ml_park(t)
  <2>1. /\ CanRun(t) /\ pc[t] = "ml_park" /\ pc'[t] = "ml_parked" /\ ret' = ret
        /\ park(t) /\ q' = q /\ flag' = flag /\ guard' = guard
    BY <1>0, <1>5, Zenon DEF ml_park, At, Goto
  <2>2. ret[t] = Test(t) /\ i[t] < loops[t]
    BY <2>1, Returns, Zenon DEF CondInv, Locking
  <2>3. Place(t)' /\ Turns(t)'
    BY <1>0, <2>1, <2>2, Zenon DEF Place, Locking, Turns
  <2>4. Places'
    BY <2>3, PlacesMove, Zenon DEF CondInv
  <2>5. GuardInv'
    BY <2>1, GuardMove, Zenon DEF CondInv, InGuard
  <2>6. /\ LockSleeper(t) /\ LockSleeper(t)' /\ Ready(t) /\ Parked(t)'
        /\ ~CvSleeper(t) /\ ~CvHolder(t) /\ ~CvHolder(t)'
        /\ pc[t] \notin Unparking /\ pc'[t] \notin Unparking
    BY <2>1, Zenon DEF CvSleeper, CvHolder, InWait, Unlocking, Ready, Parked, LockSleeper, Unparking
  <2>7. \A u \in Slot : SameQueues(u)
    BY <1>0, <2>1, SameLists, Zenon
  <2>8. QueueOK(t)'
    <3>0. QueueOK(t)
      BY Zenon DEF CondInv, QueueInv
    <3>1. ~OnCv(t) /\ ~OnCv(t)'
      BY <1>0, <2>6, <3>0, Zenon DEF QueueOK, OnCv
    <3> QED
      BY <2>1, <2>6, <3>1, Zenon DEF QueueOK, OnCv
  <2>9. OwnerInv'
    <3>1. pc'[t] \notin Holding(t)
      BY <2>1, Program, Zenon DEF Holding, Signalling
    <3>2. Owns(t)' => Owns(t)
      BY <2>6, <2>7, <3>1, Zenon DEF Owns, SameQueues
    <3> QED
      BY <2>1, <2>7, <3>2, OwnerMove, Zenon DEF CondInv
  <2>10. QueueInv' /\ WakeInv' /\ ParkInv'
    BY <1>0, <2>1, <2>6, <2>8, ParkTurn, Zenon
  <2> QED
    BY <2>4, <2>5, <2>9, <2>10, Zenon DEF Rest
<1>6. CASE ml_parked(t)
  <2>1. /\ CanRun(t) /\ pc[t] = "ml_parked" /\ pc'[t] = ret[t]
        /\ q' = q /\ flag' = flag /\ guard' = guard /\ UNCHANGED parkVars
    BY <1>0, <1>6, Zenon DEF ml_parked, At, Goto
  <2>2. ret[t] = Test(t) /\ i[t] < loops[t] /\ Test(t) \in {"p_test", "c_test"}
    BY <2>1, Returns, Program, Zenon DEF CondInv, Locking
  <2>3. Parked(t) /\ Idle(t)' /\ LockSleeper(t)
    BY <2>1, <2>2, IdleThere, Zenon DEF Elsewhere, Parked, LockSleeper
  <2>4. Place(t)' /\ Turns(t)'
    BY <1>0, <2>1, <2>2, Zenon DEF Place, Turns
  <2>5. Places'
    BY <2>4, PlacesMove, Zenon DEF CondInv
  <2>6. GuardInv'
    BY <2>1, <2>2, GuardMove, Zenon DEF CondInv, InGuard
  <2>7. QueueInv' /\ WakeInv' /\ ParkInv' /\ ~OnQueue(t)
    BY <1>0, <2>1, <2>3, LeaveTurn, Zenon
  <2>8. OwnerInv'
    <3>1. Owns(t)
      BY <2>3, <2>7, Zenon DEF Owns
    <3> QED
      BY <1>0, <2>1, <3>1, SameLists, OwnerMove, Zenon DEF CondInv
  <2> QED
    BY <2>5, <2>6, <2>7, <2>8, Zenon DEF Rest
<1> QED
  BY <1>1, <1>2, <1>3, <1>4, <1>5, <1>6, Zenon

\* Where a thread in mutex_unlock() is: in a cv_wait(), or not.
LEMMA UnlockPlace ==
  ASSUME CondInv, NEW t \in Slot, pc[t] \in Unlocking
  PROVE  /\ ret[t] = "cw_park" => InWait(t) /\ Ready(t)
         /\ ret[t] # "cw_park" /\ pc[t] # "mu_unpark" => Idle(t)
         /\ ~LockSleeper(t) /\ ~Parked(t) /\ ~OnQueue(t) /\ QueueOK(t)
         /\ ret[t] # "cw_park" => ~OnCv(t) /\ ~CvSleeper(t)
<1>1. /\ ret[t] = "cw_park" => InWait(t) /\ Ready(t)
      /\ ret[t] # "cw_park" => ~InWait(t)
  BY Zenon DEF InWait, Ready
<1>2. ret[t] # "cw_park" /\ pc[t] # "mu_unpark" => Idle(t)
  BY IdleThere, Zenon DEF Unlocking
<1>3. QueueOK(t)
  BY Zenon DEF CondInv, QueueInv
<1>4. ~LockSleeper(t) /\ ~Parked(t) /\ pc[t] \notin {"ml_setpark", "ml_unguard"}
  BY Zenon DEF LockSleeper, Parked, Unlocking
<1>5. ~OnQueue(t)
  BY <1>3, <1>4, Zenon DEF QueueOK
<1>6. ASSUME ret[t] # "cw_park" PROVE ~CvSleeper(t) /\ ~CvHolder(t)
  BY <1>1, <1>6, Zenon DEF CvSleeper, CvHolder, Unlocking
<1> QED
  BY <1>1, <1>2, <1>3, <1>4, <1>5, <1>6, Zenon DEF QueueOK, OnCv

\* A thread in mutex_unlock() that stays there is on the queues it has to be on.
LEMMA UnlockQueue ==
  ASSUME CondInv, NEW t \in Slot, pc[t] \in Unlocking, pc'[t] \in Unlocking, ret' = ret,
         carg' = carg, SameQueues(t),
         pc'[t] \in {"mu_spin", "mu_test"} => pc[t] \in {"mu_spin", "mu_test"}
  PROVE  QueueOK(t)'
<1>1. ~OnQueue(t)' /\ QueueOK(t) /\ pc'[t] \notin {"ml_setpark", "ml_unguard"}
  BY UnlockPlace, Zenon DEF SameQueues, Unlocking
<1>2. OnCv(t)' <=> OnCv(t)
  BY Zenon DEF SameQueues, OnCv
<1>3. CvHolder(t)' => CvHolder(t)
  BY Zenon DEF CvHolder, InWait, Unlocking
<1>4. CvSleeper(t) \/ CvHolder(t) => CvSleeper(t)' \/ CvHolder(t)'
  BY Zenon DEF CvHolder, CvSleeper, InWait, Unlocking
<1> QED
  BY <1>1, <1>2, <1>3, <1>4, Zenon DEF QueueOK, SameQueues

\* The steps of mutex_unlock().
LEMMA UnlockStep ==
  ASSUME CondInv, NEW t \in Slot, Alone(t), UNCHANGED <<cvOwn, i>>,
         mu_spin(t) \/ mu_test(t) \/ mu_unpark(t) \/ mu_unguard(t)
  PROVE  Rest'
<1>0. /\ t \in DOMAIN pc /\ arg[t] = mtx /\ mtx \in DOMAIN guard /\ mtx \in DOMAIN flag
      /\ mtx \in DOMAIN q /\ t \in DOMAIN next /\ cvq' = cvq /\ carg' = carg /\ cret' = cret
      /\ i' = i
  BY Zenon DEF CondInv, Types, cvOwn
<1>1. /\ pc[t] \in Unlocking /\ CanRun(t) /\ ret' = ret
  BY <1>0, Zenon DEF mu_spin, mu_test, mu_unpark, mu_unguard, At, Unlocking
<1>2. ret[t] = Begin(t) \/ (ret[t] = "cw_park" /\ cret[t] = Test(t) /\ i[t] < loops[t])
  BY <1>1, Returns, Zenon DEF CondInv
<1>3. ASSUME pc'[t] \in Unlocking PROVE Places'
  <2>1. Place(t)'
    BY <1>0, <1>1, <1>2, <1>3, Zenon DEF Place
  <2>2. Turns(t)
    BY Zenon DEF CondInv, Places
  <2>3. Turns(t)'
    <3>1. pc[t] \notin {Begin(t), "done"}
      BY <1>1, Program, Zenon DEF Unlocking
    <3> QED
      BY <1>0, <1>1, <1>3, <2>2, <3>1, Zenon DEF Turns
  <2> QED
    BY <2>1, <2>3, PlacesMove, Zenon DEF CondInv
<1>4. CASE mu_spin(t)
  <2>1. /\ pc[t] = "mu_spin" /\ pc'[t] = "mu_test" /\ guard[mtx] = 0 /\ guard'[mtx] = 1
        /\ q' = q /\ flag' = flag /\ UNCHANGED parkVars
    BY <1>0, <1>4, Zenon DEF mu_spin, At, Goto, spin_lock
  <2>2. pc'[t] \in Unlocking
    BY <2>1, Zenon DEF Unlocking
  <2>3. GuardInv'
    BY <2>1, GuardMove, Zenon DEF CondInv
  <2>4. OwnerInv'
    <3>1. Owns(t)
      BY <2>1, HeldThere, Zenon DEF Holding
    <3> QED
      BY <1>0, <2>1, <3>1, SameLists, OwnerMove, Zenon DEF CondInv
  <2>5. QueueInv' /\ WakeInv' /\ ParkInv'
    <3>1. CASE ret[t] = "cw_park"
      <4>1. Ready(t)' /\ ~CvSleeper(t) /\ pc[t] \notin Unparking /\ pc'[t] \notin Unparking
        BY <1>1, <2>1, <2>2, <3>1, Zenon DEF Ready, InWait, CvSleeper, Unparking
      <4>2. QueueOK(t)'
        BY <1>0, <1>1, <2>1, <2>2, SameLists, UnlockQueue, Zenon
      <4>3. Ready(t) /\ ~LockSleeper(t)
        BY <1>1, <3>1, UnlockPlace, Zenon
      <4> QED
        BY <1>0, <2>1, <4>1, <4>2, <4>3, ReadyTurn, Zenon
    <3>2. CASE ret[t] # "cw_park"
      <4>1. Idle(t) /\ Idle(t)'
        BY <1>1, <2>1, <3>2, IdleThere, Zenon
      <4>2. UNCHANGED parkFlags /\ state' = state /\ state[t] # "SLEEPING"
        BY <1>1, <2>1, Zenon DEF parkVars, parkFlags, CanRun
      <4> QED
        BY <1>0, <2>1, <4>1, <4>2, IdleTurn, Zenon DEF CondInv
    <3> QED
      BY <3>1, <3>2, Zenon
  <2> QED
    BY <1>3, <2>2, <2>3, <2>4, <2>5, Zenon DEF Rest
<1>5. CASE mu_test(t)
  <2>1. /\ pc[t] = "mu_test" /\ pc'[t] \in {"mu_unguard", "mu_unpark"}
        /\ guard' = guard /\ UNCHANGED parkVars
    BY <1>0, <1>5, Zenon DEF mu_test, At, Goto
  <2>2. pc'[t] \in Unlocking
    BY <2>1, Zenon DEF Unlocking
  <2>3. GuardInv'
    BY <2>1, GuardMove, Zenon DEF CondInv, InGuard
  <2>4. Owns(t) /\ ~Owns(t)' /\ flag[mtx] = 1 /\ \A u \in Slot : Owns(u) => u = t
    BY <2>1, HeldThere, Zenon DEF Holding, CondInv, OwnerInv
  <2>5. \A u \in Slot : ~Wakes(u, t)
    <3>1. CASE ret[t] = "cw_park"
      <4>1. CvHolder(t)
        BY <1>1, <2>1, <3>1, Zenon DEF CvHolder, InWait
      <4>2. OnCv(t)
        BY <4>1, Zenon DEF CondInv, QueueInv, QueueOK
      <4> QED
        BY <4>2, Zenon DEF CondInv, WakeInv, WakeOK
    <3>2. CASE ret[t] # "cw_park"
      <4>1. Idle(t)
        BY <2>1, <3>2, IdleThere, Zenon
      <4> QED
        BY <4>1, IdleFree, Zenon DEF CondInv
    <3> QED
      BY <3>1, <3>2, Zenon
  <2>6. CASE q[mtx] = <<>>
    <3>1. pc'[t] = "mu_unguard" /\ q' = q
      BY <1>0, <1>5, <2>6, Zenon DEF mu_test, Goto
    <3>2. OwnerInv'
      <4>1. \A u \in Slot : ~Owns(u)'
        BY <1>0, <2>4, <3>1, Same, SameLists, Zenon DEF Alone
      <4> QED
        BY <4>1, Zenon DEF OwnerInv
    <3>3. QueueInv' /\ WakeInv' /\ ParkInv'
      <4>1. CASE ret[t] = "cw_park"
        <5>1. Ready(t)' /\ ~CvSleeper(t) /\ pc[t] \notin Unparking /\ pc'[t] \notin Unparking
          BY <1>1, <2>1, <2>2, <3>1, <4>1, Zenon DEF Ready, InWait, CvSleeper, Unparking
        <5>2. QueueOK(t)'
          BY <1>0, <1>1, <2>1, <2>2, <3>1, SameLists, UnlockQueue, Zenon
        <5>3. Ready(t) /\ ~LockSleeper(t)
          BY <1>1, <4>1, UnlockPlace, Zenon
        <5> QED
          BY <1>0, <2>1, <3>1, <5>1, <5>2, <5>3, ReadyTurn, Zenon
      <4>2. CASE ret[t] # "cw_park"
        <5>1. Idle(t) /\ Idle(t)'
          BY <1>1, <2>1, <3>1, <4>2, IdleThere, Zenon
        <5>2. UNCHANGED parkFlags /\ state' = state /\ state[t] # "SLEEPING"
          BY <1>1, <2>1, Zenon DEF parkVars, parkFlags, CanRun
        <5> QED
          BY <1>0, <3>1, <5>1, <5>2, IdleTurn, Zenon DEF CondInv
      <4> QED
        BY <4>1, <4>2, Zenon
    <3> QED
      BY <1>3, <2>2, <2>3, <3>2, <3>3, Zenon DEF Rest
  <2>7. CASE q[mtx] # <<>>
    <3> DEFINE x == Head(q[mtx])
    <3>1. /\ pc'[t] = "mu_unpark" /\ flag' = flag /\ next'[t] = x /\ q'[mtx] = Tail(q[mtx])
      BY <1>0, <1>5, <2>7, Zenon DEF mu_test, queue_remove, Goto
    <3>2. q[mtx] \in Seq(Slot) /\ NoDup(q[mtx])
      BY Zenon DEF CondInv, Types, QueueInv
    <3>3. /\ x \in Slot /\ x \in Elems(q[mtx])
          /\ Elems(Tail(q[mtx])) = Elems(q[mtx]) \ {x} /\ NoDup(Tail(q[mtx]))
      BY <2>7, <3>2, ElemsTail
    <3> HIDE DEF x
    <3>4. PICK y \in Slot : y = x
      BY <3>3, Zenon
    <3>5. /\ OnQueue(y) /\ ~OnQueue(y)' /\ next'[t] = y /\ NoDup(q[mtx])'
          /\ \A u \in Slot \ {y} : OnQueue(u)' <=> OnQueue(u)
      BY <3>1, <3>3, <3>4, Zenon DEF OnQueue
    <3>6. LockSleeper(y) /\ y # t
      <4>1. LockSleeper(y) \/ pc[y] \in {"ml_setpark", "ml_unguard"}
        BY <3>5, Zenon DEF CondInv, QueueInv, QueueOK
      <4>2. y # t
        BY <2>1, <4>1, Zenon DEF LockSleeper
      <4>3. pc[y] \in {"ml_setpark", "ml_unguard"} => y = t
        BY <2>1, Zenon DEF CondInv, GuardInv, InGuard
      <4> QED
        BY <4>1, <4>2, <4>3, Zenon
    <3>7. LockSleeper(y)' /\ ~OnCv(y)'
      <4>1. LockSleeper(y)'
        BY <3>6, Same, Zenon DEF Alone
      <4>2. ~CvSleeper(y) /\ ~CvHolder(y)
        BY <3>6, Zenon DEF LockSleeper, CvSleeper, CvHolder, InWait, Unlocking
      <4>3. QueueOK(y)
        BY Zenon DEF CondInv, QueueInv
      <4> QED
        BY <1>0, <4>1, <4>2, <4>3, Zenon DEF QueueOK, OnCv
    <3>8. \A u \in Slot \ {y} : SameQueues(u)
      BY <1>0, <3>5, Zenon DEF SameQueues
    <3>9. OwnerInv'
      <4>1. \A u \in Slot : Owns(u)' => u = y
        BY <2>4, <3>8, Same, Zenon DEF Alone
      <4> QED
        BY <2>4, <3>1, <4>1, Zenon DEF OwnerInv
    <3>10. QueueInv' /\ WakeInv' /\ ParkInv'
      <4>1. QueueOK(t)'
        BY <1>0, <1>1, <2>1, <2>2, <3>6, <3>8, UnlockQueue, Zenon
      <4>2. WakeOK(t, y)'
        BY <3>1, <3>5, <3>7, Zenon DEF WakeOK
      <4>3. /\ ~Parked(t) /\ ~Parked(t)' /\ (Ready(t)' <=> Ready(t))
            /\ pc[t] \notin Unparking /\ pc'[t] \in Unparking
        BY <1>1, <2>1, <2>2, <3>1, Zenon DEF Parked, Ready, InWait, Unparking
      <4>4. \A u \in Slot : SameFlags(u)
        BY <2>1, Zenon DEF SameFlags, parkVars
      <4>5. \A c \in Cv : NoDup(cvq[c])'
        BY <1>0, Zenon DEF CondInv, QueueInv
      <4> QED
        BY <2>5, <3>5, <3>6, <3>7, <3>8, <4>1, <4>2, <4>3, <4>4, <4>5, Take, Zenon DEF CondInv
    <3> QED
      BY <1>3, <2>2, <2>3, <3>9, <3>10, Zenon DEF Rest
  <2> QED
    BY <2>6, <2>7, Zenon
<1>6. CASE mu_unpark(t)
  <2>1. /\ pc[t] = "mu_unpark" /\ pc'[t] = "mu_unguard" /\ unpark(next[t])
        /\ guard' = guard /\ q' = q /\ flag' = flag
    BY <1>0, <1>6, Zenon DEF mu_unpark, At, Goto
  <2>2. pc'[t] \in Unlocking
    BY <2>1, Zenon DEF Unlocking
  <2>3. GuardInv'
    BY <2>1, GuardMove, Zenon DEF CondInv, InGuard
  <2>4. OwnerInv'
    BY <1>0, <2>1, HeldThere, SameLists, OwnerMove, Zenon DEF CondInv
  <2>5. QueueInv' /\ WakeInv' /\ ParkInv'
    <3>1. next[t] \in Slot
      BY Zenon DEF CondInv, Types
    <3>2. QueueOK(t)' /\ ~LockSleeper(t)
      BY <1>0, <1>1, <2>1, <2>2, SameLists, UnlockQueue, UnlockPlace, Zenon
    <3>3. /\ ~Parked(t) /\ ~Parked(t)' /\ (Ready(t)' <=> Ready(t))
          /\ CvSleeper(t) => CvSleeper(t)'
          /\ pc[t] \in Unparking /\ pc'[t] \notin Unparking
      BY <1>1, <2>1, <2>2, Zenon DEF Parked, Ready, InWait, Unparking, CvSleeper
    <3> QED
      BY <1>0, <2>1, <3>1, <3>2, <3>3, Unpark, Zenon
  <2> QED
    BY <1>3, <2>2, <2>3, <2>4, <2>5, Zenon DEF Rest
<1>7. CASE mu_unguard(t)
  <2>1. /\ pc[t] = "mu_unguard" /\ pc'[t] = ret[t]
        /\ q' = q /\ flag' = flag /\ UNCHANGED parkVars
    BY <1>0, <1>7, Zenon DEF mu_unguard, At, Goto
  <2>2. pc'[t] \in {"p_loop", "c_loop", "cw_park"}
    BY <1>2, <2>1, Program, Zenon
  <2>3. Places'
    <3>1. Place(t)'
      BY <1>0, <1>2, <2>1, Zenon DEF Place, InCvWait
    <3>2. Turns(t)'
      <4>1. Turns(t) /\ pc[t] \notin {Begin(t), "done"}
        BY <2>1, Program, Zenon DEF CondInv, Places
      <4> QED
        BY <1>0, <1>2, <2>1, <4>1, Zenon DEF Turns
    <3> QED
      BY <3>1, <3>2, PlacesMove, Zenon DEF CondInv
  <2>4. GuardInv'
    <3>1. pc[t] \in InGuard /\ pc'[t] \notin InGuard
      BY <2>1, <2>2, Zenon DEF InGuard
    <3> QED
      BY <3>1, GuardMove, Zenon DEF CondInv
  <2>5. OwnerInv'
    BY <1>0, <2>1, <2>2, HeldThere, SameLists, OwnerMove, Zenon DEF CondInv
  <2>6. QueueInv' /\ WakeInv' /\ ParkInv'
    <3>1. CASE ret[t] = "cw_park"
      <4>1. /\ Ready(t)' /\ CvSleeper(t)' /\ ~CvHolder(t)' /\ pc[t] \notin Unparking
            /\ pc'[t] \notin Unparking /\ pc'[t] \notin {"ml_setpark", "ml_unguard"}
        BY <2>1, <3>1, Zenon DEF Ready, CvSleeper, CvHolder, InWait, Unlocking, Unparking
      <4>2. Ready(t) /\ ~LockSleeper(t) /\ ~OnQueue(t) /\ QueueOK(t)
        BY <1>1, <3>1, UnlockPlace, Zenon
      <4>3. QueueOK(t)'
        <5>1. SameQueues(t)
          BY <1>0, <2>1, SameLists, Zenon
        <5> QED
          BY <1>0, <4>1, <4>2, <5>1, Zenon DEF QueueOK, SameQueues
      <4> QED
        BY <1>0, <2>1, <4>1, <4>2, <4>3, ReadyTurn, Zenon
    <3>2. CASE ret[t] # "cw_park"
      <4>1. Idle(t) /\ Idle(t)'
        BY <2>1, <2>2, <3>2, IdleThere, Zenon DEF Elsewhere
      <4>2. UNCHANGED parkFlags /\ state' = state /\ state[t] # "SLEEPING"
        BY <1>1, <2>1, Zenon DEF parkVars, parkFlags, CanRun
      <4> QED
        BY <1>0, <2>1, <4>1, <4>2, IdleTurn, Zenon DEF CondInv
    <3> QED
      BY <3>1, <3>2, Zenon
  <2> QED
    BY <2>3, <2>4, <2>5, <2>6, Zenon DEF Rest
<1> QED
  BY <1>4, <1>5, <1>6, <1>7, Zenon

\* The steps of cv_wait() but for those of the mutex.
LEMMA WaitStep ==
  ASSUME CondInv, NEW t \in Slot, Alone(t), UNCHANGED i,
         cw_add(t) \/ cw_setpark(t) \/ cw_unlock(t) \/ cw_park(t) \/ cw_parked(t)
  PROVE  Rest'
<1>0. /\ t \in DOMAIN pc /\ t \in DOMAIN ret /\ arg[t] = mtx /\ carg[t] \in Cv
      /\ DOMAIN cvq = Cv /\ i' = i /\ QueueOK(t)
  BY Zenon DEF CondInv, Types, QueueInv
<1>1. /\ CanRun(t) /\ pc[t] \in InCvWait /\ guard' = guard /\ flag' = flag /\ q' = q
      /\ carg' = carg /\ cret' = cret
  BY Zenon DEF cw_add, cw_setpark, cw_unlock, cw_park, cw_parked, mutex_lock, mutex_unlock, At,
     InCvWait, cvOwn
<1>2. /\ cret[t] = Test(t) /\ i[t] < loops[t] /\ Turns(t)'
  BY <1>0, <1>1, Returns, Zenon DEF CondInv, Turns
<1>3. /\ pc'[t] \in {"cw_setpark", "cw_unlock", "cw_parked"}
           \/ (pc'[t] = "mu_spin" /\ ret'[t] = "cw_park")
           \/ (pc'[t] = "ml_spin" /\ ret'[t] = Test(t))
  BY <1>0, <1>2, Zenon DEF cw_add, cw_setpark, cw_unlock, cw_park, cw_parked, mutex_lock,
     mutex_unlock, Goto
<1>4. Places'
  <2>1. Place(t)'
    BY <1>1, <1>2, <1>3, Zenon DEF Place, InCvWait, Unlocking, Locking
  <2> QED
    BY <1>2, <2>1, PlacesMove, Zenon DEF CondInv
<1>5. GuardInv'
  <2>1. pc[t] \notin InGuard /\ pc'[t] \notin InGuard
    BY <1>1, <1>3, Zenon DEF InGuard, InCvWait
  <2> QED
    BY <1>1, <2>1, GuardMove, Zenon DEF CondInv
<1>6. /\ ~LockSleeper(t) /\ ~OnQueue(t) /\ ~OnQueue(t)'
      /\ pc[t] \notin Unparking /\ pc'[t] \notin Unparking
      /\ pc'[t] \notin {"ml_setpark", "ml_unguard"}
  <2>1. ~LockSleeper(t) /\ pc[t] \notin {"ml_setpark", "ml_unguard"} /\ pc[t] \notin Unparking
    BY <1>1, Zenon DEF LockSleeper, InCvWait, Unparking
  <2>2. ~OnQueue(t) /\ ~OnQueue(t)'
    BY <1>0, <1>1, <2>1, Zenon DEF QueueOK, OnQueue
  <2> QED
    BY <1>3, <2>1, <2>2, Zenon DEF Unparking
<1>7. CASE cw_add(t)
  <2>1. /\ pc[t] = "cw_add" /\ pc'[t] = "cw_setpark" /\ UNCHANGED parkVars
        /\ cvq' = [cvq EXCEPT ![carg[t]] = Append(cvq[carg[t]], t)]
    BY <1>0, <1>7, Zenon DEF cw_add, At, Goto
  <2>2. Idle(t)
    BY <2>1, IdleThere, Zenon DEF Elsewhere
  <2>3. ~OnCv(t) /\ cvq[carg[t]] \in Seq(Slot) /\ NoDup(cvq[carg[t]])
    BY <1>0, <2>2, IdleFree, Zenon DEF CondInv, Types, QueueInv
  <2>4. /\ Elems(Append(cvq[carg[t]], t)) = Elems(cvq[carg[t]]) \cup {t}
        /\ NoDup(Append(cvq[carg[t]], t))
    <3>1. t \notin Elems(cvq[carg[t]])
      BY <1>0, <2>3, Zenon DEF OnCv
    <3> QED
      BY <2>3, <3>1, ElemsAppend
  <2>5. /\ cvq'[carg[t]] = Append(cvq[carg[t]], t)
        /\ \A c \in Cv : c # carg[t] => cvq'[c] = cvq[c]
    BY <1>0, <2>1, Zenon
  <2>6. \A u \in Slot \ {t} : SameQueues(u)
    BY <1>0, <1>1, <2>4, <2>5, Zenon DEF SameQueues, OnQueue
  <2>7. /\ \A c \in Cv : NoDup(cvq[c])'
        /\ NoDup(q[mtx])'
    BY <1>0, <1>1, <2>4, <2>5, Zenon DEF CondInv, QueueInv
  <2>8. /\ t \in Elems(cvq'[carg[t]])
        /\ \A c \in Cv : t \in Elems(cvq'[c]) => c = carg[t]
    BY <1>0, <2>3, <2>4, <2>5, Zenon DEF OnCv
  <2>9. ~Ready(t)' /\ ~Parked(t)' /\ CvHolder(t)'
    BY <2>1, Zenon DEF Ready, Parked, CvHolder, InWait, Unlocking
  <2>10. QueueOK(t)'
    BY <1>0, <1>1, <1>6, <2>8, <2>9, Zenon DEF QueueOK, OnCv
  <2>11. QueueInv' /\ WakeInv' /\ ParkInv'
    BY <1>1, <1>6, <2>1, <2>2, <2>6, <2>7, <2>9, <2>10, AddTurn, Zenon
  <2>12. OwnerInv'
    <3>1. Owns(t)
      BY <2>1, HeldThere, Zenon DEF Holding
    <3> QED
      BY <1>1, <2>6, <3>1, OwnerMove, Zenon DEF CondInv
  <2> QED
    BY <1>4, <1>5, <2>11, <2>12, Zenon DEF Rest
<1>8. CASE cw_setpark(t) \/ cw_unlock(t)
  <2>1. /\ \/ pc[t] = "cw_setpark" /\ pc'[t] = "cw_unlock" /\ setpark(t)
           \/ pc[t] = "cw_unlock" /\ pc'[t] = "mu_spin" /\ ret'[t] = "cw_park" /\ UNCHANGED parkVars
        /\ cvq' = cvq
    BY <1>0, <1>8, Zenon DEF cw_setpark, cw_unlock, mutex_unlock, At, Goto, cvOwn
  <2>2. /\ CvHolder(t) /\ CvHolder(t)' /\ ~CvSleeper(t) /\ Ready(t)'
    BY <2>1, Zenon DEF CvHolder, CvSleeper, InWait, Unlocking, Ready
  <2>3. SameQueues(t) /\ OnCv(t) /\ OnCv(t)'
    BY <1>0, <1>1, <2>1, <2>2, SameLists, Zenon DEF QueueOK, OnCv
  <2>4. QueueOK(t)'
    BY <1>0, <1>1, <1>6, <2>2, <2>3, Zenon DEF QueueOK, SameQueues
  <2>5. OwnerInv'
    <3>1. Owns(t)
      BY <2>1, HeldThere, Zenon DEF Holding
    <3> QED
      BY <1>1, <2>1, <3>1, SameLists, OwnerMove, Zenon DEF CondInv
  <2>6. CASE pc[t] = "cw_setpark"
    <3>1. ~Ready(t) /\ ~Parked(t) /\ setpark(t)
      BY <2>1, <2>6, Zenon DEF Ready, Parked, InWait, Unlocking
    <3>2. QueueInv' /\ WakeInv' /\ ParkInv'
      BY <1>1, <1>6, <2>1, <2>2, <2>3, <2>4, <3>1, SetparkTurn, ZenonT(30)
    <3> QED
      BY <1>4, <1>5, <2>5, <3>2, Zenon DEF Rest
  <2>7. CASE pc[t] = "cw_unlock"
    <3>1. Ready(t) /\ UNCHANGED parkVars
      BY <2>1, <2>7, Zenon DEF Ready
    <3>2. QueueInv' /\ WakeInv' /\ ParkInv'
      BY <1>1, <1>6, <2>1, <2>2, <2>4, <3>1, ReadyTurn, ZenonT(30)
    <3> QED
      BY <1>4, <1>5, <2>5, <3>2, Zenon DEF Rest
  <2> QED
    BY <2>1, <2>6, <2>7, Zenon
<1>9. CASE cw_park(t)
  <2>1. /\ pc[t] = "cw_park" /\ pc'[t] = "cw_parked" /\ park(t) /\ cvq' = cvq
    BY <1>0, <1>9, Zenon DEF cw_park, At, Goto, cvOwn
  <2>2. /\ CvSleeper(t) /\ CvSleeper(t)' /\ ~CvHolder(t)' /\ Ready(t) /\ Parked(t)'
    BY <2>1, Zenon DEF CvHolder, CvSleeper, InWait, Unlocking, Ready, Parked
  <2>3. \A u \in Slot : SameQueues(u)
    BY <1>1, <2>1, SameLists, Zenon
  <2>4. QueueOK(t)'
    BY <1>0, <1>1, <1>6, <2>2, <2>3, Zenon DEF QueueOK, SameQueues
  <2>5. OwnerInv'
    BY <1>1, <2>1, <2>3, HeldThere, OwnerMove, Zenon DEF CondInv
  <2>6. QueueInv' /\ WakeInv' /\ ParkInv'
    BY <1>1, <1>6, <2>1, <2>2, <2>4, ParkTurn, Zenon
  <2> QED
    BY <1>4, <1>5, <2>5, <2>6, Zenon DEF Rest
<1>10. CASE cw_parked(t)
  <2>1. /\ pc[t] = "cw_parked" /\ pc'[t] = "ml_spin" /\ UNCHANGED parkVars /\ cvq' = cvq
    BY <1>0, <1>10, Zenon DEF cw_parked, mutex_lock, At, Goto, cvOwn
  <2>2. Parked(t) /\ Idle(t)'
    BY <2>1, IdleThere, Zenon DEF Parked, Elsewhere
  <2>3. OwnerInv'
    BY <1>1, <2>1, SameLists, HeldThere, OwnerMove, Zenon DEF CondInv
  <2>4. QueueInv' /\ WakeInv' /\ ParkInv'
    BY <1>1, <2>1, <2>2, LeaveTurn, Zenon
  <2> QED
    BY <1>4, <1>5, <2>3, <2>4, Zenon DEF Rest
<1> QED
  BY <1>7, <1>8, <1>9, <1>10, Zenon

\* cv_signal() and cv_broadcast() take the first of the queue, or go on.
LEMMA TakeStep ==
  ASSUME CondInv, NEW t \in Slot, Alone(t), UNCHANGED i, CanRun(t),
         pc[t] \in {"sg_take", "bc_take", "bc_next"},
         NEW found \in {"sg_unpark", "bc_unpark"}, TakeWaiter(t, found, "sg_unlock")
  PROVE  Rest'
<1>0. /\ t \in DOMAIN pc /\ t \in DOMAIN next /\ carg[t] \in Cv /\ DOMAIN cvq = Cv
      /\ cvq[carg[t]] \in Seq(Slot) /\ NoDup(cvq[carg[t]])
  BY Zenon DEF CondInv, Types, QueueInv
<1>1. /\ q' = q /\ flag' = flag /\ guard' = guard /\ carg' = carg /\ cret' = cret /\ i' = i
      /\ UNCHANGED parkVars /\ pc'[t] \in {found, "sg_unlock"}
  BY <1>0, Zenon DEF TakeWaiter, Goto
<1>2. /\ cret[t] = End(t) /\ i[t] < loops[t] /\ Turns(t)' /\ Place(t)'
  BY <1>1, Returns, Zenon DEF CondInv, Turns, Place, Signalling
<1>3. Idle(t) /\ Owns(t)
  BY IdleThere, HeldThere, Zenon DEF Elsewhere, Holding, Signalling
<1>4. GuardRule(t)
  BY <1>1, Zenon DEF GuardRule, InGuard
<1>5. CASE cvq[carg[t]] = <<>>
  <2>1. pc'[t] = "sg_unlock" /\ cvq' = cvq
    BY <1>0, <1>5, Zenon DEF TakeWaiter, Goto
  <2>2. Idle(t)'
    BY <2>1, IdleThere, Zenon DEF Elsewhere
  <2> QED
    BY <1>1, <1>2, <1>3, <1>4, <2>1, <2>2, IdleMove, Zenon
<1>6. CASE cvq[carg[t]] # <<>>
  <2> DEFINE x == Head(cvq[carg[t]])
  <2>1. /\ pc'[t] = found /\ next'[t] = x
        /\ cvq'[carg[t]] = Tail(cvq[carg[t]])
        /\ \A c \in Cv : c # carg[t] => cvq'[c] = cvq[c]
    BY <1>0, <1>6, Zenon DEF TakeWaiter, Goto
  <2>2. /\ x \in Slot /\ x \in Elems(cvq[carg[t]])
        /\ Elems(Tail(cvq[carg[t]])) = Elems(cvq[carg[t]]) \ {x} /\ NoDup(Tail(cvq[carg[t]]))
    BY <1>0, <1>6, ElemsTail
  <2> HIDE DEF x
  <2>3. PICK y \in Slot : y = x
    BY <2>2, Zenon
  <2>4. /\ y \in Elems(cvq[carg[t]]) /\ OnCv(y) /\ QueueOK(y) /\ next'[t] = y
    BY <1>0, <2>1, <2>2, <2>3, Zenon DEF OnCv, CondInv, QueueInv
  <2>5. carg[y] = carg[t] /\ (CvSleeper(y) \/ CvHolder(y))
    BY <1>0, <2>4, Zenon DEF QueueOK
  <2>6. y # t
    <3>1. ~OnCv(t)
      BY <1>3, IdleFree, Zenon DEF CondInv
    <3> QED
      BY <2>4, <3>1, Zenon
  <2>7. CvSleeper(y)
    <3>1. CvHolder(y) => pc[y] \in {"cw_setpark", "cw_unlock", "mu_spin", "mu_test"}
      BY Zenon DEF CvHolder
    <3>2. CvHolder(y) => Owns(y)
      BY <3>1, HeldThere, Zenon DEF Holding
    <3>3. CvHolder(y) => y = t
      BY <1>3, <3>2, Zenon DEF CondInv, OwnerInv
    <3> QED
      BY <2>5, <2>6, <3>3, Zenon
  <2>8. ~OnQueue(y)' /\ ~OnCv(y)' /\ CvSleeper(y)'
    <3>1. ~LockSleeper(y) /\ pc[y] \notin {"ml_setpark", "ml_unguard"}
      BY <2>7, Zenon DEF CvSleeper, LockSleeper, InWait, Unlocking
    <3>2. ~OnQueue(y)'
      BY <1>1, <2>4, <3>1, Zenon DEF QueueOK, OnQueue
    <3>3. ASSUME NEW c \in Cv PROVE y \notin Elems(cvq'[c])
      BY <2>1, <2>2, <2>3, <2>4, <2>5, ZenonT(30) DEF QueueOK
    <3>4. CvSleeper(y)'
      BY <2>6, <2>7, Same, Zenon DEF Alone
    <3> QED
      BY <3>2, <3>3, <3>4, Zenon DEF OnCv
  <2>9. \A u \in Slot \ {y} : SameQueues(u)
    BY <1>0, <1>1, <2>1, <2>2, <2>3, Zenon DEF SameQueues, OnQueue
  <2>10. /\ NoDup(q[mtx])'
         /\ \A c \in Cv : NoDup(cvq[c])'
    BY <1>1, <2>1, <2>2, Zenon DEF CondInv, QueueInv
  <2>11. /\ ~Parked(t) /\ ~Parked(t)' /\ ~Ready(t) /\ ~Ready(t)' /\ ~CvHolder(t)'
         /\ pc[t] \notin Unparking /\ pc'[t] \in Unparking
         /\ pc'[t] \notin {"ml_setpark", "ml_unguard"} /\ pc'[t] # "mu_unpark"
    BY <2>1, Zenon DEF Parked, Ready, InWait, Unlocking, Unparking, CvHolder
  <2>12. QueueOK(t)'
    <3>1. ~OnQueue(t) /\ ~OnCv(t)
      BY <1>3, IdleFree, Zenon DEF CondInv
    <3>2. SameQueues(t)
      BY <2>6, <2>9, Zenon
    <3>3. ~OnQueue(t)' /\ ~OnCv(t)'
      BY <3>1, <3>2, Zenon DEF SameQueues, OnCv
    <3> QED
      BY <2>11, <3>3, Zenon DEF QueueOK, OnCv
  <2>13. WakeOK(t, y)'
    BY <2>8, <2>11, Zenon DEF WakeOK
  <2>14. QueueInv' /\ WakeInv' /\ ParkInv'
    <3>1. \A u \in Slot : SameFlags(u)
      BY <1>1, Zenon DEF SameFlags, parkVars
    <3>2. \A u \in Slot : ~Wakes(u, t)
      BY <1>3, IdleFree, Zenon DEF CondInv
    <3> QED
      BY <2>4, <2>6, <2>7, <2>8, <2>9, <2>10, <2>11, <2>12, <2>13, <3>1, <3>2, Take, ZenonT(30) DEF CondInv
  <2>15. OwnerInv'
    <3>1. \A u \in Slot : Owns(u)' => Owns(u)
      <4>1. ~Owns(y)'
        <5>1. pc'[y] \in {"cw_park", "cw_parked", "mu_unpark", "mu_unguard"}
          BY <2>8, Zenon DEF CvSleeper
        <5> QED
          BY <5>1, HeldThere, Zenon
      <4> QED
        BY <1>3, <2>9, <4>1, Same, Zenon DEF Alone
    <3> QED
      BY <1>1, <3>1, Zenon DEF CondInv, OwnerInv
  <2>16. Places' /\ GuardInv'
    BY <1>2, <1>4, PlacesMove, GuardMove, Zenon DEF CondInv, GuardRule
  <2> QED
    BY <2>14, <2>15, <2>16, Zenon DEF Rest
<1> QED
  BY <1>5, <1>6, Zenon

\* The steps of cv_signal() and cv_broadcast().
LEMMA SignalStep ==
  ASSUME CondInv, NEW t \in Slot, Alone(t), UNCHANGED i,
         \/ sg_take(t) \/ sg_unpark(t) \/ sg_unlock(t)
         \/ bc_take(t) \/ bc_unpark(t) \/ bc_next(t)
  PROVE  Rest'
<1>0. t \in DOMAIN pc /\ i' = i
  BY Zenon DEF CondInv, Types
<1>1. CASE sg_take(t) \/ bc_take(t) \/ bc_next(t)
  BY <1>1, TakeStep, Zenon DEF sg_take, bc_take, bc_next, At
<1>2. CASE sg_unpark(t) \/ bc_unpark(t)
  <2>1. /\ pc[t] \in {"sg_unpark", "bc_unpark"} /\ pc'[t] \in {"sg_unlock", "bc_next"}
        /\ CanRun(t) /\ unpark(next[t]) /\ q' = q /\ flag' = flag /\ guard' = guard /\ cvq' = cvq
        /\ carg' = carg /\ cret' = cret
    BY <1>0, <1>2, Zenon DEF sg_unpark, bc_unpark, At, Goto, cvOwn
  <2>2. cret[t] = End(t) /\ i[t] < loops[t] /\ Turns(t)' /\ Place(t)'
    BY <1>0, <2>1, Returns, Zenon DEF CondInv, Turns, Place, Signalling
  <2>3. Places'
    BY <2>2, PlacesMove, Zenon DEF CondInv
  <2>4. GuardInv'
    BY <2>1, GuardMove, Zenon DEF CondInv, InGuard
  <2>5. OwnerInv'
    <3>1. Owns(t)
      BY <2>1, HeldThere, Zenon DEF Holding, Signalling
    <3> QED
      BY <2>1, <3>1, SameLists, OwnerMove, Zenon DEF CondInv
  <2>6. /\ ~Parked(t) /\ ~Parked(t)' /\ ~Ready(t) /\ ~Ready(t)' /\ ~CvHolder(t)'
        /\ ~CvHolder(t) /\ ~CvSleeper(t) /\ ~LockSleeper(t)
        /\ pc[t] \in Unparking /\ pc'[t] \notin Unparking
        /\ pc[t] \notin {"ml_setpark", "ml_unguard"} /\ pc'[t] \notin {"ml_setpark", "ml_unguard"}
    BY <2>1, Zenon DEF Parked, Ready, InWait, Unlocking, Unparking, CvHolder, CvSleeper, LockSleeper
  <2>7. QueueOK(t)'
    <3>1. QueueOK(t)
      BY Zenon DEF CondInv, QueueInv
    <3>2. ~OnQueue(t)' /\ ~OnCv(t)'
      BY <2>1, <2>6, <3>1, Zenon DEF QueueOK, OnQueue, OnCv
    <3> QED
      BY <2>6, <3>2, Zenon DEF QueueOK, OnCv
  <2>8. next[t] \in Slot
    BY Zenon DEF CondInv, Types
  <2>9. QueueInv' /\ WakeInv' /\ ParkInv'
    BY <2>1, <2>6, <2>7, <2>8, Unpark, Zenon
  <2> QED
    BY <2>3, <2>4, <2>5, <2>9, Zenon DEF Rest
<1>3. CASE sg_unlock(t)
  <2>1. /\ pc[t] = "sg_unlock" /\ pc'[t] = cret[t] /\ CanRun(t)
        /\ q' = q /\ flag' = flag /\ guard' = guard /\ cvq' = cvq /\ UNCHANGED parkVars
    BY <1>0, <1>3, Zenon DEF sg_unlock, At, Goto
  <2>2. cret[t] = End(t) /\ i[t] < loops[t] /\ End(t) \in {"p_unlock", "c_unlock"}
    BY <2>1, Returns, Program, Zenon DEF CondInv, Signalling
  <2>3. Turns(t)' /\ Place(t)'
    BY <1>0, <2>1, <2>2, Zenon DEF Turns, Place
  <2>4. Idle(t) /\ Idle(t)'
    BY <2>1, <2>2, IdleThere, Zenon DEF Elsewhere
  <2>5. GuardRule(t) /\ Owns(t)
    BY <2>1, <2>2, HeldThere, Zenon DEF GuardRule, InGuard, Holding, Signalling
  <2> QED
    BY <2>1, <2>3, <2>4, <2>5, IdleMove, Zenon
<1> QED
  BY <1>1, <1>2, <1>3, Zenon

\* The steps of the program itself.
LEMMA ProgramStep ==
  ASSUME CondInv, NEW t \in Slot, Alone(t),
         \/ p_loop(t) \/ p_test(t) \/ p_put(t) \/ p_count(t) \/ p_unlock(t)
         \/ c_loop(t) \/ c_test(t) \/ c_get(t) \/ c_count(t) \/ c_unlock(t)
  PROVE  Rest'
<1>0. /\ t \in DOMAIN pc /\ t \in DOMAIN ret /\ t \in DOMAIN cret /\ t \in DOMAIN i
      /\ t \in DOMAIN state /\ Place(t) /\ Turns(t) /\ i[t] \in Nat /\ loops[t] \in Nat
  BY BufferAssumption, Zenon DEF CondInv, Types, Places
<1>1. /\ pc[t] \in {"p_loop", "p_test", "p_put", "p_count", "p_unlock"} => t \in Producer
      /\ pc[t] \in {"c_loop", "c_test", "c_get", "c_count", "c_unlock"} => t \notin Producer
  BY <1>0, Zenon DEF Place, Locking, Unlocking, InCvWait, Signalling, Begin, Test, End, Body
<1>2. /\ CanRun(t) /\ pc[t] \in Elsewhere /\ pc[t] \notin InGuard /\ guard' = guard
      /\ q' = q /\ cvq' = cvq /\ flag' = flag /\ UNCHANGED parkFlags
  BY Zenon DEF p_loop, p_test, p_put, p_count, p_unlock, c_loop, c_test, c_get, c_count, c_unlock,
     Loop, EndLoop, While, wake, cv_wait, cv_signal, cv_broadcast, mutex_lock, mutex_unlock, At,
     Elsewhere, InGuard, cvOwn, parkVars, parkFlags
<1>3. Idle(t)
  BY <1>2, IdleThere, Zenon
<1>4. CASE Loop(t, Begin(t), Test(t))
  <2>1. pc[t] = Begin(t)
    BY <1>4, Zenon DEF Loop, At
  <2>2. CASE i[t] < loops[t]
    <3>1. pc'[t] = "ml_spin" /\ ret'[t] = Test(t) /\ i' = i /\ UNCHANGED parkVars
      BY <1>0, <1>4, <2>2 DEF Loop, mutex_lock, Goto
    <3>2. Place(t)' /\ Turns(t)'
      BY <2>2, <3>1, Zenon DEF Place, Locking, Turns
    <3>3. Idle(t)' /\ GuardRule(t) /\ ~Owns(t)'
      BY <1>2, <3>1, IdleThere, HeldThere, Zenon DEF Elsewhere, GuardRule, InGuard
    <3> QED
      BY <1>2, <1>3, <3>1, <3>2, <3>3, IdleMove, Zenon
  <2>3. CASE ~(i[t] < loops[t])
    <3>1. pc'[t] = "done" /\ i' = i /\ state' = [state EXCEPT ![t] = "ZOMBIE"]
      BY <1>0, <1>4, <2>3, Zenon DEF Loop, Goto
    <3>2. Place(t)' /\ Turns(t)'
      BY <1>0, <2>1, <3>1, Zenon DEF Place, Turns
    <3>3. Idle(t)' /\ GuardRule(t) /\ ~Owns(t)'
      BY <1>2, <3>1, IdleThere, HeldThere, Zenon DEF Elsewhere, GuardRule, InGuard
    <3>4. state'[t] # "SLEEPING" /\ \A u \in Slot \ {t} : state'[u] = state[u]
      BY <1>0, <3>1, Zenon DEF CondInv, Types
    <3>5. QueueInv' /\ WakeInv' /\ ParkInv'
      BY <1>2, <1>3, <3>3, <3>4, IdleTurn, Zenon DEF CondInv
    <3>6. Places' /\ GuardInv' /\ OwnerInv'
      BY <1>2, <3>2, <3>3, PlacesMove, GuardMove, SameLists, OwnerMove, Zenon DEF CondInv, GuardRule
    <3> QED
      BY <3>5, <3>6, Zenon DEF Rest
  <2> QED
    BY <2>2, <2>3, Zenon
<1>5. CASE EndLoop(t, End(t), Begin(t))
  <2>1. /\ pc[t] = End(t) /\ pc'[t] = "mu_spin" /\ ret'[t] = Begin(t) /\ i'[t] = i[t] + 1
        /\ UNCHANGED parkVars
    BY <1>0, <1>5, Zenon DEF EndLoop, mutex_unlock, At, Goto
  <2>2. i[t] < loops[t]
    BY <2>1, TurnLeft, Zenon DEF CondInv
  <2>3. i'[t] <= loops[t]
    BY <1>0, <2>1, <2>2, SMTT(30)
  <2>4. Place(t)' /\ Turns(t)'
    BY <2>1, <2>3, Zenon DEF Place, Unlocking, Turns
  <2>5. Idle(t)' /\ GuardRule(t) /\ Owns(t)
    BY <1>2, <2>1, Program, IdleThere, HeldThere, Zenon DEF GuardRule, InGuard, Holding
  <2> QED
    BY <1>2, <1>3, <2>1, <2>4, <2>5, IdleMove, Zenon
<1>6. ASSUME i' = i, UNCHANGED parkVars, pc[t] \in {Test(t)} \cup Body(t),
             \/ pc'[t] = "cw_add" /\ cret'[t] = Test(t)
             \/ pc'[t] \in {"sg_take", "bc_take"} /\ cret'[t] = End(t)
             \/ pc'[t] \in Body(t)
      PROVE  Rest'
  <2>1. i[t] < loops[t]
    BY <1>6, TurnLeft, Zenon DEF CondInv
  <2>2. Place(t)' /\ Turns(t)'
    BY <1>6, <2>1, Zenon DEF Place, InCvWait, Signalling, Turns
  <2>3. Idle(t)' /\ GuardRule(t)
    <3>1. pc'[t] \in Elsewhere \ InGuard
      BY <1>6, Program, Zenon DEF Elsewhere, InGuard
    <3> QED
      BY <1>2, <3>1, IdleThere, Zenon DEF GuardRule
  <2>4. Owns(t)
    BY <1>6, HeldThere, Zenon DEF Holding
  <2> QED
    BY <1>2, <1>3, <1>6, <2>2, <2>3, <2>4, IdleMove, Zenon
<1>7. CASE p_loop(t) \/ c_loop(t)
  BY <1>1, <1>4, <1>7, Zenon DEF p_loop, c_loop, Loop, At, Begin, Test
<1>8. CASE p_unlock(t) \/ c_unlock(t)
  BY <1>1, <1>5, <1>8, Zenon DEF p_unlock, c_unlock, EndLoop, At, Begin, End
<1>9. CASE p_test(t)
  <2>1. pc[t] = "p_test" /\ t \in Producer /\ i' = i /\ UNCHANGED parkVars
    BY <1>1, <1>9, Zenon DEF p_test, While, At, cv_wait
  <2>2. (pc'[t] = "cw_add" /\ cret'[t] = "p_test") \/ pc'[t] = "p_put"
    BY <1>0, <1>9, Zenon DEF p_test, While, cv_wait, Goto
  <2> QED
    BY <1>6, <2>1, <2>2, Zenon DEF Test, Body
<1>10. CASE c_test(t)
  <2>1. pc[t] = "c_test" /\ t \notin Producer /\ i' = i /\ UNCHANGED parkVars
    BY <1>1, <1>10, Zenon DEF c_test, While, At, cv_wait
  <2>2. (pc'[t] = "cw_add" /\ cret'[t] = "c_test") \/ pc'[t] = "c_get"
    BY <1>0, <1>10, Zenon DEF c_test, While, cv_wait, Goto
  <2> QED
    BY <1>6, <2>1, <2>2, Zenon DEF Test, Body
<1>11. CASE p_put(t) \/ c_get(t)
  <2>1. /\ i' = i /\ UNCHANGED parkVars
        /\ (pc[t] = "p_put" /\ pc'[t] = "p_count") \/ (pc[t] = "c_get" /\ pc'[t] = "c_count")
    BY <1>0, <1>11, Zenon DEF p_put, c_get, At, Goto
  <2>2. pc[t] \in Body(t) /\ pc'[t] \in Body(t)
    BY <1>1, <2>1, Zenon DEF Body
  <2> QED
    BY <1>6, <2>1, <2>2, Zenon
<1>12. CASE p_count(t) \/ c_count(t)
  <2>1. /\ i' = i /\ UNCHANGED parkVars /\ pc'[t] \in {"sg_take", "bc_take"}
        /\ (pc[t] = "p_count" /\ cret'[t] = "p_unlock") \/ (pc[t] = "c_count" /\ cret'[t] = "c_unlock")
    BY <1>0, <1>12, Zenon DEF p_count, c_count, At, wake, cv_signal, cv_broadcast, Goto
  <2>2. pc[t] \in Body(t) /\ cret'[t] = End(t)
    BY <1>1, <2>1, Zenon DEF Body, End
  <2> QED
    BY <1>6, <2>1, <2>2, Zenon
<1> QED
  BY <1>7, <1>8, <1>9, <1>10, <1>11, <1>12, Zenon

-----------------------------------------------------------------------------
\* The invariant holds when the threads start.
LEMMA CondInit == Init => CondInv
<1> SUFFICES ASSUME Init PROVE CondInv
  BY Zenon
<1> USE DEF Init, CvInit, MutexInit, ParkInit
<1>1. Types
  <2>1. <<>> \in Seq(Slot)
    OBVIOUS
  <2>2. (CHOOSE c \in Cv : TRUE) \in Cv
    BY CvAssumption, Zenon
  <2>3. (CHOOSE m \in Mtx : TRUE) = mtx /\ Mtx = {mtx}
    BY BufferAssumption, Zenon
  <2>4. q \in [{mtx} -> Seq(Slot)] /\ cvq \in [Cv -> Seq(Slot)] /\ carg \in [Slot -> Cv]
    BY <2>1, <2>2, <2>3, Zenon
  <2>5. /\ state \in [Slot -> {"RUNNABLE", "SLEEPING", "ZOMBIE"}]
        /\ isParked \in [Slot -> {0, 1}] /\ setPark \in [Slot -> {0, 1}]
        /\ immediateUnpark \in [Slot -> {0, 1}]
        /\ flag \in [{mtx} -> {0, 1}] /\ guard \in [{mtx} -> {0, 1}]
    BY <2>3, Zenon
  <2>6. DOMAIN pc = Slot /\ DOMAIN ret = Slot /\ DOMAIN cret = Slot /\ next \in [Slot -> Slot]
    BY Zenon
  <2>7. arg \in [Slot -> {mtx}]
    BY <2>3
  <2>8. i \in [Slot -> Nat]
    BY Zenon
  <2> QED
    BY <2>4, <2>5, <2>6, <2>7, <2>8, Zenon DEF Types
<1>2. ASSUME NEW t \in Slot PROVE pc[t] = Begin(t)
  BY Zenon DEF Begin
<1>3. Places
  <2>1. ASSUME NEW t \in Slot PROVE i[t] <= loops[t]
    BY BufferAssumption
  <2> QED
    BY <1>2, <2>1, Zenon DEF Places, Place, Turns
<1>4. ASSUME NEW t \in Slot PROVE pc[t] \in {"p_loop", "c_loop"}
  BY <1>2, Program, Zenon
<1>5. GuardInv
  BY <1>4, Zenon DEF GuardInv, InGuard
<1>6. q[mtx] = <<>> /\ \A c \in Cv : cvq[c] = <<>>
  BY BufferAssumption, Zenon
<1>7. ASSUME NEW t \in Slot PROVE ~OnQueue(t) /\ ~OnCv(t)
  BY <1>6, ElemsEmpty, Zenon DEF OnQueue, OnCv
<1>8. ASSUME NEW t \in Slot
      PROVE  /\ ~LockSleeper(t) /\ ~CvHolder(t) /\ ~Ready(t) /\ ~Parked(t)
             /\ pc[t] \notin Unparking /\ pc[t] \notin {"ml_setpark", "ml_unguard"}
  BY <1>4, Zenon DEF LockSleeper, CvHolder, Ready, Parked, InWait, Unlocking, Unparking
<1>9. OwnerInv
  <2>1. ASSUME NEW t \in Slot PROVE pc[t] \notin Holding(t)
    BY <1>4, Program, Zenon DEF Holding, Signalling
  <2> QED
    BY <1>8, <2>1, Zenon DEF OwnerInv, Owns
<1>10. QueueInv
  BY <1>6, <1>7, <1>8, ElemsEmpty, Zenon DEF QueueInv, QueueOK, OnCv
<1>11. WakeInv
  BY <1>8, Zenon DEF WakeInv, Wakes
<1>12. ParkInv
  <2>1. ASSUME NEW t \in Slot
        PROVE  /\ isParked[t] # 1 /\ setPark[t] # 1 /\ immediateUnpark[t] # 1
               /\ state[t] # "SLEEPING"
    <3>1. isParked[t] = 0 /\ setPark[t] = 0 /\ immediateUnpark[t] = 0 /\ state[t] = "RUNNABLE"
      BY Zenon
    <3> QED
      BY <3>1
  <2> QED
    BY <1>8, <2>1, Zenon DEF ParkInv, ParkOK
<1> QED
  BY <1>1, <1>3, <1>5, <1>9, <1>10, <1>11, <1>12, Zenon DEF CondInv

\* Every step of the library and of the test keeps the invariant.
LEMMA CondStep == CondInv /\ [Next]_vars => CondInv'
<1>1. ASSUME CondInv, NEW t \in Slot, Step(t) PROVE CondInv'
  <2>1. Types' /\ Alone(t)
    BY <1>1, TypesStep, AloneStep, Zenon DEF CondInv
  <2>2. Rest'
    <3>1. CASE CvStep(t) /\ UNCHANGED <<ringVars, i>>
      BY <1>1, <2>1, <3>1, LockStep, UnlockStep, WaitStep, SignalStep, Zenon DEF CvStep, MutexStep
    <3>2. CASE ~(CvStep(t) /\ UNCHANGED <<ringVars, i>>)
      BY <1>1, <2>1, <3>2, ProgramStep, Zenon DEF Step
    <3> QED
      BY <3>1, <3>2, Zenon
  <2> QED
    BY <2>1, <2>2, Zenon DEF CondInv, Rest
<1>2. ASSUME CondInv, UNCHANGED vars PROVE CondInv'
  <2>1. /\ UNCHANGED <<state, isParked, immediateUnpark, setPark, flag, guard, q, pc, arg, ret, next>>
        /\ UNCHANGED <<cvq, clock, carg, cret, i>>
    BY <1>2, Zenon DEF vars, cvVars, mutexVars, parkVars, cvOwn
  <2>2. ASSUME NEW t \in Slot PROVE Still(t) /\ SameQueues(t) /\ SameFlags(t)
    BY <2>1, SameLists, Zenon DEF Still, SameFlags
  <2>3. Types' /\ GuardInv'
    BY <1>2, <2>1, Zenon DEF CondInv, Types, GuardInv
  <2>4. Places'
    BY <1>2, <2>2, Same, Zenon DEF CondInv, Places
  <2>5. OwnerInv'
    BY <1>2, <2>1, <2>2, Same, Zenon DEF CondInv, OwnerInv
  <2>6. QueueInv'
    BY <1>2, <2>1, <2>2, Same, Zenon DEF CondInv, QueueInv
  <2>7. /\ \A t \in Slot : OnQueue(t)' <=> OnQueue(t)
        /\ \A t \in Slot : OnCv(t)' <=> OnCv(t)
        /\ \A t, u \in Slot : Wakes(u, t)' <=> Wakes(u, t)
    BY <2>2, Same, Zenon DEF SameQueues
  <2>8. WakeInv'
    <3>1. ASSUME NEW t \in Slot, NEW u \in Slot, WakeOK(u, t) PROVE WakeOK(u, t)'
      <4>1. (LockSleeper(t)' <=> LockSleeper(t)) /\ (CvSleeper(t)' <=> CvSleeper(t))
        BY <2>2, Same, Zenon
      <4> QED
        BY <2>1, <2>7, <3>1, <4>1, Zenon DEF WakeOK
    <3> QED
      BY <1>2, <2>7, <3>1, Zenon DEF CondInv, WakeInv
  <2>9. ParkInv'
    <3>1. ASSUME NEW t \in Slot PROVE ParkOK(t)'
      <4>1. Due(t)' <=> Due(t)
        BY <2>7, Zenon DEF Due
      <4> QED
        BY <1>2, <2>2, <4>1, Same, Zenon DEF CondInv, ParkInv, ParkOK, SameFlags
    <3> QED
      BY <3>1, Zenon DEF ParkInv
  <2> QED
    BY <2>3, <2>4, <2>5, <2>6, <2>8, <2>9, Zenon DEF CondInv
<1> QED
  BY <1>1, <1>2, Zenon DEF Next

\* The invariant of the condition variable test.
THEOREM CondInvariant == Spec => []CondInv
BY CondInit, CondStep, PTL DEF Spec

\* Nobody sleeps forgotten: a thread asleep in park(), whether mutex_lock() or
\* cv_wait() has called it, is on a queue, or someone has taken it off the queue
\* and is about to unpark it.  It makes no difference that cv_wait() unlocks the
\* mutex, and so may unpark another, between its setpark() and its park().
THEOREM NoLostWakeupHolds == Spec => []NoLostWakeup
<1>1. CondInv => NoLostWakeup
  BY Zenon DEF CondInv, ParkInv, ParkOK, Due, OnQueue, OnCv, Wakes, Unparking, NoLostWakeup, Waiting
<1> QED
  BY <1>1, CondInvariant, PTL

-----------------------------------------------------------------------------
(***************************************************************************)
(* Rings.  The buffer f has n places; its c items lie from the place u on. *)
(***************************************************************************)
ItemsOf(n, f, u, c) == [k \in 1..c |-> f[(u + k - 1) % n]]

\* An index wraps at most once.
LEMMA WrapsOnce ==
  ASSUME NEW n \in Nat \ {0}, NEW a \in Nat, a < n + n
  PROVE  /\ a % n \in 0..n - 1
         /\ a < n => a % n = a
         /\ a >= n => a % n = a - n
<1> DEFINE d == a \div n
           r == a % n
<1>1. d \in Nat /\ r \in Nat /\ r < n /\ a = n * d + r
  OBVIOUS
<1> HIDE DEF d, r
<1>2. d = 0 \/ d = 1
  <2>1. d >= 2 => n * d >= n * 2
    BY <1>1, SMT
  <2> QED
    BY <1>1, <2>1
<1>3. n * 0 = 0 /\ n * 1 = n
  OBVIOUS
<1>4. CASE d = 0
  BY <1>1, <1>3, <1>4 DEF r
<1>5. CASE d = 1
  BY <1>1, <1>3, <1>5 DEF r
<1> QED
  BY <1>2, <1>4, <1>5

\* The place behind the items is within two turns.
LEMMA WithinTwo ==
  ASSUME NEW n \in Nat \ {0}, NEW u \in 0..n - 1, NEW c \in 0..n
  PROVE  u + c \in Nat /\ u + c < n + n
OBVIOUS

\* Going on from a wrapped index is going on from the index.
LEMMA WrapsOn ==
  ASSUME NEW n \in Nat \ {0}, NEW a \in Nat, NEW b \in Nat, a + b < n + n
  PROVE  ((a % n) + b) % n = (a + b) % n
<1> DEFINE ra == a % n
           e == ra + b
           re == e % n
           d == a + b
           rd == d % n
<1>1. a < n + n /\ d \in Nat /\ d < n + n
  OBVIOUS
<1>2. ra \in 0..n - 1 /\ (a < n => ra = a) /\ (a >= n => ra = a - n)
  BY <1>1, WrapsOnce, Zenon
<1> HIDE DEF ra
<1>3. e \in Nat /\ e < n + n
  BY <1>1, <1>2
<1> HIDE DEF e, d
<1>4. /\ re \in 0..n - 1 /\ (e < n => re = e) /\ (e >= n => re = e - n)
      /\ rd \in 0..n - 1 /\ (d < n => rd = d) /\ (d >= n => rd = d - n)
  BY <1>1, <1>3, WrapsOnce, Zenon
<1> HIDE DEF re, rd
<1>5. re = rd
  BY <1>1, <1>2, <1>3, <1>4 DEF e, d
<1> QED
  BY <1>5, Zenon DEF re, rd, e, d, ra

\* Sequences are equal when their items are.
LEMMA SameItems ==
  ASSUME NEW s \in Seq(Nat), NEW t \in Seq(Nat), Len(s) = Len(t),
         \A k \in 1..Len(s) : s[k] = t[k]
  PROVE  s = t
BY SMTT(30)

\* What Append() does.
LEMMA Appended ==
  ASSUME NEW s \in Seq(Nat), NEW w \in Nat
  PROVE  /\ Append(s, w) \in Seq(Nat) /\ Len(Append(s, w)) = Len(s) + 1
         /\ \A k \in 1..Len(s) : Append(s, w)[k] = s[k]
         /\ Append(s, w)[Len(s) + 1] = w
OBVIOUS

\* The items are a sequence of c items of the ring.
LEMMA ItemsType ==
  ASSUME NEW n \in Nat \ {0}, NEW f \in [0..n - 1 -> Nat], NEW u \in 0..n - 1, NEW c \in 0..n
  PROVE  ItemsOf(n, f, u, c) \in Seq(Nat) /\ Len(ItemsOf(n, f, u, c)) = c
<1>1. ASSUME NEW k \in 1..c PROVE (u + k - 1) % n \in 0..n - 1
  <2>1. u + k - 1 \in Nat /\ u + k - 1 < n + n
    OBVIOUS
  <2> QED
    BY <2>1, WrapsOnce, Zenon
<1>2. \A k \in 1..c : f[(u + k - 1) % n] \in Nat
  BY <1>1
<1> QED
  BY <1>2 DEF ItemsOf

\* Counting one more item puts the one behind the others at their end.
LEMMA ItemsPut ==
  ASSUME NEW n \in Nat \ {0}, NEW f \in [0..n - 1 -> Nat], NEW u \in 0..n - 1,
         NEW c \in 0..n, c < n
  PROVE  ItemsOf(n, f, u, c + 1) = Append(ItemsOf(n, f, u, c), f[(u + c) % n])
<1> DEFINE s == ItemsOf(n, f, u, c)
           t == ItemsOf(n, f, u, c + 1)
           w == f[(u + c) % n]
<1>1. s \in Seq(Nat) /\ Len(s) = c /\ t \in Seq(Nat) /\ Len(t) = c + 1
  <2>1. c + 1 \in 0..n
    OBVIOUS
  <2> QED
    BY <2>1, ItemsType, Zenon
<1>2. /\ \A k \in 1..c : t[k] = s[k]
      /\ t[c + 1] = w
  <2>1. u + (c + 1) - 1 = u + c
    OBVIOUS
  <2> QED
    BY <2>1 DEF ItemsOf
<1> HIDE DEF s, t, w
<1>3. w \in Nat
  BY <1>1, <1>2
<1>4. Append(s, w) \in Seq(Nat) /\ Len(Append(s, w)) = Len(t)
      /\ \A k \in 1..Len(t) : t[k] = Append(s, w)[k]
  <2>1. /\ Append(s, w) \in Seq(Nat) /\ Len(Append(s, w)) = c + 1
        /\ \A k \in 1..c : Append(s, w)[k] = s[k]
        /\ Append(s, w)[c + 1] = w
    BY <1>1, <1>3, Appended, Zenon
  <2>2. \A k \in 1..c + 1 : k \in 1..c \/ k = c + 1
    OBVIOUS
  <2> QED
    BY <1>1, <1>2, <2>1, <2>2, Zenon
<1>5. t = Append(s, w)
  BY <1>1, <1>4, SameItems, Zenon
<1> QED
  BY <1>5, Zenon DEF s, t, w

\* Storing behind the items leaves them alone.
LEMMA ItemsStore ==
  ASSUME NEW n \in Nat \ {0}, NEW f \in [0..n - 1 -> Nat], NEW u \in 0..n - 1,
         NEW c \in 0..n, c < n, NEW v \in Nat
  PROVE  ItemsOf(n, [f EXCEPT ![(u + c) % n] = v], u, c) = ItemsOf(n, f, u, c)
<1>1. ASSUME NEW k \in 1..c
      PROVE  (u + k - 1) % n # (u + c) % n /\ (u + k - 1) % n \in 0..n - 1
  <2> DEFINE a == u + k - 1
             b == u + c
             ra == a % n
             rb == b % n
  <2>1. a \in Nat /\ a < n + n /\ b \in Nat /\ b < n + n /\ a < b /\ b < a + n
    OBVIOUS
  <2> HIDE DEF a, b
  <2>2. /\ ra \in 0..n - 1 /\ (a < n => ra = a) /\ (a >= n => ra = a - n)
        /\ rb \in 0..n - 1 /\ (b < n => rb = b) /\ (b >= n => rb = b - n)
    BY <2>1, WrapsOnce, Zenon
  <2> HIDE DEF ra, rb
  <2>3. ra # rb
    BY <2>1, <2>2
  <2> QED
    BY <2>2, <2>3, Zenon DEF a, b, ra, rb
<1>2. ASSUME NEW k \in 1..c
      PROVE  [f EXCEPT ![(u + c) % n] = v][(u + k - 1) % n] = f[(u + k - 1) % n]
  BY <1>1, Zenon
<1> QED
  BY <1>2, Zenon DEF ItemsOf

\* Counting one item less, from the next place on, takes the first one off.
LEMMA ItemsGet ==
  ASSUME NEW n \in Nat \ {0}, NEW f \in [0..n - 1 -> Nat], NEW u \in 0..n - 1,
         NEW c \in 0..n, c > 0
  PROVE  /\ ItemsOf(n, f, u, c) # <<>>
         /\ Head(ItemsOf(n, f, u, c)) = f[u]
         /\ ItemsOf(n, f, (u + 1) % n, c - 1) = Tail(ItemsOf(n, f, u, c))
<1> DEFINE s == ItemsOf(n, f, u, c)
           x == (u + 1) % n
           t == ItemsOf(n, f, x, c - 1)
<1>1. x \in 0..n - 1 /\ x = (IF u + 1 < n THEN u + 1 ELSE 0) /\ c - 1 \in 0..n
  <2> DEFINE a == u + 1
             ra == a % n
  <2>1. a \in Nat /\ a < n + n
    OBVIOUS
  <2> HIDE DEF a
  <2>2. ra \in 0..n - 1 /\ (a < n => ra = a) /\ (a >= n => ra = a - n)
    BY <2>1, WrapsOnce, Zenon
  <2>3. ra = x
    BY Zenon DEF a
  <2> HIDE DEF x, ra
  <2> QED
    BY <2>2, <2>3 DEF a
<1>2. s \in Seq(Nat) /\ Len(s) = c
  BY ItemsType, Zenon
<1>3. t \in Seq(Nat) /\ Len(t) = c - 1
  <2> HIDE DEF x
  <2> QED
    BY <1>1, ItemsType, ZenonT(30)
<1> HIDE DEF x
<1>4. ASSUME NEW k \in 1..c - 1 PROVE t[k] = s[k + 1]
  <2> DEFINE a == x + k - 1
             b == u + (k + 1) - 1
             ra == a % n
             rb == b % n
  <2>1. /\ a \in Nat /\ a < n + n /\ b \in Nat /\ b < n + n /\ k + 1 \in 1..c
        /\ (a = b \/ (a = b - n /\ a < n))
    BY <1>1
  <2> HIDE DEF a, b
  <2>2. /\ ra \in 0..n - 1 /\ (a < n => ra = a) /\ (a >= n => ra = a - n)
        /\ rb \in 0..n - 1 /\ (b < n => rb = b) /\ (b >= n => rb = b - n)
    BY <2>1, WrapsOnce, Zenon
  <2> HIDE DEF ra, rb
  <2>3. ra = rb
    BY <2>1, <2>2
  <2>4. t[k] = f[ra]
    BY DEF ItemsOf, ra, a
  <2>5. s[k + 1] = f[rb]
    BY <2>1 DEF ItemsOf, rb, b
  <2> QED
    BY <2>3, <2>4, <2>5, Zenon
<1>5. s[1] = f[u]
  <2>1. u + 1 - 1 = u /\ u \in Nat /\ u < n + n /\ u < n
    OBVIOUS
  <2>2. u % n = u
    BY <2>1, WrapsOnce, Zenon
  <2>3. s[1] = f[(u + 1 - 1) % n]
    BY DEF ItemsOf
  <2> QED
    BY <2>1, <2>2, <2>3, Zenon
<1> HIDE DEF s, t
<1>6. s # <<>> /\ Head(s) = f[u]
  BY <1>2, <1>5
<1>7. t = Tail(s)
  <2>1. /\ Tail(s) \in Seq(Nat) /\ Len(Tail(s)) = Len(t)
        /\ \A k \in 1..Len(t) : Tail(s)[k] = s[k + 1]
    BY <1>2, <1>3, SMTT(30)
  <2>2. \A k \in 1..Len(t) : t[k] = Tail(s)[k]
    BY <1>3, <1>4, <2>1, Zenon
  <2> QED
    BY <1>3, <2>1, <2>2, SameItems, Zenon
<1> QED
  BY <1>6, <1>7, Zenon DEF s, t, x

-----------------------------------------------------------------------------
(* The ring. *)

\* What a thread knows of the ring while it has the mutex.
Knows(t) ==
  /\ pc[t] \in {"p_put", "p_count"} => count < MAX
  /\ pc[t] = "p_count" => buffer[fill_ptr] = i[t]
  /\ pc[t] \in {"c_get", "c_count"} => count > 0
  /\ pc[t] = "c_count" => tmp[t] = buffer[use_ptr]

RingTypes ==
  /\ buffer \in [0..MAX - 1 -> Nat] /\ tmp \in [Slot -> Nat]
  /\ count \in 0..MAX /\ use_ptr \in 0..MAX - 1 /\ fill_ptr = (use_ptr + count) % MAX

RingInv == RingTypes /\ \A t \in Slot : Knows(t)

Inner == {"p_put", "p_count", "c_get", "c_count"}

\* The threads in put() and in get() have the mutex, so there is one of them.
LEMMA InnerOne ==
  ASSUME CondInv, NEW t \in Slot, pc[t] \in Inner
  PROVE  /\ \A u \in Slot : u # t => pc[u] \notin Inner \cup {"p_test", "c_test"}
         /\ pc[t] \in {"p_put", "p_count"} => t \in Producer
<1>1. ASSUME NEW u \in Slot, pc[u] \in Inner \cup {"p_test", "c_test"} PROVE Owns(u)
  <2>1. Place(u)
    BY Zenon DEF CondInv, Places
  <2>2. pc[u] \in {Test(u)} \cup Body(u)
    BY <1>1, <2>1, Zenon DEF Inner, Place, Locking, Unlocking, InCvWait, Signalling, Begin, Test,
       End, Body
  <2> QED
    BY <2>2, HeldThere, Zenon DEF Holding
<1>2. \A u \in Slot : u # t => pc[u] \notin Inner \cup {"p_test", "c_test"}
  BY <1>1, Zenon DEF CondInv, OwnerInv
<1>3. pc[t] \in {"p_put", "p_count"} => t \in Producer
  <2>1. Place(t)
    BY Zenon DEF CondInv, Places
  <2> QED
    BY <2>1, Zenon DEF Place, Locking, Unlocking, InCvWait, Signalling, Begin, Test, End, Body
<1> QED
  BY <1>2, <1>3, Zenon

\* The library returns to none of the places in put() and get().
LEMMA InnerEntered ==
  ASSUME CondInv, NEW t \in Slot, Step(t)
  PROVE  \/ UNCHANGED ringVars /\ i'[t] \in Nat /\ pc'[t] \notin Inner
         \/ p_test(t) \/ p_put(t) \/ p_count(t) \/ c_test(t) \/ c_get(t) \/ c_count(t)
<1>0. /\ t \in DOMAIN pc /\ Places
      /\ Types'
  BY TypesStep, Zenon DEF CondInv, Types
<1>1. i'[t] \in Nat
  BY <1>0, Zenon DEF Types
<1>2. CASE CvStep(t) /\ UNCHANGED <<ringVars, i>>
  <2>1. pc'[t] \in {"ml_test", "ml_got", "ml_setpark", "ml_unguard", "ml_park", "ml_parked",
                    "mu_spin", "mu_test", "mu_unpark", "mu_unguard", "cw_setpark", "cw_unlock",
                    "cw_parked", "ml_spin", "sg_unpark", "sg_unlock", "bc_unpark", "bc_next"}
          \/ (pc'[t] = ret[t] /\ pc[t] \in {"ml_got", "ml_parked", "mu_unguard"})
          \/ (pc'[t] = cret[t] /\ pc[t] = "sg_unlock")
    <3>1. CASE MutexStep(t)
      BY <1>0, <3>1, Zenon DEF MutexStep, ml_spin, ml_test, ml_got, ml_setpark, ml_unguard,
         ml_park, ml_parked, mu_spin, mu_test, mu_unpark, mu_unguard, At, Goto
    <3>2. CASE ~MutexStep(t)
      BY <1>0, <1>2, <3>2, Zenon DEF CvStep, cw_add, cw_setpark, cw_unlock, cw_park, cw_parked,
         sg_take, sg_unpark, sg_unlock, bc_take, bc_unpark, bc_next, TakeWaiter, mutex_lock,
         mutex_unlock, At, Goto
    <3> QED
      BY <3>1, <3>2, Zenon
  <2>2. pc[t] \in {"ml_got", "ml_parked", "mu_unguard"} => ret[t] \notin Inner
    BY <1>0, Returns, Program, Zenon DEF Locking, Unlocking, Inner
  <2>3. pc[t] = "sg_unlock" => cret[t] \notin Inner
    BY <1>0, Returns, Program, Zenon DEF Signalling, Inner
  <2>4. pc'[t] \notin Inner
    BY <2>1, <2>2, <2>3, Zenon DEF Inner
  <2> QED
    BY <1>1, <1>2, <2>4, Zenon
<1>3. ASSUME NEW l, NEW r, Loop(t, l, r) \/ EndLoop(t, l, r)
      PROVE  UNCHANGED ringVars /\ pc'[t] \notin Inner
  BY <1>0, <1>3, Zenon DEF Loop, EndLoop, mutex_lock, mutex_unlock, Goto, Inner
<1> QED
  BY <1>1, <1>2, <1>3, Zenon DEF Step, p_loop, p_unlock, c_loop, c_unlock

\* The ring starts empty.
LEMMA RingStarts == Init => RingInv
<1> SUFFICES ASSUME Init PROVE RingInv
  BY Zenon
<1> USE RingAssumption, BufferAssumption DEF Init, RingInit
<1>1. buffer \in [0..MAX - 1 -> Nat] /\ tmp \in [Slot -> Nat] /\ count \in 0..MAX
      /\ use_ptr \in 0..MAX - 1
  OBVIOUS
<1>2. fill_ptr = (use_ptr + count) % MAX
  <2>1. 0 \in Nat /\ 0 < MAX /\ 0 < MAX + MAX /\ use_ptr + count = 0 /\ fill_ptr = 0
    OBVIOUS
  <2>2. 0 % MAX = 0
    BY <2>1, WrapsOnce, RingAssumption, Zenon
  <2> QED
    BY <2>1, <2>2, Zenon
<1>3. ASSUME NEW t \in Slot PROVE pc[t] \in {"p_loop", "c_loop"}
  BY <1>3, Zenon
<1>4. ASSUME NEW t \in Slot PROVE Knows(t)
  BY <1>3, <1>4, Zenon DEF Knows
<1> QED
  BY <1>1, <1>2, <1>4, Zenon DEF RingInv, RingTypes

\* What a step of t does to the ring, and to the channel that it stands for.
LEMMA RingStep ==
  ASSUME CondInv, RingInv, NEW t \in Slot, Step(t)
  PROVE  /\ RingInv'
         /\ \/ UNCHANGED <<Content, taken>>
            \/ Channel!Get
            \/ \E v \in Values : Channel!Put(v)
<1>0. /\ MAX \in Nat \ {0} /\ t \in DOMAIN pc /\ t \in DOMAIN tmp /\ Alone(t)
      /\ i[t] \in Nat /\ count \in Nat /\ count <= MAX /\ use_ptr \in 0..MAX - 1
      /\ fill_ptr = (use_ptr + count) % MAX /\ buffer \in [0..MAX - 1 -> Nat]
      /\ DOMAIN tmp = Slot /\ tmp \in [Slot -> Nat] /\ count \in 0..MAX
  <2>1. Alone(t) /\ t \in DOMAIN pc /\ i[t] \in Nat
    BY AloneStep, Zenon DEF CondInv, Types
  <2> QED
    BY <2>1, RingAssumption DEF RingInv, RingTypes
<1>1. Content = ItemsOf(MAX, buffer, use_ptr, count)
      /\ Content' = ItemsOf(MAX, buffer', use_ptr', count')
  BY Zenon DEF Content, ItemsOf
<1>2. ASSUME UNCHANGED ringVars, Knows(t)' PROVE RingInv' /\ UNCHANGED <<Content, taken>>
  <2>1. /\ buffer' = buffer /\ fill_ptr' = fill_ptr /\ use_ptr' = use_ptr /\ count' = count
        /\ tmp' = tmp /\ taken' = taken
    BY <1>2, Zenon DEF ringVars
  <2>2. RingTypes' /\ UNCHANGED <<Content, taken>>
    BY <2>1, Zenon DEF RingInv, RingTypes, Content
  <2>3. ASSUME NEW u \in Slot, u # t PROVE Knows(u)'
    BY <1>0, <2>1, <2>3, Zenon DEF RingInv, Knows, Alone, Still
  <2> QED
    BY <1>2, <2>2, <2>3, Zenon DEF RingInv
<1>3. ASSUME pc[t] \in Inner PROVE \A u \in Slot : u # t => Knows(u)'
  BY <1>0, <1>3, InnerOne, ZenonT(30) DEF Knows, Alone, Still, Inner
<1>4. CASE UNCHANGED ringVars /\ i'[t] \in Nat /\ pc'[t] \notin Inner
  <2>1. Knows(t)'
    BY <1>4, Zenon DEF Knows, Inner
  <2> QED
    BY <1>2, <1>4, <2>1, Zenon
<1>5. CASE p_test(t) \/ c_test(t)
  <2>1. /\ UNCHANGED ringVars
        /\ \/ pc'[t] = "cw_add"
           \/ pc'[t] = "p_put" /\ count # MAX
           \/ pc'[t] = "c_get" /\ count # 0
    BY <1>0, <1>5, ZenonT(30) DEF p_test, c_test, While, cv_wait, Goto
  <2>2. (count # MAX => count < MAX) /\ (count # 0 => count > 0) /\ count' = count
    BY <1>0, <2>1, SMTT(30) DEF ringVars
  <2>3. Knows(t)'
    BY <2>1, <2>2, Zenon DEF Knows
  <2> QED
    BY <1>2, <2>1, <2>3, Zenon
<1>6. CASE p_put(t)
  <2>1. /\ pc[t] = "p_put" /\ pc'[t] = "p_count" /\ buffer' = [buffer EXCEPT ![fill_ptr] = i[t]]
        /\ i' = i
        /\ UNCHANGED <<fill_ptr, use_ptr, count, tmp, taken>>
    BY <1>0, <1>6, Zenon DEF p_put, put_store, At, Goto
  <2>2. count < MAX
    BY <2>1, Zenon DEF RingInv, Knows
  <2>3. fill_ptr \in 0..MAX - 1
    <3>1. use_ptr + count \in Nat /\ use_ptr + count < MAX + MAX
      BY <1>0, WithinTwo, Zenon
    <3> QED
      BY <1>0, <3>1, WrapsOnce, Zenon
  <2>4. Knows(t)'
    BY <1>0, <2>1, <2>2, <2>3, Zenon DEF Knows
  <2>5. RingTypes'
    <3>1. buffer' \in [0..MAX - 1 -> Nat]
      BY <1>0, <2>1, Zenon
    <3> QED
      BY <2>1, <3>1, Zenon DEF RingInv, RingTypes
  <2>6. RingInv'
    BY <1>3, <2>1, <2>4, <2>5, Zenon DEF RingInv, Inner
  <2>7. Content' = Content
    <3>1. ItemsOf(MAX, [buffer EXCEPT ![(use_ptr + count) % MAX] = i[t]], use_ptr, count)
            = ItemsOf(MAX, buffer, use_ptr, count)
      <4>1. /\ MAX \in Nat \ {0} /\ buffer \in [0..MAX - 1 -> Nat] /\ use_ptr \in 0..MAX - 1
            /\ count \in 0..MAX /\ count < MAX /\ i[t] \in Nat
        BY <1>0, <2>2, Zenon
      <4> QED
        BY <4>1, ItemsStore, ZenonT(30)
    <3> QED
      BY <1>0, <1>1, <2>1, <3>1, Zenon
  <2> QED
    BY <2>1, <2>6, <2>7, Zenon
<1>7. CASE p_count(t)
  <2>1. /\ pc[t] = "p_count" /\ pc'[t] \in {"sg_take", "bc_take"}
        /\ fill_ptr' = (fill_ptr + 1) % MAX /\ count' = count + 1
        /\ UNCHANGED <<buffer, use_ptr, tmp, taken>>
    BY <1>0, <1>7, Zenon DEF p_count, put_done, wake, cv_signal, cv_broadcast, At, Goto
  <2>2. count < MAX /\ buffer[fill_ptr] = i[t]
    BY <2>1, Zenon DEF RingInv, Knows
  <2>3. Knows(t)'
    BY <2>1, Zenon DEF Knows
  <2>4. fill_ptr' = (use_ptr' + count') % MAX
    <3>1. /\ use_ptr + count \in Nat /\ (use_ptr + count) + 1 = use_ptr + (count + 1)
          /\ 1 \in Nat /\ (use_ptr + count) + 1 < MAX + MAX
      BY <1>0, <2>2, SMTT(30)
    <3>2. (((use_ptr + count) % MAX) + 1) % MAX = ((use_ptr + count) + 1) % MAX
      BY <1>0, <3>1, WrapsOn, Zenon
    <3> QED
      BY <1>0, <2>1, <3>1, <3>2, Zenon
  <2>5. count' \in 0..MAX
    BY <1>0, <2>1, <2>2, SMTT(30)
  <2>6. RingTypes'
    BY <1>0, <2>1, <2>4, <2>5, Zenon DEF RingTypes
  <2>7. RingInv'
    BY <1>3, <2>1, <2>3, <2>6, ZenonT(30) DEF RingInv, Inner
  <2>8. Content' = Append(Content, i[t]) /\ Len(Content) < MAX
    <3>1. ItemsOf(MAX, buffer, use_ptr, count + 1)
            = Append(ItemsOf(MAX, buffer, use_ptr, count), buffer[(use_ptr + count) % MAX])
      BY <1>0, <2>2, ItemsPut, ZenonT(30)
    <3>2. Len(ItemsOf(MAX, buffer, use_ptr, count)) = count
      BY <1>0, ItemsType, Zenon
    <3> QED
      BY <1>0, <1>1, <2>1, <2>2, <3>1, <3>2, ZenonT(30)
  <2>9. i[t] \in Values
    <3>1. t \in Producer
      BY <2>1, InnerOne, Zenon DEF Inner
    <3>2. pc[t] \in Body(t)
      BY <2>1, <3>1, Zenon DEF Body
    <3>3. i[t] < loops[t]
      BY <3>2, TurnLeft, Zenon DEF CondInv
    <3>4. loops[t] \in Nat
      BY BufferAssumption, Zenon
    <3>5. i[t] \in 0..loops[t]
      BY <1>0, <3>3, <3>4
    <3> QED
      BY <3>1, <3>5, Zenon DEF Values
  <2>10. Channel!Put(i[t])
    BY <2>1, <2>8, Zenon DEF Channel!Put
  <2> QED
    BY <2>7, <2>9, <2>10, Zenon
<1>8. CASE c_get(t)
  <2>1. /\ pc[t] = "c_get" /\ pc'[t] = "c_count" /\ tmp' = [tmp EXCEPT ![t] = buffer[use_ptr]]
        /\ UNCHANGED <<buffer, fill_ptr, use_ptr, count, taken>>
    BY <1>0, <1>8, Zenon DEF c_get, get_load, At, Goto
  <2>2. count > 0
    BY <2>1, Zenon DEF RingInv, Knows
  <2>3. Knows(t)'
    BY <1>0, <2>1, <2>2, Zenon DEF Knows
  <2>4. RingTypes'
    <3>1. buffer[use_ptr] \in Nat
      BY <1>0, Zenon
    <3>2. tmp' \in [Slot -> Nat]
      BY <1>0, <2>1, <3>1, Zenon
    <3> QED
      BY <2>1, <3>2, Zenon DEF RingInv, RingTypes
  <2>5. RingInv'
    BY <1>3, <2>1, <2>3, <2>4, Zenon DEF RingInv, Inner
  <2> QED
    BY <1>1, <2>1, <2>5, Zenon
<1>9. CASE c_count(t)
  <2>1. /\ pc[t] = "c_count" /\ pc'[t] \in {"sg_take", "bc_take"}
        /\ use_ptr' = (use_ptr + 1) % MAX /\ count' = count - 1 /\ taken' = Append(taken, tmp[t])
        /\ tmp' = [tmp EXCEPT ![t] = 0] /\ UNCHANGED <<buffer, fill_ptr>>
    BY <1>0, <1>9, Zenon DEF c_count, get_done, wake, cv_signal, cv_broadcast, At, Goto
  <2>2. count > 0 /\ tmp[t] = buffer[use_ptr]
    BY <2>1, Zenon DEF RingInv, Knows
  <2>3. Knows(t)'
    BY <2>1, Zenon DEF Knows
  <2>4. use_ptr + 1 \in Nat /\ count - 1 \in Nat /\ (use_ptr + 1) + (count - 1) = use_ptr + count
        /\ count - 1 \in 0..MAX /\ use_ptr + 1 < MAX + MAX
        /\ (use_ptr + 1) + (count - 1) < MAX + MAX
    BY <1>0, <2>2, SMTT(30)
  <2>5. fill_ptr' = (use_ptr' + count') % MAX
    <3>1. (((use_ptr + 1) % MAX) + (count - 1)) % MAX = ((use_ptr + 1) + (count - 1)) % MAX
      BY <1>0, <2>4, WrapsOn, Zenon
    <3> QED
      BY <1>0, <2>1, <2>4, <3>1, Zenon
  <2>6. use_ptr' \in 0..MAX - 1
    BY <1>0, <2>1, <2>4, WrapsOnce, Zenon
  <2>7. RingTypes'
    <3>1. 0 \in Nat
      OBVIOUS
    <3>2. tmp' \in [Slot -> Nat]
      BY <1>0, <2>1, <3>1, Zenon
    <3> QED
      BY <1>0, <2>1, <2>4, <2>5, <2>6, <3>2, Zenon DEF RingTypes
  <2>8. RingInv'
    BY <1>3, <2>1, <2>3, <2>7, Zenon DEF RingInv, Inner
  <2>9. Content # <<>> /\ Head(Content) = buffer[use_ptr] /\ Content' = Tail(Content)
    <3>1. /\ ItemsOf(MAX, buffer, use_ptr, count) # <<>>
          /\ Head(ItemsOf(MAX, buffer, use_ptr, count)) = buffer[use_ptr]
          /\ ItemsOf(MAX, buffer, (use_ptr + 1) % MAX, count - 1)
               = Tail(ItemsOf(MAX, buffer, use_ptr, count))
      BY <1>0, <2>2, ItemsGet, Zenon
    <3> QED
      BY <1>1, <2>1, <3>1, Zenon
  <2>10. Channel!Get
    BY <2>1, <2>2, <2>9, Zenon DEF Channel!Get
  <2> QED
    BY <2>8, <2>10, Zenon
<1> QED
  BY <1>4, <1>5, <1>6, <1>7, <1>8, <1>9, InnerEntered, Zenon

\* The ring is a first-in-first-out channel of at most MAX items, from which each
\* item is taken once: put() and get() are not atomic, but the mutex, which
\* cv_wait() gives up and takes again, keeps the threads out of each other's.
THEOREM BufferIsFifo == Spec => ImplementsFifo
<1>1. Init => Channel!FifoInit
  <2> SUFFICES ASSUME Init PROVE Content = <<>> /\ taken = <<>>
    BY Zenon DEF Channel!FifoInit
  <2> QED
    BY DEF Init, RingInit, Content
<1>2. CondInv /\ RingInv /\ [Next]_vars =>
        RingInv' /\ [Channel!Get \/ \E v \in Values : Channel!Put(v)]_<<Content, taken>>
  <2>1. ASSUME CondInv, RingInv, NEW t \in Slot, Step(t)
        PROVE  RingInv' /\ [Channel!Get \/ \E v \in Values : Channel!Put(v)]_<<Content, taken>>
    BY <2>1, RingStep, Zenon
  <2>2. ASSUME RingInv, UNCHANGED vars
        PROVE  RingInv' /\ UNCHANGED <<Content, taken>>
    <3>1. UNCHANGED <<buffer, fill_ptr, use_ptr, count, tmp, taken, pc, i>>
      BY <2>2, Zenon DEF vars, cvVars, mutexVars, ringVars
    <3> QED
      BY <2>2, <3>1, Zenon DEF RingInv, RingTypes, Knows, Content
  <2> QED
    BY <2>1, <2>2, Zenon DEF Next
<1> QED
  BY <1>1, <1>2, RingStarts, CondInvariant, PTL DEF Spec, ImplementsFifo, Channel!FifoSpec,
     Channel!fifoVars

=============================================================================
