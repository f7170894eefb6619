---------------------------- MODULE MutexProofs -----------------------------
(***************************************************************************)
(* What holds of MutexClient for any sets of threads, mutexes and killable *)
(* threads: the invariant, the safety properties, and the refinement of    *)
(* FifoLock.  First facts about the pid queue as a set, types, ownership,  *)
(* and what a step leaves alone.                                           *)
(***************************************************************************)
EXTENDS MutexClient, Integers, TLAPS

-----------------------------------------------------------------------------
(* The pid queue as a set. *)

\* queue_add() adds exactly the new pid.
LEMMA ElemsAppend ==
  ASSUME NEW S, NEW s \in Seq(S), NEW x \in S
  PROVE  /\ Append(s, x) \in Seq(S)
         /\ Elems(Append(s, x)) = Elems(s) \cup {x}
         /\ NoDup(s) /\ x \notin Elems(s) => NoDup(Append(s, x))
<1>1. /\ Append(s, x) \in Seq(S)
      /\ Len(Append(s, x)) = Len(s) + 1
      /\ \A i \in 1..Len(s) : Append(s, x)[i] = s[i]
      /\ Append(s, x)[Len(s) + 1] = x
  OBVIOUS
<1>2. Len(s) \in Nat
  OBVIOUS
<1>3. Elems(Append(s, x)) = Elems(s) \cup {x}
  BY <1>1, <1>2 DEF Elems
<1>4. NoDup(s) /\ x \notin Elems(s) => NoDup(Append(s, x))
  BY <1>1, <1>2 DEF Elems, NoDup
<1> QED
  BY <1>1, <1>3, <1>4, Zenon

\* queue_remove() takes exactly the first pid off a queue without duplicates.
LEMMA ElemsTail ==
  ASSUME NEW S, NEW s \in Seq(S), s # <<>>, NoDup(s)
  PROVE  /\ Head(s) \in S
         /\ Head(s) \in Elems(s)
         /\ Tail(s) \in Seq(S)
         /\ Elems(Tail(s)) = Elems(s) \ {Head(s)}
         /\ NoDup(Tail(s))
<1>1. /\ Head(s) \in S
      /\ Tail(s) \in Seq(S)
      /\ Len(Tail(s)) = Len(s) - 1
      /\ \A i \in 1..Len(Tail(s)) : Tail(s)[i] = s[i + 1]
  OBVIOUS
<1>2. Len(s) \in Nat /\ Len(s) # 0 /\ Head(s) = s[1]
  OBVIOUS
<1>3. Head(s) \in Elems(s)
  BY <1>2 DEF Elems
<1>4. Elems(Tail(s)) \subseteq Elems(s) \ {Head(s)}
  BY <1>1, <1>2 DEF Elems, NoDup
<1>5. Elems(s) \ {Head(s)} \subseteq Elems(Tail(s))
  <2> SUFFICES ASSUME NEW i \in 1..Len(s), s[i] # Head(s)
               PROVE  s[i] \in Elems(Tail(s))
    BY Zenon DEF Elems
  <2>1. i - 1 \in 1..Len(Tail(s)) /\ Tail(s)[i - 1] = s[i]
    BY <1>1, <1>2
  <2> QED
    BY <2>1, Zenon DEF Elems
<1>6. NoDup(Tail(s))
  BY <1>1, <1>2 DEF NoDup
<1> QED
  BY <1>1, <1>3, <1>4, <1>5, <1>6, Zenon

\* An empty queue has no pids.
LEMMA ElemsEmpty == Elems(<<>>) = {} /\ NoDup(<<>>)
  BY DEF Elems, NoDup

-----------------------------------------------------------------------------
(* Type correctness. *)

\* Every step keeps the types.
LEMMA TypeStep == TypeOK /\ [Next]_vars => TypeOK'
<1> SUFFICES ASSUME TypeOK, [Next]_vars PROVE TypeOK'
  BY Zenon
<1> USE DEF TypeOK, ParkTypeOK, ProcState, Labels, parkVars, parkFlags, Goto, At,
            CanRun, spin_lock, spin_unlock
<1>1. CASE UNCHANGED vars
  BY <1>1, Zenon DEF vars, mutexVars
<1>2. ASSUME NEW t \in Slot, Enter(t) PROVE TypeOK'
  BY <1>2 DEF Enter, mutex_lock
<1>3. ASSUME NEW t \in Slot, Leave(t) PROVE TypeOK'
  BY <1>3, Zenon DEF Leave, mutex_unlock
<1>4. ASSUME NEW t \in Slot, Die(t) PROVE TypeOK'
  BY <1>4, Zenon DEF Die
<1>5. ASSUME NEW t \in Slot, Kill(t) PROVE TypeOK'
  BY <1>5, Zenon DEF Kill, kill
<1>6. ASSUME NEW t \in Slot, ml_spin(t) PROVE TypeOK'
  BY <1>6, Zenon DEF ml_spin
<1>7. ASSUME NEW t \in Slot, ml_test(t) PROVE TypeOK'
  <2>1. Append(q[arg[t]], t) \in Seq(Slot)
    BY ElemsAppend, Zenon
  <2>2. CASE flag[arg[t]] = 0
    BY <1>7, <2>2, ZenonT(30) DEF ml_test
  <2>3. CASE flag[arg[t]] # 0
    <3>1. q' \in [Mtx -> Seq(Slot)]
      BY <1>7, <2>1, <2>3, Zenon DEF ml_test, queue_add
    <3> QED
      BY <1>7, <2>3, <3>1, Zenon DEF ml_test
  <2> QED
    BY <2>2, <2>3, Zenon
<1>8. ASSUME NEW t \in Slot, ml_got(t) PROVE TypeOK'
  BY <1>8, Zenon DEF ml_got
<1>9. ASSUME NEW t \in Slot, ml_setpark(t) PROVE TypeOK'
  BY <1>9, Zenon DEF ml_setpark, setpark
<1>10. ASSUME NEW t \in Slot, ml_unguard(t) PROVE TypeOK'
  BY <1>10, Zenon DEF ml_unguard
<1>11. ASSUME NEW t \in Slot, ml_park(t) PROVE TypeOK'
  BY <1>11, ZenonT(30) DEF ml_park, park
<1>12. ASSUME NEW t \in Slot, ml_parked(t) PROVE TypeOK'
  BY <1>12, Zenon DEF ml_parked
<1>13. ASSUME NEW t \in Slot, mu_spin(t) PROVE TypeOK'
  BY <1>13, Zenon DEF mu_spin
<1>14. ASSUME NEW t \in Slot, mu_test(t) PROVE TypeOK'
  <2>1. q[arg[t]] \in Seq(Slot)
    BY Zenon
  <2>2. q[arg[t]] # <<>> => Head(q[arg[t]]) \in Slot /\ Tail(q[arg[t]]) \in Seq(Slot)
    BY <2>1
  <2>3. CASE q[arg[t]] = <<>>
    BY <1>14, <2>3, Zenon DEF mu_test
  <2>4. CASE q[arg[t]] # <<>>
    <3>1. q' \in [Mtx -> Seq(Slot)]
      BY <1>14, <2>2, <2>4, Zenon DEF mu_test, queue_remove
    <3>2. next' \in [Slot -> Slot]
      BY <1>14, <2>2, <2>4, ZenonT(30) DEF mu_test
    <3>3. UNCHANGED <<parkVars, flag, guard, arg, ret>>
      BY <1>14, <2>4, Zenon DEF mu_test
    <3>4. pc' \in [Slot -> Labels]
      BY <1>14, <2>4, ZenonT(30) DEF mu_test
    <3> QED
      BY <3>1, <3>2, <3>3, <3>4, Zenon
  <2> QED
    BY <2>3, <2>4, Zenon
<1>15. ASSUME NEW t \in Slot, mu_unpark(t) PROVE TypeOK'
  BY <1>15, ZenonT(30) DEF mu_unpark, unpark, unpark1
<1>16. ASSUME NEW t \in Slot, mu_unguard(t) PROVE TypeOK'
  BY <1>16, Zenon DEF mu_unguard
<1> QED
  BY <1>1, <1>2, <1>3, <1>4, <1>5, <1>6, <1>7, <1>8, <1>9, <1>10, <1>11, <1>12,
     <1>13, <1>14, <1>15, <1>16, Zenon DEF Next, ThreadStep, MutexStep

-----------------------------------------------------------------------------
(* One lemma per action: the step keeps the rest of the invariant. *)

\* A step that changes no ownership and no flag keeps OwnerInv.
LEMMA OwnerStable ==
  ASSUME OwnerInv, UNCHANGED flag,
         \A u \in Slot, m \in Mtx : Owns(u, m)' <=> Owns(u, m)
  PROVE  OwnerInv'
  BY Zenon DEF OwnerInv

\* Only the tests of flag and of the queue change who owns a mutex; every
\* other step leaves ownership, flag and queue as they are.
LEMMA OwnsKept ==
  ASSUME MutexInv, NEW t \in Slot,
         \/ Enter(t) \/ Leave(t) \/ Die(t) \/ Kill(t)
         \/ ml_spin(t) \/ ml_got(t) \/ ml_setpark(t) \/ ml_unguard(t)
         \/ ml_park(t) \/ ml_parked(t)
         \/ mu_spin(t) \/ mu_unpark(t) \/ mu_unguard(t)
  PROVE  /\ UNCHANGED <<flag, q>>
         /\ \A u \in Slot, m \in Mtx : Owns(u, m)' <=> Owns(u, m)
<1> USE DEF MutexInv, TypeOK, ParkTypeOK, parkVars, parkFlags, Goto, At, CanRun
<1>1. CASE Enter(t)
  BY <1>1 DEF Enter, mutex_lock, Owns, HasLock, Parking, QueueInv
<1>2. CASE Leave(t)
  BY <1>2 DEF Leave, mutex_unlock, Owns, HasLock, Parking, QueueInv
<1>3. CASE Die(t)
  BY <1>3, Zenon DEF Die, Owns, HasLock, Parking, QueueInv
<1>4. CASE Kill(t)
  BY <1>4, Zenon DEF Kill, kill, Owns, HasLock, Parking, QueueInv
<1>5. CASE ml_spin(t)
  BY <1>5 DEF ml_spin, spin_lock, Owns, HasLock, Parking, QueueInv
<1>6. CASE ml_got(t)
  BY <1>6 DEF ml_got, spin_unlock, Owns, HasLock, Parking, QueueInv, RetInv
<1>7. CASE ml_setpark(t)
  BY <1>7 DEF ml_setpark, setpark, Owns, HasLock, Parking, QueueInv
<1>8. CASE ml_unguard(t)
  BY <1>8 DEF ml_unguard, spin_unlock, Owns, HasLock, Parking, QueueInv
<1>9. CASE ml_park(t)
  BY <1>9 DEF ml_park, park, Owns, HasLock, Parking, QueueInv
<1>10. CASE ml_parked(t)
  <2>1. t \notin Elems(q[arg[t]]) /\ pc[t] = "ml_parked"
    BY <1>10, Zenon DEF ml_parked, ParkInv, ParkOK
  <2>2. pc' = [pc EXCEPT ![t] = "cs"] /\ UNCHANGED <<flag, q, arg>>
    BY <1>10, <2>1, Zenon DEF ml_parked, RetInv
  <2> QED
    BY <2>1, <2>2 DEF Owns, HasLock, Parking
<1>11. CASE mu_spin(t)
  BY <1>11 DEF mu_spin, spin_lock, Owns, HasLock, Parking, QueueInv
<1>12. CASE mu_unpark(t)
  BY <1>12 DEF mu_unpark, unpark, unpark1, Owns, HasLock, Parking, QueueInv
<1>13. CASE mu_unguard(t)
  BY <1>13 DEF mu_unguard, spin_unlock, Owns, HasLock, Parking, QueueInv, RetInv
<1> QED
  BY <1>1, <1>2, <1>3, <1>4, <1>5, <1>6, <1>7, <1>8, <1>9, <1>10, <1>11, <1>12, <1>13, Zenon

\* mutex_lock() that finds the mutex free makes t its owner; otherwise some
\* thread owns it, and t joins the queue without changing that.
LEMMA OwnsLocked ==
  ASSUME MutexInv, NEW t \in Slot, ml_test(t)
  PROVE  /\ arg[t] \in Mtx
         /\ flag[arg[t]] = 0 =>
              /\ UNCHANGED q
              /\ \A u \in Slot : ~Owns(u, arg[t])
              /\ \A u \in Slot, m \in Mtx :
                   Owns(u, m)' <=> Owns(u, m) \/ (u = t /\ m = arg[t])
         /\ flag[arg[t]] # 0 =>
              /\ q' = [q EXCEPT ![arg[t]] = Append(q[arg[t]], t)]
              /\ t \notin Elems(q[arg[t]]) /\ ~Owns(t, arg[t])
              /\ \E u \in Slot : Owns(u, arg[t])
              /\ \A u \in Slot, m \in Mtx : Owns(u, m)' <=> Owns(u, m)
<1> USE DEF MutexInv
<1>1. /\ pc \in [Slot -> Labels] /\ pc[t] = "ml_test"
      /\ arg \in [Slot -> Mtx] /\ arg[t] \in Mtx
      /\ flag \in [Mtx -> {0, 1}] /\ q \in [Mtx -> Seq(Slot)]
  BY Zenon DEF ml_test, At, TypeOK
<1>2. \A m \in Mtx : t \notin Elems(q[m])
  BY <1>1, Zenon DEF QueueInv
<1>3. UNCHANGED arg
  BY Zenon DEF ml_test
<1>4. CASE flag[arg[t]] = 0
  <2>1. pc' = [pc EXCEPT ![t] = "ml_got"] /\ UNCHANGED q
    BY <1>4, Zenon DEF ml_test, Goto
  <2>2. \A u \in Slot : ~Owns(u, arg[t])
    BY <1>1, <1>4, SMTT(30) DEF OwnerInv
  <2>3. \A u \in Slot, m \in Mtx :
          Owns(u, m)' <=> Owns(u, m) \/ (u = t /\ m = arg[t])
    BY <1>1, <1>3, <2>1, Zenon DEF Owns, HasLock, Parking
  <2> QED
    BY <1>1, <1>4, <2>1, <2>2, <2>3, Zenon
<1>5. CASE flag[arg[t]] # 0
  <2>1. q' = [q EXCEPT ![arg[t]] = Append(q[arg[t]], t)]
    BY <1>5, Zenon DEF ml_test, queue_add
  <2>2. pc' = [pc EXCEPT ![t] = "ml_setpark"]
    BY <1>5, Zenon DEF ml_test, Goto
  <2>3. ~Owns(t, arg[t]) /\ \E u \in Slot : Owns(u, arg[t])
    BY <1>1, <1>5 DEF OwnerInv, Owns, HasLock, Parking
  <2>4. Elems(Append(q[arg[t]], t)) = Elems(q[arg[t]]) \cup {t}
    BY <1>1, ElemsAppend
  <2>5. \A m \in Mtx, u \in Slot :
          u \in Elems(q'[m]) <=> u \in Elems(q[m]) \/ (m = arg[t] /\ u = t)
    BY <1>1, <2>1, <2>4, Zenon
  <2>6. \A u \in Slot, m \in Mtx : Owns(u, m)' <=> Owns(u, m)
    BY <1>1, <1>3, <2>2, <2>5, Zenon DEF Owns, HasLock, Parking
  <2> QED
    BY <1>1, <1>2, <1>5, <2>1, <2>3, <2>6, Zenon
<1> QED
  BY <1>4, <1>5, Zenon

\* mutex_unlock() takes the mutex from t, and gives it to the head of a
\* non-empty queue in the same step.
LEMMA OwnsPassed ==
  ASSUME MutexInv, NEW t \in Slot, mu_test(t)
  PROVE  /\ arg[t] \in Mtx /\ Owns(t, arg[t])
         /\ \A m \in Mtx : Owns(t, m) => m = arg[t]
         /\ q[arg[t]] = <<>> =>
              /\ UNCHANGED q
              /\ \A u \in Slot, m \in Mtx : Owns(u, m)' <=> Owns(u, m) /\ u # t
         /\ q[arg[t]] # <<>> =>
              /\ Head(q[arg[t]]) \in Slot \ {t}
              /\ q' = [q EXCEPT ![arg[t]] = Tail(q[arg[t]])]
              /\ \A u \in Slot, m \in Mtx :
                   Owns(u, m)' <=> \/ Owns(u, m) /\ u # t
                                   \/ u = Head(q[arg[t]]) /\ m = arg[t]
<1> USE DEF MutexInv
<1>1. /\ pc \in [Slot -> Labels] /\ pc[t] = "mu_test"
      /\ arg \in [Slot -> Mtx] /\ arg[t] \in Mtx
      /\ q \in [Mtx -> Seq(Slot)]
  BY Zenon DEF mu_test, At, TypeOK
<1>2. Owns(t, arg[t]) /\ \A m \in Mtx : Owns(t, m) => m = arg[t]
  BY <1>1, Zenon DEF Owns, HasLock
<1>3. UNCHANGED arg
  BY Zenon DEF mu_test
<1>4. CASE q[arg[t]] = <<>>
  <2>1. pc' = [pc EXCEPT ![t] = "mu_unguard"] /\ UNCHANGED q
    BY <1>4, Zenon DEF mu_test, Goto
  <2>2. \A u \in Slot, m \in Mtx : Owns(u, m)' <=> Owns(u, m) /\ u # t
    BY <1>1, <1>3, <2>1, Zenon DEF Owns, HasLock, Parking
  <2> QED
    BY <1>1, <1>2, <1>4, <2>1, <2>2, Zenon
<1>5. CASE q[arg[t]] # <<>>
  <2>0. NoDup(q[arg[t]])
    BY <1>1, Zenon DEF QueueInv
  <2>1. PICK h \in Slot :
          /\ h = Head(q[arg[t]]) /\ h \in Elems(q[arg[t]])
          /\ Elems(Tail(q[arg[t]])) = Elems(q[arg[t]]) \ {h}
    BY <1>1, <1>5, <2>0, ElemsTail, Zenon
  <2>2. pc' = [pc EXCEPT ![t] = "mu_unpark"]
    BY <1>5, Zenon DEF mu_test, Goto
  <2>3. q' = [q EXCEPT ![arg[t]] = Tail(q[arg[t]])]
    BY <1>5, Zenon DEF mu_test, queue_remove
  <2>4. \A m \in Mtx, u \in Slot :
          u \in Elems(q'[m]) <=> u \in Elems(q[m]) /\ ~(m = arg[t] /\ u = h)
    BY <1>1, <2>1, <2>3, Zenon
  <2>5. /\ arg[h] = arg[t]
        /\ pc[h] \in {"ml_setpark", "ml_unguard", "ml_park", "ml_parked"}
    BY <1>1, <2>1, Zenon DEF QueueInv
  <2>6. h # t
    BY <1>1, <2>5, Zenon
  <2>7. Parking(h)
    BY <1>1, <2>5, <2>6, Zenon DEF GuardInv, InGuard, Parking
  <2>8. \A u \in Slot, m \in Mtx :
          Owns(u, m)' <=> (Owns(u, m) /\ u # t) \/ (u = h /\ m = arg[t])
    BY <1>1, <1>3, <2>1, <2>2, <2>4, <2>5, <2>6, <2>7 DEF Owns, HasLock, Parking
  <2> QED
    BY <1>1, <1>2, <1>5, <2>1, <2>3, <2>6, <2>8, Zenon
<1> QED
  BY <1>4, <1>5, Zenon

\* The types of everything but the queues.
Types ==
  /\ pc \in [Slot -> Labels] /\ arg \in [Slot -> Mtx] /\ next \in [Slot -> Slot]
  /\ ret \in [Slot -> {"out", "cs"}] /\ state \in [Slot -> ProcState]
  /\ isParked \in [Slot -> {0, 1}] /\ immediateUnpark \in [Slot -> {0, 1}]
  /\ setPark \in [Slot -> {0, 1}] /\ killed \in [Slot -> {0, 1}]
  /\ flag \in [Mtx -> {0, 1}] /\ guard \in [Mtx -> {0, 1}]

\* They follow from the invariant.
LEMMA TypesHold == MutexInv => Types
  BY Zenon DEF MutexInv, TypeOK, ParkTypeOK, Types

\* The park flags of a thread whose position, flags, place in the queue and
\* prospect of being woken do not change stay right.
LEMMA ParkOKFrame ==
  ASSUME NEW u \in Slot, ParkOK(u),
         pc'[u] = pc[u], state'[u] = state[u], isParked'[u] = isParked[u],
         immediateUnpark'[u] = immediateUnpark[u], setPark'[u] = setPark[u],
         killed'[u] = killed[u],
         (u \in Elems(q[arg[u]]))' <=> u \in Elems(q[arg[u]]),
         BeingWoken(u)' <=> BeingWoken(u)
  PROVE  ParkOK(u)'
  BY Zenon DEF ParkOK

\* Steps of t that neither are nor prepare an unpark wake nobody else.
LEMMA WokenFrame ==
  ASSUME NEW t \in Slot, pc[t] # "mu_unpark", pc'[t] # "mu_unpark",
         \A u \in Slot \ {t} : pc'[u] = pc[u], UNCHANGED next
  PROVE  \A u \in Slot : BeingWoken(u)' <=> BeingWoken(u)
  BY Zenon DEF BeingWoken

\* Such a step has to be examined for the flags of t only.
LEMMA ParkFrame ==
  ASSUME MutexInv, NEW t \in Slot, pc[t] # "mu_unpark", pc'[t] # "mu_unpark",
         \A u \in Slot \ {t} :
           /\ pc'[u] = pc[u] /\ arg'[u] = arg[u] /\ state'[u] = state[u]
           /\ isParked'[u] = isParked[u] /\ immediateUnpark'[u] = immediateUnpark[u]
           /\ setPark'[u] = setPark[u] /\ killed'[u] = killed[u],
         UNCHANGED <<q, next>>, ParkOK(t)'
  PROVE  ParkInv'
<1>1. \A u \in Slot : BeingWoken(u)' <=> BeingWoken(u)
  BY WokenFrame, Zenon
<1>2. ASSUME NEW u \in Slot \ {t} PROVE ParkOK(u)'
  BY <1>1, <1>2, ParkOKFrame, Zenon DEF MutexInv, ParkInv
<1> QED
  BY <1>2, Zenon DEF ParkInv

-----------------------------------------------------------------------------
\* mutex_lock() is called: arg changes, for a thread in no queue.
LEMMA Inv_Enter ==
  ASSUME MutexInv, TypeOK', NEW t \in Slot, Enter(t)
  PROVE  MutexInv'
<1>1. Types /\ arg[t] \in Mtx
  BY TypesHold, Zenon DEF Types
<1>2. /\ state[t] = "RUNNABLE" /\ pc[t] = "out"
      /\ pc' = [pc EXCEPT ![t] = "ml_spin"]
      /\ ret' = [ret EXCEPT ![t] = "cs"]
      /\ \E m \in Mtx : arg' = [arg EXCEPT ![t] = m]
      /\ UNCHANGED <<state, isParked, immediateUnpark, setPark, killed, flag, guard, q, next>>
  BY <1>1, Zenon DEF Enter, At, CanRun, mutex_lock, Goto, parkVars, Types
<1>3. GuardInv'
  BY <1>1, <1>2 DEF MutexInv, Types, GuardInv, InGuard
<1>4. RetInv'
  BY <1>1, <1>2, Zenon DEF MutexInv, Types, RetInv
<1>5. QueueInv'
  BY <1>1, <1>2 DEF MutexInv, Types, QueueInv
<1>6. OwnerInv'
  BY OwnsKept, OwnerStable, Zenon DEF MutexInv
<1>7. ParkOK(t)'
  BY <1>1, <1>2 DEF MutexInv, Types, ParkInv, ParkOK, BeingWoken, QueueInv
<1>8. ParkInv'
  BY <1>1, <1>2, <1>7, ParkFrame, Zenon DEF Types
<1>9. WakeInv'
  BY <1>1, <1>2 DEF MutexInv, Types, WakeInv, Parking
<1>10. NoLostHandoff'
  <2>1. \A u \in Slot : BeingWoken(u)' <=> BeingWoken(u)
    BY <1>1, <1>2, WokenFrame, Zenon DEF Types
  <2> QED
    BY <1>1, <1>2, <2>1 DEF MutexInv, Types, NoLostHandoff, QueueInv
<1> QED
  BY <1>3, <1>4, <1>5, <1>6, <1>8, <1>9, <1>10, Zenon DEF MutexInv

\* mutex_unlock() is called.
LEMMA Inv_Leave ==
  ASSUME MutexInv, TypeOK', NEW t \in Slot, Leave(t)
  PROVE  MutexInv'
<1>1. Types /\ arg[t] \in Mtx
  BY TypesHold, Zenon DEF Types
<1>2. /\ state[t] = "RUNNABLE" /\ pc[t] = "cs"
      /\ pc' = [pc EXCEPT ![t] = "mu_spin"]
      /\ ret' = [ret EXCEPT ![t] = "out"]
      /\ UNCHANGED <<state, isParked, immediateUnpark, setPark, killed, flag, guard, q, arg, next>>
  BY <1>1, Zenon DEF Leave, At, CanRun, mutex_unlock, Goto, parkVars, Types
<1>3. GuardInv'
  BY <1>1, <1>2 DEF MutexInv, Types, GuardInv, InGuard
<1>4. RetInv'
  BY <1>1, <1>2, Zenon DEF MutexInv, Types, RetInv
<1>5. QueueInv'
  BY <1>1, <1>2 DEF MutexInv, Types, QueueInv
<1>6. OwnerInv'
  BY OwnsKept, OwnerStable, Zenon DEF MutexInv
<1>7. ParkOK(t)'
  BY <1>1, <1>2 DEF MutexInv, Types, ParkInv, ParkOK, BeingWoken, QueueInv
<1>8. ParkInv'
  BY <1>1, <1>2, <1>7, ParkFrame, Zenon DEF Types
<1>9. WakeInv'
  BY <1>1, <1>2, Zenon DEF MutexInv, Types, WakeInv, Parking
<1>10. NoLostHandoff'
  <2>1. \A u \in Slot : BeingWoken(u)' <=> BeingWoken(u)
    BY <1>1, <1>2, WokenFrame, Zenon DEF Types
  <2> QED
    BY <1>1, <1>2, <2>1, Zenon DEF MutexInv, Types, NoLostHandoff
<1> QED
  BY <1>3, <1>4, <1>5, <1>6, <1>8, <1>9, <1>10, Zenon DEF MutexInv

\* mutex_lock() takes the guard.
LEMMA Inv_ml_spin ==
  ASSUME MutexInv, TypeOK', NEW t \in Slot, ml_spin(t)
  PROVE  MutexInv'
<1>1. Types /\ arg[t] \in Mtx
  BY TypesHold, Zenon DEF Types
<1>2. /\ state[t] = "RUNNABLE" /\ pc[t] = "ml_spin"
      /\ pc' = [pc EXCEPT ![t] = "ml_test"]
      /\ guard[arg[t]] = 0
      /\ guard' = [guard EXCEPT ![arg[t]] = 1]
      /\ UNCHANGED <<state, isParked, immediateUnpark, setPark, killed, flag, q, arg, ret, next>>
  BY <1>1, Zenon DEF ml_spin, At, CanRun, spin_lock, Goto, parkVars, Types
<1>3. GuardInv'
  BY <1>1, <1>2 DEF MutexInv, Types, GuardInv, InGuard
<1>4. RetInv'
  BY <1>1, <1>2, Zenon DEF MutexInv, Types, RetInv
<1>5. QueueInv'
  BY <1>1, <1>2 DEF MutexInv, Types, QueueInv
<1>6. OwnerInv'
  BY OwnsKept, OwnerStable, Zenon DEF MutexInv
<1>7. ParkOK(t)'
  BY <1>1, <1>2 DEF MutexInv, Types, ParkInv, ParkOK, BeingWoken, QueueInv
<1>8. ParkInv'
  BY <1>1, <1>2, <1>7, ParkFrame, Zenon DEF Types
<1>9. WakeInv'
  BY <1>1, <1>2 DEF MutexInv, Types, WakeInv, Parking
<1>10. NoLostHandoff'
  <2>1. \A u \in Slot : BeingWoken(u)' <=> BeingWoken(u)
    BY <1>1, <1>2, WokenFrame, Zenon DEF Types
  <2> QED
    BY <1>1, <1>2, <2>1, Zenon DEF MutexInv, Types, NoLostHandoff
<1> QED
  BY <1>3, <1>4, <1>5, <1>6, <1>8, <1>9, <1>10, Zenon DEF MutexInv

\* mutex_lock() returns with a free mutex taken.
LEMMA Inv_ml_got ==
  ASSUME MutexInv, TypeOK', NEW t \in Slot, ml_got(t)
  PROVE  MutexInv'
<1>1. Types /\ arg[t] \in Mtx
  BY TypesHold, Zenon DEF Types
<1>2. /\ state[t] = "RUNNABLE" /\ pc[t] = "ml_got"
      /\ pc' = [pc EXCEPT ![t] = "cs"]
      /\ guard' = [guard EXCEPT ![arg[t]] = 0]
      /\ UNCHANGED <<state, isParked, immediateUnpark, setPark, killed, flag, q, arg, ret, next>>
  BY <1>1, Zenon DEF ml_got, At, CanRun, spin_unlock, Goto, parkVars, MutexInv, RetInv, Types
<1>3. GuardInv'
  BY <1>1, <1>2 DEF MutexInv, Types, GuardInv, InGuard
<1>4. RetInv'
  BY <1>1, <1>2, Zenon DEF MutexInv, Types, RetInv
<1>5. QueueInv'
  BY <1>1, <1>2 DEF MutexInv, Types, QueueInv
<1>6. OwnerInv'
  BY OwnsKept, OwnerStable, Zenon DEF MutexInv
<1>7. ParkOK(t)'
  BY <1>1, <1>2 DEF MutexInv, Types, ParkInv, ParkOK, BeingWoken, QueueInv
<1>8. ParkInv'
  BY <1>1, <1>2, <1>7, ParkFrame, Zenon DEF Types
<1>9. WakeInv'
  BY <1>1, <1>2 DEF MutexInv, Types, WakeInv, Parking
<1>10. NoLostHandoff'
  <2>1. \A u \in Slot : BeingWoken(u)' <=> BeingWoken(u)
    BY <1>1, <1>2, WokenFrame, Zenon DEF Types
  <2> QED
    BY <1>1, <1>2, <2>1, Zenon DEF MutexInv, Types, NoLostHandoff
<1> QED
  BY <1>3, <1>4, <1>5, <1>6, <1>8, <1>9, <1>10, Zenon DEF MutexInv

\* mutex_lock() calls setpark() while it still holds the guard.
LEMMA Inv_ml_setpark ==
  ASSUME MutexInv, TypeOK', NEW t \in Slot, ml_setpark(t)
  PROVE  MutexInv'
<1>1. Types /\ arg[t] \in Mtx
  BY TypesHold, Zenon DEF Types
<1>2. /\ state[t] = "RUNNABLE" /\ pc[t] = "ml_setpark"
      /\ pc' = [pc EXCEPT ![t] = "ml_unguard"]
      /\ setPark' = [setPark EXCEPT ![t] = IF immediateUnpark[t] = 0 THEN 1 ELSE @]
      /\ UNCHANGED <<state, isParked, immediateUnpark, killed, flag, guard, q, arg, ret, next>>
  BY <1>1, Zenon DEF ml_setpark, At, CanRun, setpark, Goto, parkVars, Types
<1>3. GuardInv'
  BY <1>1, <1>2 DEF MutexInv, Types, GuardInv, InGuard
<1>4. RetInv'
  BY <1>1, <1>2, Zenon DEF MutexInv, Types, RetInv
<1>5. QueueInv'
  BY <1>1, <1>2 DEF MutexInv, Types, QueueInv
<1>6. OwnerInv'
  BY OwnsKept, OwnerStable, Zenon DEF MutexInv
<1>7. ParkOK(t)'
  BY <1>1, <1>2 DEF MutexInv, Types, ParkInv, ParkOK, BeingWoken, QueueInv
<1>8. ParkInv'
  BY <1>1, <1>2, <1>7, ParkFrame, Zenon DEF Types
<1>9. WakeInv'
  BY <1>1, <1>2 DEF MutexInv, Types, WakeInv, Parking
<1>10. NoLostHandoff'
  <2>1. \A u \in Slot : BeingWoken(u)' <=> BeingWoken(u)
    BY <1>1, <1>2, WokenFrame, Zenon DEF Types
  <2> QED
    BY <1>1, <1>2, <2>1, Zenon DEF MutexInv, Types, NoLostHandoff
<1> QED
  BY <1>3, <1>4, <1>5, <1>6, <1>8, <1>9, <1>10, Zenon DEF MutexInv

\* mutex_lock() lets go of the guard before it parks.
LEMMA Inv_ml_unguard ==
  ASSUME MutexInv, TypeOK', NEW t \in Slot, ml_unguard(t)
  PROVE  MutexInv'
<1>1. Types /\ arg[t] \in Mtx
  BY TypesHold, Zenon DEF Types
<1>2. /\ state[t] = "RUNNABLE" /\ pc[t] = "ml_unguard"
      /\ pc' = [pc EXCEPT ![t] = "ml_park"]
      /\ guard' = [guard EXCEPT ![arg[t]] = 0]
      /\ UNCHANGED <<state, isParked, immediateUnpark, setPark, killed, flag, q, arg, ret, next>>
  BY <1>1, Zenon DEF ml_unguard, At, CanRun, spin_unlock, Goto, parkVars, Types
<1>3. GuardInv'
  BY <1>1, <1>2 DEF MutexInv, Types, GuardInv, InGuard
<1>4. RetInv'
  BY <1>1, <1>2, Zenon DEF MutexInv, Types, RetInv
<1>5. QueueInv'
  BY <1>1, <1>2 DEF MutexInv, Types, QueueInv
<1>6. OwnerInv'
  BY OwnsKept, OwnerStable, Zenon DEF MutexInv
<1>7. ParkOK(t)'
  BY <1>1, <1>2 DEF MutexInv, Types, ParkInv, ParkOK, BeingWoken, QueueInv
<1>8. ParkInv'
  BY <1>1, <1>2, <1>7, ParkFrame, Zenon DEF Types
<1>9. WakeInv'
  BY <1>1, <1>2 DEF MutexInv, Types, WakeInv, Parking
<1>10. NoLostHandoff'
  <2>1. \A u \in Slot : BeingWoken(u)' <=> BeingWoken(u)
    BY <1>1, <1>2, WokenFrame, Zenon DEF Types
  <2> QED
    BY <1>1, <1>2, <2>1, Zenon DEF MutexInv, Types, NoLostHandoff
<1> QED
  BY <1>3, <1>4, <1>5, <1>6, <1>8, <1>9, <1>10, Zenon DEF MutexInv

\* mutex_lock() calls park().
LEMMA Inv_ml_park ==
  ASSUME MutexInv, TypeOK', NEW t \in Slot, ml_park(t)
  PROVE  MutexInv'
<1>1. Types /\ arg[t] \in Mtx
  BY TypesHold, Zenon DEF Types
<1>2. /\ state[t] = "RUNNABLE" /\ pc[t] = "ml_park"
      /\ pc' = [pc EXCEPT ![t] = "ml_parked"]
      /\ setPark' = [setPark EXCEPT ![t] = 0]
      /\ \/ /\ immediateUnpark[t] = 0 /\ UNCHANGED immediateUnpark
            /\ state' = [state EXCEPT ![t] = "SLEEPING"]
            /\ isParked' = [isParked EXCEPT ![t] = 1]
         \/ /\ immediateUnpark[t] = 1 /\ UNCHANGED <<state, isParked>>
            /\ immediateUnpark' = [immediateUnpark EXCEPT ![t] = 0]
      /\ UNCHANGED <<killed, flag, guard, q, arg, ret, next>>
  BY <1>1, Zenon DEF ml_park, At, CanRun, park, Goto, parkVars, Types
<1>3. GuardInv'
  BY <1>1, <1>2 DEF MutexInv, Types, GuardInv, InGuard
<1>4. RetInv'
  BY <1>1, <1>2, Zenon DEF MutexInv, Types, RetInv
<1>5. QueueInv'
  BY <1>1, <1>2 DEF MutexInv, Types, QueueInv
<1>6. OwnerInv'
  BY OwnsKept, OwnerStable, Zenon DEF MutexInv
<1>7. ParkOK(t)'
  BY <1>1, <1>2 DEF MutexInv, Types, ParkInv, ParkOK, BeingWoken, QueueInv
<1>8. ParkInv'
  BY <1>1, <1>2, <1>7, ParkFrame DEF Types
<1>9. WakeInv'
  BY <1>1, <1>2 DEF MutexInv, Types, WakeInv, Parking
<1>10. NoLostHandoff'
  <2>1. \A u \in Slot : BeingWoken(u)' <=> BeingWoken(u)
    BY <1>1, <1>2, WokenFrame, Zenon DEF Types
  <2> QED
    BY <1>1, <1>2, <2>1 DEF MutexInv, Types, NoLostHandoff, ParkInv, ParkOK
<1> QED
  BY <1>3, <1>4, <1>5, <1>6, <1>8, <1>9, <1>10, Zenon DEF MutexInv

\* park() returns to mutex_lock(), which returns.
LEMMA Inv_ml_parked ==
  ASSUME MutexInv, TypeOK', NEW t \in Slot, ml_parked(t)
  PROVE  MutexInv'
<1>1. Types /\ arg[t] \in Mtx
  BY TypesHold, Zenon DEF Types
<1>2. /\ state[t] = "RUNNABLE" /\ pc[t] = "ml_parked"
      /\ killed[t] = 0
      /\ pc' = [pc EXCEPT ![t] = "cs"]
      /\ UNCHANGED <<state, isParked, immediateUnpark, setPark, killed, flag, guard, q, arg, ret, next>>
  BY <1>1, Zenon DEF ml_parked, At, CanRun, Goto, parkVars, MutexInv, RetInv, Types
<1>0. ~BeingWoken(t) /\ \A m \in Mtx : t \notin Elems(q[m])
  BY <1>1, <1>2 DEF MutexInv, Types, ParkInv, ParkOK, QueueInv
<1>3. GuardInv'
  BY <1>1, <1>2 DEF MutexInv, Types, GuardInv, InGuard
<1>4. RetInv'
  BY <1>1, <1>2, Zenon DEF MutexInv, Types, RetInv
<1>5. QueueInv'
  BY <1>1, <1>2, <1>0 DEF MutexInv, Types, QueueInv
<1>6. OwnerInv'
  BY OwnsKept, OwnerStable, Zenon DEF MutexInv
<1>7. ParkOK(t)'
  BY <1>1, <1>2 DEF MutexInv, Types, ParkInv, ParkOK, BeingWoken, QueueInv
<1>8. ParkInv'
  BY <1>1, <1>2, <1>7, ParkFrame, Zenon DEF Types
<1>9. WakeInv'
  BY <1>0, <1>1, <1>2 DEF MutexInv, Types, WakeInv, Parking, BeingWoken
<1>10. NoLostHandoff'
  <2>1. \A u \in Slot : BeingWoken(u)' <=> BeingWoken(u)
    BY <1>1, <1>2, WokenFrame, Zenon DEF Types
  <2> QED
    BY <1>1, <1>2, <2>1, Zenon DEF MutexInv, Types, NoLostHandoff
<1> QED
  BY <1>3, <1>4, <1>5, <1>6, <1>8, <1>9, <1>10, Zenon DEF MutexInv

\* mutex_unlock() takes the guard.
LEMMA Inv_mu_spin ==
  ASSUME MutexInv, TypeOK', NEW t \in Slot, mu_spin(t)
  PROVE  MutexInv'
<1>1. Types /\ arg[t] \in Mtx
  BY TypesHold, Zenon DEF Types
<1>2. /\ state[t] = "RUNNABLE" /\ pc[t] = "mu_spin"
      /\ pc' = [pc EXCEPT ![t] = "mu_test"]
      /\ guard[arg[t]] = 0
      /\ guard' = [guard EXCEPT ![arg[t]] = 1]
      /\ UNCHANGED <<state, isParked, immediateUnpark, setPark, killed, flag, q, arg, ret, next>>
  BY <1>1, Zenon DEF mu_spin, At, CanRun, spin_lock, Goto, parkVars, Types
<1>3. GuardInv'
  BY <1>1, <1>2 DEF MutexInv, Types, GuardInv, InGuard
<1>4. RetInv'
  BY <1>1, <1>2, Zenon DEF MutexInv, Types, RetInv
<1>5. QueueInv'
  BY <1>1, <1>2 DEF MutexInv, Types, QueueInv
<1>6. OwnerInv'
  BY OwnsKept, OwnerStable, Zenon DEF MutexInv
<1>7. ParkOK(t)'
  BY <1>1, <1>2 DEF MutexInv, Types, ParkInv, ParkOK, BeingWoken, QueueInv
<1>8. ParkInv'
  BY <1>1, <1>2, <1>7, ParkFrame, Zenon DEF Types
<1>9. WakeInv'
  BY <1>1, <1>2 DEF MutexInv, Types, WakeInv, Parking
<1>10. NoLostHandoff'
  <2>1. \A u \in Slot : BeingWoken(u)' <=> BeingWoken(u)
    BY <1>1, <1>2, WokenFrame DEF Types
  <2> QED
    BY <1>1, <1>2, <2>1, Zenon DEF MutexInv, Types, NoLostHandoff
<1> QED
  BY <1>3, <1>4, <1>5, <1>6, <1>8, <1>9, <1>10, Zenon DEF MutexInv

\* mutex_unlock() returns.
LEMMA Inv_mu_unguard ==
  ASSUME MutexInv, TypeOK', NEW t \in Slot, mu_unguard(t)
  PROVE  MutexInv'
<1>1. Types /\ arg[t] \in Mtx
  BY TypesHold, Zenon DEF Types
<1>2. /\ state[t] = "RUNNABLE" /\ pc[t] = "mu_unguard"
      /\ pc' = [pc EXCEPT ![t] = "out"]
      /\ guard' = [guard EXCEPT ![arg[t]] = 0]
      /\ UNCHANGED <<state, isParked, immediateUnpark, setPark, killed, flag, q, arg, ret, next>>
  BY <1>1, Zenon DEF mu_unguard, At, CanRun, spin_unlock, Goto, parkVars, MutexInv, RetInv, Types
<1>3. GuardInv'
  BY <1>1, <1>2 DEF MutexInv, Types, GuardInv, InGuard
<1>4. RetInv'
  BY <1>1, <1>2, Zenon DEF MutexInv, Types, RetInv
<1>5. QueueInv'
  BY <1>1, <1>2 DEF MutexInv, Types, QueueInv
<1>6. OwnerInv'
  BY OwnsKept, OwnerStable, Zenon DEF MutexInv
<1>7. ParkOK(t)'
  BY <1>1, <1>2 DEF MutexInv, Types, ParkInv, ParkOK, BeingWoken, QueueInv
<1>8. ParkInv'
  BY <1>1, <1>2, <1>7, ParkFrame, Zenon DEF Types
<1>9. WakeInv'
  BY <1>1, <1>2 DEF MutexInv, Types, WakeInv, Parking
<1>10. NoLostHandoff'
  <2>1. \A u \in Slot : BeingWoken(u)' <=> BeingWoken(u)
    BY <1>1, <1>2, WokenFrame, Zenon DEF Types
  <2> QED
    BY <1>1, <1>2, <2>1, Zenon DEF MutexInv, Types, NoLostHandoff
<1> QED
  BY <1>3, <1>4, <1>5, <1>6, <1>8, <1>9, <1>10, Zenon DEF MutexInv

\* A killed thread exits, leaving everything else as it is.
LEMMA Inv_Die ==
  ASSUME MutexInv, TypeOK', NEW t \in Slot, Die(t)
  PROVE  MutexInv'
<1>1. Types
  BY TypesHold, Zenon
<1>2. /\ state[t] = "RUNNABLE"
      /\ state' = [state EXCEPT ![t] = "ZOMBIE"]
      /\ killed[t] = 1
      /\ UNCHANGED <<isParked, immediateUnpark, setPark, killed, flag, guard, q, pc, arg, ret, next>>
  BY ZenonT(30) DEF Die, CanRun, parkFlags
<1>3. GuardInv' /\ RetInv' /\ QueueInv' /\ WakeInv'
  BY <1>2 DEF MutexInv, GuardInv, RetInv, QueueInv, WakeInv, Parking
<1>4. OwnerInv'
  BY OwnsKept, OwnerStable, Zenon DEF MutexInv
<1>5. \A u \in Slot : BeingWoken(u)' <=> BeingWoken(u)
  BY <1>2, Zenon DEF BeingWoken
<1>6. ParkOK(t)'
  BY <1>1, <1>2, <1>5 DEF MutexInv, Types, ParkInv, ParkOK
<1>7. ASSUME NEW u \in Slot \ {t} PROVE ParkOK(u)'
  <2>1. state'[u] = state[u] /\ killed'[u] = killed[u]
    BY <1>1, <1>2, Zenon DEF Types
  <2> QED
    BY <1>2, <1>5, <2>1, ParkOKFrame, Zenon DEF MutexInv, ParkInv
<1>8. NoLostHandoff'
  BY <1>1, <1>2, <1>5 DEF MutexInv, Types, NoLostHandoff
<1> QED
  BY <1>3, <1>4, <1>6, <1>7, <1>8, Zenon DEF MutexInv, ParkInv

\* A thread is killed: a sleeping one becomes runnable, and killed.
LEMMA Inv_Kill ==
  ASSUME MutexInv, TypeOK', NEW t \in Slot, Kill(t)
  PROVE  MutexInv'
<1>1. Types
  BY TypesHold, Zenon
<1>2. /\ killed' = [killed EXCEPT ![t] = 1]
      /\ state' = [state EXCEPT ![t] = IF @ = "SLEEPING" THEN "RUNNABLE" ELSE @]
      /\ UNCHANGED <<isParked, immediateUnpark, setPark, flag, guard, q, pc, arg, ret, next>>
  BY Zenon DEF Kill, kill, parkFlags
<1>3. GuardInv' /\ RetInv' /\ QueueInv' /\ WakeInv'
  BY <1>2 DEF MutexInv, GuardInv, RetInv, QueueInv, WakeInv, Parking
<1>4. OwnerInv'
  BY OwnsKept, OwnerStable, Zenon DEF MutexInv
<1>5. \A u \in Slot : BeingWoken(u)' <=> BeingWoken(u)
  BY <1>2, Zenon DEF BeingWoken
<1>6. ParkOK(t)'
  BY <1>1, <1>2, <1>5 DEF MutexInv, Types, ParkInv, ParkOK
<1>7. ASSUME NEW u \in Slot \ {t} PROVE ParkOK(u)'
  <2>1. state'[u] = state[u] /\ killed'[u] = killed[u]
    BY <1>1, <1>2, Zenon DEF Types
  <2> QED
    BY <1>2, <1>5, <2>1, ParkOKFrame, Zenon DEF MutexInv, ParkInv
<1>8. NoLostHandoff'
  BY <1>1, <1>2, <1>5, Zenon DEF MutexInv, Types, NoLostHandoff
<1> QED
  BY <1>3, <1>4, <1>6, <1>7, <1>8, Zenon DEF MutexInv, ParkInv

\* mutex_unlock() wakes the thread h it took off the queue.
LEMMA Inv_mu_unpark ==
  ASSUME MutexInv, TypeOK', NEW t \in Slot, mu_unpark(t)
  PROVE  MutexInv'
<1>1. Types /\ arg[t] \in Mtx
  BY TypesHold, Zenon DEF Types
<1>2. /\ state[t] = "RUNNABLE" /\ pc[t] = "mu_unpark"
      /\ pc' = [pc EXCEPT ![t] = "mu_unguard"]
      /\ UNCHANGED <<setPark, killed, flag, guard, q, arg, ret, next>>
  BY Zenon DEF mu_unpark, At, CanRun, Goto, unpark, unpark1, parkVars
<1>3. PICK h \in Slot : h = next[t]
  BY <1>1, Zenon DEF Types
<1>4. /\ h # t /\ arg[h] = arg[t] /\ pc[h] \in {"ml_park", "ml_parked"}
      /\ h \notin Elems(q[arg[h]])
  BY <1>2, <1>3, Zenon DEF MutexInv, WakeInv, Parking
<1>5. BeingWoken(h)
  BY <1>2, <1>3, Zenon DEF BeingWoken
<1>6. ~BeingWoken(h)'
  <2> SUFFICES ASSUME NEW v \in Slot, pc'[v] = "mu_unpark", next'[v] = h
               PROVE  FALSE
    BY Zenon DEF BeingWoken
  <2>1. v # t /\ pc[v] = "mu_unpark" /\ next[v] = h
    BY <1>1, <1>2, Zenon DEF Types
  <2>2. arg[v] = arg[t]
    BY <1>4, <2>1, Zenon DEF MutexInv, WakeInv
  <2> QED
    BY <1>2, <2>1, <2>2, Zenon DEF MutexInv, GuardInv, InGuard
<1>7. \A u \in Slot : u # h => (BeingWoken(u)' <=> BeingWoken(u))
  BY <1>1, <1>2, <1>3, Zenon DEF Types, BeingWoken
<1>8. \A u \in Slot \ {h} :
        /\ state'[u] = state[u] /\ isParked'[u] = isParked[u]
        /\ immediateUnpark'[u] = immediateUnpark[u]
  BY <1>1, <1>3 DEF Types, mu_unpark, unpark, unpark1, parkVars
<1>9. ParkOK(h)' /\ state'[h] # "SLEEPING"
  <2>1. CASE pc[h] = "ml_park"
    <3>1. setPark[h] = 1 /\ isParked[h] = 0 /\ state[h] # "SLEEPING"
      BY <1>1, <2>1 DEF MutexInv, Types, ParkInv, ParkOK
    <3>2. /\ immediateUnpark' = [immediateUnpark EXCEPT ![h] = 1]
          /\ UNCHANGED <<state, isParked>>
      BY <1>3, <3>1 DEF mu_unpark, unpark
    <3> QED
      BY <1>1, <1>2, <1>4, <1>6, <2>1, <3>1, <3>2 DEF Types, ParkOK
  <2>2. CASE pc[h] = "ml_parked"
    <3>1. /\ setPark[h] = 0 /\ immediateUnpark[h] = 0
          /\ state[h] = "SLEEPING" => isParked[h] = 1
          /\ killed[h] = 0 => state[h] = "SLEEPING"
      BY <1>1, <1>5, <2>2 DEF MutexInv, Types, ParkInv, ParkOK
    <3>2. /\ UNCHANGED immediateUnpark
          /\ state'[h] # "SLEEPING"
          /\ isParked'[h] = 1 => killed[h] = 1
      BY <1>1, <1>3, <3>1 DEF Types, mu_unpark, unpark, unpark1, parkVars
    <3> QED
      BY <1>1, <1>2, <1>4, <1>6, <2>2, <3>1, <3>2 DEF Types, ParkOK
  <2> QED
    BY <1>4, <2>1, <2>2, Zenon
<1>10. ASSUME NEW u \in Slot \ {h, t} PROVE ParkOK(u)'
  BY <1>1, <1>2, <1>7, <1>8, <1>10, ParkOKFrame, Zenon DEF MutexInv, Types, ParkInv
<1>11. ParkOK(t)'
  BY <1>1, <1>2, <1>4, <1>7, <1>8, Zenon DEF MutexInv, Types, ParkInv, ParkOK
<1>12. GuardInv' /\ RetInv'
  BY <1>1, <1>2 DEF MutexInv, Types, GuardInv, InGuard, RetInv
<1>13. QueueInv' /\ WakeInv'
  BY <1>1, <1>2 DEF MutexInv, Types, QueueInv, WakeInv, Parking
<1>14. OwnerInv'
  BY OwnsKept, OwnerStable, Zenon DEF MutexInv
<1>15. NoLostHandoff'
  BY <1>1, <1>2, <1>7, <1>8, <1>9, Zenon DEF MutexInv, Types, NoLostHandoff
<1> QED
  BY <1>9, <1>10, <1>11, <1>12, <1>13, <1>14, <1>15, Zenon DEF MutexInv, ParkInv

\* mutex_lock() finds the mutex free and takes it, or joins the queue.
LEMMA Inv_ml_test ==
  ASSUME MutexInv, TypeOK', NEW t \in Slot, ml_test(t)
  PROVE  MutexInv'
<1> USE DEF MutexInv
<1>1. /\ pc \in [Slot -> Labels] /\ pc[t] = "ml_test"
      /\ arg \in [Slot -> Mtx] /\ arg[t] \in Mtx
      /\ flag \in [Mtx -> {0, 1}] /\ q \in [Mtx -> Seq(Slot)]
      /\ setPark \in [Slot -> {0, 1}]
  BY Zenon DEF ml_test, At, TypeOK, ParkTypeOK
<1>2. \A m \in Mtx : t \notin Elems(q[m])
  BY <1>1, Zenon DEF QueueInv
<1>3. UNCHANGED <<state, isParked, immediateUnpark, setPark, killed, guard, arg, ret, next>>
  BY Zenon DEF ml_test, parkVars
<1>4. CASE flag[arg[t]] = 0
  <2>1. /\ flag' = [flag EXCEPT ![arg[t]] = 1]
        /\ pc' = [pc EXCEPT ![t] = "ml_got"]
        /\ UNCHANGED q
    BY <1>4, Zenon DEF ml_test, Goto
  <2>2. \A u \in Slot : BeingWoken(u)' <=> BeingWoken(u)
    BY <1>1, <1>3, <2>1, Zenon DEF BeingWoken
  <2>3. GuardInv' /\ RetInv'
    BY <1>1, <1>3, <2>1 DEF GuardInv, InGuard, RetInv
  <2>4. QueueInv'
    BY <1>1, <1>2, <1>3, <2>1 DEF QueueInv
  <2>5. WakeInv' /\ NoLostHandoff'
    BY <1>1, <1>3, <2>1, <2>2 DEF WakeInv, NoLostHandoff, Parking
  <2>6. ParkInv'
    <3>1. ParkOK(t)'
      BY <1>1, <1>2, <1>3, <2>1, <2>2, Zenon DEF ParkInv, ParkOK
    <3> QED
      BY <1>1, <1>3, <2>1, <3>1, ParkFrame, Zenon
  <2>9. OwnerInv'
    BY <1>1, <1>4, <2>1, OwnsLocked DEF OwnerInv
  <2> QED
    BY <2>3, <2>4, <2>5, <2>6, <2>9, Zenon
<1>5. CASE flag[arg[t]] # 0
  <2>0. q' = [q EXCEPT ![arg[t]] = Append(q[arg[t]], t)]
    BY <1>5, Zenon DEF ml_test, queue_add
  <2>1. pc' = [pc EXCEPT ![t] = "ml_setpark"] /\ UNCHANGED flag
    BY <1>5, Zenon DEF ml_test, Goto
  <2>2. \A u \in Slot : BeingWoken(u)' <=> BeingWoken(u)
    BY <1>1, <1>3, <2>1, Zenon DEF BeingWoken
  <2>3. GuardInv' /\ RetInv'
    BY <1>1, <1>3, <2>1 DEF GuardInv, InGuard, RetInv
  <2>4. /\ Elems(Append(q[arg[t]], t)) = Elems(q[arg[t]]) \cup {t}
        /\ NoDup(Append(q[arg[t]], t))
    BY <1>1, <1>2, ElemsAppend DEF QueueInv
  <2>5. \A m \in Mtx :
          /\ \A u \in Slot : u \in Elems(q'[m]) <=>
               u \in Elems(q[m]) \/ (m = arg[t] /\ u = t)
          /\ NoDup(q'[m])
    BY <1>1, <2>0, <2>4 DEF QueueInv
  <2>6. QueueInv'
    BY <1>1, <1>3, <2>1, <2>5 DEF QueueInv
  <2>7. WakeInv'
    BY <1>1, <1>3, <2>1, <2>5 DEF WakeInv, Parking, TypeOK
  <2>8. NoLostHandoff'
    BY <1>1, <1>3, <2>2, <2>5, Zenon DEF NoLostHandoff
  <2>9. ParkInv'
    <3>1. ParkOK(t)'
      BY <1>1, <1>3, <2>1, <2>2, Zenon DEF ParkInv, ParkOK
    <3>2. ASSUME NEW u \in Slot \ {t} PROVE ParkOK(u)'
      BY <1>1, <1>3, <2>1, <2>2, <2>5, ParkOKFrame, Zenon DEF ParkInv
    <3> QED
      BY <3>1, <3>2, Zenon DEF ParkInv
  <2>11. OwnerInv'
    BY <1>5, <2>1, OwnsLocked, OwnerStable, Zenon
  <2> QED
    BY <2>3, <2>6, <2>7, <2>8, <2>9, <2>11, Zenon
<1> QED
  BY <1>4, <1>5, Zenon

\* mutex_unlock() frees the mutex, or makes the first in the queue its owner.
LEMMA Inv_mu_test ==
  ASSUME MutexInv, TypeOK', NEW t \in Slot, mu_test(t)
  PROVE  MutexInv'
<1> USE DEF MutexInv
<1>1. /\ pc \in [Slot -> Labels] /\ pc[t] = "mu_test"
      /\ arg \in [Slot -> Mtx] /\ arg[t] \in Mtx
      /\ flag \in [Mtx -> {0, 1}] /\ q \in [Mtx -> Seq(Slot)]
      /\ next \in [Slot -> Slot]
  BY Zenon DEF mu_test, At, TypeOK
<1>3. UNCHANGED <<state, isParked, immediateUnpark, setPark, killed, guard, arg, ret>>
  BY Zenon DEF mu_test, parkVars
<1>4. CASE q[arg[t]] = <<>>
  <2>1. /\ flag' = [flag EXCEPT ![arg[t]] = 0]
        /\ pc' = [pc EXCEPT ![t] = "mu_unguard"]
        /\ UNCHANGED <<q, next>>
    BY <1>4, Zenon DEF mu_test, Goto
  <2>2. \A u \in Slot : BeingWoken(u)' <=> BeingWoken(u)
    BY <1>1, <2>1, Zenon DEF BeingWoken
  <2>3. GuardInv' /\ RetInv'
    BY <1>1, <1>3, <2>1 DEF GuardInv, InGuard, RetInv
  <2>4. QueueInv'
    BY <1>1, <1>3, <2>1 DEF QueueInv
  <2>5. WakeInv' /\ NoLostHandoff'
    BY <1>1, <1>3, <2>1, <2>2, Zenon DEF WakeInv, NoLostHandoff, Parking
  <2>6. ParkInv'
    <3>1. ParkOK(t)'
      BY <1>1, <1>3, <2>1, <2>2, Zenon DEF ParkInv, ParkOK
    <3> QED
      BY <1>1, <1>3, <2>1, <3>1, ParkFrame, Zenon
  <2>9. ASSUME NEW m \in Mtx
        PROVE  /\ flag'[m] = 1 <=> \E u \in Slot : Owns(u, m)'
               /\ \A u, v \in Slot : Owns(u, m)' /\ Owns(v, m)' => u = v
    BY <1>1, <1>4, <2>1, OwnsPassed DEF OwnerInv
  <2>10. OwnerInv'
    BY <2>9, Zenon DEF OwnerInv
  <2> QED
    BY <2>3, <2>4, <2>5, <2>6, <2>10, Zenon
<1>5. CASE q[arg[t]] # <<>>
  <2>0. NoDup(q[arg[t]])
    BY <1>1, Zenon DEF QueueInv
  <2>1. PICK h \in Slot :
          /\ h = Head(q[arg[t]]) /\ h \in Elems(q[arg[t]])
          /\ Elems(Tail(q[arg[t]])) = Elems(q[arg[t]]) \ {h}
          /\ NoDup(Tail(q[arg[t]]))
    BY <1>1, <1>5, <2>0, ElemsTail, Zenon
  <2>2. /\ pc' = [pc EXCEPT ![t] = "mu_unpark"]
        /\ next' = [next EXCEPT ![t] = h]
        /\ UNCHANGED flag
    BY <1>5, <2>1, Zenon DEF mu_test, Goto
  <2>tail. q' = [q EXCEPT ![arg[t]] = Tail(q[arg[t]])]
    BY <1>5, Zenon DEF mu_test, queue_remove
  <2>3. \A m \in Mtx :
          /\ \A u \in Slot : u \in Elems(q'[m]) <=>
               u \in Elems(q[m]) /\ ~(m = arg[t] /\ u = h)
          /\ NoDup(q'[m])
    BY <1>1, <2>1, <2>tail DEF QueueInv
  <2>4. h # t /\ arg[h] = arg[t] /\ pc[h] \notin InGuard
    <3>1. /\ arg[h] = arg[t]
          /\ pc[h] \in {"ml_setpark", "ml_unguard", "ml_park", "ml_parked"}
      BY <1>1, <2>1 DEF QueueInv
    <3>2. h # t
      BY <1>1, <3>1, Zenon
    <3> QED
      BY <1>1, <3>1, <3>2, Zenon DEF GuardInv, InGuard
  <2>5. Parking(h)
    BY <1>1, <2>1, <2>4 DEF QueueInv, InGuard, Parking
  <2>6. \A u \in Slot : BeingWoken(u)' <=> BeingWoken(u) \/ u = h
    BY <1>1, <2>1, <2>2 DEF BeingWoken
  <2>7. GuardInv' /\ RetInv'
    BY <1>1, <1>3, <2>2 DEF GuardInv, InGuard, RetInv
  <2>8. QueueInv'
    BY <1>1, <1>3, <2>2, <2>3, <2>5 DEF QueueInv, Parking
  <2>9. WakeInv'
    BY <1>1, <1>3, <2>1, <2>2, <2>3, <2>4, <2>5 DEF WakeInv, Parking
  <2>10. NoLostHandoff'
    BY <1>1, <1>3, <2>2, <2>3, <2>6, Zenon DEF NoLostHandoff
  <2>11. ParkInv'
    <3>1. ParkOK(t)'
      BY <1>1, <1>3, <2>2, <2>3, <2>4, <2>6, Zenon DEF ParkInv, ParkOK
    <3>2. ParkOK(h)'
      BY <1>1, <1>3, <2>1, <2>2, <2>3, <2>4, <2>6, Zenon DEF ParkInv, ParkOK
    <3>3. ASSUME NEW u \in Slot \ {t, h} PROVE ParkOK(u)'
      BY <1>1, <1>3, <2>2, <2>3, <2>6, ParkOKFrame, Zenon DEF ParkInv
    <3> QED
      BY <3>1, <3>2, <3>3, Zenon DEF ParkInv
  <2>12. \A u \in Slot, m \in Mtx :
           Owns(u, m)' <=> (Owns(u, m) /\ u # t) \/ (u = h /\ m = arg[t])
    BY <1>5, <2>1, OwnsPassed, Zenon
  <2>13. Owns(t, arg[t]) /\ \A m \in Mtx : Owns(t, m) => m = arg[t]
    BY OwnsPassed, Zenon
  <2>14. ASSUME NEW m \in Mtx
         PROVE  /\ flag'[m] = 1 <=> \E u \in Slot : Owns(u, m)'
                /\ \A u, v \in Slot : Owns(u, m)' /\ Owns(v, m)' => u = v
    BY <1>1, <2>2, <2>12, <2>13 DEF OwnerInv
  <2>15. OwnerInv'
    BY <2>14, Zenon DEF OwnerInv
  <2> QED
    BY <2>7, <2>8, <2>9, <2>10, <2>11, <2>15, Zenon
<1> QED
  BY <1>4, <1>5, Zenon

-----------------------------------------------------------------------------
(* The invariant, and what follows from it. *)

\* The initial state satisfies the invariant.
LEMMA InitInv == Init => MutexInv
<1> SUFFICES ASSUME Init PROVE MutexInv
  BY Zenon
<1>0. \A t \in Slot : /\ state[t] = "RUNNABLE" /\ pc[t] = "out" /\ isParked[t] = 0
                      /\ setPark[t] = 0 /\ immediateUnpark[t] = 0
  BY Zenon DEF Init, MutexInit, ParkInit
<1>1. TypeOK
  <2>1. (CHOOSE m \in Mtx : TRUE) \in Mtx
    BY MtxAssumption, Zenon
  <2> QED
    BY <2>1 DEF TypeOK, ParkTypeOK, ProcState, Labels, Init, MutexInit, ParkInit
<1>2. \A m \in Mtx : Elems(q[m]) = {} /\ NoDup(q[m])
  BY ElemsEmpty, Zenon DEF Init, MutexInit
<1>3. GuardInv /\ RetInv /\ WakeInv /\ NoLostHandoff
  BY <1>0, Zenon DEF GuardInv, InGuard, RetInv, WakeInv, NoLostHandoff
<1>4. QueueInv
  BY <1>0, <1>2, Zenon DEF QueueInv
<1>5. OwnerInv
  <2>1. \A m \in Mtx : flag[m] = 0
    BY Zenon DEF Init, MutexInit
  <2> QED
    BY <1>0, <2>1 DEF OwnerInv, Owns, HasLock, Parking
<1>6. ParkInv
  <2>1. 0 # 1
    OBVIOUS
  <2> SUFFICES ASSUME NEW t \in Slot
               PROVE  /\ state[t] # "SLEEPING" /\ isParked[t] # 1 /\ setPark[t] # 1
                      /\ immediateUnpark[t] # 1
                      /\ pc[t] \notin {"ml_unguard", "ml_park", "ml_parked"}
    BY Zenon DEF ParkInv, ParkOK
  <2> QED
    BY <1>0, <2>1, Zenon
<1> QED
  BY <1>1, <1>3, <1>4, <1>5, <1>6, Zenon DEF MutexInv

\* The invariant is inductive.
LEMMA StepInv == MutexInv /\ [Next]_vars => MutexInv'
<1> SUFFICES ASSUME MutexInv, [Next]_vars PROVE MutexInv'
  BY Zenon
<1>1. TypeOK'
  BY TypeStep, Zenon DEF MutexInv
<1>2. CASE UNCHANGED vars
  <2> USE <1>2 DEF MutexInv, vars, mutexVars, parkVars
  <2>1. GuardInv' /\ RetInv' /\ QueueInv'
    BY Zenon DEF GuardInv, RetInv, QueueInv
  <2>2. OwnerInv'
    BY DEF OwnerInv, Owns, Parking
  <2>3. WakeInv' /\ NoLostHandoff'
    BY Zenon DEF WakeInv, NoLostHandoff, BeingWoken, Parking
  <2>4. \A u \in Slot : BeingWoken(u)' <=> BeingWoken(u)
    BY Zenon DEF BeingWoken
  <2>5. ParkInv'
    BY <2>4, ParkOKFrame, Zenon DEF ParkInv
  <2> QED
    BY <1>1, <2>1, <2>2, <2>3, <2>5, Zenon
<1>3. ASSUME NEW t \in Slot, Enter(t) \/ ThreadStep(t) \/ Kill(t)
      PROVE  MutexInv'
  BY <1>1, <1>3, Inv_Enter, Inv_Leave, Inv_Die, Inv_Kill, Inv_ml_spin, Inv_ml_test,
     Inv_ml_got, Inv_ml_setpark, Inv_ml_unguard, Inv_ml_park, Inv_ml_parked,
     Inv_mu_spin, Inv_mu_test, Inv_mu_unpark, Inv_mu_unguard, Zenon
     DEF ThreadStep, MutexStep
<1> QED
  BY <1>2, <1>3, Zenon DEF Next

-----------------------------------------------------------------------------
\* The inductive invariant holds in every reachable state, for any number of
\* threads and mutexes and any pattern of kills.
THEOREM MutexInvariant == Spec => []MutexInv
  BY InitInv, StepInv, PTL DEF Spec

\* The mutex library and the park fields are well typed throughout.
THEOREM TypeCorrect == Spec => []TypeOK
<1>1. MutexInv => TypeOK
  BY Zenon DEF MutexInv
<1> QED
  BY <1>1, MutexInvariant, PTL

\* mutex_lock()/mutex_unlock() give mutual exclusion: the one owner of a mutex
\* is the only thread that can be in its critical section.
THEOREM MutualExclusionHolds == Spec => []MutualExclusion
<1>1. MutexInv => MutualExclusion
  BY DEF MutexInv, TypeOK, OwnerInv, Owns, HasLock, MutualExclusion
<1> QED
  BY <1>1, MutexInvariant, PTL

\* No unpark() of a handoff is lost to the window between setpark() and park().
THEOREM NoLostHandoffHolds == Spec => []NoLostHandoff
<1>1. MutexInv => NoLostHandoff
  BY Zenon DEF MutexInv
<1> QED
  BY <1>1, MutexInvariant, PTL

\* A thread that comes back from park() in mutex_lock() owns the mutex.
THEOREM AwokenOwnsHolds == Spec => []AwokenOwns
<1>1. MutexInv => AwokenOwns
  BY Zenon DEF MutexInv, TypeOK, ParkInv, ParkOK, Owns, Parking, AwokenOwns, CanRun
<1> QED
  BY <1>1, MutexInvariant, PTL

\* mtx->flag counts the owners of the mutex, which are one or none.
THEOREM FlagMeansOwnedHolds == Spec => []FlagMeansOwned
<1>1. MutexInv => FlagMeansOwned
  <2> SUFFICES ASSUME MutexInv, NEW m \in Mtx
               PROVE  \/ flag[m] = 0 /\ \A t \in Slot : ~Owns(t, m)
                      \/ flag[m] = 1 /\ \E t \in Slot : \A u \in Slot : Owns(u, m) <=> u = t
    BY Zenon DEF FlagMeansOwned
  <2>1. flag[m] \in {0, 1}
    BY Zenon DEF MutexInv, TypeOK
  <2> QED
    BY <2>1 DEF MutexInv, OwnerInv
<1> QED
  BY <1>1, MutexInvariant, PTL

-----------------------------------------------------------------------------
(* Refinement of FifoLock. *)

\* The owner of a mutex as the refinement mapping sees it.
LEMMA OwnerIs ==
  ASSUME MutexInv, NEW m \in Mtx
  PROVE  /\ \A t \in Slot : Owns(t, m) => Owner(m) = t
         /\ (\A t \in Slot : ~Owns(t, m)) => Owner(m) = NoOne
         /\ Owner(m) # NoOne => Owner(m) \in Slot /\ Owns(Owner(m), m)
  BY NoOneAssumption, Zenon DEF MutexInv, OwnerInv, Owner

\* A step that changes no ownership of m does not change its owner.
LEMMA OwnerSame ==
  ASSUME MutexInv, MutexInv', NEW m \in Mtx,
         \A u \in Slot : Owns(u, m)' <=> Owns(u, m)
  PROVE  Owner(m)' = Owner(m)
<1>1. CASE \E u \in Slot : Owns(u, m)
  <2>1. PICK u \in Slot : Owns(u, m)
    BY <1>1, Zenon
  <2>2. Owner(m) = u
    BY <2>1, OwnerIs, Zenon
  <2>3. Owner(m)' = u
    BY <2>1, Zenon DEF MutexInv, OwnerInv, Owner
  <2> QED
    BY <2>2, <2>3, Zenon
<1>2. CASE ~\E u \in Slot : Owns(u, m)
  BY <1>2, Zenon DEF Owner
<1> QED
  BY <1>1, <1>2, Zenon

\* mutex.c implements a first-come-first-served lock with direct handoff:
\* under the mapping that reads the owner off the threads' positions, every
\* step is a step of FifoLock or changes nothing in it.
THEOREM MutexRefinesFifoLock == Spec => ImplementsFifoLock
<1>1. Init => Fifo!LockInit
  <2> SUFFICES ASSUME Init PROVE Fifo!LockInit
    BY Zenon
  <2>1. \A t \in Slot, m \in Mtx : ~Owns(t, m)
    BY Zenon DEF Init, Owns, HasLock, Parking
  <2>2. \A m \in Mtx : Owner(m) = NoOne
    BY <2>1, Zenon DEF Owner
  <2> QED
    BY <2>2, Zenon DEF Fifo!LockInit, Init, MutexInit
<1>2. MutexInv /\ MutexInv' /\ [Next]_vars => [Fifo!LockNext]_(Fifo!lockVars)
  <2> SUFFICES ASSUME MutexInv, MutexInv', [Next]_vars
               PROVE  [Fifo!LockNext]_(Fifo!lockVars)
    BY Zenon
  <2>1. ASSUME UNCHANGED q,
               \A u \in Slot, m \in Mtx : Owns(u, m)' <=> Owns(u, m)
        PROVE  UNCHANGED Fifo!lockVars
    <3>1. \A m \in Mtx : Owner(m)' = Owner(m)
      BY <2>1, OwnerSame, Zenon
    <3> QED
      BY <2>1, <3>1, Zenon DEF Fifo!lockVars
  <2>2. CASE UNCHANGED vars
    <3>1. UNCHANGED q /\ \A u \in Slot, m \in Mtx : Owns(u, m)' <=> Owns(u, m)
      BY <2>2, Zenon DEF vars, mutexVars, Owns, Parking
    <3> QED
      BY <2>1, <3>1, Zenon
  <2>3. ASSUME NEW t \in Slot, ml_test(t), flag[arg[t]] = 0
        PROVE  Fifo!LockNext
    <3>1. PICK m \in Mtx : m = arg[t]
      BY <2>3, OwnsLocked, Zenon
    <3>2. /\ UNCHANGED q
          /\ \A u \in Slot : ~Owns(u, m)
          /\ \A u \in Slot, n \in Mtx : Owns(u, n)' <=> Owns(u, n) \/ (u = t /\ n = m)
      BY <2>3, <3>1, OwnsLocked, Zenon
    <3>3. Owner(m) = NoOne
      BY <3>2, OwnerIs, Zenon
    <3>4. Owner(m)' = t
      BY <3>2, Zenon DEF Owner, MutexInv, OwnerInv
    <3>5. \A n \in Mtx \ {m} : Owner(n)' = Owner(n)
      BY <3>2, OwnerSame, Zenon
    <3>6. Fifo!Acquire(t, m)
      BY <3>2, <3>3, <3>4, <3>5, Zenon DEF Fifo!Acquire
    <3> QED
      BY <3>6, Zenon DEF Fifo!LockNext
  <2>4. ASSUME NEW t \in Slot, ml_test(t), flag[arg[t]] # 0
        PROVE  Fifo!LockNext
    <3>1. PICK m \in Mtx : m = arg[t]
      BY <2>4, OwnsLocked, Zenon
    <3>2. /\ q' = [q EXCEPT ![m] = Append(q[m], t)]
          /\ t \notin Elems(q[m]) /\ ~Owns(t, m) /\ \E u \in Slot : Owns(u, m)
          /\ \A u \in Slot, n \in Mtx : Owns(u, n)' <=> Owns(u, n)
      BY <2>4, <3>1, OwnsLocked, Zenon
    <3>3. Owner(m) \notin {NoOne, t}
      BY <3>2, OwnerIs, NoOneAssumption, Zenon
    <3>4. \A n \in Mtx : Owner(n)' = Owner(n)
      BY <3>2, OwnerSame, Zenon
    <3>5. \A i \in 1..Len(q[m]) : q[m][i] # t
      BY <3>2, Zenon DEF Elems
    <3>6. Fifo!Wait(t, m)
      BY <3>2, <3>3, <3>4, <3>5, Zenon DEF Fifo!Wait
    <3> QED
      BY <3>6, Zenon DEF Fifo!LockNext
  <2>5. ASSUME NEW t \in Slot, mu_test(t) PROVE Fifo!LockNext
    <3>1. PICK m \in Mtx : m = arg[t]
      BY <2>5, OwnsPassed, Zenon
    <3>2. Owns(t, m) /\ \A n \in Mtx : Owns(t, n) => n = m
      BY <2>5, <3>1, OwnsPassed, Zenon
    <3>3. Owner(m) = t /\ Owner(m) # NoOne
      BY <3>2, OwnerIs, NoOneAssumption, Zenon
    <3>4. \A u \in Slot : Owns(u, m) => u = t
      BY <3>2, Zenon DEF MutexInv, OwnerInv
    <3>5. CASE q[m] = <<>>
      <4>1. /\ UNCHANGED q
            /\ \A u \in Slot, n \in Mtx : Owns(u, n)' <=> Owns(u, n) /\ u # t
        BY <2>5, <3>1, <3>5, OwnsPassed, Zenon
      <4>2. Owner(m)' = NoOne
        BY <3>4, <4>1, Zenon DEF Owner
      <4>3. \A n \in Mtx \ {m} : Owner(n)' = Owner(n)
        BY <3>2, <4>1, OwnerSame, Zenon
      <4>4. [n \in Mtx |-> Owner(n)]' = [[n \in Mtx |-> Owner(n)] EXCEPT ![m] = NoOne]
        BY <4>2, <4>3, Zenon
      <4>5. Fifo!Release(m)
        BY <3>3, <3>5, <4>1, <4>4, Zenon DEF Fifo!Release
      <4> QED
        BY <4>5, Zenon DEF Fifo!LockNext
    <3>6. CASE q[m] # <<>>
      <4>1. PICK h \in Slot : h = Head(q[m])
        BY <2>5, <3>1, <3>6, OwnsPassed, Zenon
      <4>2. /\ q' = [q EXCEPT ![m] = Tail(q[m])]
            /\ \A u \in Slot, n \in Mtx :
                 Owns(u, n)' <=> (Owns(u, n) /\ u # t) \/ (u = h /\ n = m)
        BY <2>5, <3>1, <3>6, <4>1, OwnsPassed
      <4>3. Owner(m)' = h
        BY <4>2, Zenon DEF Owner, MutexInv, OwnerInv
      <4>4. \A n \in Mtx \ {m} : Owner(n)' = Owner(n)
        BY <3>2, <4>2, OwnerSame, Zenon
      <4>5. Fifo!Release(m)
        BY <3>3, <3>6, <4>1, <4>2, <4>3, <4>4, Zenon DEF Fifo!Release
      <4> QED
        BY <4>5, Zenon DEF Fifo!LockNext
    <3> QED
      BY <3>5, <3>6, Zenon
  <2>6. ASSUME NEW t \in Slot, Enter(t) \/ ThreadStep(t) \/ Kill(t)
        PROVE  [Fifo!LockNext]_(Fifo!lockVars)
    <3>1. CASE ml_test(t)
      BY <2>3, <2>4, <3>1, Zenon
    <3>2. CASE mu_test(t)
      BY <2>5, <3>2, Zenon
    <3>3. CASE ~ml_test(t) /\ ~mu_test(t)
      <4>1. UNCHANGED q /\ \A u \in Slot, m \in Mtx : Owns(u, m)' <=> Owns(u, m)
        BY <2>6, <3>3, OwnsKept, Zenon DEF ThreadStep, MutexStep
      <4> QED
        BY <2>1, <4>1, Zenon
    <3> QED
      BY <3>1, <3>2, <3>3, Zenon
  <2> QED
    BY <2>2, <2>6, Zenon DEF Next
<1> QED
  BY <1>1, <1>2, MutexInvariant, PTL DEF Spec, ImplementsFifoLock, Fifo!LockSpec

=============================================================================
