------------------------------ MODULE FifoLock ------------------------------
(***************************************************************************)
(* What a mutex of the thread library promises its callers: each lock has  *)
(* at most one owner, a thread that finds the lock taken is served in the  *)
(* order of arrival, and a lock that is released while threads wait is     *)
(* handed to the first of them without ever being free in between.         *)
(***************************************************************************)
EXTENDS Naturals, Sequences

CONSTANTS Slot, Mtx,
  NoOne       \* the owner of a free lock

VARIABLES
  owner,      \* [Mtx -> Slot \cup {NoOne}]
  waiting     \* [Mtx -> Seq(Slot)]

lockVars == <<owner, waiting>>

LockInit ==
  /\ owner = [m \in Mtx |-> NoOne]
  /\ waiting = [m \in Mtx |-> <<>>]

Acquire(t, m) ==
  /\ owner[m] = NoOne
  /\ owner' = [owner EXCEPT ![m] = t]
  /\ UNCHANGED waiting

Wait(t, m) ==
  /\ owner[m] \notin {NoOne, t}
  /\ \A i \in 1..Len(waiting[m]) : waiting[m][i] # t
  /\ waiting' = [waiting EXCEPT ![m] = Append(@, t)]
  /\ UNCHANGED owner

Release(m) ==
  /\ owner[m] # NoOne
  /\ IF waiting[m] = <<>>
       THEN /\ owner' = [owner EXCEPT ![m] = NoOne]
            /\ UNCHANGED waiting
       ELSE /\ owner' = [owner EXCEPT ![m] = Head(waiting[m])]
            /\ waiting' = [waiting EXCEPT ![m] = Tail(@)]

LockNext ==
  \E m \in Mtx :
    \/ \E t \in Slot : Acquire(t, m) \/ Wait(t, m)
    \/ Release(m)

LockSpec == LockInit /\ [][LockNext]_lockVars

=============================================================================
