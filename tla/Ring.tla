-------------------------------- MODULE Ring --------------------------------
(***************************************************************************)
(* The ring buffer of user/p4test.c.  put() and get() are not atomic: each *)
(* is split in two where another thread could see or spoil its effect, and *)
(* it is for the callers to exclude each other.                            *)
(***************************************************************************)
EXTENDS Naturals, Sequences

CONSTANTS
  Worker,    \* the threads
  MAX        \* the size of the buffer

ASSUME RingAssumption == MAX \in Nat \ {0}

VARIABLES buffer, fill_ptr, use_ptr, count,
  tmp,       \* the local of get(), 0 outside of it
  taken      \* history: what get() has returned, in order

ringVars == <<buffer, fill_ptr, use_ptr, count, tmp, taken>>

RingInit ==
  /\ buffer = [k \in 0..MAX-1 |-> 0]
  /\ fill_ptr = 0 /\ use_ptr = 0 /\ count = 0
  /\ tmp = [t \in Worker |-> 0]
  /\ taken = <<>>

put_store(v) ==
  /\ buffer' = [buffer EXCEPT ![fill_ptr] = v]
  /\ UNCHANGED <<fill_ptr, use_ptr, count, tmp, taken>>

put_done ==
  /\ fill_ptr' = (fill_ptr + 1) % MAX
  /\ count' = count + 1
  /\ UNCHANGED <<buffer, use_ptr, tmp, taken>>

get_load(t) ==
  /\ tmp' = [tmp EXCEPT ![t] = buffer[use_ptr]]
  /\ UNCHANGED <<buffer, fill_ptr, use_ptr, count, taken>>

get_done(t) ==
  /\ use_ptr' = (use_ptr + 1) % MAX
  /\ count' = count - 1
  /\ taken' = Append(taken, tmp[t])
  /\ tmp' = [tmp EXCEPT ![t] = 0]
  /\ UNCHANGED <<buffer, fill_ptr>>

\* The items in the buffer, oldest first.
Content == [k \in 1..count |-> buffer[(use_ptr + k - 1) % MAX]]

=============================================================================
