----------------------------- MODULE PipeProofs -----------------------------
(***************************************************************************)
(* Proofs about the pipe: the order of the bytes, the life of the pipe and *)
(* end of file, for any processes, PIPESIZE and W.                         *)
(*                                                                         *)
(* The counters of the code wrap, so that none of InOrder's conjuncts is   *)
(* inductive as it stands.  Bytes ties the counters to the numbers of      *)
(* bytes written and read, which do not wrap; the lemmas on remainders say *)
(* that the tests the code makes on the wrapped counters decide the same.  *)
(***************************************************************************)
EXTENDS Pipe, Integers, TLAPS

-----------------------------------------------------------------------------
(* Quotients and remainders, for counters that wrap. *)

\* Quotient and remainder.
LEMMA DivMod ==
  ASSUME NEW a \in Nat, NEW m \in Nat \ {0}
  PROVE  /\ a \div m \in Nat /\ a % m \in Nat /\ a % m < m
         /\ a = m * (a \div m) + (a % m)
OBVIOUS

\* Multiplication distributes over addition.
LEMMA Distributes ==
  ASSUME NEW n \in Nat, NEW x \in Nat, NEW y \in Nat
  PROVE  n * (x + y) = n * x + n * y
OBVIOUS

\* Quotient and remainder are unique.
LEMMA DivUnique ==
  ASSUME NEW m \in Nat \ {0}, NEW q1 \in Int, NEW q2 \in Int, NEW r1 \in Int, NEW r2 \in Int,
         0 <= r1, r1 < m, 0 <= r2, r2 < m, m * q1 + r1 = m * q2 + r2
  PROVE  q1 = q2 /\ r1 = r2
<1>1. ASSUME NEW q \in Int, NEW r \in Int, q < r PROVE m * q + m <= m * r
  <2>1. q + 1 <= r
    BY <1>1
  <2>2. m * (q + 1) <= m * r
    BY <2>1, SMT
  <2> QED
    BY <2>2, SMT
<1>2. ~(q1 < q2)
  BY <1>1
<1>3. ~(q2 < q1)
  BY <1>1
<1> QED
  BY <1>2, <1>3

\* The remainder of a number given by quotient and remainder.
LEMMA ModIs ==
  ASSUME NEW m \in Nat \ {0}, NEW q \in Nat, NEW r \in Nat, r < m
  PROVE  (m * q + r) % m = r
<1>1. m * q + r \in Nat
  BY SMT
<1> QED
  BY <1>1, DivMod, DivUnique

\* Adding to a counter after or before it wraps comes to the same.
LEMMA ModAdd ==
  ASSUME NEW a \in Nat, NEW c \in Nat, NEW m \in Nat \ {0}
  PROVE  ((a % m) + c) % m = (a + c) % m
<1> DEFINE q == a \div m
           r == a % m
           q2 == (r + c) \div m
           r2 == (r + c) % m
<1>1. q \in Nat /\ r \in Nat /\ r < m /\ a = m * q + r
  BY DivMod
<1>2. q2 \in Nat /\ r2 \in Nat /\ r2 < m /\ r + c = m * q2 + r2
  <2>1. r + c \in Nat
    BY <1>1
  <2> HIDE DEF r
  <2> QED
    BY <2>1, DivMod, Zenon
<1> HIDE DEF q, r, q2, r2
<1>3. a + c = m * (q + q2) + r2
  BY <1>1, <1>2
<1>4. (a + c) % m = r2
  <2>1. q + q2 \in Nat
    BY <1>1, <1>2
  <2>2. (m * (q + q2) + r2) % m = r2
    BY <1>2, <2>1, ModIs, Zenon
  <2> QED
    BY <1>3, <2>2
<1> QED
  BY <1>4 DEF r2, r

\* A counter that wraps at a multiple of n has the remainders by n of one that
\* does not wrap.
LEMMA ModMod ==
  ASSUME NEW a \in Nat, NEW n \in Nat \ {0}, NEW m \in Nat \ {0}, m % n = 0
  PROVE  (a % m) % n = a % n
<1> DEFINE k == m \div n
           q == a \div m
           r == a % m
           q2 == r \div n
           r2 == r % n
<1>1. k \in Nat /\ m = n * k
  BY DivMod
<1>2. q \in Nat /\ r \in Nat /\ a = m * q + r
  BY DivMod
<1>3. q2 \in Nat /\ r2 \in Nat /\ r2 < n /\ r = n * q2 + r2
  <2> HIDE DEF r
  <2> QED
    BY <1>2, DivMod
<1> HIDE DEF k, q, r, q2, r2
<1>4. k * q \in Nat /\ m * q = n * (k * q)
  BY <1>1, <1>2
<1>5. a = n * ((k * q) + q2) + r2
  <2>1. n * ((k * q) + q2) = n * (k * q) + n * q2
    BY <1>3, <1>4, Distributes
  <2> QED
    BY <1>2, <1>3, <1>4, <2>1
<1>6. a % n = r2
  <2>1. (k * q) + q2 \in Nat
    BY <1>3, <1>4
  <2> QED
    BY <1>3, <1>5, <2>1, ModIs, Zenon
<1> QED
  BY <1>6 DEF r2, r

\* The difference of two counters, taken from their wrapped values.
LEMMA ModDiff ==
  ASSUME NEW a \in Nat, NEW b \in Nat, NEW m \in Nat \ {0}, a <= b, b - a < m
  PROVE  ((b % m) + m - (a % m)) % m = b - a
<1> DEFINE r == a % m
           c == b - a
<1>1. r \in Nat /\ r < m /\ c \in Nat /\ c < m
  BY DivMod
<1>2. b % m = (r + c) % m
  <2>1. a + c = b
    OBVIOUS
  <2> HIDE DEF c
  <2>2. ((a % m) + c) % m = (a + c) % m
    BY <1>1, ModAdd, Zenon
  <2> QED
    BY <2>1, <2>2
<1> HIDE DEF r, c
<1>3. CASE r + c < m
  <2>1. (r + c) % m = r + c
    <3>1. r + c = m * 0 + (r + c)
      BY <1>1
    <3> QED
      BY <1>1, <1>3, <3>1, ModIs
  <2>2. ((r + c) + m - r) % m = c
    <3>1. (r + c) + m - r = m * 1 + c
      BY <1>1
    <3> QED
      BY <1>1, <3>1, ModIs
  <2> QED
    BY <1>2, <2>1, <2>2, Zenon DEF r, c
<1>4. CASE r + c >= m
  <2>1. (r + c) % m = r + c - m
    <3>1. r + c = m * 1 + (r + c - m) /\ r + c - m \in Nat /\ r + c - m < m
      BY <1>1, <1>4
    <3> QED
      BY <1>1, <3>1, ModIs
  <2>2. ((r + c - m) + m - r) % m = c
    <3>1. (r + c - m) + m - r = m * 0 + c
      BY <1>1
    <3> QED
      BY <1>1, <3>1, ModIs
  <2> QED
    BY <1>2, <2>1, <2>2 DEF r, c
<1> QED
  BY <1>1, <1>3, <1>4

\* Counters less than a turn apart are equal when their wrapped values are.
LEMMA ModNear ==
  ASSUME NEW a \in Nat, NEW b \in Nat, NEW m \in Nat \ {0}, a <= b, b - a < m,
         a % m = b % m
  PROVE  a = b
<1>1. ((b % m) + m - (a % m)) % m = b - a
  BY ModDiff, Zenon
<1>2. (b % m) + m - (a % m) = m * 1 + 0
  BY DivMod
<1>3. (m * 1 + 0) % m = 0
  BY ModIs
<1> QED
  BY <1>1, <1>2, <1>3

-----------------------------------------------------------------------------
\* The types of what the other conjuncts speak of.
Types ==
  /\ data \in [0..PIPESIZE-1 -> Nat] /\ sent \in Nat /\ rcvd \in Seq(Nat)
  /\ readopen \in {0, 1} /\ writeopen \in {0, 1}
  /\ ends \in [Process -> SUBSET {"read", "write"}]
  /\ left \in [Process -> Nat] /\ cnt \in [Process -> Nat]
  /\ DOMAIN pc = Process

\* The counters are the numbers of bytes read and written, wrapped; nwrite is
\* at most PIPESIZE ahead, and byte j + 1 lies at j % PIPESIZE until it is read.
Bytes ==
  /\ nread = Len(rcvd) % W /\ nwrite = sent % W
  /\ Len(rcvd) <= sent /\ sent - Len(rcvd) <= PIPESIZE
  /\ \A k \in 1..Len(rcvd) : rcvd[k] = k
  /\ \A j \in Nat : Len(rcvd) <= j /\ j < sent => data[j % PIPESIZE] = j + 1

\* Who is past acquire() has the lock.
Locked ==
  \A t \in Process :
    pc[t] \in {"w_loop", "w_sleep", "r_wait", "r_sleep", "r_copy"} => lock = t

\* An end is open while a process has an open file for it, a process in a call
\* has one, and the pipe is freed only after both ends are closed.
Open ==
  /\ \A t \in Process :
       /\ "read" \in ends[t] => readopen = 1
       /\ "write" \in ends[t] => writeopen = 1
       /\ pc[t] \in {"w_lock", "w_loop", "w_sleep"} => "write" \in ends[t]
       /\ pc[t] \in {"r_lock", "r_wait", "r_sleep", "r_copy"} => "read" \in ends[t]
       /\ pc[t] \in {"user", "w_lock", "w_loop", "w_sleep",
                     "r_lock", "r_wait", "r_sleep", "r_copy"}
  /\ freed = 1 => readopen = 0 /\ writeopen = 0

\* A reader that waits has read nothing and has bytes to read; one that has
\* left the wait with nothing read has found bytes or no writer.
Copying ==
  \A t \in Process :
    /\ pc[t] \in {"r_lock", "r_wait", "r_sleep"} => cnt[t] = 0 /\ left[t] > 0
    /\ pc[t] = "r_copy" /\ cnt[t] = 0 => left[t] > 0 /\ ~(Empty /\ writeopen = 1)

\* The inductive invariant of a pipe.
PipeInv == Types /\ Bytes /\ Locked /\ Open /\ Copying

-----------------------------------------------------------------------------
\* The sizes, in the form in which the lemmas on counters take them.
LEMMA SizeFacts ==
  /\ PIPESIZE \in Nat \ {0} /\ W \in Nat \ {0} /\ PIPESIZE < W /\ W % PIPESIZE = 0
BY PipeAssumption

\* How far the writers are ahead of the readers.
LEMMA Ahead ==
  ASSUME Types, Bytes
  PROVE  /\ Len(rcvd) \in Nat /\ sent \in Nat /\ Len(rcvd) <= sent
         /\ sent - Len(rcvd) <= PIPESIZE /\ sent - Len(rcvd) < W
<1>1. Len(rcvd) \in Nat /\ sent \in Nat
  BY DEF Types
<1>2. Len(rcvd) <= sent /\ sent - Len(rcvd) <= PIPESIZE
  BY Zenon DEF Bytes
<1> QED
  BY <1>1, <1>2, SizeFacts

\* pipewrite()'s test for a full pipe on the wrapped counters.
LEMMA FullMeans ==
  ASSUME Types, Bytes
  PROVE  Full <=> sent - Len(rcvd) = PIPESIZE
<1> DEFINE r == Len(rcvd)
<1>1. r \in Nat /\ sent \in Nat /\ r <= sent /\ sent - r <= PIPESIZE
  BY Ahead, Zenon
<1>2. nread = r % W /\ nwrite = sent % W
  BY Zenon DEF Bytes
<1> HIDE DEF r
<1>3. ((r % W) + PIPESIZE) % W = (r + PIPESIZE) % W
  BY <1>1, SizeFacts, ModAdd, Zenon
<1>4. Full <=> sent % W = (r + PIPESIZE) % W
  BY <1>2, <1>3, Zenon DEF Full
<1>5. sent % W = (r + PIPESIZE) % W => sent = r + PIPESIZE
  <2>1. r + PIPESIZE \in Nat /\ sent <= r + PIPESIZE /\ (r + PIPESIZE) - sent < W
    BY <1>1, SizeFacts
  <2> QED
    BY <1>1, <2>1, SizeFacts, ModNear, Zenon
<1> QED
  BY <1>1, <1>4, <1>5, SizeFacts DEF r

\* The test for an empty pipe on the wrapped counters.
LEMMA EmptyMeans ==
  ASSUME Types, Bytes
  PROVE  Empty <=> sent = Len(rcvd)
<1> DEFINE r == Len(rcvd)
<1>1. r \in Nat /\ sent \in Nat /\ r <= sent /\ sent - r < W
  BY Ahead, Zenon
<1>2. nread = r % W /\ nwrite = sent % W
  BY Zenon DEF Bytes
<1> HIDE DEF r
<1>3. r % W = sent % W => r = sent
  BY <1>1, SizeFacts, ModNear, Zenon
<1> QED
  BY <1>2, <1>3, Zenon DEF Empty, r

\* The inductive invariant implies what the reader is promised.
LEMMA BytesInOrder ==
  ASSUME Types, Bytes
  PROVE  InOrder
<1> DEFINE r == Len(rcvd)
<1>1. r \in Nat /\ sent \in Nat /\ r <= sent /\ sent - r <= PIPESIZE /\ sent - r < W
  BY Ahead, Zenon
<1>2. nread = r % W /\ nwrite = sent % W
  BY Zenon DEF Bytes
<1>3. Used = sent - r
  <2> HIDE DEF r
  <2>1. ((sent % W) + W - (r % W)) % W = sent - r
    BY <1>1, SizeFacts, ModDiff, Zenon
  <2> QED
    BY <1>2, <2>1, Zenon DEF Used
<1>4. ASSUME NEW k \in 0..Used-1
      PROVE  data[(nread + k) % PIPESIZE] = r + 1 + k
  <2>1. k \in Nat /\ r + k \in Nat /\ r <= r + k /\ r + k < sent
    BY <1>1, <1>3, <1>4
  <2>2. (nread + k) % PIPESIZE = (r + k) % PIPESIZE
    <3> HIDE DEF r
    <3>1. r % W \in Nat
      BY <1>1, SizeFacts, DivMod, Zenon
    <3>2. (((r % W) % PIPESIZE) + k) % PIPESIZE = ((r % W) + k) % PIPESIZE
      BY <2>1, <3>1, SizeFacts, ModAdd
    <3>3. (r % W) % PIPESIZE = r % PIPESIZE
      BY <1>1, SizeFacts, ModMod, Zenon
    <3>4. ((r % PIPESIZE) + k) % PIPESIZE = (r + k) % PIPESIZE
      BY <1>1, <2>1, SizeFacts, ModAdd, ZenonT(30)
    <3> QED
      BY <1>2, <3>2, <3>3, <3>4, Zenon
  <2>3. data[(r + k) % PIPESIZE] = (r + k) + 1
    BY <2>1, Zenon DEF Bytes
  <2> QED
    BY <1>1, <2>1, <2>2, <2>3
<1> QED
  BY <1>1, <1>3, <1>4 DEF InOrder, Bytes

-----------------------------------------------------------------------------
\* A step that touches neither the buffer nor the counters keeps the bytes.
LEMMA BytesStay ==
  ASSUME Bytes, UNCHANGED <<data, nread, nwrite, sent, rcvd>>
  PROVE  Bytes'
BY Zenon DEF Bytes

\* A byte enters: it takes a place that no unread byte lies at.
LEMMA ByteEnters ==
  ASSUME PipeInv, NEW t \in Process, w_byte(t)
  PROVE  Bytes'
<1> DEFINE r == Len(rcvd)
<1> USE DEF PipeInv
<1>1. r \in Nat /\ sent \in Nat /\ r <= sent /\ sent - r <= PIPESIZE
  BY Ahead, Zenon
<1>2. sent - r < PIPESIZE
  BY <1>1, SizeFacts, FullMeans DEF w_byte
<1>3. nwrite' = sent' % W /\ sent' = sent + 1
  <2>1. nwrite' = ((sent % W) + 1) % W /\ sent' = sent + 1
    BY Zenon DEF w_byte, Bytes
  <2> HIDE DEF r, PipeInv
  <2>2. ((sent % W) + 1) % W = (sent + 1) % W
    BY <1>1, SizeFacts, ModAdd
  <2> QED
    BY <2>1, <2>2, Zenon
<1>4. nwrite % PIPESIZE = sent % PIPESIZE /\ sent % PIPESIZE \in 0..PIPESIZE-1
  <2>1. (sent % W) % PIPESIZE = sent % PIPESIZE
    BY <1>1, SizeFacts, ModMod, Zenon
  <2>2. sent % PIPESIZE \in Nat /\ sent % PIPESIZE < PIPESIZE
    BY <1>1, SizeFacts, DivMod, Zenon
  <2> QED
    BY <2>1, <2>2, SizeFacts DEF Bytes
<1>5. data' = [data EXCEPT ![sent % PIPESIZE] = sent + 1]
  BY <1>4, Zenon DEF w_byte
<1>6. ASSUME NEW j \in Nat, r <= j, j < sent + 1
      PROVE  data'[j % PIPESIZE] = j + 1
  <2>1. CASE j = sent
    BY <1>4, <1>5, <2>1, Zenon DEF Types
  <2>2. CASE j < sent
    <3>1. j % PIPESIZE # sent % PIPESIZE
      <4>1. j <= sent /\ sent - j < PIPESIZE /\ j # sent
        BY <1>1, <1>2, <1>6, <2>2, SizeFacts
      <4> QED
        BY <1>1, <4>1, SizeFacts, ModNear, Zenon
    <3>2. data'[j % PIPESIZE] = data[j % PIPESIZE]
      <4>1. j % PIPESIZE \in 0..PIPESIZE-1
        <5>1. j % PIPESIZE \in Nat /\ j % PIPESIZE < PIPESIZE
          BY SizeFacts, DivMod, Zenon
        <5> QED
          BY <5>1, SizeFacts
      <4> HIDE DEF PipeInv
      <4>2. data \in [0..PIPESIZE-1 -> Nat]
        BY Zenon DEF PipeInv, Types
      <4> QED
        BY <1>5, <3>1, <4>1, <4>2, Zenon
    <3> QED
      BY <1>6, <2>2, <3>2, Zenon DEF Bytes
  <2> QED
    BY <1>1, <1>6, <2>1, <2>2
<1>7. rcvd' = rcvd /\ nread' = nread
  BY Zenon DEF w_byte
<1>8. Len(rcvd') <= sent' /\ sent' - Len(rcvd') <= PIPESIZE
  BY <1>1, <1>2, <1>3, <1>7, SizeFacts
<1> QED
  BY <1>3, <1>6, <1>7, <1>8, Zenon DEF Bytes

\* A byte leaves: it is the one that comes next.
LEMMA ByteLeaves ==
  ASSUME PipeInv, NEW t \in Process, r_byte(t)
  PROVE  Bytes' /\ rcvd' \in Seq(Nat)
<1> DEFINE r == Len(rcvd)
<1> USE DEF PipeInv
<1>1. r \in Nat /\ sent \in Nat /\ r <= sent /\ sent - r <= PIPESIZE
  BY Ahead, Zenon
<1>2. r < sent
  BY <1>1, EmptyMeans DEF r_byte
<1>3. nread % PIPESIZE = r % PIPESIZE
  BY <1>1, SizeFacts, ModMod, Zenon DEF Bytes
<1>4. data[nread % PIPESIZE] = r + 1
  BY <1>1, <1>2, <1>3 DEF Bytes
<1>5. rcvd' = Append(rcvd, r + 1)
  BY <1>4, Zenon DEF r_byte
<1>6. /\ rcvd' \in Seq(Nat) /\ Len(rcvd') = r + 1 /\ rcvd'[r + 1] = r + 1
      /\ \A k \in 1..r : rcvd'[k] = rcvd[k]
  BY <1>1, <1>5 DEF Types
<1>7. nread' = Len(rcvd') % W
  <2>1. nread' = ((r % W) + 1) % W
    BY Zenon DEF r_byte, Bytes
  <2> HIDE DEF r
  <2>2. ((r % W) + 1) % W = (r + 1) % W
    BY <1>1, SizeFacts, ModAdd
  <2> QED
    BY <1>6, <2>1, <2>2, Zenon
<1>8. \A k \in 1..Len(rcvd') : rcvd'[k] = k
  <2>1. \A k \in 1..r : rcvd[k] = k
    BY Zenon DEF Bytes
  <2>2. \A k \in 1..(r + 1) : k \in 1..r \/ k = r + 1
    BY <1>1
  <2> QED
    BY <1>6, <2>1, <2>2, Zenon
<1>9. data' = data /\ sent' = sent /\ nwrite' = nwrite
  BY Zenon DEF r_byte
<1>10. \A j \in Nat : Len(rcvd') <= j /\ j < sent' => data'[j % PIPESIZE] = j + 1
  <2>1. \A j \in Nat : r + 1 <= j => r <= j
    BY <1>1
  <2> QED
    BY <1>6, <1>9, <2>1, Zenon DEF Bytes
<1>11. Len(rcvd') <= sent' /\ sent' - Len(rcvd') <= PIPESIZE
  BY <1>1, <1>2, <1>6, <1>9, SizeFacts
<1> QED
  BY <1>6, <1>7, <1>8, <1>9, <1>10, <1>11, Zenon DEF Bytes

\* The first state.
LEMMA InitHolds == Init => PipeInv
<1> SUFFICES ASSUME Init PROVE PipeInv
  BY Zenon
<1>1. Types
  BY SizeFacts DEF Init, Types
<1>2. Bytes
  <2>1. 0 % W = 0
    <3>1. 0 = W * 0 + 0
      BY SizeFacts
    <3> QED
      BY <3>1, SizeFacts, ModIs
  <2>2. sent = 0 /\ rcvd = <<>> /\ nread = 0 /\ nwrite = 0
    BY Zenon DEF Init
  <2> QED
    BY <2>1, <2>2, SizeFacts DEF Bytes
<1>3. Locked /\ Copying
  BY Zenon DEF Init, Locked, Copying
<1>4. Open
  BY Zenon DEF Init, Open
<1> QED
  BY <1>1, <1>2, <1>3, <1>4, Zenon DEF PipeInv

\* A process in user mode starts a call.
LEMMA CallHolds ==
  ASSUME PipeInv, NEW t \in Process, NEW n \in Nat \ {0},
         NEW end, NEW l, call(t, end, n, l),
         \/ end = "write" /\ l = "w_lock"
         \/ end = "read" /\ l = "r_lock"
  PROVE  PipeInv'
<1> USE DEF PipeInv, pipeVars
<1>1. /\ end \in ends[t] /\ pc[t] = "user"
      /\ left' = [left EXCEPT ![t] = n] /\ cnt' = [cnt EXCEPT ![t] = 0]
      /\ pc' = [pc EXCEPT ![t] = l]
      /\ UNCHANGED <<pipeVars, lock, ends, sent, rcvd>>
  BY Zenon DEF call, At, Goto
<1>2. Types'
  BY <1>1, Zenon DEF Types
<1>3. Bytes'
  BY <1>1, BytesStay, Zenon
<1>4. Locked'
  BY <1>1, Zenon DEF Locked, Types
<1>5. Open'
  BY <1>1, ZenonT(30) DEF Open, Types
<1>6. Copying'
  <2>1. cnt'[t] = 0 /\ left'[t] > 0 /\ pc'[t] # "r_copy"
    BY <1>1 DEF Types
  <2>2. \A u \in Process \ {t} : pc'[u] = pc[u] /\ cnt'[u] = cnt[u] /\ left'[u] = left[u]
    BY <1>1, Zenon DEF Types
  <2> QED
    BY <1>1, <2>1, <2>2, Zenon DEF Copying, Empty
<1> QED
  BY <1>2, <1>3, <1>4, <1>5, <1>6, Zenon

\* A process takes the lock, or gives it up to sleep.
LEMMA LockHolds ==
  ASSUME PipeInv, NEW t \in Process,
         w_lock(t) \/ w_sleep(t) \/ r_lock(t) \/ r_sleep(t)
  PROVE  PipeInv'
<1> USE DEF PipeInv, w_lock, w_sleep, r_lock, r_sleep, acquire, sleep, At, Goto,
            pipeVars
<1>1. Types'
  BY Zenon DEF Types
<1>2. Bytes'
  BY BytesStay, Zenon
<1>3. Locked'
  BY PipeAssumption, ZenonT(30) DEF Locked, Types
<1>4. Open'
  BY ZenonT(30) DEF Open, Types
<1>5. Copying'
  BY DEF Copying, Types, Empty
<1> QED
  BY <1>1, <1>2, <1>3, <1>4, <1>5, Zenon

\* A process leaves the loop it is in.
LEMMA LeaveHolds ==
  ASSUME PipeInv, NEW t \in Process,
         w_full(t) \/ w_done(t) \/ r_wait(t) \/ r_done(t)
  PROVE  PipeInv'
<1> USE DEF PipeInv, w_full, w_done, r_wait, r_done, return, At, Goto, pipeVars
<1>1. Types'
  BY Zenon DEF Types
<1>2. Bytes'
  BY BytesStay, Zenon
<1>3. Locked'
  BY PipeAssumption, SMTT(30) DEF Locked, Types
<1>4. Open'
  BY ZenonT(30) DEF Open, Types
<1>5. Copying'
  BY DEF Copying, Types, Empty
<1> QED
  BY <1>1, <1>2, <1>3, <1>4, <1>5, Zenon

\* A byte is copied.
LEMMA ByteHolds ==
  ASSUME PipeInv, NEW t \in Process, w_byte(t) \/ r_byte(t)
  PROVE  PipeInv'
<1>1. CASE w_byte(t)
  <2> USE DEF PipeInv, w_byte, At
  <2>1. Types'
    <3>1. data' \in [0..PIPESIZE-1 -> Nat] /\ sent' \in Nat
      <4> DEFINE k == nwrite % PIPESIZE
                 P == 0..PIPESIZE-1
      <4>1. data \in [P -> Nat] /\ sent + 1 \in Nat
        BY DEF Types
      <4>2. data' = [data EXCEPT ![k] = sent + 1] /\ sent' = sent + 1
        BY <1>1, Zenon
      <4> HIDE DEF k, P, PipeInv, w_byte
      <4>3. data' \in [P -> Nat] /\ sent' \in Nat
        BY <4>1, <4>2, Zenon
      <4> QED
        BY <4>3, Zenon DEF P
    <3>2. left' \in [Process -> Nat]
      BY <1>1 DEF Types
    <3> QED
      BY <1>1, <3>1, <3>2, Zenon DEF Types
  <2>2. Bytes'
    BY <1>1, ByteEnters, Zenon
  <2>3. Locked' /\ Open'
    BY <1>1, Zenon DEF Locked, Open
  <2>4. Copying'
    BY <1>1, Zenon DEF Copying, Locked, Types, Empty
  <2> QED
    BY <2>1, <2>2, <2>3, <2>4, Zenon
<1>2. CASE r_byte(t)
  <2> USE DEF PipeInv, r_byte, At
  <2>1. Bytes' /\ rcvd' \in Seq(Nat)
    BY <1>2, ByteLeaves, Zenon
  <2>2. Types'
    BY <1>2, <2>1 DEF Types
  <2>3. Locked' /\ Open'
    BY <1>2, Zenon DEF Locked, Open
  <2>4. Copying'
    BY <1>2 DEF Copying, Locked, Types, Empty
  <2> QED
    BY <2>1, <2>2, <2>3, <2>4, Zenon
<1> QED
  BY <1>1, <1>2, Zenon

\* An end is closed.
LEMMA CloseHolds ==
  ASSUME PipeInv, NEW t \in Process, NEW end \in {"read", "write"}, close(t, end)
  PROVE  PipeInv'
<1> USE DEF PipeInv, close, pipeclose, At, pipeVars
<1>1. Types'
  BY SMTT(30) DEF Types
<1>2. Bytes'
  BY BytesStay, SMTT(30)
<1>3. Locked'
  BY SMTT(30) DEF Locked
<1>4. Open'
  BY DEF Open, Types, Holders
<1>5. Copying'
  BY PipeAssumption, Zenon DEF Copying, Locked, Empty
<1> QED
  BY <1>1, <1>2, <1>3, <1>4, <1>5, Zenon

\* No step breaks the invariant.
LEMMA StepHolds == PipeInv /\ [Next]_vars => PipeInv'
<1> SUFFICES ASSUME PipeInv, [Next]_vars PROVE PipeInv'
  BY Zenon
<1>1. CASE UNCHANGED vars
  BY <1>1, Zenon DEF PipeInv, Types, Bytes, Locked, Open, Copying, Empty, vars, pipeVars
<1>2. ASSUME NEW t \in Process, InKernel(t) PROVE PipeInv'
  BY <1>2, LockHolds, LeaveHolds, ByteHolds, Zenon DEF InKernel
<1>3. ASSUME NEW t \in Process, NEW n \in Sizes, pipewrite(t, n) \/ piperead(t, n)
      PROVE  PipeInv'
  <2>1. n \in Nat \ {0}
    BY PipeAssumption, Zenon
  <2> QED
    BY <1>3, <2>1, CallHolds, Zenon DEF pipewrite, piperead
<1>4. ASSUME NEW t \in Process, kill(t) PROVE PipeInv'
  BY <1>4 DEF PipeInv, Types, Bytes, Locked, Open, Copying, Empty, kill, pipeVars
<1> QED
  BY <1>1, <1>2, <1>3, <1>4, CloseHolds, Zenon DEF Next

\* The invariant holds in every reachable state, for any processes, any size of
\* the buffer and any width of the counters that is a multiple of it.
THEOREM PipeInvariant == Spec => []PipeInv
BY InitHolds, StepHolds, PTL DEF Spec

\* Bytes come out of a pipe once each and in the order in which pipewrite() put
\* them in, also after the counters have wrapped.
THEOREM InOrderHolds == Spec => []InOrder
<1>1. PipeInv => InOrder
  BY BytesInOrder, Zenon DEF PipeInv
<1> QED
  BY <1>1, PipeInvariant, PTL

\* pipeclose() does not free a pipe that a process is in a call of or has an
\* open file for.
THEOREM NoUseAfterFreeHolds == Spec => []NoUseAfterFree
<1>1. ASSUME PipeInv, freed = 1, NEW t \in Process
      PROVE  pc[t] = "user" /\ ends[t] = {}
  <2>1. readopen = 0 /\ writeopen = 0
    BY <1>1, Zenon DEF PipeInv, Open
  <2>2. "read" \notin ends[t] /\ "write" \notin ends[t]
    BY <1>1, <2>1 DEF PipeInv, Open
  <2>3. ends[t] = {}
    <3>1. ends[t] \subseteq {"read", "write"}
      BY <1>1, Zenon DEF PipeInv, Types
    <3> QED
      BY <2>2, <3>1, Zenon
  <2>4. pc[t] = "user"
    BY <1>1, <2>2, Zenon DEF PipeInv, Open
  <2> QED
    BY <2>3, <2>4, Zenon
<1>2. PipeInv => NoUseAfterFree
  BY <1>1, Zenon DEF NoUseAfterFree
<1> QED
  BY <1>2, PipeInvariant, PTL

\* piperead() returns no bytes to a process that was not killed only at end of
\* file.
THEOREM ZeroMeansEofHolds == Spec => ZeroMeansEof
<1> DEFINE Eof == \A t \in Process :
                    pc[t] = "r_copy" /\ pc'[t] = "user" /\ cnt'[t] = 0 =>
                      Empty /\ writeopen = 0 /\ Holders("write") = {}
<1>1. PipeInv /\ [Next]_vars => [Eof]_vars
  <2> SUFFICES ASSUME PipeInv, Next, NEW t \in Process,
                      pc[t] = "r_copy", pc'[t] = "user", cnt'[t] = 0
               PROVE  Empty /\ writeopen = 0 /\ Holders("write") = {}
    BY Zenon
  <2>1. r_done(t)
    <3> USE DEF PipeInv, Types, At, Goto
    <3>1. pc'[t] # pc[t]
      BY Zenon
    <3>2. ASSUME NEW u \in Process, InKernel(u) PROVE u = t /\ r_done(t)
      BY <3>1, <3>2, Zenon DEF InKernel, w_lock, w_byte, w_full, w_sleep, w_done, r_lock,
                        r_wait, r_sleep, r_byte, r_done, acquire, sleep, return
    <3>3. ASSUME NEW u \in Process, NEW n, pipewrite(u, n) \/ piperead(u, n)
          PROVE  FALSE
      BY <3>1, <3>3, Zenon DEF pipewrite, piperead, call
    <3>4. ASSUME NEW u \in Process, kill(u) \/ \E end \in {"read", "write"} : close(u, end)
          PROVE  FALSE
      BY <3>1, <3>4, Zenon DEF kill, close
    <3> QED
      BY <3>2, <3>3, <3>4, Zenon DEF Next
  <2>2. left[t] > 0 /\ ~(Empty /\ writeopen = 1)
    BY <2>1, Zenon DEF PipeInv, Copying, r_done
  <2>3. Empty /\ writeopen = 0
    BY <2>1, <2>2 DEF r_done, PipeInv, Types
  <2> QED
    BY <2>3 DEF PipeInv, Open, Holders
<1> QED
  BY <1>1, PipeInvariant, PTL DEF Spec, ZeroMeansEof

====
