----------------------------- MODULE HeapProofs -----------------------------
(***************************************************************************)
(* The heap, for any threads, requests and memory: malloc() never gives    *)
(* out a block that touches another in use, and no unit is lost.           *)
(*                                                                         *)
(* HeapInv says what is true between any two steps: the free list is       *)
(* sorted and merged, the free and the owned blocks tile the memory, a     *)
(* block has one owner, and a thread inside the library stands at a block  *)
(* of the list.  That malloc() gives out a block apart from the others     *)
(* needs all four.                                                         *)
(***************************************************************************)
EXTENDS Heap, TLAPS

-----------------------------------------------------------------------------
(* Lists of blocks, and the room that blocks take. *)

\* c lies between b and the block n behind b in a circular list: Place().
Between(c, b, n) ==
  \/ c > b /\ c < n
  \/ b >= n /\ (c > b \/ c < n)

\* The list of the blocks in F, where p leads from each to the next, runs once
\* round through rising addresses.
Sorted(F, p) == \A b \in F : p[b] \in F /\ \A c \in F : ~Between(c, b, p[b])

\* The blocks in A, with their sizes s, lie below z and apart from each other.
Apart(A, s, z) ==
  \A a \in A : /\ a >= Bottom /\ s[a] > 0 /\ a + s[a] <= z
               /\ \A b \in A : a < b => a + s[a] <= b

\* No unit below z is in none of them.
Covered(A, s, z) == \A u \in Bottom..z - 1 : \E a \in A : a <= u /\ u < a + s[a]

-----------------------------------------------------------------------------
(* The invariant. *)

Sizes == Request \cup {Stack}

\* The blocks of the free list: only their headers lead anywhere.
Free == {a \in Addr : ptr[a] # Null}

InLock == {"f_walk", "core_walk", "m_walk", "sbrk", "dead"}
Freeing == {"f_lock", "f_walk", "core_walk"}

\* The owner of a block: the program, a thread that stands on it, a call.
Used(a) ==
  \/ \E t \in Thread : a \in mine[t]
  \/ \E w \in Worker : stack[w] = a
  \/ \E t \in Thread : fr[t].pc = "clone" /\ fr[t].bp = a

InCall(a, t) == fr[t].pc \in Freeing \cup {"clone"} /\ fr[t].bp = a

Held(a) == Used(a) \/ \E t \in Thread : InCall(a, t)

\* It has one owner.
Once(a) ==
  /\ \A t, u \in Thread : a \in mine[t] /\ a \in mine[u] => t = u
  /\ \A t, u \in Thread : InCall(a, t) /\ InCall(a, u) => t = u
  /\ \A w, v \in Worker : stack[w] = a /\ stack[v] = a => w = v
  /\ \A t, u \in Thread : ~(a \in mine[t] /\ InCall(a, u))
  /\ \A w \in Worker, t \in Thread : stack[w] = a => a \notin mine[t] /\ ~InCall(a, t)

Blocks == {a \in Addr : (a \in Free /\ a # Base) \/ Held(a)}

Places == InLock \cup Freeing \cup {"user", "m_lock", "clone"}

Frame == [pc : Places, worker : Worker \cup {None}, nunits : Nat, bp : Nat,
          p : Addr \cup {Null}, prevp : Addr \cup {Null}]

HeapTypes ==
  /\ ptr \in [Addr -> Addr \cup {Null}] /\ size \in [Addr -> Nat]
  /\ freep \in Addr \cup {Null} /\ mallocLock \in Thread \cup {None}
  /\ sz \in Nat /\ sz >= Bottom /\ sz <= Top + 1
  /\ fr \in [Thread -> Frame]
  /\ mine \in [Thread -> SUBSET Addr]
  /\ stack \in [Worker -> Addr \cup {Null, None}]
  /\ zombie \subseteq Worker

\* The free list, empty before the first malloc(), no two blocks of which touch.
ListInv ==
  /\ Sorted(Free, ptr)
  /\ freep = Null => Free = {} /\ sz = Bottom
  /\ freep # Null => freep \in Free /\ Base \in Free
  /\ size[Base] = 0
  /\ \A b \in Free : b + size[b] # ptr[b] \/ b = Base

\* Blocks lie apart, and leave no gap.
SpaceInv == Apart(Blocks, size, sz) /\ Covered(Blocks, size, sz)

\* A block is free or somebody's, and not of two; malloc() gives what is asked for.
OwnInv ==
  \A a \in Addr : /\ Once(a)
                  /\ Held(a) => ptr[a] = Null
                  /\ Used(a) => size[a] \in Sizes

\* What a thread in the library knows.
CallInv(t) ==
  /\ fr[t].pc \in InLock <=> mallocLock = t
  /\ fr[t].pc \in InLock => freep # Null
  /\ fr[t].pc \in InLock \ {"sbrk"} => fr[t].p \in Free
  /\ fr[t].pc = "m_walk" => fr[t].prevp \in Free /\ ptr[fr[t].prevp] = fr[t].p
  /\ fr[t].pc = "sbrk" => fr[t].bp = sz
  /\ fr[t].pc \in Freeing => fr[t].bp \in Addr \cup {Wild}
  /\ fr[t].pc = "core_walk" => fr[t].bp \in Addr
  /\ fr[t].pc = "clone" => fr[t].bp \in Addr \cup {Null}
  /\ fr[t].pc \in {"m_lock", "m_walk", "sbrk", "core_walk"} => fr[t].nunits \in Sizes
  /\ fr[t].worker # None => t = Main /\ stack[fr[t].worker] = None

HeapInv ==
  /\ HeapTypes /\ ListInv /\ SpaceInv /\ OwnInv
  /\ \A t \in Thread : CallInv(t)
  /\ \A w \in zombie : stack[w] # None

\* A thread has no stack only if malloc() failed, which has begun the list: free(0)
\* has a list to walk.
NullInv ==
  /\ \A t \in Thread : fr[t].pc = "clone" \/ (fr[t].pc = "f_lock" /\ fr[t].bp = Wild) => freep # Null
  /\ \A w \in Worker : stack[w] = Null => freep # Null

-----------------------------------------------------------------------------
(* Lists and room. *)

\* A block is put where it belongs.
LEMMA SortedInsert ==
  ASSUME NEW F \in SUBSET Nat, NEW p, NEW r, NEW q \in F, NEW b \in Nat,
         Sorted(F, p), b \notin F, Between(b, q, p[q]),
         r[q] = b, r[b] = p[q], \A c \in F : c # q => r[c] = p[c]
  PROVE  Sorted(F \cup {b}, r)
<1>1. p[q] \in F /\ \A c \in F : ~Between(c, q, p[q])
  BY Zenon DEF Sorted
<1>2. ASSUME NEW c \in F \cup {b} PROVE ~Between(c, q, b) /\ ~Between(c, b, p[q])
  <2>1. c \in Nat /\ q \in Nat /\ p[q] \in Nat /\ (c = b \/ ~Between(c, q, p[q]))
    BY <1>1, Zenon
  <2>2. c = q => ~Between(c, q, b)
    BY <2>1 DEF Between
  <2> QED
    BY <2>1, <2>2 DEF Between
<1>3. ASSUME NEW d \in F, d # q PROVE p[d] \in F /\ \A c \in F \cup {b} : ~Between(c, d, p[d])
  <2>1. p[d] \in F /\ \A c \in F : ~Between(c, d, p[d])
    BY <1>3, Zenon DEF Sorted
  <2>2. ~Between(d, q, p[q]) /\ ~Between(p[d], q, p[q]) /\ ~Between(q, d, p[d])
        /\ ~Between(p[q], d, p[d])
    BY <1>1, <2>1, Zenon
  <2>3. q \in Nat /\ d \in Nat /\ p[q] \in Nat /\ p[d] \in Nat
    BY <1>1, <2>1, Zenon
  <2>4. ~Between(b, d, p[d])
    BY <1>3, <2>2, <2>3 DEF Between
  <2> QED
    BY <2>1, <2>4, Zenon
<1> QED
  BY <1>1, <1>2, <1>3 DEF Sorted

\* The block behind x leaves the list.
LEMMA SortedRemove ==
  ASSUME NEW F \in SUBSET Nat, NEW p, NEW r, NEW x \in F, NEW y,
         Sorted(F, p), y = p[x], y # x,
         r[x] = p[y], \A c \in F : c # x /\ c # y => r[c] = p[c]
  PROVE  Sorted(F \ {y}, r)
<1>1. y \in F /\ \A c \in F : ~Between(c, x, y)
  BY Zenon DEF Sorted
<1>2. p[y] \in F /\ \A c \in F : ~Between(c, y, p[y])
  BY <1>1, Zenon DEF Sorted
<1>3. p[y] # y
  <2>1. x \in Nat /\ y \in Nat /\ p[y] \in Nat /\ ~Between(x, y, p[y])
    BY <1>1, <1>2, Zenon
  <2> QED
    BY <2>1 DEF Between
<1>4. ASSUME NEW c \in F \ {y} PROVE ~Between(c, x, p[y])
  <2>1. ~Between(c, x, y) /\ ~Between(c, y, p[y]) /\ ~Between(x, y, p[y]) /\ ~Between(p[y], x, y)
    BY <1>1, <1>2, Zenon
  <2>2. c \in Nat /\ x \in Nat /\ y \in Nat /\ p[y] \in Nat /\ c # y
    BY <1>1, <1>2, Zenon
  <2> QED
    BY <1>3, <2>1, <2>2 DEF Between
<1>5. ASSUME NEW d \in F \ {y}, d # x PROVE p[d] \in F \ {y} /\ \A c \in F : ~Between(c, d, p[d])
  <2>1. p[d] \in F /\ \A c \in F : ~Between(c, d, p[d])
    BY <1>5, Zenon DEF Sorted
  <2>2. ~Between(d, x, y) /\ ~Between(x, d, p[d])
    BY <1>1, <2>1, Zenon
  <2>3. p[d] # y
    BY <1>1, <1>5, <2>1, <2>2 DEF Between
  <2> QED
    BY <2>1, <2>3, Zenon
<1> QED
  BY <1>2, <1>3, <1>4, <1>5 DEF Sorted

\* Two blocks that touch become one.
LEMMA RoomMerge ==
  ASSUME NEW A \in SUBSET Nat, NEW s, NEW v, NEW z \in Nat, NEW x \in A, NEW y \in A,
         \A a \in A : s[a] \in Nat, Apart(A, s, z), Covered(A, s, z), x + s[x] = y,
         v[x] = s[x] + s[y], \A a \in A : a # x /\ a # y => v[a] = s[a]
  PROVE  Apart(A \ {y}, v, z) /\ Covered(A \ {y}, v, z)
<1>0. x # y
  BY DEF Apart
<1>1. ASSUME NEW a \in A \ {y}
      PROVE  /\ a >= Bottom /\ v[a] > 0 /\ a + v[a] <= z
             /\ \A b \in A \ {y} : a < b => a + v[a] <= b
  <2>1. CASE a = x
    <3>1. ASSUME NEW b \in A \ {y}, x < b PROVE y + s[y] <= b
      BY <3>1 DEF Apart
    <3>2. x >= Bottom /\ v[x] > 0 /\ y + s[y] <= z
      BY DEF Apart
    <3> QED
      BY <2>1, <3>1, <3>2
  <2>2. CASE a # x
    BY <2>2, Zenon DEF Apart
  <2> QED
    BY <2>1, <2>2, Zenon
<1>2. ASSUME NEW u \in Bottom..z - 1 PROVE \E a \in A \ {y} : a <= u /\ u < a + v[a]
  <2>1. PICK a \in A : a <= u /\ u < a + s[a]
    BY Zenon DEF Covered
  <2>2. CASE a # x /\ a # y
    BY <2>1, <2>2
  <2>3. CASE a = x \/ a = y
    <3>1. x <= u /\ u < x + v[x]
      BY <2>1, <2>3 DEF Bottom
    <3> QED
      BY <1>0, <3>1
  <2> QED
    BY <2>2, <2>3, Zenon
<1> QED
  BY <1>1, <1>2, Zenon DEF Apart, Covered

\* The last k units of a block become one of their own.
LEMMA RoomSplit ==
  ASSUME NEW A \in SUBSET Nat, NEW s, NEW v, NEW z \in Nat, NEW x \in A, NEW k \in Nat, NEW y \in Nat,
         \A a \in A : s[a] \in Nat, Apart(A, s, z), Covered(A, s, z), k > 0, k < s[x],
         y + k = x + s[x], v[x] = s[x] - k, v[y] = k, \A a \in A : a # x => v[a] = s[a]
  PROVE  y \notin A /\ Apart(A \cup {y}, v, z) /\ Covered(A \cup {y}, v, z)
<1>1. y \in Nat /\ x < y /\ y < x + s[x] /\ y + k = x + s[x] /\ x + v[x] = y /\ s[x] \in Nat
  OBVIOUS
<1>2. y \notin A
  BY <1>1 DEF Apart
<1>3. ASSUME NEW a \in A \cup {y}
      PROVE  /\ a >= Bottom /\ v[a] > 0 /\ a + v[a] <= z
             /\ \A b \in A \cup {y} : a < b => a + v[a] <= b
  <2>1. CASE a = x
    BY <1>1, <2>1 DEF Apart, Bottom
  <2>2. CASE a = y
    BY <1>1, <1>2, <2>2 DEF Apart, Bottom
  <2>3. CASE a \in A /\ a # x
    <3>1. a < x \/ x + s[x] <= a
      BY <2>3 DEF Apart
    <3>2. a < y => a + s[a] <= y
      BY <1>1, <2>3, <3>1 DEF Apart
    <3> QED
      BY <2>3, <3>2 DEF Apart
  <2> QED
    BY <2>1, <2>2, <2>3, Zenon
<1>4. ASSUME NEW u \in Bottom..z - 1 PROVE \E a \in A \cup {y} : a <= u /\ u < a + v[a]
  <2>1. PICK a \in A : a <= u /\ u < a + s[a]
    BY Zenon DEF Covered
  <2>2. CASE a # x
    BY <2>1, <2>2
  <2>3. CASE a = x
    BY <1>1, <2>1, <2>3 DEF Bottom
  <2> QED
    BY <2>2, <2>3, Zenon
<1> QED
  BY <1>2, <1>3, <1>4, Zenon DEF Apart, Covered

\* sbrk() adds a block behind the others.
LEMMA RoomGrow ==
  ASSUME NEW A \in SUBSET Nat, NEW s, NEW v, NEW z \in Nat, NEW n \in Nat, n > 0, z >= Bottom,
         \A a \in A : s[a] \in Nat, Apart(A, s, z), Covered(A, s, z),
         v[z] = n, \A a \in A : a # z => v[a] = s[a]
  PROVE  z \notin A /\ Apart(A \cup {z}, v, z + n) /\ Covered(A \cup {z}, v, z + n)
<1>1. z \notin A
  BY DEF Apart
<1>2. ASSUME NEW a \in A \cup {z}
      PROVE  /\ a >= Bottom /\ v[a] > 0 /\ a + v[a] <= z + n
             /\ \A b \in A \cup {z} : a < b => a + v[a] <= b
  BY <1>1 DEF Apart, Bottom
<1>3. ASSUME NEW u \in Bottom..(z + n) - 1 PROVE \E a \in A \cup {z} : a <= u /\ u < a + v[a]
  <2>1. CASE u < z
    <3>1. PICK a \in A : a <= u /\ u < a + s[a]
      BY <2>1 DEF Covered, Bottom
    <3> QED
      BY <1>1, <3>1, Zenon
  <2>2. CASE u >= z
    BY <2>2 DEF Bottom
  <2> QED
    BY <2>1, <2>2 DEF Bottom
<1> QED
  BY <1>1, <1>2, <1>3, Zenon DEF Apart, Covered

-----------------------------------------------------------------------------
(* What a step of t leaves alone. *)

\* What the assumptions say of addresses, threads and sizes.
LEMMA Constants ==
  /\ Base \in Addr /\ Null \notin Addr /\ None \notin Addr /\ None # Null /\ None \notin Thread
  /\ Main \in Thread /\ Main \notin Worker /\ Worker \subseteq Thread
  /\ Addr \subseteq Nat /\ Sizes \subseteq Nat \ {0} /\ Base < Bottom
  /\ \A a \in Nat : a >= Base /\ a <= Top => a \in Addr
  /\ Wild \in Nat /\ Wild \notin Addr
BY HeapAssumption DEF Base, Addr, Null, Bottom, Thread, Sizes, Wild

\* The frame of t is replaced.
LEMMA Frames ==
  ASSUME HeapTypes, NEW t \in Thread, NEW f \in Frame, Goes(t, f)
  PROVE  /\ fr' \in [Thread -> Frame] /\ fr'[t] = f
         /\ \A u \in Thread : u # t => fr'[u] = fr[u]
BY Zenon DEF HeapTypes, Goes

\* The owner of a stays.
Kept(a) ==
  /\ \A t \in Thread : (a \in mine'[t]) <=> (a \in mine[t])
  /\ \A w \in Worker : (stack'[w] = a) <=> (stack[w] = a)
  /\ \A t \in Thread : InCall(a, t)' <=> InCall(a, t)
  /\ \A t \in Thread : (fr'[t].pc = "clone" /\ fr'[t].bp = a) <=> (fr[t].pc = "clone" /\ fr[t].bp = a)

\* Then it is as used, and as owned, as before.
LEMMA KeptOwner ==
  ASSUME NEW a, Kept(a)
  PROVE  /\ Once(a) => Once(a)'
         /\ Held(a)' <=> Held(a)
         /\ Used(a)' <=> Used(a)
<1>1. Once(a) => Once(a)'
  BY Zenon DEF Kept, Once
<1>2. Used(a)' <=> Used(a)
  BY Zenon DEF Kept, Used
<1>3. Held(a)' <=> Held(a)
  BY <1>2, Zenon DEF Kept, Held
<1> QED
  BY <1>1, <1>2, <1>3, Zenon

\* Blocks change hands, if anything.
LEMMA SameHeap ==
  ASSUME HeapInv, UNCHANGED <<ptr, size, freep, sz>>, \A a \in Addr : Held(a)' <=> Held(a)
  PROVE  ListInv' /\ SpaceInv'
<1>1. Free' = Free
  BY Zenon DEF Free
<1>2. Blocks' = Blocks
  BY <1>1, Zenon DEF Blocks
<1>3. ListInv'
  BY <1>1, Zenon DEF HeapInv, ListInv
<1> QED
  BY <1>2, <1>3, Zenon DEF HeapInv, SpaceInv

\* t takes the lock, has it, drops it or has nothing to do with it.
Lawful(t) ==
  \/ UNCHANGED <<ptr, freep, sz, mallocLock>>
  \/ mallocLock \in {t, None} /\ mallocLock' \in {t, None}

\* What the other threads in the library know stays true.
LEMMA OthersCall ==
  ASSUME HeapInv, NEW t \in Thread, Lawful(t), stack' = stack \/ t = Main,
         NEW u \in Thread, u # t, fr'[u] = fr[u]
  PROVE  CallInv(u)'
<1>0. CallInv(u) /\ u # None /\ HeapInv
  BY Constants, Zenon DEF HeapInv
<1>1. fr[u].worker # None => u = Main /\ stack'[fr[u].worker] = None
  BY <1>0, Zenon DEF CallInv
<1>2. CASE UNCHANGED <<ptr, freep, sz, mallocLock>>
  BY <1>0, <1>1, <1>2, Zenon DEF CallInv, Free
<1>3. CASE mallocLock \in {t, None} /\ mallocLock' \in {t, None}
  <2>1. fr[u].pc \notin InLock /\ mallocLock' # u
    BY <1>0, <1>3, Zenon DEF CallInv
  <2>2. fr[u].pc # "m_walk" /\ fr[u].pc # "sbrk"
    BY <2>1, Zenon DEF InLock
  <2> QED
    BY <1>0, <1>1, <2>1, <2>2, Zenon DEF CallInv
<1> QED
  BY <1>2, <1>3, Zenon DEF Lawful

\* The blocks in use stay; or one is added; or one is given back.
SameUse == \A a \in Addr : (Used(a)' <=> Used(a)) /\ (Used(a) => size'[a] = size[a])

Gained(b) ==
  /\ b \in Addr /\ ~Used(b) /\ Used(b)'
  /\ \A a \in Addr : a # b => (Used(a)' <=> Used(a)) /\ (Used(a) => size'[a] = size[a])

Lost(b) ==
  /\ b \in Addr /\ Used(b) /\ ~Used(b)'
  /\ \A a \in Addr : a # b => (Used(a)' <=> Used(a)) /\ (Used(a) => size'[a] = size[a])

Outcome == SameUse \/ \E b \in Addr : Gained(b) \/ Lost(b)

\* A step that leaves all blocks where they are.
LEMMA Quiet ==
  ASSUME HeapInv, NEW t \in Thread, NEW f \in Frame, Goes(t, f), Lawful(t),
         mallocLock' \in Thread \cup {None}, UNCHANGED <<ptr, size, freep, sz, mine, stack, zombie>>,
         \A a \in Addr : /\ (f.pc \in Freeing \cup {"clone"} /\ f.bp = a) <=> InCall(a, t)
                         /\ (f.pc = "clone" /\ f.bp = a) <=> (fr[t].pc = "clone" /\ fr[t].bp = a),
         CallInv(t)'
  PROVE  HeapInv' /\ SameUse
<1>1. /\ fr' \in [Thread -> Frame] /\ fr'[t] = f
      /\ \A u \in Thread : u # t => fr'[u] = fr[u]
  BY Frames, Zenon DEF HeapInv
<1>2. ASSUME NEW a \in Addr PROVE Kept(a)
  BY <1>1, Zenon DEF Kept, InCall
<1>3. HeapTypes'
  BY <1>1, Zenon DEF HeapInv, HeapTypes
<1>4. ListInv' /\ SpaceInv'
  BY <1>2, KeptOwner, SameHeap, Zenon
<1>5. OwnInv'
  BY <1>2, KeptOwner, Zenon DEF HeapInv, OwnInv
<1>6. \A u \in Thread : CallInv(u)'
  BY <1>1, OthersCall, Zenon
<1>7. SameUse
  BY <1>2, KeptOwner, Zenon DEF SameUse
<1> QED
  BY <1>3, <1>4, <1>5, <1>6, <1>7, Zenon DEF HeapInv

-----------------------------------------------------------------------------
(* One step at a time. *)

\* The types of the locals of a thread, and of the heap.
LEMMA FrameOf ==
  ASSUME HeapInv, NEW t \in Thread
  PROVE  /\ fr[t] \in Frame /\ CallInv(t) /\ fr[t].pc \in Places /\ fr[t].worker \in Worker \cup {None}
         /\ fr[t].nunits \in Nat
         /\ fr[t].bp \in Nat /\ fr[t].p \in Addr \cup {Null}
         /\ fr[t].prevp \in Addr \cup {Null}
         /\ ptr \in [Addr -> Addr \cup {Null}] /\ size \in [Addr -> Nat]
         /\ freep \in Addr \cup {Null} /\ sz \in Nat
         /\ t # None
<1>1. fr[t] \in Frame
  BY Zenon DEF HeapInv, HeapTypes
<1>2. /\ fr[t].pc \in Places /\ fr[t].worker \in Worker \cup {None} /\ fr[t].nunits \in Nat
      /\ fr[t].bp \in Nat /\ fr[t].p \in Addr \cup {Null}
      /\ fr[t].prevp \in Addr \cup {Null}
  BY <1>1 DEF Frame
<1> QED
  BY <1>1, <1>2, Constants, Zenon DEF HeapInv, HeapTypes

\* Where a block is.
LEMMA BlockRoom ==
  ASSUME HeapInv, NEW a \in Blocks
  PROVE  /\ a \in Addr /\ a \in Nat /\ a >= Bottom /\ size[a] \in Nat /\ size[a] > 0
         /\ sz \in Nat /\ a + size[a] <= sz
         /\ \A b \in Blocks : a < b => a + size[a] <= b
<1>1. a \in Addr /\ a \in Nat
  BY Constants, Zenon DEF Blocks
<1>2. size[a] \in Nat /\ sz \in Nat
  BY <1>1, Zenon DEF HeapInv, HeapTypes
<1> QED
  BY <1>1, <1>2, Zenon DEF HeapInv, SpaceInv, Apart

\* free() takes the lock, and begins at freep.
LEMMA FlockStep ==
  ASSUME HeapInv, NullInv, NEW t \in Thread, f_lock(t)
  PROVE  HeapInv' /\ SameUse
<1> DEFINE f == [fr[t] EXCEPT !.pc = "f_walk", !.p = freep]
<1>0. /\ fr[t].pc = "f_lock" /\ mallocLock = None /\ mallocLock' = t /\ Goes(t, f)
      /\ UNCHANGED <<ptr, size, freep, sz, mine, stack, zombie>>
  BY Zenon DEF f_lock, At, spin_lock, threadVars
<1>1. /\ f \in Frame /\ f.pc = "f_walk" /\ f.bp = fr[t].bp /\ f.p = freep /\ f.worker = fr[t].worker
      /\ f.nunits = fr[t].nunits
  BY FrameOf, ZenonT(30) DEF Frame, Places, InLock
<1> HIDE DEF f
<1>2. Lawful(t) /\ mallocLock' \in Thread \cup {None}
  BY <1>0, Zenon DEF Lawful
<1>3. fr'[t] = f
  BY <1>0, <1>1, Frames, Zenon DEF HeapInv
<1>4. fr[t].bp \in Addr \cup {Wild} /\ freep \in Free
  <2>1. fr[t].bp \in Addr \cup {Wild}
    BY <1>0, FrameOf, Zenon DEF CallInv, Freeing
  <2>2. ASSUME fr[t].bp \in Addr PROVE freep # Null
    <3>1. Held(fr[t].bp)
      BY <1>0, Zenon DEF Held, InCall, Freeing
    <3>2. fr[t].bp \in Blocks
      BY <2>2, <3>1, Zenon DEF Blocks
    <3>3. sz # Bottom
      BY <3>2, BlockRoom DEF Bottom
    <3> QED
      BY <3>3, Zenon DEF HeapInv, ListInv
  <2>3. freep # Null
    BY <1>0, <2>1, <2>2, Zenon DEF NullInv
  <2> QED
    BY <2>1, <2>3, Constants, Zenon DEF HeapInv, ListInv
<1>5. freep # Null
  BY <1>4, Constants, Zenon DEF Free
<1>6. CallInv(t)'
  BY <1>0, <1>1, <1>3, <1>4, <1>5, FrameOf, Zenon DEF CallInv, InLock, Freeing, Free
<1>7. ASSUME NEW a \in Addr
      PROVE  /\ (f.pc \in Freeing \cup {"clone"} /\ f.bp = a) <=> InCall(a, t)
             /\ (f.pc = "clone" /\ f.bp = a) <=> (fr[t].pc = "clone" /\ fr[t].bp = a)
  BY <1>0, <1>1, Zenon DEF InCall, Freeing
<1> QED
  BY <1>0, <1>1, <1>2, <1>6, <1>7, Quiet, Zenon

\* The walks of free() and of morecore()'s freewlock().
LEMMA WalkStep ==
  ASSUME HeapInv, NEW t \in Thread, walk(t)
  PROVE  HeapInv' /\ SameUse
<1> DEFINE f == [fr[t] EXCEPT !.p = ptr[@]]
<1>0. /\ fr[t].pc \in {"f_walk", "core_walk"} /\ Goes(t, f)
      /\ UNCHANGED <<ptr, size, freep, sz, mallocLock, mine, stack, zombie>>
  BY Zenon DEF walk, threadVars, heapVars
<1>1. fr[t].p \in Free /\ fr[t].p \in Addr /\ ptr[fr[t].p] \in Free
  <2>1. fr[t].p \in Free
    BY <1>0, FrameOf, Zenon DEF CallInv, InLock
  <2> QED
    BY <2>1, Zenon DEF HeapInv, ListInv, Sorted, Free
<1>2. /\ f \in Frame /\ f.pc = fr[t].pc /\ f.bp = fr[t].bp /\ f.p = ptr[fr[t].p]
      /\ f.worker = fr[t].worker /\ f.nunits = fr[t].nunits
  BY <1>1, FrameOf DEF Frame
<1> HIDE DEF f
<1>3. fr'[t] = f
  BY <1>0, <1>2, Frames, Zenon DEF HeapInv
<1>4. CallInv(t)'
  BY <1>0, <1>1, <1>2, <1>3, FrameOf, Zenon DEF CallInv, Free
<1>5. ASSUME NEW a \in Addr
      PROVE  /\ (f.pc \in Freeing \cup {"clone"} /\ f.bp = a) <=> InCall(a, t)
             /\ (f.pc = "clone" /\ f.bp = a) <=> (fr[t].pc = "clone" /\ fr[t].bp = a)
  BY <1>2, Zenon DEF InCall
<1>6. Lawful(t) /\ mallocLock' \in Thread \cup {None}
  BY <1>0, Zenon DEF Lawful, HeapInv, HeapTypes
<1> QED
  BY <1>0, <1>2, <1>4, <1>5, <1>6, Quiet, Zenon

\* free(0) ends in a trap, and the thread keeps the lock.
LEMMA FaultStep ==
  ASSUME HeapInv, NEW t \in Thread, page_fault(t)
  PROVE  HeapInv' /\ SameUse
<1> DEFINE f == [fr[t] EXCEPT !.pc = "dead"]
<1>0. /\ fr[t].pc = "f_walk" /\ fr[t].bp = Wild /\ Goes(t, f)
      /\ UNCHANGED <<ptr, size, freep, sz, mallocLock, mine, stack, zombie>>
  BY Zenon DEF page_fault, At, threadVars, heapVars
<1>1. /\ f \in Frame /\ f.pc = "dead" /\ f.bp = fr[t].bp /\ f.p = fr[t].p
      /\ f.worker = fr[t].worker /\ f.nunits = fr[t].nunits
  BY FrameOf, ZenonT(30) DEF Frame, Places, InLock
<1> HIDE DEF f
<1>2. fr'[t] = f
  BY <1>0, <1>1, Frames, Zenon DEF HeapInv
<1>3. CallInv(t)'
  BY <1>0, <1>1, <1>2, FrameOf, Zenon DEF CallInv, InLock, Freeing, Free
<1>4. ASSUME NEW a \in Addr
      PROVE  /\ (f.pc \in Freeing \cup {"clone"} /\ f.bp = a) <=> InCall(a, t)
             /\ (f.pc = "clone" /\ f.bp = a) <=> (fr[t].pc = "clone" /\ fr[t].bp = a)
  BY <1>0, <1>1, Constants, Zenon DEF InCall, Freeing
<1>5. Lawful(t) /\ mallocLock' \in Thread \cup {None}
  BY <1>0, Zenon DEF Lawful, HeapInv, HeapTypes
<1> QED
  BY <1>0, <1>1, <1>3, <1>4, <1>5, Quiet, Zenon

\* The walk of malloc(), and its call of sbrk().
LEMMA MallocWalk ==
  ASSUME HeapInv, NEW t \in Thread, m_next(t) \/ morecore(t)
  PROVE  HeapInv' /\ SameUse
<1>0. /\ fr[t].pc = "m_walk"
      /\ UNCHANGED <<ptr, size, freep, sz, mallocLock, mine, stack, zombie>>
  BY Zenon DEF m_next, morecore, At, threadVars, heapVars
<1>1. /\ fr[t].p \in Free /\ fr[t].p \in Addr /\ ptr[fr[t].p] \in Free /\ ptr[fr[t].p] \in Addr
      /\ fr[t].nunits \in Sizes /\ freep # Null /\ mallocLock = t
      /\ (fr[t].worker # None => t = Main /\ stack[fr[t].worker] = None)
  <2>1. fr[t].p \in Free /\ fr[t].nunits \in Sizes /\ freep # Null /\ mallocLock = t
        /\ (fr[t].worker # None => t = Main /\ stack[fr[t].worker] = None)
    BY <1>0, FrameOf, Zenon DEF CallInv, InLock
  <2> QED
    BY <2>1, Zenon DEF HeapInv, ListInv, Sorted, Free
<1>2. Lawful(t) /\ mallocLock' \in Thread \cup {None}
  BY <1>0, Zenon DEF Lawful, HeapInv, HeapTypes
<1>3. CASE m_next(t)
  <2> DEFINE f == [fr[t] EXCEPT !.prevp = fr[t].p, !.p = ptr[fr[t].p]]
  <2>1. /\ f \in Frame /\ f.pc = "m_walk" /\ f.bp = fr[t].bp /\ f.p = ptr[fr[t].p]
        /\ f.prevp = fr[t].p /\ f.worker = fr[t].worker /\ f.nunits = fr[t].nunits
    BY <1>0, <1>1, FrameOf, ZenonT(30) DEF Frame
  <2>2. Goes(t, f)
    BY <1>3, Zenon DEF m_next
  <2> HIDE DEF f
  <2>3. fr'[t] = f
    BY <2>1, <2>2, Frames, Zenon DEF HeapInv
  <2>4. CallInv(t)'
    BY <1>0, <1>1, <2>1, <2>3, Zenon DEF CallInv, Free, InLock, Freeing
  <2>5. ASSUME NEW a \in Addr
        PROVE  /\ (f.pc \in Freeing \cup {"clone"} /\ f.bp = a) <=> InCall(a, t)
               /\ (f.pc = "clone" /\ f.bp = a) <=> (fr[t].pc = "clone" /\ fr[t].bp = a)
    BY <1>0, <2>1, Zenon DEF InCall
  <2> QED
    BY <1>0, <1>2, <2>1, <2>2, <2>4, <2>5, Quiet, Zenon
<1>4. CASE morecore(t)
  <2> DEFINE f == [fr[t] EXCEPT !.pc = "sbrk", !.bp = sz]
  <2>1. sz \in Nat
    BY FrameOf, Zenon
  <2>2. /\ f \in Frame /\ f.pc = "sbrk" /\ f.bp = sz
        /\ f.worker = fr[t].worker /\ f.nunits = fr[t].nunits
    BY <2>1, FrameOf, ZenonT(30) DEF Frame, Places, InLock
  <2>3. Goes(t, f)
    BY <1>4, Zenon DEF morecore
  <2> HIDE DEF f
  <2>4. fr'[t] = f
    BY <2>2, <2>3, Frames, Zenon DEF HeapInv
  <2>5. CallInv(t)'
    BY <1>0, <1>1, <2>2, <2>4, Zenon DEF CallInv, Free, InLock, Freeing
  <2>6. ASSUME NEW a \in Addr
        PROVE  /\ (f.pc \in Freeing \cup {"clone"} /\ f.bp = a) <=> InCall(a, t)
               /\ (f.pc = "clone" /\ f.bp = a) <=> (fr[t].pc = "clone" /\ fr[t].bp = a)
    BY <1>0, <2>2, Zenon DEF InCall, Freeing
  <2> QED
    BY <1>0, <1>2, <2>2, <2>3, <2>5, <2>6, Quiet, Zenon
<1> QED
  BY <1>3, <1>4, Zenon

\* malloc() returns without memory, and the calls of malloc().
LEMMA NothingStep ==
  ASSUME HeapInv, NEW t \in Thread,
         \/ m_fail(t)
         \/ \E k \in Request : user_malloc(t, k)
         \/ t = Main /\ \E w \in Worker : thread_create(w)
  PROVE  HeapInv' /\ SameUse
<1>0. User \in Frame /\ User.pc = "user" /\ User.worker = None /\ User.bp = Null /\ Null \in Nat
  BY DEF User, Frame, Places, Null
<1>1. CASE m_fail(t)
  <2> DEFINE f == IF fr[t].worker = None THEN User
                  ELSE [User EXCEPT !.pc = "clone", !.worker = fr[t].worker, !.bp = Null]
  <2>0. fr[t].pc = "sbrk"
    BY <1>1, Zenon DEF m_fail, At
  <2>1. /\ mallocLock' = None /\ Goes(t, f) /\ mine' = mine
        /\ UNCHANGED <<ptr, size, freep, sz, stack, zombie>>
    BY <1>1, Zenon DEF m_fail, spin_unlock, Gets, threadVars
  <2>2. /\ f \in Frame /\ f.pc \in {"user", "clone"} /\ f.bp = Null
        /\ f.worker = fr[t].worker
    BY FrameOf, ZenonT(30) DEF Frame, User, Places, Null
  <2> HIDE DEF f
  <2>3. /\ mallocLock = t /\ t # None
        /\ (fr[t].worker # None => t = Main /\ stack[fr[t].worker] = None)
    BY <2>0, FrameOf, Zenon DEF CallInv, InLock
  <2>4. fr'[t] = f
    BY <2>1, <2>2, Frames, Zenon DEF HeapInv
  <2>5. CallInv(t)'
    BY <2>1, <2>2, <2>3, <2>4, Zenon DEF CallInv, InLock, Freeing
  <2>6. ASSUME NEW a \in Addr
        PROVE  /\ (f.pc \in Freeing \cup {"clone"} /\ f.bp = a) <=> InCall(a, t)
               /\ (f.pc = "clone" /\ f.bp = a) <=> (fr[t].pc = "clone" /\ fr[t].bp = a)
    BY <2>0, <2>2, Constants, Zenon DEF InCall, Freeing
  <2>7. Lawful(t) /\ mallocLock' \in Thread \cup {None}
    BY <2>1, <2>3, Zenon DEF Lawful
  <2> QED
    BY <2>1, <2>2, <2>5, <2>6, <2>7, Quiet, Zenon
<1>2. ASSUME NEW k \in Sizes, NEW w \in Worker \cup {None}, malloc(t, k, w), fr[t].pc = "user",
             UNCHANGED <<ptr, size, freep, sz, mallocLock, mine, stack, zombie>>,
             w # None => t = Main /\ stack[w] = None
      PROVE  HeapInv' /\ SameUse
  <2> DEFINE f == [User EXCEPT !.pc = "m_lock", !.nunits = k, !.worker = w]
  <2>0. k \in Nat
    BY Constants
  <2>1. f \in Frame /\ f.pc = "m_lock" /\ f.worker = w /\ f.nunits = k
    BY <2>0, ZenonT(30) DEF Frame, User, Places, Null
  <2>2. Goes(t, f)
    BY <1>2, Zenon DEF malloc
  <2> HIDE DEF f
  <2>3. fr'[t] = f
    BY <2>1, <2>2, Frames, Zenon DEF HeapInv
  <2>4. CallInv(t)'
    BY <1>2, <2>1, <2>3, FrameOf, Zenon DEF CallInv, InLock, Freeing
  <2>5. ASSUME NEW a \in Addr
        PROVE  /\ (f.pc \in Freeing \cup {"clone"} /\ f.bp = a) <=> InCall(a, t)
               /\ (f.pc = "clone" /\ f.bp = a) <=> (fr[t].pc = "clone" /\ fr[t].bp = a)
    BY <1>2, <2>1, Zenon DEF InCall, Freeing
  <2>6. Lawful(t) /\ mallocLock' \in Thread \cup {None}
    BY <1>2, Zenon DEF Lawful, HeapInv, HeapTypes
  <2> QED
    BY <1>2, <2>1, <2>2, <2>4, <2>5, <2>6, Quiet, Zenon
<1>3. CASE \E k \in Request : user_malloc(t, k)
  <2>1. PICK k \in Request : user_malloc(t, k)
    BY <1>3, Zenon
  <2>2. k \in Sizes
    BY Zenon DEF Sizes
  <2>3. /\ malloc(t, k, None) /\ fr[t].pc = "user"
        /\ UNCHANGED <<ptr, size, freep, sz, mallocLock, mine, stack, zombie>>
    BY <2>1, Zenon DEF user_malloc, Calls, At, heapVars
  <2> QED
    BY <1>2, <2>2, <2>3, Zenon
<1>4. CASE t = Main /\ \E w \in Worker : thread_create(w)
  <2>1. PICK w \in Worker : thread_create(w)
    BY <1>4, Zenon
  <2>2. Stack \in Sizes
    BY Zenon DEF Sizes
  <2>3. /\ malloc(t, Stack, w) /\ fr[t].pc = "user" /\ stack[w] = None
        /\ UNCHANGED <<ptr, size, freep, sz, mallocLock, mine, stack, zombie>>
    BY <1>4, <2>1, Zenon DEF thread_create, Calls, At, heapVars
  <2> QED
    BY <1>2, <1>4, <2>2, <2>3, Zenon
<1> QED
  BY <1>1, <1>3, <1>4, Zenon

\* A thread exits.
LEMMA ExitStep ==
  ASSUME HeapInv, NEW w \in Worker, exit(w)
  PROVE  HeapInv' /\ SameUse
<1>1. /\ UNCHANGED <<ptr, size, freep, mallocLock, sz, fr, mine, stack>>
      /\ zombie' = zombie \cup {w} /\ stack[w] # None
  BY Constants, Zenon DEF exit, Running, heapVars
<1>2. ASSUME NEW a \in Addr PROVE Kept(a)
  BY <1>1, Zenon DEF Kept, InCall
<1>3. HeapTypes'
  BY <1>1, Zenon DEF HeapInv, HeapTypes
<1>4. ListInv' /\ SpaceInv'
  BY <1>1, <1>2, KeptOwner, SameHeap, Zenon
<1>5. OwnInv'
  BY <1>1, <1>2, KeptOwner, Zenon DEF HeapInv, OwnInv
<1>6. \A u \in Thread : CallInv(u)'
  BY <1>1, Zenon DEF HeapInv, CallInv, Free
<1>7. SameUse
  BY <1>1, <1>2, KeptOwner, Zenon DEF SameUse
<1>8. \A v \in zombie' : stack'[v] # None
  BY <1>1, Zenon DEF HeapInv
<1> QED
  BY <1>3, <1>4, <1>5, <1>6, <1>7, <1>8, Zenon DEF HeapInv

\* Blocks change hands, one owner giving what another takes.
LEMMA Hand ==
  ASSUME HeapInv, NEW t \in Thread, NEW f \in Frame, Goes(t, f), CallInv(t)',
         UNCHANGED <<ptr, size, freep, sz, mallocLock>>,
         mine' \in [Thread -> SUBSET Addr], stack' \in [Worker -> Addr \cup {Null, None}],
         stack' = stack \/ t = Main,
         zombie' \subseteq Worker, \A w \in zombie' : stack'[w] # None,
         \A a \in Addr : \/ Kept(a)
                         \/ Held(a) /\ Held(a)' /\ Once(a)' /\ (Used(a)' => Used(a))
  PROVE  HeapInv'
<1>1. /\ fr' \in [Thread -> Frame]
      /\ \A u \in Thread : u # t => fr'[u] = fr[u]
  BY Frames, Zenon DEF HeapInv
<1>2. HeapTypes'
  BY <1>1, Zenon DEF HeapInv, HeapTypes
<1>3. ASSUME NEW a \in Addr
      PROVE  (Held(a)' <=> Held(a)) /\ (Used(a)' => Used(a)) /\ Once(a)'
  BY KeptOwner, Zenon DEF HeapInv, OwnInv
<1>4. ListInv' /\ SpaceInv'
  BY <1>3, SameHeap, Zenon
<1>5. OwnInv'
  BY <1>3, Zenon DEF HeapInv, OwnInv
<1>6. \A u \in Thread : CallInv(u)'
  BY <1>1, OthersCall, Zenon DEF Lawful
<1> QED
  BY <1>2, <1>4, <1>5, <1>6, Zenon DEF HeapInv

\* The program gives a block to free().
LEMMA FreeStep ==
  ASSUME HeapInv, NEW t \in Thread, NEW b \in mine[t], user_free(t, b)
  PROVE  HeapInv' /\ Outcome
<1> DEFINE f == [User EXCEPT !.pc = "f_lock", !.bp = b]
<1>1. mine \in [Thread -> SUBSET Addr] /\ b \in Addr /\ b \in Nat /\ b # Null
  BY Constants, Zenon DEF HeapInv, HeapTypes
<1>0. /\ fr[t].pc = "user" /\ Goes(t, f) /\ mine' = [mine EXCEPT ![t] = @ \ {b}]
      /\ UNCHANGED <<ptr, size, freep, sz, mallocLock, stack, zombie>>
  BY <1>1, Zenon DEF user_free, Calls, At, free, heapVars
<1>2. f \in Frame /\ f.pc = "f_lock" /\ f.bp = b /\ f.worker = None
  BY <1>1, ZenonT(30) DEF Frame, User, Places, Freeing, Null
<1> HIDE DEF f
<1>3. /\ fr'[t] = f
      /\ \A u \in Thread : u # t => fr'[u] = fr[u]
  BY <1>0, <1>2, Frames, Zenon DEF HeapInv
<1>4. CallInv(t)'
  BY <1>0, <1>1, <1>2, <1>3, FrameOf, Zenon DEF CallInv, InLock, Freeing
<1>5. mine' \in [Thread -> SUBSET Addr]
  BY <1>0, <1>1, Zenon
<1>6. /\ mine'[t] = mine[t] \ {b}
      /\ \A u \in Thread : u # t => mine'[u] = mine[u]
  BY <1>0, <1>1, Zenon
<1>7. ASSUME NEW a \in Addr, a # b PROVE Kept(a)
  <2>1. \A u \in Thread : (a \in mine'[u]) <=> (a \in mine[u])
    BY <1>6, <1>7, Zenon
  <2>2. ~InCall(a, t) /\ ~InCall(a, t)' /\ fr[t].pc # "clone" /\ fr'[t].pc # "clone"
    BY <1>0, <1>2, <1>3, <1>7, Zenon DEF InCall, Freeing
  <2> QED
    BY <1>0, <1>3, <2>1, <2>2, Zenon DEF Kept, InCall
<1>8. /\ \A u \in Thread : u # t => b \notin mine[u]
      /\ \A u \in Thread : ~InCall(b, u)
      /\ \A w \in Worker : stack[w] # b
  BY <1>1, Zenon DEF HeapInv, OwnInv, Once
<1>9. /\ \A u \in Thread : b \notin mine'[u]
      /\ \A u \in Thread : u # t => ~InCall(b, u)'
      /\ InCall(b, t)'
      /\ \A w \in Worker : stack'[w] # b
  BY <1>0, <1>2, <1>3, <1>6, <1>8, Zenon DEF InCall, Freeing
<1>10. Once(b)' /\ Held(b)' /\ Held(b) /\ Used(b)
  BY <1>9, Zenon DEF Once, Held, Used
<1>11. ~Used(b)'
  <2>1. ASSUME NEW u \in Thread PROVE ~(fr'[u].pc = "clone" /\ fr'[u].bp = b)
    BY <1>2, <1>3, <1>9, Zenon DEF InCall
  <2> QED
    BY <1>9, <2>1, Zenon DEF Used
<1>12. HeapInv'
  BY <1>0, <1>2, <1>4, <1>5, <1>7, <1>10, <1>11, Hand, Zenon DEF HeapInv, HeapTypes
<1>13. Lost(b)
  BY <1>0, <1>1, <1>7, <1>10, <1>11, KeptOwner, Zenon DEF Lost
<1> QED
  BY <1>1, <1>12, <1>13, Zenon DEF Outcome

\* thread_join() has no stack to give to free().
LEMMA JoinNull ==
  ASSUME HeapInv, NEW w \in Worker, thread_join(w), stack[w] = Null
  PROVE  HeapInv' /\ SameUse
<1> DEFINE f == [User EXCEPT !.pc = "f_lock", !.bp = Wild]
<1>0. /\ fr[Main].pc = "user" /\ Goes(Main, f) /\ stack' = [stack EXCEPT ![w] = None]
      /\ zombie' = zombie \ {w} /\ w \in zombie
      /\ UNCHANGED <<ptr, size, freep, sz, mallocLock, mine>>
  BY Zenon DEF thread_join, Calls, At, free, heapVars
<1>1. stack \in [Worker -> Addr \cup {Null, None}] /\ Main \in Thread /\ Wild \in Nat
  BY Constants, Zenon DEF HeapInv, HeapTypes
<1>2. f \in Frame /\ f.pc = "f_lock" /\ f.bp = Wild /\ f.worker = None
  BY <1>1, ZenonT(30) DEF Frame, User, Places, Freeing, Null
<1> HIDE DEF f
<1>3. /\ fr'[Main] = f
      /\ \A u \in Thread : u # Main => fr'[u] = fr[u]
  BY <1>0, <1>1, <1>2, Frames, Zenon DEF HeapInv
<1>4. CallInv(Main)'
  BY <1>0, <1>1, <1>2, <1>3, FrameOf, Zenon DEF CallInv, InLock, Freeing
<1>5. /\ stack' \in [Worker -> Addr \cup {Null, None}] /\ stack'[w] = None
      /\ \A v \in Worker : v # w => stack'[v] = stack[v]
  BY <1>0, <1>1, Zenon
<1>6. ASSUME NEW a \in Addr PROVE Kept(a)
  <2>1. \A v \in Worker : (stack'[v] = a) <=> (stack[v] = a)
    BY <1>5, Constants, Zenon
  <2>2. ~InCall(a, Main) /\ ~InCall(a, Main)' /\ fr[Main].pc # "clone" /\ fr'[Main].pc # "clone"
    BY <1>0, <1>2, <1>3, Constants, Zenon DEF InCall, Freeing
  <2> QED
    BY <1>0, <1>3, <2>1, <2>2, Zenon DEF Kept, InCall
<1>7. zombie' \subseteq Worker /\ \A v \in zombie' : stack'[v] # None
  BY <1>0, <1>5, Zenon DEF HeapInv, HeapTypes
<1>8. HeapInv'
  BY <1>0, <1>1, <1>2, <1>4, <1>5, <1>6, <1>7, Hand, Zenon DEF HeapInv, HeapTypes
<1>9. SameUse
  BY <1>0, <1>6, KeptOwner, Zenon DEF SameUse
<1> QED
  BY <1>8, <1>9, Zenon

\* thread_join() gives the stack of a thread that has exited to free().
LEMMA JoinStep ==
  ASSUME HeapInv, NEW w \in Worker, thread_join(w), stack[w] # Null
  PROVE  HeapInv' /\ Outcome
<1> DEFINE b == stack[w]
           f == [User EXCEPT !.pc = "f_lock", !.bp = b]
<1>0. /\ fr[Main].pc = "user" /\ Goes(Main, f) /\ stack' = [stack EXCEPT ![w] = None]
      /\ zombie' = zombie \ {w} /\ w \in zombie /\ b # Null
      /\ UNCHANGED <<ptr, size, freep, sz, mallocLock, mine>>
  BY Zenon DEF thread_join, Calls, At, free, heapVars
<1>1. stack \in [Worker -> Addr \cup {Null, None}] /\ b \in Addr /\ b \in Nat /\ Main \in Thread
  BY <1>0, Constants, Zenon DEF HeapInv, HeapTypes
<1>2. f \in Frame /\ f.pc = "f_lock" /\ f.bp = b /\ f.worker = None
  BY <1>1, ZenonT(30) DEF Frame, User, Places, Freeing, Null
<1> HIDE DEF f
<1>3. /\ fr'[Main] = f
      /\ \A u \in Thread : u # Main => fr'[u] = fr[u]
  BY <1>0, <1>1, <1>2, Frames, Zenon DEF HeapInv
<1>4. CallInv(Main)'
  BY <1>0, <1>1, <1>2, <1>3, FrameOf, Zenon DEF CallInv, InLock, Freeing
<1>5. stack' \in [Worker -> Addr \cup {Null, None}]
  BY <1>0, <1>1, Zenon
<1>6. /\ stack'[w] = None
      /\ \A v \in Worker : v # w => stack'[v] = stack[v]
  BY <1>0, <1>1, Zenon
<1>7. ASSUME NEW a \in Addr, a # b PROVE Kept(a)
  <2>1. \A v \in Worker : (stack'[v] = a) <=> (stack[v] = a)
    BY <1>6, <1>7, Constants, Zenon
  <2>2. ~InCall(a, Main) /\ ~InCall(a, Main)' /\ fr[Main].pc # "clone" /\ fr'[Main].pc # "clone"
    BY <1>0, <1>2, <1>3, <1>7, Zenon DEF InCall, Freeing
  <2> QED
    BY <1>0, <1>3, <2>1, <2>2, Zenon DEF Kept, InCall
<1>8. /\ \A u \in Thread : b \notin mine[u]
      /\ \A u \in Thread : ~InCall(b, u)
      /\ \A v \in Worker : v # w => stack[v] # b
  BY <1>1, Zenon DEF HeapInv, OwnInv, Once
<1>9. ASSUME NEW a \in Addr, a = b
      PROVE  Once(a)' /\ Held(a)' /\ Held(a) /\ Used(a) /\ ~Used(a)'
  <2>1. /\ \A u \in Thread : a \notin mine'[u]
        /\ \A u \in Thread : u # Main => ~InCall(a, u)'
        /\ InCall(a, Main)'
        /\ \A v \in Worker : stack'[v] # a
    BY <1>0, <1>2, <1>3, <1>6, <1>8, <1>9, Constants, ZenonT(30) DEF InCall, Freeing
  <2>2. Once(a)' /\ Held(a)' /\ Held(a) /\ Used(a)
    BY <1>1, <1>9, <2>1, Zenon DEF Once, Held, Used
  <2>3. ASSUME NEW u \in Thread PROVE ~(fr'[u].pc = "clone" /\ fr'[u].bp = a)
    BY <1>2, <1>3, <2>1, Zenon DEF InCall
  <2> QED
    BY <2>1, <2>2, <2>3, Zenon DEF Used
<1>10. zombie' \subseteq Worker /\ \A v \in zombie' : stack'[v] # None
  BY <1>0, <1>6, Zenon DEF HeapInv, HeapTypes
<1>11. HeapInv'
  BY <1>0, <1>1, <1>2, <1>4, <1>5, <1>7, <1>9, <1>10, Hand, Zenon DEF HeapInv, HeapTypes
<1>12. PICK a \in Addr : a = b
  BY <1>1, Zenon
<1>13. Lost(a)
  BY <1>0, <1>7, <1>9, <1>12, KeptOwner, Zenon DEF Lost
<1> QED
  BY <1>11, <1>13, Zenon DEF Outcome

\* clone() has got the stack for a thread, or has failed and left it behind.
LEMMA CloneStep ==
  ASSUME HeapInv, clone_fails \/ \E w \in Worker : clone(w)
  PROVE  HeapInv' /\ SameUse
<1>0. /\ fr[Main].pc = "clone" /\ Goes(Main, User) /\ Main \in Thread
      /\ UNCHANGED <<ptr, size, freep, sz, mallocLock, zombie>>
  BY Constants, Zenon DEF clone_fails, clone, At, threadVars, heapVars
<1>1. User \in Frame /\ User.pc = "user" /\ User.worker = None
  BY DEF User, Frame, Places, Null
<1>2. /\ fr'[Main] = User
      /\ \A u \in Thread : u # Main => fr'[u] = fr[u]
  BY <1>0, <1>1, Frames, Zenon DEF HeapInv
<1>3. CallInv(Main)'
  BY <1>0, <1>1, <1>2, FrameOf, Zenon DEF CallInv, InLock, Freeing
<1>4. /\ mine \in [Thread -> SUBSET Addr] /\ stack \in [Worker -> Addr \cup {Null, None}]
      /\ zombie \subseteq Worker
      /\ fr[Main].bp \in Addr \cup {Null}
  BY <1>0, FrameOf, Zenon DEF HeapInv, HeapTypes, CallInv
<1>5. ASSUME NEW b \in Addr
      PROVE  /\ ~InCall(b, Main)' /\ (InCall(b, Main) <=> fr[Main].bp = b)
             /\ \A u \in Thread : u # Main => (InCall(b, u)' <=> InCall(b, u))
             /\ fr'[Main].pc # "clone"
  BY <1>0, <1>1, <1>2, Zenon DEF InCall, Freeing
<1>6. ASSUME NEW b \in Addr, b = fr[Main].bp
      PROVE  /\ \A u \in Thread : b \notin mine[u]
             /\ \A u \in Thread : u # Main => ~InCall(b, u) /\ ~(fr[u].pc = "clone" /\ fr[u].bp = b)
             /\ \A w \in Worker : stack[w] # b
             /\ Held(b) /\ Used(b)
  <2>1. InCall(b, Main) /\ Once(b)
    BY <1>5, <1>6, Zenon DEF HeapInv, OwnInv
  <2>2. /\ \A u \in Thread : b \notin mine[u]
        /\ \A u \in Thread : u # Main => ~InCall(b, u)
        /\ \A w \in Worker : stack[w] # b
    BY <1>0, <2>1, Zenon DEF Once
  <2>3. \A u \in Thread : u # Main => ~(fr[u].pc = "clone" /\ fr[u].bp = b)
    BY <2>2, Zenon DEF InCall
  <2> QED
    BY <1>0, <1>6, <2>2, <2>3, Zenon DEF Held, Used
<1>7. CASE clone_fails
  <2>1. /\ stack' = stack
        /\ mine' = IF fr[Main].bp = Null THEN mine ELSE [mine EXCEPT ![Main] = @ \cup {fr[Main].bp}]
    BY <1>7, Zenon DEF clone_fails, threadVars
  <2>2. mine' = mine \/ (fr[Main].bp \in Addr /\ mine' = [mine EXCEPT ![Main] = @ \cup {fr[Main].bp}])
    BY <1>4, <2>1, Zenon
  <2>3. mine' \in [Thread -> SUBSET Addr]
    BY <1>4, <2>2, ZenonT(30)
  <2>4. ASSUME NEW a \in Addr
        PROVE  /\ \A u \in Thread : u # Main => ((a \in mine'[u]) <=> (a \in mine[u]))
               /\ a \in mine'[Main] <=> (a \in mine[Main] \/ a = fr[Main].bp)
    BY <1>0, <1>4, <2>1, Constants, Zenon
  <2>5. ASSUME NEW a \in Addr, a # fr[Main].bp PROVE Kept(a)
    <3>1. \A u \in Thread : (a \in mine'[u]) <=> (a \in mine[u])
      BY <2>4, <2>5, Zenon
    <3> QED
      BY <1>2, <1>5, <2>1, <2>5, <3>1, Zenon DEF Kept
  <2>6. ASSUME NEW a \in Addr, a = fr[Main].bp PROVE Held(a) /\ Held(a)' /\ Once(a)' /\ Used(a) /\ Used(a)'
    <3>1. /\ a \in mine'[Main] /\ \A u \in Thread : u # Main => a \notin mine'[u]
          /\ \A u \in Thread : ~InCall(a, u)'
          /\ \A w \in Worker : stack'[w] # a
      BY <1>5, <1>6, <2>1, <2>4, <2>6, ZenonT(30)
    <3> QED
      BY <1>0, <1>6, <2>6, <3>1, Zenon DEF Held, Used, Once
  <2>7. HeapInv'
    BY <1>0, <1>1, <1>3, <1>4, <2>1, <2>3, <2>5, <2>6, Hand, Zenon DEF HeapInv
  <2>8. SameUse
    BY <1>0, <2>5, <2>6, KeptOwner, Zenon DEF SameUse
  <2> QED
    BY <2>7, <2>8, Zenon
<1>8. CASE \E w \in Worker : clone(w)
  <2>0. PICK w \in Worker : clone(w)
    BY <1>8, Zenon
  <2>1. mine' = mine /\ stack' = [stack EXCEPT ![w] = fr[Main].bp] /\ fr[Main].worker = w
    BY <2>0, Zenon DEF clone
  <2>2. stack[w] = None
    <3>1. w # None
      BY Constants, Zenon
    <3> QED
      BY <1>0, <2>1, <3>1, FrameOf, Zenon DEF CallInv
  <2>3. stack' \in [Worker -> Addr \cup {Null, None}]
    BY <1>4, <2>1, Zenon
  <2>4. /\ stack'[w] = fr[Main].bp
        /\ \A v \in Worker : v # w => stack'[v] = stack[v]
    BY <1>4, <2>1, Zenon
  <2>5. ASSUME NEW a \in Addr, a # fr[Main].bp PROVE Kept(a)
    <3>1. \A v \in Worker : (stack'[v] = a) <=> (stack[v] = a)
      BY <2>2, <2>4, <2>5, Constants, Zenon
    <3> QED
      BY <1>2, <1>5, <2>1, <2>5, <3>1, Zenon DEF Kept
  <2>6. ASSUME NEW a \in Addr, a = fr[Main].bp PROVE Held(a) /\ Held(a)' /\ Once(a)' /\ Used(a) /\ Used(a)'
    <3>1. /\ \A u \in Thread : a \notin mine'[u]
          /\ \A u \in Thread : ~InCall(a, u)'
          /\ stack'[w] = a /\ \A v \in Worker : v # w => stack'[v] # a
      BY <1>5, <1>6, <2>1, <2>4, <2>6, Zenon
    <3> QED
      BY <1>0, <1>6, <2>6, <3>1, Zenon DEF Held, Used, Once
  <2>7. ASSUME NEW v \in zombie PROVE stack'[v] # None
    BY <1>4, <2>2, <2>4, Zenon DEF HeapInv
  <2>8. HeapInv'
    BY <1>0, <1>1, <1>3, <1>4, <2>1, <2>3, <2>5, <2>6, <2>7, Hand, Zenon
  <2>9. SameUse
    BY <1>0, <2>5, <2>6, KeptOwner, Zenon DEF SameUse
  <2> QED
    BY <2>8, <2>9, Zenon
<1> QED
  BY <1>7, <1>8, Zenon

\* The rest of the invariant, when t has changed the heap.
LEMMA Change ==
  ASSUME HeapInv, NEW t \in Thread, NEW f \in Frame, Goes(t, f), Lawful(t), CallInv(t)',
         ptr' \in [Addr -> Addr \cup {Null}], size' \in [Addr -> Nat], freep' \in Addr \cup {Null},
         mallocLock' \in Thread \cup {None}, sz' \in Nat, sz' >= Bottom, sz' <= Top + 1,
         mine' \in [Thread -> SUBSET Addr], UNCHANGED <<stack, zombie>>,
         ListInv', SpaceInv', OwnInv'
  PROVE  HeapInv'
<1>1. /\ fr' \in [Thread -> Frame]
      /\ \A u \in Thread : u # t => fr'[u] = fr[u]
  BY Frames, Zenon DEF HeapInv
<1>2. HeapTypes'
  BY <1>1, Zenon DEF HeapInv, HeapTypes
<1>3. \A u \in Thread : CallInv(u)'
  BY <1>1, OthersCall, Zenon
<1> QED
  BY <1>2, <1>3, Zenon DEF HeapInv

\* malloc() takes the lock; the first makes the list of Base alone.
LEMMA MlockStep ==
  ASSUME HeapInv, NEW t \in Thread, m_lock(t)
  PROVE  HeapInv' /\ SameUse
<1> DEFINE f == [fr[t] EXCEPT !.pc = "m_walk", !.prevp = freep', !.p = ptr'[freep']]
<1>0. /\ fr[t].pc = "m_lock" /\ mallocLock = None /\ mallocLock' = t /\ Goes(t, f)
      /\ freep' = (IF freep = Null THEN Base ELSE freep)
      /\ ptr' = (IF freep = Null THEN [ptr EXCEPT ![Base] = Base] ELSE ptr)
      /\ UNCHANGED <<size, sz, mine, stack, zombie>>
  BY Zenon DEF m_lock, At, spin_lock, threadVars
<1>1. /\ ptr \in [Addr -> Addr \cup {Null}] /\ freep \in Addr \cup {Null} /\ Base \in Addr
      /\ Null \notin Addr /\ Lawful(t) /\ mallocLock' \in Thread \cup {None}
  BY <1>0, FrameOf, Constants, Zenon DEF Lawful
<1>2. ASSUME freep' \in Free', ptr'[freep'] \in Free'
      PROVE  /\ f \in Frame /\ f.pc = "m_walk" /\ CallInv(t)'
             /\ \A a \in Addr : Kept(a)
  <2>1. freep' \in Addr \cup {Null} /\ ptr'[freep'] \in Addr \cup {Null} /\ freep' # Null
    BY <1>1, <1>2, Zenon DEF Free
  <2>2. /\ f \in Frame /\ f.pc = "m_walk" /\ f.prevp = freep' /\ f.p = ptr'[freep']
        /\ f.nunits = fr[t].nunits /\ f.worker = fr[t].worker
    BY <2>1, FrameOf, ZenonT(30) DEF Frame, Places, InLock
  <2> HIDE DEF f
  <2>3. fr'[t] = f /\ \A u \in Thread : u # t => fr'[u] = fr[u]
    BY <1>0, <2>2, Frames, Zenon DEF HeapInv
  <2>4. CallInv(t)'
    BY <1>0, <1>2, <2>1, <2>2, <2>3, FrameOf, Zenon DEF CallInv, InLock, Freeing
  <2>5. \A a \in Addr : ~InCall(a, t) /\ ~InCall(a, t)' /\ fr[t].pc # "clone" /\ fr'[t].pc # "clone"
    BY <1>0, <2>2, <2>3, Zenon DEF InCall, Freeing
  <2>6. \A a \in Addr : Kept(a)
    BY <1>0, <2>3, <2>5, Zenon DEF Kept, InCall
  <2> QED
    BY <2>2, <2>4, <2>6, Zenon
<1> HIDE DEF f
<1>3. ASSUME freep' \in Free', ptr'[freep'] \in Free', ListInv', SpaceInv',
             \A a \in Addr : Held(a) => ptr'[a] = Null
      PROVE  HeapInv' /\ SameUse
  <2>1. \A a \in Addr : (Held(a)' <=> Held(a)) /\ (Used(a)' <=> Used(a)) /\ Once(a)'
    BY <1>2, <1>3, KeptOwner, Zenon DEF HeapInv, OwnInv
  <2>2. OwnInv' /\ SameUse
    BY <1>0, <1>3, <2>1, Zenon DEF HeapInv, OwnInv, SameUse
  <2>3. /\ ptr' \in [Addr -> Addr \cup {Null}] /\ freep' \in Addr \cup {Null}
        /\ size' \in [Addr -> Nat] /\ sz' \in Nat /\ sz' >= Bottom /\ sz' <= Top + 1
        /\ mine' \in [Thread -> SUBSET Addr]
    BY <1>0, <1>1, Zenon DEF HeapInv, HeapTypes
  <2>4. HeapInv'
    BY <1>0, <1>1, <1>2, <1>3, <2>2, <2>3, Change, Zenon
  <2> QED
    BY <2>2, <2>4, Zenon
<1>4. CASE freep # Null
  <2>1. UNCHANGED <<ptr, size, freep, sz>>
    BY <1>0, <1>4, Zenon
  <2>2. Free' = Free /\ freep \in Free /\ ptr[freep] \in Free
    BY <1>4, <2>1, Zenon DEF Free, HeapInv, ListInv, Sorted
  <2>3. \A a \in Addr : Held(a)' <=> Held(a)
    BY <1>2, <2>1, <2>2, KeptOwner, Zenon
  <2>4. ListInv' /\ SpaceInv'
    BY <2>1, <2>3, SameHeap, Zenon
  <2> QED
    BY <1>3, <2>1, <2>2, <2>4, Zenon DEF HeapInv, OwnInv
<1>5. CASE freep = Null
  <2>1. freep' = Base /\ ptr' = [ptr EXCEPT ![Base] = Base] /\ Free = {} /\ sz' = Bottom
    BY <1>0, <1>5, Zenon DEF HeapInv, ListInv
  <2>2. ptr'[Base] = Base /\ \A a \in Addr : a # Base => ptr'[a] = Null
    BY <1>1, <2>1, Zenon DEF Free
  <2>3. Free' = {Base}
    BY <1>1, <2>2, Zenon DEF Free
  <2>4. freep' \in Free' /\ ptr'[freep'] \in Free'
    BY <2>1, <2>2, <2>3
  <2>5. \A a \in Addr : Held(a)' <=> Held(a)
    BY <1>2, <2>4, KeptOwner, Zenon
  <2>6. Blocks' = Blocks
    BY <2>1, <2>3, <2>5, Zenon DEF Blocks
  <2>7. SpaceInv'
    BY <1>0, <2>6, Zenon DEF HeapInv, SpaceInv
  <2>8. ~Between(Base, Base, Base)
    BY DEF Between, Base
  <2>9. Sorted(Free', ptr')
    BY <2>2, <2>3, <2>8, Zenon DEF Sorted
  <2>10. ListInv'
    BY <1>0, <1>1, <2>1, <2>2, <2>3, <2>9, Zenon DEF ListInv, HeapInv
  <2>11. ~Held(Base)
    <3>1. Base \notin Blocks
      BY BlockRoom DEF Base, Bottom
    <3> QED
      BY <1>1, <3>1, Zenon DEF Blocks
  <2>12. \A a \in Addr : Held(a) => ptr'[a] = Null
    BY <2>2, <2>11, Zenon
  <2> QED
    BY <1>3, <2>7, <2>10, <2>4, <2>12, Zenon
<1> QED
  BY <1>4, <1>5, Zenon

\* sbrk() has grown the process, and the new block goes to the list.
LEMMA GrowStep ==
  ASSUME HeapInv, NEW t \in Thread, growproc(t)
  PROVE  HeapInv' /\ SameUse
<1> DEFINE f == [fr[t] EXCEPT !.pc = "core_walk", !.p = freep]
           n == Grown(t)
<1>0. /\ fr[t].pc = "sbrk" /\ sz + n <= Top + 1 /\ sz' = sz + n
      /\ size' = [size EXCEPT ![fr[t].bp] = n] /\ Goes(t, f)
      /\ UNCHANGED <<ptr, freep, mallocLock, mine, stack, zombie>>
  BY Zenon DEF growproc, At, threadVars
<1>1. /\ fr[t].nunits \in Sizes /\ mallocLock = t /\ freep # Null /\ fr[t].bp = sz
      /\ (fr[t].worker # None => t = Main /\ stack[fr[t].worker] = None)
  BY <1>0, FrameOf, Zenon DEF CallInv, InLock
<1>2. n \in Nat /\ n > 0
  <2>1. fr[t].nunits \in Nat \ {0} /\ NALLOC \in Nat \ {0}
    BY <1>1, Constants, HeapAssumption, Zenon
  <2> QED
    BY <2>1 DEF Grown
<1> HIDE DEF n
<1>3. /\ sz \in Nat /\ sz >= Bottom /\ sz \in Addr /\ sz' \in Nat /\ sz' >= Bottom /\ sz' <= Top + 1
      /\ sz # Base
  <2>1. sz \in Nat /\ sz >= Bottom
    BY Zenon DEF HeapInv, HeapTypes
  <2> QED
    BY <1>0, <1>2, <2>1, HeapAssumption DEF Bottom, Base, Addr
<1>4. /\ size \in [Addr -> Nat] /\ size'[sz] = n /\ \A a \in Addr : a # sz => size'[a] = size[a]
      /\ size' \in [Addr -> Nat]
  <2>1. size \in [Addr -> Nat]
    BY FrameOf, Zenon
  <2> QED
    BY <1>0, <1>1, <1>2, <1>3, <2>1, Zenon
<1>5. /\ sz \notin Blocks /\ Apart(Blocks \cup {sz}, size', sz')
      /\ Covered(Blocks \cup {sz}, size', sz')
  <2>1. Blocks \in SUBSET Nat /\ Blocks \subseteq Addr
    BY Constants, Zenon DEF Blocks
  <2>2. /\ \A a \in Blocks : size[a] \in Nat
        /\ \A a \in Blocks : a # sz => size'[a] = size[a]
    BY <1>4, <2>1, Zenon
  <2>3. Apart(Blocks, size, sz) /\ Covered(Blocks, size, sz)
    BY Zenon DEF HeapInv, SpaceInv
  <2>4. /\ sz \notin Blocks /\ Apart(Blocks \cup {sz}, size', sz + n)
        /\ Covered(Blocks \cup {sz}, size', sz + n)
    BY <1>2, <1>3, <1>4, <2>1, <2>2, <2>3, RoomGrow, ZenonT(30)
  <2> QED
    BY <1>0, <2>4, Zenon
<1>6. ~Held(sz) /\ ptr[sz] = Null
  BY <1>3, <1>5, FrameOf, Zenon DEF Blocks, Free
<1>7. Free' = Free /\ freep \in Free /\ freep \in Addr
  BY <1>0, <1>1, Zenon DEF Free, HeapInv, ListInv
<1>8. /\ f \in Frame /\ f.pc = "core_walk" /\ f.p = freep /\ f.bp = sz
      /\ f.nunits = fr[t].nunits /\ f.worker = fr[t].worker
  BY <1>1, <1>7, FrameOf, ZenonT(30) DEF Frame, Places, InLock
<1> HIDE DEF f
<1>9. fr'[t] = f /\ \A u \in Thread : u # t => fr'[u] = fr[u]
  BY <1>0, <1>8, Frames, Zenon DEF HeapInv
<1>10. CallInv(t)'
  BY <1>0, <1>1, <1>3, <1>7, <1>8, <1>9, Zenon DEF CallInv, InLock, Freeing
<1>11. ASSUME NEW a \in Addr, a # sz PROVE Kept(a)
  <2>1. ~InCall(a, t) /\ ~InCall(a, t)' /\ fr[t].pc # "clone" /\ fr'[t].pc # "clone"
    BY <1>0, <1>8, <1>9, <1>11, Zenon DEF InCall, Freeing
  <2> QED
    BY <1>0, <1>9, <2>1, Zenon DEF Kept, InCall
<1>12. ASSUME NEW a \in Addr, a = sz PROVE Held(a)' /\ Once(a)' /\ ~Used(a) /\ ~Used(a)'
  <2>1. /\ \A u \in Thread : a \notin mine[u] /\ ~InCall(a, u)
        /\ \A w \in Worker : stack[w] # a
        /\ ~Used(a)
    BY <1>6, <1>12, Zenon DEF Held, Used
  <2>2. /\ \A u \in Thread : a \notin mine'[u]
        /\ \A u \in Thread : u # t => ~InCall(a, u)'
        /\ InCall(a, t)'
        /\ \A w \in Worker : stack'[w] # a
    BY <1>0, <1>8, <1>9, <1>12, <2>1, Zenon DEF InCall, Freeing
  <2>3. ASSUME NEW u \in Thread PROVE ~(fr'[u].pc = "clone" /\ fr'[u].bp = a)
    BY <1>8, <1>9, <2>2, Zenon DEF InCall
  <2> QED
    BY <2>1, <2>2, <2>3, Zenon DEF Held, Used, Once
<1>13. Blocks' = Blocks \cup {sz}
  <2>1. ASSUME NEW a \in Addr PROVE (a \in Blocks') <=> (a \in Blocks \cup {sz})
    BY <1>7, <1>11, <1>12, KeptOwner, Zenon DEF Blocks
  <2> QED
    BY <1>3, <2>1, Zenon DEF Blocks
<1>14. SpaceInv'
  BY <1>5, <1>13, Zenon DEF SpaceInv
<1>15. ListInv'
  <2>1. \A b \in Free : b # sz /\ b \in Addr
    BY <1>6, Zenon DEF Free
  <2>2. Sorted(Free', ptr') /\ freep' # Null /\ freep' \in Free' /\ Base \in Free'
    BY <1>0, <1>1, <1>7, Zenon DEF HeapInv, ListInv
  <2>3. size'[Base] = 0 /\ \A b \in Free' : b + size'[b] # ptr'[b] \/ b = Base
    BY <1>0, <1>3, <1>4, <1>7, <2>1, Constants, Zenon DEF HeapInv, ListInv
  <2> QED
    BY <2>2, <2>3, Zenon DEF ListInv
<1>16. OwnInv'
  <2>1. ASSUME NEW a \in Addr, a # sz
        PROVE  Once(a)' /\ (Held(a)' => ptr'[a] = Null) /\ (Used(a)' => size'[a] \in Sizes)
    BY <1>0, <1>4, <1>11, <2>1, KeptOwner, Zenon DEF HeapInv, OwnInv
  <2>2. ASSUME NEW a \in Addr, a = sz
        PROVE  Once(a)' /\ (Held(a)' => ptr'[a] = Null) /\ (Used(a)' => size'[a] \in Sizes)
    BY <1>0, <1>6, <1>12, <2>2, Zenon
  <2> QED
    BY <2>1, <2>2, Zenon DEF OwnInv
<1>17. SameUse
  BY <1>4, <1>11, <1>12, KeptOwner, Zenon DEF SameUse
<1>18. Lawful(t) /\ mallocLock' \in Thread \cup {None}
  BY <1>0, <1>1, Zenon DEF Lawful
<1>19. /\ ptr' \in [Addr -> Addr \cup {Null}] /\ freep' \in Addr \cup {Null}
       /\ mine' \in [Thread -> SUBSET Addr]
  BY <1>0, Zenon DEF HeapInv, HeapTypes
<1>20. HeapInv'
  BY <1>0, <1>3, <1>4, <1>8, <1>10, <1>14, <1>15, <1>16, <1>18, <1>19, Change, Zenon
<1> QED
  BY <1>17, <1>20, Zenon

\* What link() does to a block b that is somebody's, and goes behind q.
LEMMA LinkHeap ==
  ASSUME HeapInv, NEW b \in Addr, Held(b), NEW q \in Free, Place(b, q), link(b, q), sz' = sz,
         \A a \in Addr : Held(a)' <=> (Held(a) /\ a # b)
  PROVE  /\ ListInv' /\ SpaceInv' /\ freep' = q /\ q \in Free' /\ ptr'[q] \in Free'
         /\ ptr' \in [Addr -> Addr \cup {Null}] /\ size' \in [Addr -> Nat]
         /\ \A a \in Addr : Held(a)' => size'[a] = size[a] /\ ptr'[a] = Null
<1> DEFINE n == ptr[q]
           up == b + size[b] = n
           down == q + size[q] = b
           bsize == IF up THEN size[b] + size[n] ELSE size[b]
           bptr == IF up THEN ptr[n] ELSE n
<1>1. /\ ptr \in [Addr -> Addr \cup {Null}] /\ size \in [Addr -> Nat] /\ q \in Addr
      /\ Addr \subseteq Nat /\ Null \notin Addr
  BY Constants, Zenon DEF HeapInv, HeapTypes, Free
<1>2. /\ Sorted(Free, ptr) /\ n \in Free /\ Base \in Free /\ size[Base] = 0 /\ Free \in SUBSET Nat
      /\ n \in Addr
  <2>1. Sorted(Free, ptr) /\ n \in Free /\ Base \in Free /\ size[Base] = 0
    BY Zenon DEF HeapInv, ListInv, Sorted
  <2> QED
    BY <1>1, <2>1, Zenon DEF Free
<1>3. b \notin Free /\ b # q /\ b # n /\ b # Base /\ b \in Blocks /\ ptr[b] = Null
  <2>1. ptr[b] = Null /\ b \in Blocks
    BY Zenon DEF HeapInv, OwnInv, Blocks
  <2>2. b \notin Free
    BY <2>1, Zenon DEF Free
  <2> QED
    BY <1>2, <2>1, <2>2, Zenon
<1>4. /\ b \in Nat /\ q \in Nat /\ n \in Nat /\ size[b] \in Nat /\ size[n] \in Nat /\ size[q] \in Nat
      /\ b >= Bottom /\ size[b] > 0
  <2>1. b >= Bottom /\ size[b] > 0
    BY <1>3, BlockRoom, Zenon
  <2> QED
    BY <1>1, <1>2, <2>1, Zenon
<1>5. ASSUME up PROVE n # Base /\ n # q /\ n \in Blocks /\ ptr[n] \in Free /\ ptr[n] # n
  <2>1. n # Base
    BY <1>4, <1>5 DEF Base, Bottom
  <2>2. ~Between(Base, n, ptr[n]) /\ ptr[n] \in Free
    BY <1>2, Zenon DEF Sorted
  <2>3. ptr[n] # n
    BY <1>4, <2>1, <2>2 DEF Between, Base
  <2> QED
    BY <1>2, <2>1, <2>2, <2>3, Zenon DEF Blocks
<1>6. ASSUME down PROVE q # Base /\ q \in Blocks
  <2>1. q # Base
    BY <1>2, <1>4, <1>6 DEF Base, Bottom
  <2> QED
    BY <1>1, <2>1, Zenon DEF Blocks
<1> DEFINE gone == (IF up THEN {n} ELSE {}) \cup (IF down THEN {b} ELSE {})
<1>7. /\ freep' = q
      /\ size' = [a \in Addr |-> IF a \in gone THEN 0
                                 ELSE IF a = q /\ down THEN size[q] + bsize
                                 ELSE IF a = b THEN bsize
                                 ELSE size[a]]
      /\ ptr' = [a \in Addr |-> IF a \in gone THEN Null
                                ELSE IF a = q THEN IF down THEN bptr ELSE b
                                ELSE IF a = b THEN bptr
                                ELSE ptr[a]]
  BY Zenon DEF link
<1>8. bptr \in Free /\ bptr \in Addr /\ bsize \in Nat
  BY <1>2, <1>4, <1>5 DEF Free
<1>9. (n \in gone <=> up) /\ (b \in gone <=> down) /\ q \notin gone
      /\ \A a \in Addr : a # n /\ a # b => a \notin gone
  BY <1>3, <1>5, Zenon
<1> HIDE DEF bsize, bptr, gone
<1>10. ptr'[q] = IF down THEN bptr ELSE b
  BY <1>1, <1>7, <1>9, Zenon
<1>11. size'[q] = IF down THEN size[q] + bsize ELSE size[q]
  BY <1>1, <1>3, <1>7, <1>9, Zenon
<1>12. ~down => size'[b] = bsize /\ ptr'[b] = bptr
  BY <1>3, <1>7, <1>9, Zenon
<1>13. (down => ptr'[b] = Null) /\ (up => ptr'[n] = Null)
  BY <1>2, <1>7, <1>9, Zenon
<1>14. ASSUME NEW a \in Addr, a # q, a # b, ~up \/ a # n PROVE size'[a] = size[a] /\ ptr'[a] = ptr[a]
  BY <1>7, <1>9, <1>14, Zenon
<1>15. ptr' \in [Addr -> Addr \cup {Null}] /\ size' \in [Addr -> Nat]
  <2>1. ASSUME NEW a \in Addr PROVE ptr'[a] \in Addr \cup {Null}
    <3>1. a = q \/ a = b \/ (up /\ a = n) \/ ptr'[a] = ptr[a]
      BY <1>14, Zenon
    <3> QED
      BY <1>1, <1>8, <1>10, <1>12, <1>13, <3>1, Zenon
  <2>2. ASSUME NEW a \in Addr PROVE size'[a] \in Nat
    <3>1. 0 \in Nat /\ size[q] + bsize \in Nat
      BY <1>4, <1>8
    <3>2. size'[a] \in {0, size[q] + bsize, bsize, size[a]}
      BY <1>7, Zenon
    <3> QED
      BY <1>1, <1>8, <3>1, <3>2, Zenon
  <2>3. ptr' = [a \in Addr |-> ptr'[a]] /\ size' = [a \in Addr |-> size'[a]]
    BY <1>7
  <2> QED
    BY <2>1, <2>2, <2>3, Zenon
<1> DEFINE F1 == Free \cup {b}
           F2 == IF up THEN F1 \ {n} ELSE F1
           F3 == IF down THEN F2 \ {b} ELSE F2
<1>16. Free' = F3
  <2>1. ASSUME NEW a \in Addr PROVE (ptr'[a] # Null) <=> (a \in F3)
    <3>1. CASE a = q
      BY <1>1, <1>3, <1>5, <1>8, <1>10, <3>1, Zenon
    <3>2. CASE a = b
      BY <1>1, <1>3, <1>8, <1>12, <1>13, <3>2, Zenon
    <3>3. CASE up /\ a = n
      BY <1>13, <3>3, Zenon
    <3>4. CASE a # q /\ a # b /\ (~up \/ a # n)
      <4>1. ptr'[a] = ptr[a]
        BY <1>14, <3>4, Zenon
      <4> QED
        BY <3>4, <4>1, Zenon DEF Free
    <3> QED
      BY <3>1, <3>2, <3>3, <3>4, Zenon
  <2>2. F3 \subseteq Addr
    BY Zenon DEF Free
  <2> QED
    BY <2>1, <2>2, Zenon DEF Free
<1>17. Sorted(F3, ptr')
  <2> DEFINE r1 == [a \in Addr |-> IF a = q THEN b ELSE IF a = b THEN n ELSE ptr[a]]
             r2 == [a \in Addr |-> IF a = q THEN b ELSE IF a = b THEN bptr ELSE ptr[a]]
  <2>1. /\ r1[q] = b /\ r1[b] = n /\ \A c \in Free : c # q => r1[c] = ptr[c]
        /\ r2[q] = b /\ r2[b] = bptr /\ \A c \in Free : c # q => r2[c] = ptr[c]
    BY <1>1, <1>3, Zenon DEF Free
  <2> HIDE DEF r1, r2
  <2>2. Between(b, q, n)
    BY Zenon DEF Place, Between
  <2>3. Sorted(F1, r1)
    BY <1>2, <1>3, <1>4, <2>1, <2>2, SortedInsert
  <2>4. F1 \in SUBSET Nat /\ b \in F1 /\ q \in F1
    BY <1>2, <1>4, Zenon
  <2>5. Sorted(F2, r2)
    <3>1. CASE up
      <4>1. r1[n] = ptr[n] /\ bptr = ptr[n]
        BY <1>2, <1>5, <2>1, <3>1, Zenon DEF bptr
      <4>2. r2[b] = r1[n] /\ n = r1[b] /\ n # b /\ \A c \in F1 : c # b /\ c # n => r2[c] = r1[c]
        BY <1>3, <2>1, <4>1, Zenon
      <4>3. Sorted(F1 \ {n}, r2)
        BY <2>3, <2>4, <4>2, SortedRemove
      <4> QED
        BY <3>1, <4>3, Zenon
    <3>2. CASE ~up
      <4>1. \A c \in F1 : r2[c] = r1[c]
        BY <2>1, <3>2, Zenon DEF bptr
      <4> QED
        BY <2>3, <3>2, <4>1, Zenon DEF Sorted
    <3> QED
      BY <3>1, <3>2, Zenon
  <2>6. F2 \in SUBSET Nat /\ b \in F2 /\ q \in F2 /\ F2 \subseteq F1 /\ (up => n \notin F2)
    BY <1>3, <1>5, <2>4, Zenon
  <2>7. \A c \in F2 : c # q /\ c # b => ptr'[c] = r2[c]
    <3>1. ASSUME NEW c \in F2, c # q, c # b PROVE ptr'[c] = r2[c]
      <4>1. c \in Free /\ c \in Addr /\ (~up \/ c # n)
        BY <2>6, <3>1, Zenon DEF Free
      <4> QED
        BY <1>14, <2>1, <3>1, <4>1, Zenon
    <3> QED
      BY <3>1, Zenon
  <2> HIDE DEF F2
  <2>8. CASE down
    <3>1. b = r2[q] /\ b # q /\ ptr'[q] = r2[b]
      BY <1>3, <1>10, <2>1, <2>8, Zenon
    <3>2. Sorted(F2 \ {b}, ptr')
      BY <2>5, <2>6, <2>7, <3>1, SortedRemove
    <3> QED
      BY <2>8, <3>2, Zenon
  <2>9. CASE ~down
    <3>1. \A c \in F2 : ptr'[c] = r2[c]
      BY <1>10, <1>12, <2>1, <2>7, <2>9, Zenon
    <3> QED
      BY <2>5, <2>9, <3>1, Zenon DEF Sorted
  <2> QED
    BY <2>8, <2>9, Zenon
<1>18. SpaceInv'
  <2> DEFINE v == [size EXCEPT ![b] = bsize]
             A1 == IF up THEN Blocks \ {n} ELSE Blocks
             A2 == IF down THEN A1 \ {b} ELSE A1
  <2>1. v[b] = bsize /\ \A a \in Addr : a # b => v[a] = size[a]
    BY <1>1, Zenon
  <2>2. Blocks \in SUBSET Nat /\ Blocks \subseteq Addr
    BY <1>1, Zenon DEF Blocks
  <2>3. Apart(Blocks, size, sz) /\ Covered(Blocks, size, sz) /\ sz \in Nat
    BY Zenon DEF HeapInv, SpaceInv, HeapTypes
  <2> HIDE DEF v
  <2>4. Apart(A1, v, sz) /\ Covered(A1, v, sz)
    <3>1. CASE up
      <4>1. /\ v[b] = size[b] + size[n] /\ \A a \in Blocks : a # b /\ a # n => v[a] = size[a]
            /\ \A a \in Blocks : size[a] \in Nat
            /\ b + size[b] = n /\ n \in Blocks
        BY <1>1, <1>5, <2>1, <2>2, <3>1, Zenon DEF bsize
      <4>2. Apart(Blocks \ {n}, v, sz) /\ Covered(Blocks \ {n}, v, sz)
        BY <1>3, <2>2, <2>3, <4>1, RoomMerge
      <4> QED
        BY <3>1, <4>2, Zenon
    <3>2. CASE ~up
      <4>1. \A a \in Blocks : v[a] = size[a]
        BY <2>1, <2>2, <3>2, Zenon DEF bsize
      <4> QED
        BY <2>3, <3>2, <4>1, Zenon DEF Apart, Covered
    <3> QED
      BY <3>1, <3>2, Zenon
  <2>5. /\ A1 \in SUBSET Nat /\ A1 \subseteq Addr /\ b \in A1 /\ A1 \subseteq Blocks
        /\ (up => n \notin A1) /\ \A a \in A1 : v[a] \in Nat
    BY <1>1, <1>3, <1>8, <2>1, <2>2, Zenon
  <2>6. \A a \in A1 : a # q /\ a # b => size'[a] = v[a]
    BY <1>14, <2>1, <2>5, Zenon
  <2>7. down => q \in A1 /\ v[q] = size[q]
    BY <1>1, <1>3, <1>5, <1>6, <2>1, Zenon
  <2> HIDE DEF A1
  <2>8. Apart(A2, size', sz) /\ Covered(A2, size', sz)
    <3>1. CASE down
      <4>1. q + v[q] = b /\ size'[q] = v[q] + v[b] /\ q \in A1
        BY <1>11, <2>1, <2>7, <3>1, Zenon
      <4>2. Apart(A1 \ {b}, size', sz) /\ Covered(A1 \ {b}, size', sz)
        BY <2>3, <2>4, <2>5, <2>6, <4>1, RoomMerge
      <4> QED
        BY <3>1, <4>2, Zenon
    <3>2. CASE ~down
      <4>1. \A a \in A1 : size'[a] = v[a]
        BY <1>1, <1>3, <1>11, <1>12, <2>1, <2>6, <3>2, Zenon
      <4> QED
        BY <2>4, <3>2, <4>1, Zenon DEF Apart, Covered
    <3> QED
      BY <3>1, <3>2, Zenon
  <2>9. Blocks' = A2
    <3>1. ASSUME NEW a \in Addr PROVE (a \in Blocks') <=> (a \in A2)
      <4>1. CASE a = b
        BY <1>3, <1>5, <1>16, <2>5, <4>1, Zenon DEF Blocks
      <4>2. CASE up /\ a = n
        <5>1. ~Held(n)
          BY <1>2, Zenon DEF HeapInv, OwnInv, Free
        <5> QED
          BY <1>3, <1>16, <2>5, <4>2, <5>1, Zenon DEF Blocks
      <4>3. CASE a # b /\ (~up \/ a # n)
        <5>1. a \in Free' <=> a \in Free
          BY <1>16, <4>3, Zenon
        <5>2. Held(a)' <=> Held(a)
          BY <4>3, Zenon
        <5>3. a \in A2 <=> a \in Blocks
          BY <4>3, Zenon DEF A1
        <5> QED
          BY <5>1, <5>2, <5>3, Zenon DEF Blocks
      <4> QED
        BY <4>1, <4>2, <4>3, Zenon
    <3> QED
      BY <2>5, <3>1, Zenon DEF Blocks
  <2> QED
    BY <2>8, <2>9, Zenon DEF SpaceInv
<1>19. b + bsize # bptr
  <2>1. CASE up
    <3>1. n + size[n] # ptr[n]
      BY <1>2, <1>5, <2>1, Zenon DEF HeapInv, ListInv
    <3>2. b + (size[b] + size[n]) = n + size[n]
      BY <1>4, <2>1
    <3> QED
      BY <2>1, <3>1, <3>2, Zenon DEF bsize, bptr
  <2>2. CASE ~up
    BY <2>2, Zenon DEF bsize, bptr
  <2> QED
    BY <2>1, <2>2, Zenon
<1>20. q \in F3 /\ Base \in F3 /\ F3 \subseteq Free \cup {b} /\ (up => n \notin F3) /\ (down => b \notin F3)
  BY <1>2, <1>3, <1>5, Zenon
<1>21. size'[Base] = 0
  <2>1. CASE q = Base
    BY <1>2, <1>6, <1>11, <2>1, Zenon
  <2>2. CASE q # Base
    <3>1. Base \in Addr /\ (~up \/ Base # n)
      BY <1>5, Constants, Zenon
    <3> QED
      BY <1>2, <1>3, <1>14, <2>2, <3>1, Zenon
  <2> QED
    BY <2>1, <2>2, Zenon
<1>22. ASSUME NEW c \in F3, c # Base PROVE c + size'[c] # ptr'[c]
  <2>1. CASE c = b
    BY <1>12, <1>19, <1>20, <2>1, Zenon
  <2>2. CASE c = q /\ down
    <3>1. q + (size[q] + bsize) = b + bsize
      BY <1>4, <1>8, <2>2
    <3> QED
      BY <1>10, <1>11, <1>19, <2>2, <3>1, Zenon
  <2>3. CASE c = q /\ ~down
    BY <1>10, <1>11, <2>3, Zenon
  <2>4. CASE c # b /\ c # q
    <3>1. c \in Free /\ c \in Addr /\ (~up \/ c # n)
      BY <1>20, <2>4, Zenon DEF Free
    <3>2. c + size[c] # ptr[c]
      BY <1>22, <3>1, Zenon DEF HeapInv, ListInv
    <3> QED
      BY <1>14, <2>4, <3>1, <3>2, Zenon
  <2> QED
    BY <2>1, <2>2, <2>3, <2>4, Zenon
<1>23. q # Null
  BY <1>1, Zenon
<1> HIDE DEF F3
<1>24. ListInv'
  BY <1>7, <1>16, <1>17, <1>20, <1>21, <1>22, <1>23, Zenon DEF ListInv
<1>25. ASSUME NEW a \in Addr, Held(a)' PROVE size'[a] = size[a] /\ ptr'[a] = Null
  <2>1. Held(a) /\ a # b /\ ptr[a] = Null
    BY <1>25, Zenon DEF HeapInv, OwnInv
  <2>2. a # q /\ a # n
    BY <1>2, <2>1, Zenon DEF Free
  <2> QED
    BY <1>14, <2>1, <2>2, Zenon
<1>26. q \in Free' /\ ptr'[q] \in Free'
  BY <1>16, <1>17, <1>20, Zenon DEF Sorted
<1> QED
  BY <1>7, <1>15, <1>18, <1>24, <1>25, <1>26, Zenon


\* free() and freewlock() put the block that the call owns into the list.
LEMMA LinkOwner ==
  ASSUME HeapInv, NEW t \in Thread, fr[t].pc \in {"f_walk", "core_walk"}, fr[t].bp \in Addr,
         Place(fr[t].bp, fr[t].p), link(fr[t].bp, fr[t].p), UNCHANGED <<sz, mine, stack>>,
         fr'[t].pc \notin Freeing \cup {"clone"}, \A u \in Thread : u # t => fr'[u] = fr[u]
  PROVE  /\ ListInv' /\ SpaceInv' /\ OwnInv' /\ SameUse
         /\ freep' \in Free' /\ ptr'[freep'] \in Free' /\ freep' \in Addr
         /\ ptr' \in [Addr -> Addr \cup {Null}] /\ size' \in [Addr -> Nat]
<1>1. PICK b \in Addr : b = fr[t].bp
  BY Zenon
<1>2. PICK q \in Free : q = fr[t].p
  BY FrameOf, Zenon DEF CallInv, InLock
<1>3. InCall(b, t) /\ Once(b) /\ Held(b)
  BY <1>1, Zenon DEF InCall, Freeing, HeapInv, OwnInv, Held
<1>4. /\ \A u \in Thread : b \notin mine[u]
      /\ \A u \in Thread : u # t => ~InCall(b, u)
      /\ \A w \in Worker : stack[w] # b
  BY <1>3, Zenon DEF Once
<1>5. \A a \in Addr : ~InCall(a, t)' /\ fr'[t].pc # "clone" /\ fr[t].pc # "clone"
  BY Zenon DEF InCall
<1>6. ASSUME NEW a \in Addr, a # b PROVE Kept(a)
  <2>1. ~InCall(a, t)
    BY <1>1, <1>6, Zenon DEF InCall
  <2> QED
    BY <1>5, <2>1, Zenon DEF Kept, InCall
<1>7. /\ \A u \in Thread : b \notin mine'[u] /\ ~InCall(b, u)'
      /\ \A w \in Worker : stack'[w] # b
  BY <1>4, <1>5, Zenon DEF InCall
<1>8. ASSUME NEW u \in Thread
      PROVE  ~(fr'[u].pc = "clone" /\ fr'[u].bp = b) /\ ~(fr[u].pc = "clone" /\ fr[u].bp = b)
  BY <1>4, <1>5, <1>7, Zenon DEF InCall
<1>9. ~Used(b) /\ ~Used(b)' /\ ~Held(b)' /\ Once(b)'
  BY <1>4, <1>7, <1>8, Zenon DEF Used, Held, Once
<1>10. \A a \in Addr : Held(a)' <=> (Held(a) /\ a # b)
  BY <1>6, <1>9, KeptOwner, Zenon
<1>11. /\ ListInv' /\ SpaceInv' /\ freep' = q /\ q \in Free' /\ ptr'[q] \in Free'
       /\ ptr' \in [Addr -> Addr \cup {Null}] /\ size' \in [Addr -> Nat]
       /\ \A a \in Addr : Held(a)' => size'[a] = size[a] /\ ptr'[a] = Null
  <2>1. Place(b, q) /\ link(b, q) /\ sz' = sz
    BY <1>1, <1>2, Zenon
  <2> QED
    BY <1>3, <1>10, <2>1, LinkHeap, Zenon
<1>12. ASSUME NEW a \in Addr
       PROVE  Once(a)' /\ (Held(a)' => ptr'[a] = Null) /\ (Used(a)' <=> Used(a))
              /\ (Used(a) => size'[a] = size[a] /\ size[a] \in Sizes)
  <2>1. CASE a = b
    BY <1>9, <2>1, Zenon
  <2>2. CASE a # b
    <3>1. Once(a)' /\ (Used(a)' <=> Used(a)) /\ (Used(a) => size[a] \in Sizes)
      BY <1>6, <2>2, KeptOwner, Zenon DEF HeapInv, OwnInv
    <3>2. (Held(a)' => ptr'[a] = Null) /\ (Used(a)' => size'[a] = size[a])
      BY <1>11, Zenon DEF Held
    <3> QED
      BY <3>1, <3>2, Zenon
  <2> QED
    BY <2>1, <2>2, Zenon
<1>13. OwnInv' /\ SameUse
  BY <1>12, Zenon DEF OwnInv, SameUse
<1> QED
  BY <1>2, <1>11, <1>13, Zenon DEF Free

\* The frame of a malloc() that begins to walk again.
LEMMA FrameBack ==
  ASSUME NEW g \in Frame, NEW x \in Addr, NEW y \in Addr
  PROVE  [g EXCEPT !.pc = "m_walk", !.bp = Null, !.prevp = x, !.p = y] \in Frame
<1> DEFINE h == [g EXCEPT !.pc = "m_walk", !.bp = Null]
<1>1. /\ g.worker \in Worker \cup {None} /\ g.nunits \in Nat /\ g.p \in Addr \cup {Null}
      /\ g.prevp \in Addr \cup {Null} /\ Null \in Nat
  BY Zenon DEF Frame, Null
<1>2. "m_walk" \in Places
  BY Zenon DEF Places, InLock
<1>3. h \in Frame /\ h.pc = "m_walk" /\ h.bp = Null /\ h.worker = g.worker /\ h.nunits = g.nunits
  BY <1>1, <1>2, Zenon DEF Frame
<1> HIDE DEF h
<1>4. [h EXCEPT !.prevp = x, !.p = y] \in Frame
  BY <1>1, <1>2, <1>3, Zenon DEF Frame
<1> QED
  BY <1>4, Zenon DEF h

\* The end of free(), and of the one that morecore() calls.
LEMMA LinkStep ==
  ASSUME HeapInv, NEW t \in Thread, f_link(t) \/ freewlock(t)
  PROVE  HeapInv' /\ SameUse
<1>0. /\ fr[t].pc \in {"f_walk", "core_walk"} /\ Place(fr[t].bp, fr[t].p)
      /\ link(fr[t].bp, fr[t].p) /\ UNCHANGED <<sz, mine, stack, zombie>>
  BY Zenon DEF f_link, freewlock, At, threadVars
<1>1. mallocLock = t /\ t # None /\ (fr[t].worker # None => t = Main /\ stack[fr[t].worker] = None)
  BY <1>0, FrameOf, Zenon DEF CallInv, InLock
<1>6. fr[t].bp \in Addr
  BY FrameOf, Zenon DEF f_link, freewlock, At, CallInv
<1>2. ASSUME NEW f, Goes(t, f) PROVE fr'[t] = f /\ \A u \in Thread : u # t => fr'[u] = fr[u]
  BY <1>2, Zenon DEF Goes, HeapInv, HeapTypes
<1>3. sz' \in Nat /\ sz' >= Bottom /\ sz' <= Top + 1 /\ mine' \in [Thread -> SUBSET Addr]
  BY <1>0, Zenon DEF HeapInv, HeapTypes
<1>4. CASE f_link(t)
  <2>0. Goes(t, User) /\ mallocLock' = None
    BY <1>4, Zenon DEF f_link, spin_unlock
  <2>1. User \in Frame /\ User.pc = "user" /\ User.worker = None
    BY DEF User, Frame, Places, Null
  <2>2. fr'[t] = User /\ \A u \in Thread : u # t => fr'[u] = fr[u]
    BY <1>2, <2>0, Zenon
  <2>3. fr'[t].pc \notin Freeing \cup {"clone"}
    BY <2>1, <2>2, Zenon DEF Freeing
  <2>4. /\ ListInv' /\ SpaceInv' /\ OwnInv' /\ SameUse /\ freep' \in Addr
        /\ ptr' \in [Addr -> Addr \cup {Null}] /\ size' \in [Addr -> Nat]
    BY <1>0, <1>6, <2>2, <2>3, LinkOwner, Zenon
  <2>5. CallInv(t)'
    BY <1>1, <2>0, <2>1, <2>2, Zenon DEF CallInv, InLock, Freeing
  <2>6. Lawful(t) /\ mallocLock' \in Thread \cup {None}
    BY <1>1, <2>0, Zenon DEF Lawful
  <2>7. HeapInv'
    BY <1>0, <1>3, <2>0, <2>1, <2>4, <2>5, <2>6, Change, Zenon
  <2> QED
    BY <2>4, <2>7, Zenon
<1>5. CASE freewlock(t)
  <2> DEFINE f == [fr[t] EXCEPT !.pc = "m_walk", !.bp = Null, !.prevp = freep', !.p = ptr'[freep']]
  <2>0. Goes(t, f) /\ mallocLock' = mallocLock /\ fr[t].pc = "core_walk"
    BY <1>5, Zenon DEF freewlock, At
  <2>1. /\ f.pc = "m_walk" /\ f.prevp = freep' /\ f.p = ptr'[freep']
        /\ f.nunits = fr[t].nunits /\ f.worker = fr[t].worker
    BY FrameOf DEF Frame
  <2>2. fr'[t] = f /\ \A u \in Thread : u # t => fr'[u] = fr[u]
    BY <1>2, <2>0, Zenon
  <2>3. fr'[t].pc \notin Freeing \cup {"clone"}
    BY <2>1, <2>2, Zenon DEF Freeing
  <2>4. /\ ListInv' /\ SpaceInv' /\ OwnInv' /\ SameUse
        /\ freep' \in Free' /\ ptr'[freep'] \in Free' /\ freep' \in Addr
        /\ ptr' \in [Addr -> Addr \cup {Null}] /\ size' \in [Addr -> Nat]
    BY <1>0, <1>6, <2>2, <2>3, LinkOwner, Zenon
  <2>5. freep' # Null /\ ptr'[freep'] \in Addr
    BY <2>4, Constants, Zenon DEF Free
  <2>6. f \in Frame
    <3>1. freep' \in Addr /\ ptr'[freep'] \in Addr /\ Null \in Nat
      BY <2>4, <2>5 DEF Null
    <3>2. fr[t] \in Frame
      BY FrameOf, Zenon
    <3> QED
      BY <3>1, <3>2, FrameBack, Zenon
  <2> HIDE DEF f
  <2>7. fr[t].nunits \in Sizes
    BY <2>0, FrameOf, Zenon DEF CallInv
  <2>8. CallInv(t)'
    BY <1>0, <1>1, <2>0, <2>1, <2>2, <2>4, <2>5, <2>7, Zenon DEF CallInv, InLock, Freeing
  <2>9. Lawful(t) /\ mallocLock' \in Thread \cup {None}
    BY <1>1, <2>0, Zenon DEF Lawful
  <2>10. HeapInv'
    BY <1>0, <1>3, <2>0, <2>4, <2>6, <2>8, <2>9, Change, Zenon
  <2> QED
    BY <2>4, <2>10, Zenon
<1> QED
  BY <1>4, <1>5, Zenon

\* A function that changes in two places.
LEMMA TwoChanges ==
  ASSUME NEW D, NEW R, NEW g \in [D -> R], NEW x \in D, NEW y \in D, x # y, NEW u \in R, NEW v \in R,
         NEW h, h = [g EXCEPT ![x] = u, ![y] = v]
  PROVE  h \in [D -> R] /\ h[x] = u /\ h[y] = v /\ \A a \in D : a # x /\ a # y => h[a] = g[a]
BY Zenon

\* m_take() cuts the block b, the last k units, off the block q behind x.
Taken(x, q, k, b) ==
  /\ b = q + size[q] - k /\ freep' = x
  /\ ptr' = IF b = q THEN [ptr EXCEPT ![x] = ptr[q], ![q] = Null] ELSE ptr
  /\ size' = IF b = q THEN size ELSE [size EXCEPT ![q] = @ - k, ![b] = k]

\* What a malloc() that takes the last k units of q, behind x, does to the heap.
LEMMA TakeHeap ==
  ASSUME HeapInv, NEW x \in Free, NEW q \in Free, NEW b, NEW k \in Sizes, ptr[x] = q, size[q] >= k,
         Taken(x, q, k, b), sz' = sz
  PROVE  /\ b \in Addr /\ ~Held(b) /\ ptr'[b] = Null /\ size'[b] = k
         /\ ptr' \in [Addr -> Addr \cup {Null}] /\ size' \in [Addr -> Nat]
         /\ \A a \in Addr : Held(a) => ptr'[a] = Null /\ size'[a] = size[a]
         /\ (\A a \in Addr : Held(a)' <=> (Held(a) \/ a = b)) => ListInv' /\ SpaceInv'
<1>1. /\ ptr \in [Addr -> Addr \cup {Null}] /\ size \in [Addr -> Nat] /\ q \in Addr /\ x \in Addr
      /\ Addr \subseteq Nat /\ Null \notin Addr /\ k \in Nat /\ k # 0 /\ sz \in Nat /\ sz <= Top + 1
      /\ Free \in SUBSET Nat
  BY Constants, Zenon DEF HeapInv, HeapTypes, Free
<1>2. /\ Sorted(Free, ptr) /\ ptr[q] \in Free /\ Base \in Free /\ size[Base] = 0
      /\ \A c \in Free : c + size[c] # ptr[c] \/ c = Base
  BY <1>1, Constants, Zenon DEF HeapInv, ListInv, Sorted, Free
<1>3. q # Base /\ q \in Blocks /\ size[q] \in Nat /\ q \in Nat
  <2>1. size[q] \in Nat /\ q \in Nat
    BY <1>1, Zenon
  <2>2. q # Base
    BY <1>1, <1>2, <2>1
  <2> QED
    BY <1>1, <2>1, <2>2, Zenon DEF Blocks
<1>4. b = q + size[q] - k /\ b \in Nat /\ b >= q /\ b + k = q + size[q] /\ q + size[q] <= sz /\ q >= Bottom
  <2>1. b = q + size[q] - k
    BY Zenon DEF Taken
  <2> QED
    BY <1>1, <1>3, <2>1, BlockRoom
<1>5. b \in Addr /\ b # Base
  <2>1. b >= Base /\ b <= Top /\ b # Base
    BY <1>1, <1>4, HeapAssumption DEF Base, Bottom
  <2> QED
    BY <1>4, <2>1, Constants, Zenon
<1>6. \A a \in Addr : Held(a) => ptr[a] = Null /\ a # q /\ a # x
  BY Zenon DEF HeapInv, OwnInv, Free
<1>7. Apart(Blocks, size, sz) /\ Covered(Blocks, size, sz) /\ Blocks \in SUBSET Nat /\ Blocks \subseteq Addr
  BY <1>1, Zenon DEF HeapInv, SpaceInv, Blocks
<1>8. CASE b = q
  <2>1. ptr' = [ptr EXCEPT ![x] = ptr[q], ![q] = Null] /\ size' = size
    BY <1>8, Zenon DEF Taken
  <2>2. x # q
    <3>1. ~Between(Base, x, q)
      BY <1>2, Zenon DEF Sorted
    <3> QED
      BY <1>3, <3>1 DEF Between, Base
  <2>3. /\ ptr'[x] = ptr[q] /\ ptr'[q] = Null
        /\ \A a \in Addr : a # x /\ a # q => ptr'[a] = ptr[a]
        /\ ptr' \in [Addr -> Addr \cup {Null}]
    <3>1. ptr[q] \in Addr \cup {Null} /\ Null \in Addr \cup {Null}
      BY <1>1, Zenon
    <3> QED
      BY <1>1, <2>1, <2>2, <3>1, TwoChanges, ZenonT(30)
  <2>4. Free' = Free \ {q}
    <3>1. ASSUME NEW a \in Addr PROVE (ptr'[a] # Null) <=> (a \in Free \ {q})
      BY <1>1, <1>2, <2>2, <2>3, Zenon DEF Free
    <3> QED
      BY <3>1, Zenon DEF Free
  <2>5. \A c \in Free : c # x /\ c # q => ptr'[c] = ptr[c]
    BY <2>3, Zenon DEF Free
  <2>6. Sorted(Free \ {q}, ptr')
    <3>1. Free \in SUBSET Nat /\ Sorted(Free, ptr) /\ q = ptr[x] /\ q # x /\ ptr'[x] = ptr[q]
      BY <1>1, <1>2, <2>2, <2>3, Zenon
    <3> QED
      BY <2>5, <3>1, SortedRemove
  <2>7. x # Base => x + size[x] # ptr[q]
    <3> DEFINE n == ptr[q]
    <3>1. ASSUME x # Base PROVE x \in Blocks
      BY <1>1, <3>1, Zenon DEF Blocks
    <3>2. ~Between(n, x, q) /\ ~Between(x, q, n)
      BY <1>2, Zenon DEF Sorted
    <3>3. n \in Nat /\ x \in Nat
      BY <1>1, <1>2, Zenon
    <3>4. ASSUME x # Base PROVE size[x] \in Nat /\ size[x] > 0 /\ (x < q => x + size[x] <= q)
      BY <1>3, <3>1, <3>4, BlockRoom, Zenon
    <3> HIDE DEF n
    <3>5. x # Base => x + size[x] # n
      BY <1>3, <2>2, <3>2, <3>3, <3>4 DEF Between
    <3> QED
      BY <3>5, Zenon DEF n
  <2>8. ASSUME NEW c \in Free', c # Base PROVE c + size'[c] # ptr'[c]
    BY <1>2, <2>1, <2>3, <2>4, <2>5, <2>7, <2>8, Zenon
  <2>9. x # Null /\ x \in Free' /\ Base \in Free'
    BY <1>1, <1>2, <1>3, <2>2, <2>4, Zenon
  <2>10. ListInv'
    BY <1>2, <2>1, <2>4, <2>6, <2>8, <2>9, Zenon DEF ListInv, Taken
  <2>11. ASSUME \A a \in Addr : Held(a)' <=> (Held(a) \/ a = b) PROVE SpaceInv'
    <3>1. ASSUME NEW a \in Addr PROVE (a \in Blocks') <=> (a \in Blocks)
      BY <1>3, <1>8, <2>4, <2>11, Zenon DEF Blocks
    <3>2. Blocks' = Blocks
      BY <3>1, Zenon DEF Blocks
    <3> QED
      BY <1>7, <2>1, <3>2, Zenon DEF SpaceInv
  <2>12. ~Held(b) /\ ptr'[b] = Null
    BY <1>5, <1>6, <1>8, <2>3, Zenon
  <2>13. size'[b] = k
    BY <1>1, <1>3, <1>4, <1>8, <2>1
  <2>14. \A a \in Addr : Held(a) => ptr'[a] = Null /\ size'[a] = size[a]
    BY <1>6, <2>1, <2>3, Zenon
  <2> QED
    BY <1>1, <1>5, <2>1, <2>3, <2>10, <2>11, <2>12, <2>13, <2>14, Zenon
<1>9. CASE b # q
  <2>1. ptr' = ptr /\ size' = [size EXCEPT ![q] = @ - k, ![b] = k]
    BY <1>9, Zenon DEF Taken
  <2>2. k < size[q] /\ k > 0 /\ size[q] - k \in Nat
    BY <1>1, <1>3, <1>4, <1>9
  <2>3. /\ size'[q] = size[q] - k /\ size'[b] = k
        /\ \A a \in Addr : a # q /\ a # b => size'[a] = size[a]
        /\ size' \in [Addr -> Nat]
    BY <1>1, <1>5, <1>9, <2>1, <2>2, TwoChanges, ZenonT(30)
  <2>4. b \notin Blocks /\ Apart(Blocks \cup {b}, size', sz) /\ Covered(Blocks \cup {b}, size', sz)
    <3>1. \A a \in Blocks : size[a] \in Nat
      BY <1>1, <1>7, Zenon
    <3>2. \A a \in Addr : a # q /\ a # b => size'[a] = size[a]
      BY <2>3, Zenon
    <3>3. b \notin Blocks
      <4>1. q < b /\ ~(q + size[q] <= b)
        BY <1>1, <1>3, <1>4, <1>9
      <4> QED
        BY <1>3, <4>1, BlockRoom, Zenon
    <3>4. \A a \in Blocks : a # q => size'[a] = size[a]
      BY <1>7, <3>2, <3>3, Zenon
    <3> QED
      <4>1. sz \in Nat /\ q \in Blocks /\ k \in Nat /\ b \in Nat /\ b + k = q + size[q]
            /\ size'[q] = size[q] - k /\ size'[b] = k
        BY <1>1, <1>3, <1>4, <2>3, Zenon
      <4> QED
        BY <1>7, <2>2, <3>1, <3>4, <4>1, RoomSplit
  <2>5. ~Held(b) /\ ptr[b] = Null /\ b \notin Free
    BY <1>1, <1>5, <2>4, Zenon DEF Blocks, Free
  <2>6. Free' = Free
    BY <2>1, Zenon DEF Free
  <2>7. ASSUME NEW c \in Free, c # Base PROVE c + size'[c] # ptr[c]
    <3>1. CASE c = q
      <4>1. q + size'[q] = b
        BY <1>3, <1>4, <1>1, <2>2, <2>3
      <4> QED
        BY <1>2, <2>5, <3>1, <4>1, Zenon
    <3>2. CASE c # q
      <4>1. c \in Addr /\ c # b
        BY <2>5, Zenon DEF Free
      <4> QED
        BY <1>2, <2>3, <2>7, <3>2, <4>1, Zenon
    <3> QED
      BY <3>1, <3>2, Zenon
  <2>8. size'[Base] = 0 /\ x # Null
    BY <1>1, <1>2, <1>3, <1>5, <2>3, Constants, Zenon
  <2>9. ListInv'
    BY <1>2, <2>1, <2>6, <2>7, <2>8, Zenon DEF ListInv, Taken
  <2>10. ASSUME \A a \in Addr : Held(a)' <=> (Held(a) \/ a = b) PROVE SpaceInv'
    <3>1. ASSUME NEW a \in Addr PROVE (a \in Blocks') <=> (a \in Blocks \cup {b})
      BY <2>6, <2>10, Zenon DEF Blocks
    <3>2. Blocks' = Blocks \cup {b}
      BY <1>5, <3>1, Zenon DEF Blocks
    <3> QED
      BY <2>4, <3>2, Zenon DEF SpaceInv
  <2>11. \A a \in Addr : Held(a) => ptr'[a] = Null /\ size'[a] = size[a]
    BY <1>6, <2>1, <2>3, <2>5, Zenon
  <2> QED
    BY <1>1, <1>5, <2>1, <2>3, <2>5, <2>9, <2>10, <2>11, Zenon
<1> QED
  BY <1>8, <1>9, Zenon

\* malloc() returns a block that was free.
LEMMA TakeStep ==
  ASSUME HeapInv, NEW t \in Thread, m_take(t)
  PROVE  HeapInv' /\ Outcome
<1>a. PICK x, q, k, b : x = fr[t].prevp /\ q = fr[t].p /\ k = fr[t].nunits /\ b = q + size[q] - k
  BY Zenon
<1> DEFINE f == IF fr[t].worker = None THEN User
                ELSE [User EXCEPT !.pc = "clone", !.worker = fr[t].worker, !.bp = b]
<1>0. /\ fr[t].pc = "m_walk" /\ size[q] >= k /\ Taken(x, q, k, b) /\ mallocLock' = None /\ Goes(t, f)
      /\ mine' = (IF fr[t].worker = None /\ b # Null THEN [mine EXCEPT ![t] = @ \cup {b}] ELSE mine)
      /\ UNCHANGED <<sz, stack, zombie>>
  BY <1>a, Zenon DEF m_take, At, Taken, spin_unlock, Gets, threadVars
<1>1. /\ x \in Free /\ q \in Free /\ ptr[x] = q /\ k \in Sizes /\ mallocLock = t /\ t # None
      /\ (fr[t].worker # None => t = Main /\ stack[fr[t].worker] = None)
  BY <1>0, <1>a, FrameOf, Zenon DEF CallInv, InLock
<1>2. /\ b \in Addr /\ ~Held(b) /\ ptr'[b] = Null /\ size'[b] = k
      /\ ptr' \in [Addr -> Addr \cup {Null}] /\ size' \in [Addr -> Nat]
      /\ \A a \in Addr : Held(a) => ptr'[a] = Null /\ size'[a] = size[a]
      /\ (\A a \in Addr : Held(a)' <=> (Held(a) \/ a = b)) => ListInv' /\ SpaceInv'
  <2>1. /\ x \in Free /\ q \in Free /\ k \in Sizes /\ ptr[x] = q /\ size[q] >= k
        /\ Taken(x, q, k, b) /\ sz' = sz
    BY <1>0, <1>1, <1>a, Zenon
  <2> QED
    BY <2>1, TakeHeap, Zenon
<1>3. freep' = x /\ x \in Addr /\ b \in Nat /\ b # Null
  BY <1>0, <1>1, <1>2, Constants, Zenon DEF Taken, Free
<1>4. /\ f \in Frame /\ f.worker = fr[t].worker
      /\ (fr[t].worker = None => f.pc = "user")
      /\ (fr[t].worker # None => f.pc = "clone" /\ f.bp = b)
  BY <1>3, FrameOf, ZenonT(30) DEF Frame, User, Places, Null
<1> HIDE DEF f
<1>5. fr'[t] = f /\ \A u \in Thread : u # t => fr'[u] = fr[u]
  BY <1>0, <1>4, Frames, Zenon DEF HeapInv
<1>6. CallInv(t)'
  BY <1>0, <1>1, <1>2, <1>4, <1>5, Zenon DEF CallInv, InLock, Freeing
<1>7. mine \in [Thread -> SUBSET Addr]
  BY Zenon DEF HeapInv, HeapTypes
<1>8. /\ mine' \in [Thread -> SUBSET Addr]
      /\ \A u \in Thread : u # t => mine'[u] = mine[u]
      /\ mine'[t] = IF fr[t].worker = None THEN mine[t] \cup {b} ELSE mine[t]
  <2>1. mine' = IF fr[t].worker = None THEN [mine EXCEPT ![t] = @ \cup {b}] ELSE mine
    BY <1>0, <1>3, Zenon
  <2>2. mine[t] \cup {b} \in SUBSET Addr
    BY <1>2, <1>7, Zenon
  <2> QED
    BY <1>7, <2>1, <2>2, Zenon
<1>9. ASSUME NEW a \in Addr, a # b PROVE Kept(a)
  <2>1. \A u \in Thread : (a \in mine'[u]) <=> (a \in mine[u])
    BY <1>8, <1>9, Zenon
  <2>2. /\ ~InCall(a, t) /\ ~InCall(a, t)' /\ fr[t].pc # "clone"
        /\ ~(fr'[t].pc = "clone" /\ fr'[t].bp = a)
    BY <1>0, <1>4, <1>5, <1>9, Zenon DEF InCall, Freeing
  <2> QED
    BY <1>0, <1>5, <2>1, <2>2, Zenon DEF Kept, InCall
<1>10. /\ ~Used(b) /\ \A w \in Worker : stack'[w] # b
       /\ \A u \in Thread : b \notin mine[u]
       /\ \A u \in Thread : u # t => ~InCall(b, u)'
  BY <1>0, <1>2, <1>5, Zenon DEF Held, Used, InCall
<1>11. Used(b)' /\ Held(b)' /\ Once(b)'
  <2>1. CASE fr[t].worker = None
    <3>1. b \in mine'[t] /\ (\A u \in Thread : u # t => b \notin mine'[u]) /\ ~InCall(b, t)'
      BY <1>4, <1>5, <1>8, <1>10, <2>1, Zenon DEF InCall, Freeing
    <3> QED
      BY <1>10, <3>1, Zenon DEF Used, Held, Once
  <2>2. CASE fr[t].worker # None
    <3>1. /\ fr'[t].pc = "clone" /\ fr'[t].bp = b /\ \A u \in Thread : b \notin mine'[u]
      BY <1>4, <1>5, <1>8, <1>10, <2>2, Zenon
    <3> QED
      BY <1>10, <3>1, Zenon DEF Used, Held, Once
  <2> QED
    BY <2>1, <2>2, Zenon
<1>12. ListInv' /\ SpaceInv'
  BY <1>2, <1>9, <1>11, KeptOwner, Zenon
<1>13. ASSUME NEW a \in Addr
       PROVE  Once(a)' /\ (Held(a)' => ptr'[a] = Null) /\ (Used(a)' => size'[a] \in Sizes)
  <2>1. CASE a = b
    BY <1>1, <1>2, <1>11, <2>1, Zenon
  <2>2. CASE a # b
    <3>1. Once(a)' /\ (Used(a)' <=> Used(a)) /\ (Held(a)' <=> Held(a)) /\ (Used(a) => size[a] \in Sizes)
      BY <1>9, <2>2, KeptOwner, Zenon DEF HeapInv, OwnInv
    <3> QED
      BY <1>2, <3>1, Zenon DEF Held
  <2> QED
    BY <2>1, <2>2, Zenon
<1>14. OwnInv'
  BY <1>13, Zenon DEF OwnInv
<1>15. Gained(b)
  <2>1. ASSUME NEW a \in Addr, a # b PROVE (Used(a)' <=> Used(a)) /\ (Used(a) => size'[a] = size[a])
    BY <1>2, <1>9, <2>1, KeptOwner, Zenon DEF Held
  <2> QED
    BY <1>2, <1>10, <1>11, <2>1, Zenon DEF Gained
<1>16. Lawful(t) /\ mallocLock' \in Thread \cup {None}
  BY <1>0, <1>1, Zenon DEF Lawful
<1>17. sz' \in Nat /\ sz' >= Bottom /\ sz' <= Top + 1 /\ freep' \in Addr \cup {Null}
  BY <1>0, <1>3, Zenon DEF HeapInv, HeapTypes
<1>18. HeapInv'
  BY <1>0, <1>2, <1>4, <1>6, <1>8, <1>12, <1>14, <1>16, <1>17, Change, Zenon
<1> QED
  BY <1>2, <1>15, <1>18, Zenon DEF Outcome

-----------------------------------------------------------------------------
(* The theorems. *)

\* No memory yet: malloc() has not been called.
LEMMA HeapStarts == Init => HeapInv
<1> SUFFICES ASSUME Init PROVE HeapInv
  OBVIOUS
<1>1. User \in Frame /\ User.pc = "user" /\ User.worker = None
  BY DEF User, Frame, Places, Null
<1>2. /\ ptr \in [Addr -> Addr \cup {Null}] /\ size \in [Addr -> Nat]
      /\ \A a \in Addr : ptr[a] = Null /\ size[a] = 0
  BY DEF Init
<1>3. /\ freep = Null /\ mallocLock = None /\ sz = Bottom /\ zombie = {}
      /\ fr = [t \in Thread |-> User] /\ mine = [t \in Thread |-> {}] /\ stack = [w \in Worker |-> None]
  BY Zenon DEF Init
<1>4. sz \in Nat /\ sz >= Bottom /\ sz <= Top + 1
  BY <1>3, HeapAssumption DEF Bottom
<1>5. HeapTypes
  BY <1>1, <1>2, <1>3, <1>4, Zenon DEF HeapTypes
<1>6. \A t \in Thread : fr[t].pc = "user" /\ fr[t].worker = None /\ mine[t] = {}
  BY <1>1, <1>3, Zenon
<1>7. \A w \in Worker : stack[w] = None
  BY <1>3, Zenon
<1>8. ASSUME NEW a \in Addr PROVE ~Used(a) /\ ~Held(a) /\ Once(a)
  BY <1>6, <1>7, Constants, Zenon DEF Used, Held, Once, InCall, Freeing
<1>9. Free = {} /\ Blocks = {}
  BY <1>2, <1>8, Zenon DEF Free, Blocks
<1>10. SpaceInv
  <2>1. Bottom..sz - 1 = {}
    BY <1>3 DEF Bottom
  <2> QED
    BY <1>9, <2>1, Zenon DEF SpaceInv, Apart, Covered
<1>11. ListInv
  BY <1>2, <1>3, <1>9, Constants, Zenon DEF ListInv, Sorted
<1>12. OwnInv
  BY <1>2, <1>8, Zenon DEF OwnInv
<1>13. ASSUME NEW t \in Thread PROVE CallInv(t)
  BY <1>3, <1>6, Constants, Zenon DEF CallInv, InLock, Freeing
<1> QED
  BY <1>3, <1>5, <1>10, <1>11, <1>12, <1>13, Zenon DEF HeapInv

\* Nothing happens.
LEMMA StutterStep ==
  ASSUME HeapInv, UNCHANGED vars
  PROVE  HeapInv' /\ SameUse
<1>1. UNCHANGED <<ptr, size, freep, mallocLock, sz, fr, mine, stack, zombie>>
  BY Zenon DEF vars, heapVars, threadVars
<1>2. ASSUME NEW a \in Addr PROVE Kept(a)
  BY <1>1, Zenon DEF Kept, InCall
<1>3. HeapTypes'
  BY <1>1, Zenon DEF HeapInv, HeapTypes
<1>4. ListInv' /\ SpaceInv'
  BY <1>1, <1>2, KeptOwner, SameHeap, Zenon
<1>5. OwnInv'
  BY <1>1, <1>2, KeptOwner, Zenon DEF HeapInv, OwnInv
<1>6. \A u \in Thread : CallInv(u)'
  BY <1>1, Zenon DEF HeapInv, CallInv, Free
<1>7. SameUse
  BY <1>1, <1>2, KeptOwner, Zenon DEF SameUse
<1>8. \A v \in zombie' : stack'[v] # None
  BY <1>1, Zenon DEF HeapInv
<1> QED
  BY <1>3, <1>4, <1>5, <1>6, <1>7, <1>8, Zenon DEF HeapInv

\* Every step keeps the invariant, and changes the blocks in use by one at most.
LEMMA HeapStep ==
  ASSUME HeapInv, NullInv, [Next]_vars
  PROVE  HeapInv' /\ Outcome
<1>1. ASSUME NEW t \in Thread, Step(t) PROVE HeapInv' /\ Outcome
  <2>1. CASE f_lock(t) \/ walk(t) \/ page_fault(t)
    BY <2>1, FlockStep, WalkStep, FaultStep, Zenon DEF Outcome
  <2>2. CASE f_link(t) \/ freewlock(t)
    BY <2>2, LinkStep, Zenon DEF Outcome
  <2>3. CASE m_lock(t) \/ growproc(t)
    BY <2>3, MlockStep, GrowStep, Zenon DEF Outcome
  <2>4. CASE m_next(t) \/ morecore(t)
    BY <2>4, MallocWalk, Zenon DEF Outcome
  <2>5. CASE m_fail(t)
    BY <2>5, NothingStep, Zenon DEF Outcome
  <2>6. CASE m_take(t)
    BY <2>6, TakeStep, Zenon
  <2>7. CASE clone_fails \/ \E w \in Worker : clone(w)
    BY <2>7, CloneStep, Zenon DEF Outcome
  <2> QED
    BY <1>1, <2>1, <2>2, <2>3, <2>4, <2>5, <2>6, <2>7, Zenon DEF Step
<1>2. ASSUME NEW t \in Thread, \E k \in Request : user_malloc(t, k) PROVE HeapInv' /\ Outcome
  BY <1>2, NothingStep, Zenon DEF Outcome
<1>3. ASSUME NEW t \in Thread, \E b \in mine[t] : user_free(t, b) PROVE HeapInv' /\ Outcome
  BY <1>3, FreeStep, Zenon
<1>4. ASSUME NEW w \in Worker, thread_create(w) PROVE HeapInv' /\ Outcome
  BY <1>4, Constants, NothingStep, Zenon DEF Outcome
<1>5. ASSUME NEW w \in Worker, exit(w) \/ thread_join(w) PROVE HeapInv' /\ Outcome
  BY <1>5, ExitStep, JoinStep, JoinNull, Zenon DEF Outcome
<1>6. CASE UNCHANGED vars
  BY <1>6, StutterStep, Zenon DEF Outcome
<1> QED
  BY <1>1, <1>2, <1>3, <1>4, <1>5, <1>6, Zenon DEF Next

\* The list stays begun.
LEMMA FreepStays ==
  ASSUME HeapInv, [Next]_vars
  PROVE  freep # Null => freep' # Null
<1>0. Null \notin Free /\ Base # Null
  BY Constants, Zenon DEF Free
<1>1. CASE freep' = freep
  BY <1>1, Zenon
<1>2. ASSUME NEW t \in Thread, m_lock(t) PROVE freep # Null => freep' # Null
  BY <1>0, <1>2, Zenon DEF m_lock
<1>3. ASSUME NEW t \in Thread, f_link(t) \/ freewlock(t) PROVE freep' # Null
  <2>1. freep' = fr[t].p /\ fr[t].pc \in {"f_walk", "core_walk"}
    BY <1>3, Zenon DEF f_link, freewlock, link, At
  <2>2. fr[t].p \in Free
    BY <2>1, FrameOf, Zenon DEF CallInv, InLock
  <2> QED
    BY <1>0, <2>1, <2>2, Zenon
<1>4. ASSUME NEW t \in Thread, m_take(t) PROVE freep' # Null
  <2>1. freep' = fr[t].prevp /\ fr[t].pc = "m_walk"
    BY <1>4, Zenon DEF m_take, At
  <2>2. fr[t].prevp \in Free
    BY <2>1, FrameOf, Zenon DEF CallInv
  <2> QED
    BY <1>0, <2>1, <2>2, Zenon
<1>5. ASSUME NEW t \in Thread, Step(t), ~m_lock(t), ~f_link(t), ~freewlock(t), ~m_take(t)
      PROVE  freep' = freep
  BY <1>5, Zenon DEF Step, f_lock, walk, page_fault, m_next, morecore, growproc, m_fail, clone_fails,
    clone, heapVars
<1>6. ASSUME NEW t \in Thread,
             \/ \E k \in Request : user_malloc(t, k)
             \/ \E b \in mine[t] : user_free(t, b)
      PROVE  freep' = freep
  BY <1>6, Zenon DEF user_malloc, user_free, heapVars
<1>7. ASSUME NEW w \in Worker, thread_create(w) \/ exit(w) \/ thread_join(w) PROVE freep' = freep
  BY <1>7, Zenon DEF thread_create, exit, thread_join, heapVars
<1>8. CASE UNCHANGED vars
  BY <1>8, Zenon DEF vars, heapVars
<1> QED
  BY <1>1, <1>2, <1>3, <1>4, <1>5, <1>6, <1>7, <1>8, Zenon DEF Next

\* There is a list whenever free() may be given no stack.
LEMMA NullStep ==
  ASSUME HeapInv, NullInv, [Next]_vars
  PROVE  NullInv'
<1>1. CASE freep # Null
  BY <1>1, FreepStays, Zenon DEF NullInv
<1>2. ASSUME freep = Null
      PROVE  /\ \A t \in Thread : fr[t].pc \notin InLock \cup {"clone"}
             /\ \A w \in Worker : stack[w] # Null
  BY <1>2, FrameOf, Zenon DEF NullInv, CallInv
<1>3. ASSUME freep = Null, NEW t \in Thread, NEW f \in Frame, Goes(t, f), stack' = stack,
             f.pc # "clone", f.pc = "f_lock" => f.bp # Wild
      PROVE  NullInv'
  <2>1. fr'[t] = f /\ \A u \in Thread : u # t => fr'[u] = fr[u]
    BY <1>3, Frames, Zenon DEF HeapInv
  <2>2. \A w \in Worker : stack'[w] # Null
    BY <1>2, <1>3, Zenon
  <2>3. ASSUME NEW u \in Thread PROVE fr'[u].pc # "clone" /\ ~(fr'[u].pc = "f_lock" /\ fr'[u].bp = Wild)
    BY <1>3, <2>1, Zenon DEF NullInv
  <2> QED
    BY <2>2, <2>3, Zenon DEF NullInv
<1>4. ASSUME freep = Null, UNCHANGED <<fr, stack>> PROVE NullInv'
  BY <1>2, <1>4, Zenon DEF NullInv
<1>5. ASSUME freep = Null, NEW t \in Thread, Step(t) PROVE NullInv'
  <2>0. fr[t].pc \notin InLock \cup {"clone"}
    BY <1>2, <1>5, Zenon
  <2>1. f_lock(t) \/ m_lock(t)
    BY <1>5, <2>0, Zenon DEF Step, walk, f_link, page_fault, m_next, m_take, morecore, growproc, m_fail,
      freewlock, clone_fails, clone, At, InLock
  <2>2. CASE f_lock(t)
    <3> DEFINE f == [fr[t] EXCEPT !.pc = "f_walk", !.p = freep]
    <3>1. f \in Frame /\ f.pc = "f_walk"
      <4>1. fr[t] \in Frame /\ freep \in Addr \cup {Null} /\ "f_walk" \in Places
        BY <1>5, FrameOf, Zenon DEF Places, InLock
      <4> QED
        BY <4>1, ZenonT(30) DEF Frame
    <3>2. Goes(t, f) /\ stack' = stack
      BY <2>2, Zenon DEF f_lock, threadVars
    <3> HIDE DEF f
    <3> QED
      BY <1>3, <1>5, <3>1, <3>2, Zenon
  <2>3. CASE m_lock(t)
    <3>1. freep' = Base /\ Base # Null
      BY <1>5, <2>3, Constants, Zenon DEF m_lock
    <3> QED
      BY <3>1, Zenon DEF NullInv
  <2> QED
    BY <2>1, <2>2, <2>3, Zenon
<1>6. ASSUME freep = Null, NEW t \in Thread, NEW k \in Sizes, NEW w \in Worker \cup {None},
             malloc(t, k, w), stack' = stack
      PROVE  NullInv'
  <2> DEFINE f == [User EXCEPT !.pc = "m_lock", !.nunits = k, !.worker = w]
  <2>1. k \in Nat
    BY Constants
  <2>2. f \in Frame /\ f.pc = "m_lock"
    BY <2>1, ZenonT(30) DEF Frame, User, Places, Null
  <2>3. Goes(t, f)
    BY <1>6, Zenon DEF malloc
  <2> HIDE DEF f
  <2> QED
    BY <1>3, <1>6, <2>2, <2>3, Zenon
<1>7. ASSUME freep = Null, NEW t \in Thread, NEW b \in Addr, free(t, b) PROVE
      (\A w \in Worker : stack'[w] = stack[w] \/ stack'[w] = None) => NullInv'
  <2> DEFINE f == [User EXCEPT !.pc = "f_lock", !.bp = b]
  <2>1. b \in Nat /\ b # Null /\ b # Wild
    BY Constants, Zenon
  <2>2. f \in Frame /\ f.pc = "f_lock" /\ f.bp = b
    BY <2>1, ZenonT(30) DEF Frame, User, Places, Freeing, Null
  <2>3. Goes(t, f)
    BY <1>7, <2>1, Zenon DEF free
  <2> HIDE DEF f
  <2>4. fr'[t] = f /\ \A u \in Thread : u # t => fr'[u] = fr[u]
    BY <2>2, <2>3, Frames, Zenon DEF HeapInv
  <2>5. ASSUME NEW u \in Thread PROVE fr'[u].pc # "clone" /\ ~(fr'[u].pc = "f_lock" /\ fr'[u].bp = Wild)
    BY <1>7, <2>1, <2>2, <2>4, Zenon DEF NullInv
  <2>6. ASSUME NEW w \in Worker, stack'[w] = stack[w] \/ stack'[w] = None PROVE stack'[w] # Null
    BY <1>2, <1>7, <2>6, Constants, Zenon
  <2> QED
    BY <2>5, <2>6, Zenon DEF NullInv
<1>8. ASSUME freep = Null, NEW t \in Thread, \E k \in Request : user_malloc(t, k) PROVE NullInv'
  BY <1>6, <1>8, Zenon DEF user_malloc, Sizes
<1>9. ASSUME freep = Null, NEW w \in Worker, thread_create(w) PROVE NullInv'
  BY <1>6, <1>9, Constants, Zenon DEF thread_create, Sizes
<1>10. ASSUME freep = Null, NEW t \in Thread, NEW b \in mine[t], user_free(t, b) PROVE NullInv'
  <2>1. b \in Addr /\ free(t, b) /\ stack' = stack
    BY <1>10, Zenon DEF user_free, HeapInv, HeapTypes
  <2> QED
    BY <1>7, <1>10, <2>1, Zenon
<1>11. ASSUME freep = Null, NEW w \in Worker, thread_join(w) PROVE NullInv'
  <2>1. /\ free(Main, stack[w]) /\ stack' = [stack EXCEPT ![w] = None] /\ w \in zombie
        /\ stack \in [Worker -> Addr \cup {Null, None}]
    BY <1>11, Zenon DEF thread_join, HeapInv, HeapTypes
  <2>2. stack[w] \in Addr
    BY <1>2, <1>11, <2>1, Zenon DEF HeapInv
  <2>3. \A v \in Worker : stack'[v] = stack[v] \/ stack'[v] = None
    BY <2>1, Zenon
  <2> QED
    BY <1>7, <1>11, <2>1, <2>2, <2>3, Constants, Zenon
<1>12. ASSUME freep = Null, NEW w \in Worker, exit(w) PROVE NullInv'
  BY <1>4, <1>12, Zenon DEF exit
<1>13. ASSUME freep = Null, UNCHANGED vars PROVE NullInv'
  BY <1>4, <1>13, Zenon DEF vars, threadVars
<1> QED
  BY <1>1, <1>5, <1>8, <1>9, <1>10, <1>11, <1>12, <1>13, Zenon DEF Next

\* At first there are no threads and no calls.
LEMMA NullStarts == Init => NullInv
<1> SUFFICES ASSUME Init PROVE NullInv
  BY Zenon
<1>1. /\ \A t \in Thread : fr[t] = User
      /\ \A w \in Worker : stack[w] = None
  BY Zenon DEF Init
<1>2. User.pc = "user"
  BY DEF User
<1>3. "user" # "clone" /\ "user" # "f_lock"
  OBVIOUS
<1> QED
  BY <1>1, <1>2, <1>3, Constants, Zenon DEF NullInv

\* The list of free blocks of umalloc.c is sorted and merged, its blocks and the
\* owned ones tile the memory from sbrk(), and every block has one owner, for
\* any threads and memory.
THEOREM HeapInvariant == Spec => [](HeapInv /\ NullInv)
<1>1. Init => HeapInv /\ NullInv
  BY HeapStarts, NullStarts
<1>2. HeapInv /\ NullInv /\ [Next]_vars => (HeapInv /\ NullInv)'
  BY HeapStep, NullStep
<1> QED
  BY <1>1, <1>2, PTL DEF Spec

\* InUse holds the blocks that are used.
UseInv == InUse = {a \in Addr : Used(a)}

\* The blocks of the list, the used ones and those in a call of free() tile the
\* memory from sbrk(): UnitsConserved with the headers that lead anywhere for the list.
Tiled ==
  LET blocks == (Free \ {Base}) \cup InUse \cup Moving
  IN /\ UNION {Units(b) : b \in blocks} = Bottom..(sz - 1)
     /\ \A a, b \in blocks : a # b => Units(a) \cap Units(b) = {}

\* InUse is what the invariant says of it.
LEMMA UseIs == HeapInv => UseInv
<1> SUFFICES ASSUME HeapInv PROVE UseInv
  BY Zenon
<1>1. /\ mine \in [Thread -> SUBSET Addr] /\ stack \in [Worker -> Addr \cup {Null, None}]
      /\ Null \notin Addr /\ None \notin Addr
  BY Constants, Zenon DEF HeapInv, HeapTypes
<1>2. ASSUME NEW t \in Thread, fr[t].pc = "clone" PROVE fr[t].bp \in Addr \cup {Null}
  BY <1>2, FrameOf, Zenon DEF CallInv
<1>3. ASSUME NEW a
      PROVE  a \in InUse <=> \/ \E t \in Thread : a \in mine[t]
                             \/ (\E w \in Worker : a = stack[w]) /\ a # None /\ a # Null
                             \/ \E t \in Thread : fr[t].pc = "clone" /\ fr[t].bp # Null /\ a = fr[t].bp
  <2> DEFINE A == UNION {mine[t] : t \in Thread}
             B == {stack[w] : w \in Worker}
             C == {fr[t].bp : t \in {u \in Thread : At(u, "clone") /\ fr[u].bp # Null}}
  <2>1. a \in A <=> \E t \in Thread : a \in mine[t]
    OBVIOUS
  <2>2. a \in B <=> \E w \in Worker : a = stack[w]
    OBVIOUS
  <2>3. a \in C <=> \E t \in Thread : fr[t].pc = "clone" /\ fr[t].bp # Null /\ a = fr[t].bp
    BY DEF At
  <2>4. InUse = A \cup (B \ {None, Null}) \cup C
    BY Zenon DEF InUse
  <2> HIDE DEF A, B, C
  <2> QED
    BY <2>1, <2>2, <2>3, <2>4, Zenon
<1>4. ASSUME NEW a \in InUse PROVE a \in Addr /\ Used(a)
  <2>1. CASE \E t \in Thread : a \in mine[t]
    BY <1>1, <2>1, Zenon DEF Used
  <2>2. CASE (\E w \in Worker : a = stack[w]) /\ a # None /\ a # Null
    BY <1>1, <2>2, Zenon DEF Used
  <2>3. CASE \E t \in Thread : fr[t].pc = "clone" /\ fr[t].bp # Null /\ a = fr[t].bp
    BY <1>2, <2>3, Zenon DEF Used
  <2> QED
    BY <1>3, <2>1, <2>2, <2>3, Zenon
<1>5. ASSUME NEW a \in Addr, Used(a) PROVE a \in InUse
  BY <1>1, <1>3, <1>5, Zenon DEF Used
<1> QED
  BY <1>4, <1>5, Zenon DEF UseInv

\* The units of the blocks of the invariant.
LEMMA TilesAre == HeapInv => Tiled
<1> SUFFICES ASSUME HeapInv PROVE Tiled
  BY Zenon
<1>1. Blocks = (Free \ {Base}) \cup InUse \cup Moving
  <2>1. InUse = {a \in Addr : Used(a)}
    BY UseIs, Zenon DEF UseInv
  <2>2. ASSUME NEW t \in Thread, fr[t].pc \in Freeing, fr[t].bp # Wild
        PROVE  fr[t].bp \in Addr /\ Held(fr[t].bp)
    BY <2>2, FrameOf, Zenon DEF CallInv, Held, InCall
  <2>3. Moving \subseteq Addr /\ \A a \in Moving : Held(a)
    BY <2>2, Zenon DEF Moving, Freeing
  <2>4. ASSUME NEW a \in Addr, Held(a) PROVE Used(a) \/ a \in Moving
    BY <2>4, Constants, Zenon DEF Held, InCall, Used, Moving, Freeing
  <2>5. ASSUME NEW a \in Addr, Used(a) PROVE Held(a)
    BY <2>5, Zenon DEF Held
  <2> QED
    BY <2>1, <2>3, <2>4, <2>5, Zenon DEF Blocks, Free
<1>2. ASSUME NEW b \in Blocks PROVE Units(b) \subseteq Bottom..(sz - 1)
  BY BlockRoom DEF Units, Bottom
<1>3. ASSUME NEW u \in Bottom..(sz - 1) PROVE \E b \in Blocks : u \in Units(b)
  <2>1. PICK b \in Blocks : b <= u /\ u < b + size[b]
    BY Zenon DEF HeapInv, SpaceInv, Covered
  <2>2. u \in Units(b)
    BY <2>1, BlockRoom DEF Units, Bottom
  <2> QED
    BY <2>2, Zenon
<1>4. ASSUME NEW a \in Blocks, NEW b \in Blocks, a # b PROVE Units(a) \cap Units(b) = {}
  <2>1. /\ a \in Nat /\ size[a] \in Nat /\ (a < b => a + size[a] <= b)
        /\ b \in Nat /\ size[b] \in Nat /\ (b < a => b + size[b] <= a)
    BY BlockRoom, Zenon
  <2> QED
    BY <1>4, <2>1 DEF Units
<1>5. UNION {Units(b) : b \in Blocks} = Bottom..(sz - 1)
  BY <1>2, <1>3, Zenon
<1> QED
  BY <1>1, <1>4, <1>5, Zenon DEF Tiled

\* No unit that sbrk() gave to the heap is lost, and none is in two blocks,
\* whatever malloc(), free() and the threads do.
THEOREM UnitsTiled == Spec => []Tiled
BY HeapInvariant, TilesAre, PTL

-----------------------------------------------------------------------------
(* The heap implements the allocator. *)

\* The pair that stands for a block in use.
Block(b) == <<b, size[b]>>

\* A block that becomes used is apart from the used ones.
LEMMA NewApart ==
  ASSUME HeapInv', NEW a \in Addr, NEW b \in Addr, a # b, Used(a)', Used(b)'
  PROVE  Abstract!Units(<<b, size'[b]>>) \cap Abstract!Units(<<a, size'[a]>>) = {}
<1>1. a \in Blocks' /\ b \in Blocks'
  BY Zenon DEF Blocks, Held
<1>2. Apart(Blocks', size', sz') /\ size' \in [Addr -> Nat] /\ a \in Nat /\ b \in Nat
  BY Constants, Zenon DEF HeapInv, SpaceInv, HeapTypes
<1>3. (a < b => a + size'[a] <= b) /\ (b < a => b + size'[b] <= a) /\ size'[a] \in Nat /\ size'[b] \in Nat
  BY <1>1, <1>2, Zenon DEF Apart
<1>4. (b..(b + size'[b] - 1)) \cap (a..(a + size'[a] - 1)) = {}
  BY <1>2, <1>3
<1>5. Abstract!Units(<<b, size'[b]>>) = b..(b + size'[b] - 1)
  BY DEF Abstract!Units
<1>6. Abstract!Units(<<a, size'[a]>>) = a..(a + size'[a] - 1)
  BY DEF Abstract!Units
<1> QED
  BY <1>4, <1>5, <1>6, Zenon

\* A step of the heap is a malloc() or a free() of the allocator, or none.
LEMMA AllocatorStep ==
  ASSUME HeapInv, HeapInv', UseInv, UseInv', Outcome
  PROVE  [Abstract!Next]_{Block(b) : b \in InUse}
<1> DEFINE B == {Block(b) : b \in InUse}
<1>1. \A a \in Addr : (a \in InUse <=> Used(a)) /\ (a \in InUse' <=> Used(a)')
  BY Zenon DEF UseInv
<1>2. InUse \subseteq Addr /\ InUse' \subseteq Addr
  BY Zenon DEF UseInv
<1>3. \A a : Block(a) = <<a, size[a]>> /\ Block(a)' = <<a, size'[a]>>
  BY Zenon DEF Block
<1>4. /\ \A c : c \in B <=> \E a \in InUse : c = <<a, size[a]>>
      /\ \A c : c \in B' <=> \E a \in InUse' : c = <<a, size'[a]>>
  BY DEF Block
<1> HIDE DEF B
<1>5. CASE SameUse
  <2>1. \A c : c \in B <=> c \in B'
    BY <1>1, <1>2, <1>4, <1>5, Zenon DEF SameUse
  <2>2. B' = B
    BY <2>1
  <2> QED
    BY <2>2, Zenon DEF B
<1>6. ASSUME NEW b \in Addr, Gained(b) PROVE Abstract!Next
  <2>1. \A c : c \in B' <=> c \in B \/ c = <<b, size'[b]>>
    BY <1>1, <1>2, <1>4, <1>6, ZenonT(30) DEF Gained
  <2>2. B' = B \cup {<<b, size'[b]>>}
    BY <2>1, Zenon
  <2>3. ASSUME NEW c \in B PROVE Abstract!Units(<<b, size'[b]>>) \cap Abstract!Units(c) = {}
    <3>1. PICK a \in InUse : c = <<a, size[a]>>
      BY <1>4, Zenon
    <3>2. a \in Addr /\ a # b /\ Used(a)' /\ Used(b)' /\ size'[a] = size[a]
      BY <1>1, <1>2, <1>6, Zenon DEF Gained
    <3>3. c = <<a, size'[a]>>
      BY <3>1, <3>2, Zenon
    <3> QED
      BY <3>2, <3>3, NewApart, Zenon
  <2>4. PICK n \in Sizes : n = size'[b]
    BY <1>6, Zenon DEF Gained, HeapInv, OwnInv
  <2>5. Abstract!malloc(<<b, n>>)
    <3>1. B' = B \cup {<<b, n>>} /\ \A c \in B : Abstract!Units(<<b, n>>) \cap Abstract!Units(c) = {}
      BY <2>2, <2>3, <2>4, Zenon
    <3> QED
      BY <3>1, Zenon DEF Abstract!malloc, B, Block
  <2> QED
    BY <2>4, <2>5, Zenon DEF Abstract!Next, Sizes
<1>7. ASSUME NEW b \in Addr, Lost(b) PROVE Abstract!Next
  <2>1. b \in InUse /\ b \notin InUse' /\ <<b, size[b]>> \in B
    BY <1>1, <1>4, <1>7, Zenon DEF Lost
  <2>2. \A a \in Addr : a # b => (a \in InUse' <=> a \in InUse) /\ (a \in InUse => size'[a] = size[a])
    BY <1>1, <1>7, Zenon DEF Lost
  <2>3. \A c : c \in B' <=> c \in B /\ c # <<b, size[b]>>
    <3>1. ASSUME NEW c \in B' PROVE c \in B /\ c # <<b, size[b]>>
      <4>1. PICK a \in InUse' : c = <<a, size'[a]>>
        BY <1>4, Zenon
      <4>2. a # b /\ a \in InUse /\ size'[a] = size[a]
        BY <1>2, <2>1, <2>2, Zenon
      <4> QED
        BY <1>4, <4>1, <4>2
    <3>2. ASSUME NEW c \in B, c # <<b, size[b]>> PROVE c \in B'
      <4>1. PICK a \in InUse : c = <<a, size[a]>>
        BY <1>4, Zenon
      <4>2. a # b /\ a \in InUse' /\ size'[a] = size[a]
        BY <1>2, <2>2, <3>2, <4>1, Zenon
      <4> QED
        BY <1>4, <4>1, <4>2, Zenon
    <3> QED
      BY <3>1, <3>2, Zenon
  <2>4. B' = B \ {<<b, size[b]>>}
    BY <2>3
  <2>5. PICK c \in B : c = <<b, size[b]>>
    BY <2>1, Zenon
  <2>6. Abstract!free(c)
    <3>1. B' = B \ {c}
      BY <2>4, <2>5, Zenon
    <3> QED
      BY <3>1, Zenon DEF Abstract!free, B, Block
  <2> QED
    BY <2>6, Zenon DEF Abstract!Next, B, Block
<1> QED
  BY <1>5, <1>6, <1>7, Zenon DEF Outcome, B

\* Every step of malloc(), free() and the thread library gives out a block that
\* is apart from all the others in use, gives one back, or changes none.
THEOREM HeapRefinesAllocator == Spec => ImplementsAllocator
<1>1. Init => Abstract!Init
  <2> SUFFICES ASSUME Init PROVE Abstract!Init
    BY Zenon
  <2>1. HeapInv /\ UseInv
    BY HeapStarts, UseIs, Zenon
  <2>2. /\ \A t \in Thread : fr[t].pc = "user" /\ mine[t] = {}
        /\ \A w \in Worker : stack[w] = None
    BY DEF Init, User
  <2>3. InUse = {}
    BY <2>1, <2>2, Constants, ZenonT(30) DEF UseInv, Used
  <2> QED
    BY <2>3 DEF Abstract!Init
<1>2. HeapInv /\ NullInv /\ HeapInv' /\ UseInv /\ UseInv' /\ [Next]_vars
        => [Abstract!Next]_{<<b, size[b]>> : b \in InUse}
  BY HeapStep, AllocatorStep, Zenon DEF Block
<1>3. HeapInv => UseInv
  BY UseIs, Zenon
<1> QED
  BY <1>1, <1>2, <1>3, HeapInvariant, PTL DEF Spec, ImplementsAllocator, Abstract!Spec
=============================================================================
