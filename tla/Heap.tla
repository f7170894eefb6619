-------------------------------- MODULE Heap --------------------------------
(***************************************************************************)
(* The heap of a process with threads (user/umalloc.c, user/threads.c):    *)
(* a sorted circular list of free blocks behind mallocLock.  An address    *)
(* counts headers (units).  A step is a turn of a loop, or a section that  *)
(* other threads cannot see into.  All threads of the process see one sz.  *)
(***************************************************************************)
EXTENDS Naturals, FiniteSets, FiniteSetsExt

CONSTANTS
  Main, Worker,     \* the thread that creates and joins the others
  None,
  NALLOC,           \* the least number of units asked from sbrk()
  Stack, Request,   \* units of a stack; sizes asked for, in units
  Top,              \* bound: the memory of the machine
  MaxCalls          \* bound: calls of a thread

Thread == {Main} \cup Worker
Null == 0
Base == 1
Bottom == 2         \* where the heap begins
Addr == Base..Top
Wild == Top + 1     \* (Header*)0 - 1 wraps round to above all memory

ASSUME HeapAssumption ==
  /\ Main \notin Worker /\ None \notin Thread \cup 0..Wild
  /\ NALLOC \in Nat \ {0} /\ Request \cup {Stack} \subseteq Nat \ {0} /\ Top \in Nat /\ Top > Bottom

VARIABLES
  ptr, size,        \* the headers
  freep, mallocLock,
  sz,               \* proc->sz
  fr,               \* of a thread: its place and its locals
  mine,             \* the blocks that a thread has from malloc()
  stack,            \* bsp of a worker, None if there is no such thread
  zombie,
  calls

heapVars == <<ptr, size, freep, mallocLock, sz>>
threadVars == <<stack, zombie, calls>>
vars == <<heapVars, fr, mine, threadVars>>

\* A thread outside the library.  "worker" is the thread that a stack is for.
User == [pc |-> "user", worker |-> None, nunits |-> 0, bp |-> Null, p |-> Null, prevp |-> Null]

Init ==
  /\ ptr = [a \in Addr |-> Null] /\ size = [a \in Addr |-> 0]
  /\ freep = Null /\ mallocLock = None /\ sz = Bottom
  /\ fr = [t \in Thread |-> User]
  /\ mine = [t \in Thread |-> {}]
  /\ stack = [w \in Worker |-> None] /\ zombie = {}
  /\ calls = [t \in Thread |-> 0]

-----------------------------------------------------------------------------
At(t, l) == fr[t].pc = l
Goes(t, f) == fr' = [fr EXCEPT ![t] = f]

Running(t) == t \in {Main} \cup {w \in Worker : stack[w] # None /\ w \notin zombie}

Calls(t) ==
  /\ At(t, "user") /\ Running(t) /\ calls[t] < MaxCalls
  /\ calls' = [calls EXCEPT ![t] = @ + 1]

spin_lock(t) == mallocLock = None /\ mallocLock' = t
spin_unlock == mallocLock' = None

(***************************************************************************)
(* free(), and freewlock() for the memory that morecore() got.             *)
(***************************************************************************)
\* b belongs between q and the block after q.
Place(b, q) ==
  \/ b > q /\ b < ptr[q]
  \/ q >= ptr[q] /\ (b > q \/ b < ptr[q])

\* b is not joined with the block before it.
link_NoLower(b, q) ==
  LET up == b + size[b] = ptr[q]
      gone == IF up THEN {ptr[q]} ELSE {}
  IN
  /\ size' = [a \in Addr |-> IF a \in gone THEN 0 ELSE IF a = b /\ up THEN size[b] + size[ptr[q]] ELSE size[a]]
  /\ ptr' = [a \in Addr |-> IF a \in gone THEN Null
                            ELSE IF a = q THEN b
                            ELSE IF a = b THEN IF up THEN ptr[ptr[q]] ELSE ptr[q]
                            ELSE ptr[a]]
  /\ freep' = q

\* b joins the block after it and the block before it; the headers that end
\* up inside a block are forgotten.
link(b, q) ==
  LET up == b + size[b] = ptr[q]
      down == q + size[q] = b
      bsize == IF up THEN size[b] + size[ptr[q]] ELSE size[b]
      bptr == IF up THEN ptr[ptr[q]] ELSE ptr[q]
      gone == (IF up THEN {ptr[q]} ELSE {}) \cup (IF down THEN {b} ELSE {})
  IN
  /\ size' = [a \in Addr |-> IF a \in gone THEN 0
                             ELSE IF a = q /\ down THEN size[q] + bsize
                             ELSE IF a = b THEN bsize
                             ELSE size[a]]
  /\ ptr' = [a \in Addr |-> IF a \in gone THEN Null
                            ELSE IF a = q THEN IF down THEN bptr ELSE b
                            ELSE IF a = b THEN bptr
                            ELSE ptr[a]]
  /\ freep' = q

free(t, b) == Goes(t, [User EXCEPT !.pc = "f_lock", !.bp = IF b = Null THEN Wild ELSE b])

f_lock(t) ==
  /\ At(t, "f_lock") /\ spin_lock(t)
  /\ Goes(t, [fr[t] EXCEPT !.pc = "f_walk", !.p = freep])
  /\ UNCHANGED <<ptr, size, freep, sz, mine, threadVars>>

walk(t) ==
  /\ fr[t].pc \in {"f_walk", "core_walk"} /\ ~Place(fr[t].bp, fr[t].p)
  /\ Goes(t, [fr[t] EXCEPT !.p = ptr[@]])
  /\ UNCHANGED <<heapVars, mine, threadVars>>

f_link(t) ==
  /\ At(t, "f_walk") /\ Place(fr[t].bp, fr[t].p) /\ fr[t].bp \in Addr
  /\ link(fr[t].bp, fr[t].p) /\ spin_unlock
  /\ Goes(t, User)
  /\ UNCHANGED <<sz, mine, threadVars>>

\* free(0) reads a header where the kernel is: trap() kills the thread, which
\* takes mallocLock with it.
page_fault(t) ==
  /\ At(t, "f_walk") /\ Place(fr[t].bp, fr[t].p) /\ fr[t].bp = Wild
  /\ Goes(t, [fr[t] EXCEPT !.pc = "dead"])
  /\ UNCHANGED <<heapVars, mine, threadVars>>

(***************************************************************************)
(* malloc(): a block is taken from the end of the first that is large      *)
(* enough; once round the list, morecore() adds memory to it.              *)
(***************************************************************************)
malloc(t, k, w) == Goes(t, [User EXCEPT !.pc = "m_lock", !.nunits = k, !.worker = w])

m_lock(t) ==
  /\ At(t, "m_lock") /\ spin_lock(t)
  /\ freep' = IF freep = Null THEN Base ELSE freep
  /\ ptr' = IF freep = Null THEN [ptr EXCEPT ![Base] = Base] ELSE ptr
  /\ Goes(t, [fr[t] EXCEPT !.pc = "m_walk", !.prevp = freep', !.p = ptr'[freep']])
  /\ UNCHANGED <<size, sz, mine, threadVars>>

m_next(t) ==
  LET q == fr[t].p IN
  /\ At(t, "m_walk") /\ size[q] < fr[t].nunits /\ q # freep
  /\ Goes(t, [fr[t] EXCEPT !.prevp = q, !.p = ptr[q]])
  /\ UNCHANGED <<heapVars, mine, threadVars>>

\* malloc() returns b: to the program, or to thread_create() which goes on
\* with clone().
Gets(t, b) ==
  /\ Goes(t, IF fr[t].worker = None THEN User
             ELSE [User EXCEPT !.pc = "clone", !.worker = fr[t].worker, !.bp = b])
  /\ mine' = IF fr[t].worker = None /\ b # Null THEN [mine EXCEPT ![t] = @ \cup {b}] ELSE mine

m_take(t) ==
  LET q == fr[t].p
      k == fr[t].nunits
      b == q + size[q] - k
  IN
  /\ At(t, "m_walk") /\ size[q] >= k
  /\ ptr' = IF b = q THEN [ptr EXCEPT ![fr[t].prevp] = ptr[q], ![q] = Null] ELSE ptr
  /\ size' = IF b = q THEN size ELSE [size EXCEPT ![q] = @ - k, ![b] = k]
  /\ freep' = fr[t].prevp
  /\ spin_unlock /\ Gets(t, b)
  /\ UNCHANGED <<sz, threadVars>>

\* sbrk() is called without mallocLock.
morecore_Unlocked(t) ==
  /\ At(t, "m_walk") /\ size[fr[t].p] < fr[t].nunits /\ fr[t].p = freep
  /\ Goes(t, [fr[t] EXCEPT !.pc = "sbrk", !.bp = sz])
  /\ spin_unlock
  /\ UNCHANGED <<ptr, size, freep, sz, mine, threadVars>>

\* sys_sbrk() has read proc->sz.
morecore(t) ==
  /\ At(t, "m_walk") /\ size[fr[t].p] < fr[t].nunits /\ fr[t].p = freep
  /\ Goes(t, [fr[t] EXCEPT !.pc = "sbrk", !.bp = sz])
  /\ UNCHANGED <<heapVars, mine, threadVars>>

Grown(t) == IF fr[t].nunits < NALLOC THEN NALLOC ELSE fr[t].nunits

growproc(t) ==
  /\ At(t, "sbrk") /\ sz + Grown(t) <= Top + 1
  /\ sz' = sz + Grown(t)
  /\ size' = [size EXCEPT ![fr[t].bp] = Grown(t)]
  /\ Goes(t, [fr[t] EXCEPT !.pc = "core_walk", !.p = freep])
  /\ UNCHANGED <<ptr, freep, mallocLock, mine, threadVars>>

\* malloc() returns 0 and keeps the lock.
m_fail_Locked(t) ==
  /\ At(t, "sbrk")
  /\ Gets(t, Null)
  /\ UNCHANGED <<heapVars, threadVars>>

\* There may be no memory at any time.
m_fail(t) ==
  /\ At(t, "sbrk")
  /\ spin_unlock /\ Gets(t, Null)
  /\ UNCHANGED <<ptr, size, freep, sz, threadVars>>

\* malloc() looks through the list again.
freewlock(t) ==
  /\ At(t, "core_walk") /\ Place(fr[t].bp, fr[t].p)
  /\ link(fr[t].bp, fr[t].p)
  /\ Goes(t, [fr[t] EXCEPT !.pc = "m_walk", !.bp = Null, !.prevp = freep', !.p = ptr'[freep']])
  /\ UNCHANGED <<mallocLock, sz, mine, threadVars>>

(***************************************************************************)
(* The program.  thread_join() is called for threads that there are.       *)
(***************************************************************************)
user_malloc(t, k) ==
  /\ Calls(t) /\ malloc(t, k, None)
  /\ UNCHANGED <<heapVars, mine, stack, zombie>>

user_free(t, b) ==
  /\ Calls(t) /\ b \in mine[t]
  /\ mine' = [mine EXCEPT ![t] = @ \ {b}]
  /\ free(t, b)
  /\ UNCHANGED <<heapVars, stack, zombie>>

thread_create(w) ==
  /\ Calls(Main) /\ stack[w] = None
  /\ malloc(Main, Stack, w)
  /\ UNCHANGED <<heapVars, mine, stack, zombie>>

\* clone() is not told if there is no stack.
clone(w) ==
  /\ At(Main, "clone") /\ fr[Main].worker = w
  /\ stack' = [stack EXCEPT ![w] = fr[Main].bp]
  /\ Goes(Main, User)
  /\ UNCHANGED <<heapVars, mine, zombie, calls>>

\* The stack is not given back.
clone_fails ==
  /\ At(Main, "clone")
  /\ mine' = IF fr[Main].bp = Null THEN mine ELSE [mine EXCEPT ![Main] = @ \cup {fr[Main].bp}]
  /\ Goes(Main, User)
  /\ UNCHANGED <<heapVars, threadVars>>

exit(w) ==
  /\ At(w, "user") /\ Running(w)
  /\ zombie' = zombie \cup {w}
  /\ UNCHANGED <<heapVars, fr, mine, stack, calls>>

\* The stack may be null.
thread_join(w) ==
  /\ Calls(Main) /\ w \in zombie
  /\ stack' = [stack EXCEPT ![w] = None] /\ zombie' = zombie \ {w}
  /\ free(Main, stack[w])
  /\ UNCHANGED <<heapVars, mine>>

Step(t) ==
  \/ f_lock(t) \/ walk(t) \/ f_link(t) \/ page_fault(t) \/ m_lock(t) \/ m_next(t) \/ m_take(t)
  \/ morecore(t) \/ growproc(t) \/ m_fail(t) \/ freewlock(t)
  \/ t = Main /\ (clone_fails \/ \E w \in Worker : clone(w))

Next ==
  \/ \E t \in Thread : \/ Step(t)
                       \/ \E k \in Request : user_malloc(t, k)
                       \/ \E b \in mine[t] : user_free(t, b)
  \/ \E w \in Worker : thread_create(w) \/ exit(w) \/ thread_join(w)

\* A thread inside a call goes on: the timer gives every thread its turn.
Spec == Init /\ [][Next]_vars /\ \A t \in Thread : WF_vars(Step(t))

-----------------------------------------------------------------------------
\* The blocks of the free list, which hold no more than there are addresses.
FreeList ==
  LET chain[k \in 0..Top] == IF k = 0 THEN freep ELSE ptr[chain[k - 1]]
  IN IF freep = Null THEN {} ELSE {chain[k] : k \in 0..Top}

InUse == (UNION {mine[t] : t \in Thread}) \cup ({stack[w] : w \in Worker} \ {None, Null})
           \cup {fr[t].bp : t \in {u \in Thread : At(u, "clone") /\ fr[u].bp # Null}}

\* Given to free() or by sbrk(), and not in the list yet.
Moving == {fr[t].bp : t \in {u \in Thread : fr[u].pc \in {"f_lock", "f_walk", "core_walk"}}} \ {Wild}

Units(b) == b..(b + size[b] - 1)

\* No unit is lost and none is in two blocks: every unit below sz is in the
\* free list, in use or on its way; the list runs once round through rising
\* addresses, and no two free blocks touch.
UnitsConserved ==
  LET free_ == FreeList
      blocks == (free_ \ {Base}) \cup InUse \cup Moving
  IN
  /\ UNION {Units(b) : b \in blocks} = Bottom..(sz - 1)
  /\ MapThenSumSet(LAMBDA b : size[b], blocks) = sz - Bottom
  /\ free_ \cap InUse = {} /\ free_ \cap Moving = {} /\ InUse \cap Moving = {}
  /\ \A b \in free_ : ptr[b] \in free_ /\ (b # Base => b + size[b] # ptr[b])
  /\ free_ # {} => Base \in free_ /\ Cardinality({b \in free_ : ptr[b] <= b}) = 1

Abstract == INSTANCE Allocator WITH Unit <- Addr, Size <- Request \cup {Stack},
                                    blocks <- {<<b, size[b]>> : b \in InUse}

\* A block given out by malloc() is apart from all the others in use, of all
\* threads and their stacks, until it is freed.
ImplementsAllocator == Abstract!Spec

\* Every malloc(), free(), thread_create() and thread_join() returns, also
\* when there is no memory: nobody waits for mallocLock or walks the list for
\* ever.  The exception is a thread_join() of a thread that was created when
\* there was no memory for its stack: the caller dies in free(0), and whoever
\* calls the library after it spins.
CallsReturn == \A t \in Thread : ~At(t, "user") ~> At(t, "user") \/ At(Main, "dead")

=============================================================================
