--------------------------- MODULE ConsoleProofs ---------------------------
(***************************************************************************)
(* The console and its spinlocks, for any numbers of CPUs and processes    *)
(* and any size of the buffer.                                             *)
(*                                                                         *)
(* SpinInv relates the locks and the counts of pushcli() to the places of  *)
(* the contexts: that no context panics in acquire() or release() needs    *)
(* the owner of a lock to be the CPU of the one inside, and ncli to count  *)
(* the locks of the context that runs on the CPU.  SleepInv says what a    *)
(* reader on its way to sleep() knows of the buffer.  InputInv ties the    *)
(* indices, which wrap, to the keys that are in the buffer.                *)
(***************************************************************************)
EXTENDS Console, Integers, Sequences, TLAPS

Handling == back[Irq] # "user"

\* Where a process and the handler can be: place, lock and where it goes on.
ProcessPlace(a, l, b) ==
  \/ a = "out" /\ l = None /\ b \in {"user", "read", "sleep", "woken", "write"}
  \/ a \in {"spin", "own"} /\ l = "input" /\ b = "read"
  \/ a \in {"spin", "own"} /\ l = "cons" /\ b = "write"
  \/ a = "free" /\ l \in {"input", "cons"} /\ b = "user"

HandlerPlace(a, l, b) ==
  \/ a = "out" /\ l = None /\ b \in {"user", "intr", "getc", "dump", "iret"}
  \/ a \in {"spin", "own"} /\ l = "input" /\ b = "getc"
  \/ a \in {"spin", "own"} /\ l = "cons" /\ b = "dump"
  \/ a = "free" /\ l = "cons" /\ b = "getc"
  \/ a = "free" /\ l = "input" /\ b = "iret"

Place(x, a, l, b) ==
  /\ x = Irq => HandlerPlace(a, l, b)
  /\ x \in Process => ProcessPlace(a, l, b)

Resumes == {"user", "read", "sleep", "woken", "write", "intr", "getc", "dump", "iret"}

PlaceTypes ==
  /\ at \in [Context -> {"out", "spin", "own", "free"}]
  /\ want \in [Context -> Lock \cup {None}] /\ back \in [Context -> Resumes]

SpinTypes ==
  /\ locked \subseteq Lock /\ owner \in [Lock -> Cpu \cup {None}]
  /\ ncli \in [Cpu -> Nat] /\ iflag \subseteq Cpu
  /\ on \in [Context -> Cpu \cup {None}] /\ on[Irq] = IrqCpu
  /\ panic = FALSE

Places == PlaceTypes /\ \A x \in Context : Place(x, at[x], want[x], back[x])

\* x waits for l or is inside, and the number of such locks: of pushcli()s.
Has(x, l) == Inside(x, l) \/ (at[x] = "spin" /\ want[x] = l)
Depth(x) == (IF Has(x, "input") THEN 1 ELSE 0) + (IF Has(x, "cons") THEN 1 ELSE 0)

\* One context is inside a lock, with its CPU the owner once that is written.
LockInv ==
  /\ \A l \in Lock, x, y \in Context : Inside(x, l) /\ Inside(y, l) => x = y
  /\ \A l \in locked : \E x \in Context : Inside(x, l)
  /\ \A l \in Lock, x \in Context : Inside(x, l) =>
       l \in locked /\ owner[l] = IF want[x] = l THEN None ELSE on[x]
  /\ \A l \in Lock \ locked : owner[l] = None

\* A CPU counts the locks of the one context that runs on it; others have none.
CpuInv ==
  /\ \A p, q \in Process : on[p] = on[q] /\ on[p] # None => p = q
  /\ \A p \in Process : Depth(p) > 0 => on[p] # None
  /\ Handling => \A p \in Process : on[p] = IrqCpu => Depth(p) = 0
  /\ Handling => ncli[IrqCpu] = Depth(Irq)
  /\ \A p \in Process : on[p] # None /\ ~(on[p] = IrqCpu /\ Handling) => ncli[on[p]] = Depth(p)
  /\ \A c \in Cpu : Idle(c) /\ ~(c = IrqCpu /\ Handling) => ncli[c] = 0
  /\ \A c \in iflag : ncli[c] = 0

SpinInv == SpinTypes /\ Places /\ LockInv /\ CpuInv

-----------------------------------------------------------------------------
\* The contexts, the locks and the CPUs.
LEMMA Constants ==
  /\ Context = Process \cup {Irq} /\ Irq \notin Process /\ Irq \in Context
  /\ \A p \in Process : p \in Context /\ p # Irq
  /\ Lock = {"input", "cons"} /\ "input" # None /\ "cons" # None
  /\ None \notin Cpu /\ IrqCpu \in Cpu
BY ConsoleAssumption, SpinAssumption, Zenon

\* What the place of a context says.
LEMMA PlaceOf ==
  ASSUME SpinInv, NEW x \in Context
  PROVE  /\ Place(x, at[x], want[x], back[x])
         /\ at[x] \in {"out", "spin", "own", "free"}
         /\ at[x] = "out" <=> want[x] = None
         /\ at[x] # "out" => want[x] \in Lock /\ want[x] # None /\ Has(x, want[x])
         /\ x = Irq /\ at[x] # "out" => Handling
<1>1. Place(x, at[x], want[x], back[x]) /\ at[x] \in {"out", "spin", "own", "free"}
  BY Zenon DEF SpinInv, Places, PlaceTypes
<1>2. CASE x = Irq
  BY <1>1, <1>2, Constants, Zenon DEF Place, HandlerPlace, Has, Inside, Handling
<1>3. CASE x \in Process
  BY <1>1, <1>3, Constants, Zenon DEF Place, ProcessPlace, Has, Inside
<1> QED
  BY <1>1, <1>2, <1>3, Constants, Zenon

\* The context that runs on a CPU is the one whose locks the CPU counts.
LEMMA Counted ==
  ASSUME SpinInv, NEW x \in Context, Runs(x), x = Irq => Handling
  PROVE  on[x] \in Cpu /\ ncli[on[x]] = Depth(x) /\ (x # Irq => ~(on[x] = IrqCpu /\ Handling))
<1>1. on[x] \in Cpu
  BY Zenon DEF Runs, SpinInv, SpinTypes
<1>2. CASE x = Irq
  BY <1>1, <1>2, Zenon DEF SpinInv, SpinTypes, CpuInv
<1>3. CASE x # Irq
  BY <1>1, <1>3, Constants, Zenon DEF Runs, Handling, SpinInv, CpuInv
<1> QED
  BY <1>2, <1>3, Zenon

-----------------------------------------------------------------------------
\* A step of which only x changes its place.
Moves(x) ==
  \A y \in Context \ {x} : at'[y] = at[y] /\ want'[y] = want[y] /\ back'[y] = back[y]

\* What a step of x leaves alone.
LEMMA Others ==
  ASSUME NEW x \in Context, Moves(x)
  PROVE  /\ \A y \in Context \ {x} : Depth(y)' = Depth(y)
         /\ \A y \in Context \ {x}, m \in Lock : Inside(y, m)' <=> Inside(y, m)
         /\ x # Irq => (Handling' <=> Handling)
<1>1. ASSUME NEW y \in Context \ {x}, NEW m PROVE (Inside(y, m)' <=> Inside(y, m)) /\ (Has(y, m)' <=> Has(y, m))
  BY Zenon DEF Moves, Inside, Has
<1>2. ASSUME NEW y \in Context \ {x} PROVE Depth(y)' = Depth(y)
  BY <1>1, Zenon DEF Depth
<1> QED
  BY <1>1, <1>2, Constants, Zenon DEF Moves, Handling

\* The place after Goes() of KSpinlock.
LEMMA GoesTo ==
  ASSUME SpinInv, NEW x \in Context, NEW a \in {"out", "spin", "own", "free"},
         NEW l \in Lock \cup {None}, NEW b \in Resumes, Goes(x, a, l, b), Place(x, a, l, b)
  PROVE  /\ at'[x] = a /\ want'[x] = l /\ back'[x] = b
         /\ Moves(x) /\ Places'
<1>1. /\ at'[x] = a /\ want'[x] = l /\ back'[x] = b /\ Moves(x) /\ PlaceTypes'
  BY Zenon DEF Goes, Moves, SpinInv, Places, PlaceTypes
<1> QED
  BY <1>1, Zenon DEF Moves, SpinInv, Places

\* A step of the context x that runs.
LEMMA CpuStep ==
  ASSUME SpinInv, NEW x \in Context, Runs(x), Moves(x), UNCHANGED on,
         x = Irq => Handling /\ Handling', ncli'[on[x]] = Depth(x)',
         \A c \in Cpu \ {on[x]} : ncli'[c] = ncli[c] /\ (c \in iflag' => c \in iflag),
         iflag' \subseteq Cpu, on[x] \in iflag' => Depth(x)' = 0
  PROVE  CpuInv'
<1>1. /\ on[x] \in Cpu /\ (x # Irq => ~(on[x] = IrqCpu /\ Handling)) /\ on[Irq] = IrqCpu
      /\ CpuInv /\ \A p \in Process : on[p] # None => on[p] \in Cpu
  BY Counted, Constants, Zenon DEF SpinInv, SpinTypes
<1>2. (Handling' <=> Handling) /\ \A y \in Context \ {x} : Depth(y)' = Depth(y)
  BY Others, Zenon
<1> QED
  BY <1>1, <1>2, Constants DEF CpuInv, Idle

\* A step of x that goes neither in nor out of a lock, nor begins to wait.
LEMMA CpuKept ==
  ASSUME SpinInv, NEW x \in Context, Runs(x), Moves(x), UNCHANGED <<on, ncli, iflag>>,
         x = Irq => Handling /\ Handling', \A m \in Lock : Has(x, m)' <=> Has(x, m)
  PROVE  CpuInv'
<1>1. Depth(x)' = Depth(x)
  BY Constants, Zenon DEF Depth
<1>2. ncli[on[x]] = Depth(x) /\ iflag \subseteq Cpu /\ \A c \in iflag : ncli[c] = 0
  BY Counted, Zenon DEF SpinInv, SpinTypes, CpuInv
<1> QED
  BY <1>1, <1>2, CpuStep, Zenon

\* A step of x by which no context goes in or out of a lock.
LEMMA LockKept ==
  ASSUME SpinInv, NEW x \in Context, Moves(x), UNCHANGED <<locked, owner>>,
         \A y \in Context \ {x} : on'[y] = on[y],
         \A m \in Lock : /\ Inside(x, m)' <=> Inside(x, m)
                         /\ Inside(x, m) => (want'[x] = m <=> want[x] = m) /\ on'[x] = on[x]
  PROVE  LockInv'
<1>1. \A y \in Context, m \in Lock : Inside(y, m)' <=> Inside(y, m)
  BY Others, Zenon
<1>2. \A y \in Context, m \in Lock : Inside(y, m) => (want'[y] = m <=> want[y] = m) /\ on'[y] = on[y]
  BY Zenon DEF Moves
<1> QED
  BY <1>1, <1>2 DEF SpinInv, LockInv, SpinTypes

\* A step of x at the lock l, with no other context inside.
LEMMA LockStep ==
  ASSUME SpinInv, NEW x \in Context, NEW l \in Lock, Moves(x), \A y \in Context \ {x} : ~Inside(y, l),
         \A y \in Context \ {x} : on'[y] = on[y], locked' \subseteq Lock,
         \A m \in Lock \ {l} :
           /\ (m \in locked' <=> m \in locked) /\ owner'[m] = owner[m]
           /\ Inside(x, m)' <=> Inside(x, m)
           /\ Inside(x, m) => (want'[x] = m <=> want[x] = m) /\ on'[x] = on[x],
         l \in locked' <=> Inside(x, l)',
         owner'[l] = IF Inside(x, l)' /\ want'[x] # l THEN on'[x] ELSE None
  PROVE  LockInv'
<1>1. \A y \in Context \ {x}, m \in Lock : Inside(y, m)' <=> Inside(y, m)
  BY Others, Zenon
<1>2. \A y \in Context, m \in Lock \ {l} : Inside(y, m)' <=> Inside(y, m)
  BY <1>1, Zenon
<1>3. \A y \in Context, m \in Lock \ {l} : Inside(y, m) => (want'[y] = m <=> want[y] = m) /\ on'[y] = on[y]
  BY DEF Moves
<1>4. \A y \in Context : Inside(y, l)' => y = x
  BY <1>1, Zenon
<1> QED
  BY <1>2, <1>3, <1>4 DEF SpinInv, LockInv, SpinTypes

-----------------------------------------------------------------------------
\* xchg() gets the lock: spin() of KSpinlock.
LEMMA SpinHolds ==
  ASSUME SpinInv, NEW x \in Context, Runs(x), spin(x)
  PROVE  SpinInv'
<1> DEFINE l == want[x]
<1>1. /\ at[x] = "spin" /\ l \in Lock /\ l # None /\ (x = Irq => Handling)
      /\ Place(x, at[x], l, back[x]) /\ back[x] \in Resumes
  BY PlaceOf, Zenon DEF spin, SpinInv, Places, PlaceTypes
<1>2. /\ locked' = locked \cup {l} /\ UNCHANGED <<owner, ncli, iflag, on, panic>>
      /\ l \notin locked /\ Goes(x, "own", l, back[x])
  BY Zenon DEF spin, cpuVars
<1>3. l = want[x]
  BY Zenon
<1> HIDE DEF l
<1>4. /\ at'[x] = "own" /\ want'[x] = l /\ back'[x] = back[x] /\ Moves(x) /\ Places'
  <2>1. Place(x, "own", l, back[x])
    BY <1>1, Zenon DEF Place, HandlerPlace, ProcessPlace
  <2> QED
    BY <1>1, <1>2, <2>1, GoesTo, Zenon
<1>5. \A m \in Lock : (Inside(x, m)' <=> Inside(x, m) \/ m = l) /\ (Has(x, m)' <=> Has(x, m))
  BY <1>1, <1>3, <1>4, Constants DEF Inside, Has, Place, HandlerPlace
<1>6. SpinTypes'
  BY <1>1, <1>2, Zenon DEF SpinInv, SpinTypes
<1>7. LockInv'
  <2>1. owner[l] = None /\ \A y \in Context : ~Inside(y, l)
    BY <1>1, <1>2, Zenon DEF SpinInv, LockInv
  <2> QED
    BY <1>1, <1>2, <1>3, <1>4, <1>5, <1>6, <2>1, LockStep DEF SpinTypes
<1>8. CpuInv'
  <2>1. x = Irq => Handling'
    BY <1>1, <1>4, Zenon DEF Handling
  <2> QED
    BY <1>1, <1>2, <1>4, <1>5, <2>1, CpuKept
<1> QED
  BY <1>4, <1>6, <1>7, <1>8, Zenon DEF SpinInv

\* lk->cpu is written: own() of KSpinlock.
LEMMA OwnHolds ==
  ASSUME SpinInv, NEW x \in Context, Runs(x), own(x)
  PROVE  SpinInv'
<1> DEFINE l == want[x]
<1>1. /\ at[x] = "own" /\ l \in Lock /\ l # None /\ (x = Irq => Handling)
      /\ Place(x, at[x], l, back[x]) /\ back[x] \in Resumes
  BY PlaceOf, Zenon DEF own, SpinInv, Places, PlaceTypes
<1>2. /\ owner' = [owner EXCEPT ![l] = on[x]] /\ UNCHANGED <<locked, ncli, iflag, on, panic>>
      /\ Goes(x, "out", None, back[x])
  BY Zenon DEF own, cpuVars
<1>3. l = want[x]
  BY Zenon
<1> HIDE DEF l
<1>4. /\ at'[x] = "out" /\ want'[x] = None /\ back'[x] = back[x] /\ Moves(x) /\ Places'
  <2>1. Place(x, "out", None, back[x])
    BY <1>1, Zenon DEF Place, HandlerPlace, ProcessPlace
  <2> QED
    BY <1>1, <1>2, <2>1, GoesTo
<1>5. \A m \in Lock : (Inside(x, m)' <=> Inside(x, m)) /\ (Has(x, m)' <=> Has(x, m))
  <2>1. CASE x = Irq
    BY <1>1, <1>3, <1>4, <2>1, Constants DEF Inside, Has, Place, HandlerPlace
  <2>2. CASE x \in Process
    BY <1>1, <1>3, <1>4, <2>2, Constants DEF Inside, Has, Place, ProcessPlace
  <2> QED
    BY <2>1, <2>2, Constants, Zenon
<1>6. SpinTypes' /\ on[x] \in Cpu
  BY <1>1, <1>2, Counted, Zenon DEF SpinInv, SpinTypes
<1>7. LockInv'
  <2>1. Inside(x, l)
    BY <1>1, <1>3, Zenon DEF Inside
  <2>2. l \in locked /\ \A y \in Context \ {x} : ~Inside(y, l)
    BY <1>1, <2>1, Zenon DEF SpinInv, LockInv
  <2>3. owner'[l] = on[x] /\ \A m \in Lock \ {l} : owner'[m] = owner[m]
    BY <1>1, <1>2, Zenon DEF SpinInv, SpinTypes
  <2>4. locked' \subseteq Lock
    BY <1>6, Zenon DEF SpinTypes
  <2>5. \A m \in Lock \ {l} : (want'[x] = m <=> want[x] = m)
    BY <1>3, <1>4, Constants, Zenon
  <2> QED
    BY <1>1, <1>2, <1>4, <1>5, <2>1, <2>2, <2>3, <2>4, <2>5, LockStep
<1>8. CpuInv'
  <2>1. x = Irq => Handling'
    BY <1>1, <1>4, Zenon DEF Handling
  <2> QED
    BY <1>1, <1>2, <1>4, <1>5, <2>1, CpuKept
<1> QED
  BY <1>4, <1>6, <1>7, <1>8, Zenon DEF SpinInv

\* release() is called, by a context that is inside.
LEMMA ReleaseHolds ==
  ASSUME SpinInv, NEW x \in Context, NEW l, NEW next, At(x, back[x]), release(x, l, next),
         \/ x = Irq /\ back[x] = "getc" /\ l = "input" /\ next = "iret"
         \/ x = Irq /\ back[x] = "dump" /\ l = "cons" /\ next = "getc"
         \/ x \in Process /\ back[x] = "read" /\ l = "input" /\ next = "user"
         \/ x \in Process /\ back[x] = "write" /\ l = "cons" /\ next = "user"
  PROVE  SpinInv'
<1>0. l \in Lock /\ next \in Resumes /\ Place(x, "free", l, next)
  BY Constants DEF Resumes, Place, HandlerPlace, ProcessPlace
<1>1. /\ Runs(x) /\ at[x] = "out" /\ want[x] = None /\ (x = Irq => Handling)
  BY PlaceOf, Constants, Zenon DEF At, Handling
<1>2. /\ owner' = [owner EXCEPT ![l] = None] /\ UNCHANGED <<locked, ncli, iflag, on>>
      /\ panic' = ~holding(l, on[x]) /\ Goes(x, "free", l, next)
  BY Zenon DEF release, cpuVars
<1>3. at'[x] = "free" /\ want'[x] = l /\ back'[x] = next /\ Moves(x) /\ Places'
  BY <1>0, <1>2, GoesTo, Zenon
<1>4. \A m \in Lock : (Inside(x, m)' <=> Inside(x, m)) /\ (Has(x, m)' <=> Has(x, m)) /\ Inside(x, l)
  BY <1>1, <1>3, Constants DEF Inside, Has
<1>5. l \in locked /\ owner[l] = on[x] /\ \A y \in Context \ {x} : ~Inside(y, l)
  BY <1>0, <1>1, <1>4, Constants DEF SpinInv, LockInv
<1>6. SpinTypes'
  BY <1>2, <1>5, Zenon DEF SpinInv, SpinTypes, holding
<1>7. LockInv'
  <2>1. owner'[l] = None /\ \A m \in Lock \ {l} : owner'[m] = owner[m]
    BY <1>0, <1>2, Zenon DEF SpinInv, SpinTypes
  <2>2. locked' \subseteq Lock
    BY <1>6, Zenon DEF SpinTypes
  <2>3. \A m \in Lock \ {l} : (want'[x] = m <=> want[x] = m)
    BY <1>1, <1>3, Constants, Zenon
  <2> QED
    BY <1>0, <1>2, <1>3, <1>4, <1>5, <2>1, <2>2, <2>3, LockStep
<1>8. CpuInv'
  <2>1. x = Irq => Handling'
    BY <1>3, Constants, Zenon DEF Handling
  <2> QED
    BY <1>1, <1>2, <1>3, <1>4, <2>1, CpuKept
<1> QED
  BY <1>3, <1>6, <1>7, <1>8 DEF SpinInv

\* acquire() is called, from the places of the console where it is.
LEMMA AcquireHolds ==
  ASSUME SpinInv, NEW x \in Context, NEW l, NEW next, At(x, back[x]), acquire(x, l, next),
         \/ x = Irq /\ back[x] = "intr" /\ l = "input" /\ next = "getc"
         \/ x = Irq /\ back[x] = "getc" /\ l = "cons" /\ next = "dump"
         \/ x \in Process /\ back[x] \in {"user", "woken"} /\ l = "input" /\ next = "read"
         \/ x \in Process /\ back[x] = "user" /\ l = "cons" /\ next = "write"
  PROVE  SpinInv'
<1>0. l \in Lock /\ next \in Resumes /\ Place(x, "spin", l, next)
  BY Constants, Zenon DEF Resumes, Place, HandlerPlace, ProcessPlace
<1>1. /\ Runs(x) /\ at[x] = "out" /\ want[x] = None /\ (x = Irq => Handling)
  BY PlaceOf, Constants, Zenon DEF At, Handling
<1>2. on[x] \in Cpu /\ ncli[on[x]] = Depth(x) /\ (x # Irq => ~(on[x] = IrqCpu /\ Handling))
  BY <1>1, Counted, Zenon
<1>3. /\ UNCHANGED <<locked, owner, on>> /\ panic' = holding(l, on[x])
      /\ ncli' = [ncli EXCEPT ![on[x]] = ncli[on[x]] + 1] /\ iflag' = iflag \ {on[x]}
      /\ Goes(x, "spin", l, next)
  BY Zenon DEF acquire, pushcli, heldVars
<1>4. at'[x] = "spin" /\ want'[x] = l /\ back'[x] = next /\ Moves(x) /\ Places'
  BY <1>0, <1>3, GoesTo
<1>5. \A m \in Lock : /\ Inside(x, m)' <=> Inside(x, m)
                      /\ Has(x, m)' <=> Has(x, m) \/ m = l
                      /\ ~Has(x, l)
  BY <1>1, <1>4, Constants DEF Inside, Has
<1>6. ~holding(l, on[x])
  <2> SUFFICES ASSUME l \in locked, owner[l] = on[x] PROVE FALSE
    BY Zenon DEF holding
  <2>1. PICK y \in Context : Inside(y, l)
    BY Zenon DEF SpinInv, LockInv
  <2>2. on[y] = on[x] /\ Has(y, l)
    BY <1>0, <1>2, <2>1, Constants DEF SpinInv, LockInv, Has
  <2>3. y # x /\ Depth(y) > 0
    BY <1>0, <1>5, <2>2, Constants DEF Depth
  <2>4. CASE y = Irq
    <3>1. Handling /\ on[x] = IrqCpu
      BY <2>1, <2>2, <2>4, PlaceOf, Zenon DEF SpinInv, SpinTypes, Inside, Handling
    <3> QED
      BY <1>2, <2>3, <2>4, <3>1, Zenon
  <2>5. CASE y \in Process /\ x \in Process
    BY <1>2, <2>2, <2>3, <2>5, Constants, Zenon DEF SpinInv, CpuInv
  <2>6. CASE y \in Process /\ x = Irq
    BY <1>1, <2>2, <2>3, <2>6 DEF SpinInv, SpinTypes, CpuInv
  <2> QED
    BY <2>3, <2>4, <2>5, <2>6, Constants, Zenon
<1>7. SpinTypes'
  BY <1>2, <1>3, <1>6 DEF SpinInv, SpinTypes
<1>8. LockInv'
  <2>1. \A m \in Lock : Inside(x, m) => (want'[x] = m <=> want[x] = m)
    BY <1>0, <1>1, <1>4, <1>5, Constants, ZenonT(30) DEF Has
  <2> QED
    BY <1>3, <1>4, <1>5, <2>1, LockKept, Zenon
<1>9. CpuInv'
  <2>1. Depth(x)' = Depth(x) + 1
    BY <1>0, <1>5, Constants DEF Depth
  <2>2. ncli'[on[x]] = Depth(x)' /\ \A c \in Cpu \ {on[x]} : ncli'[c] = ncli[c]
    BY <1>2, <1>3, <2>1 DEF SpinInv, SpinTypes
  <2>3. x = Irq => Handling'
    BY <1>4, Constants DEF Handling
  <2>4. iflag' \subseteq Cpu
    BY <1>7, Zenon DEF SpinTypes
  <2> QED
    BY <1>1, <1>3, <1>4, <2>2, <2>3, <2>4, CpuStep
<1> QED
  BY <1>4, <1>7, <1>8, <1>9 DEF SpinInv

\* The lock is let go and popcli() called: free() of KSpinlock.
LEMMA FreeHolds ==
  ASSUME SpinInv, NEW x \in Context, Runs(x), free(x)
  PROVE  SpinInv'
<1> DEFINE l == want[x]
<1>1. /\ at[x] = "free" /\ l \in Lock /\ l # None /\ (x = Irq => Handling)
      /\ Place(x, at[x], l, back[x]) /\ back[x] \in Resumes
  BY PlaceOf, Zenon DEF free, SpinInv, Places, PlaceTypes
<1>2. /\ UNCHANGED <<owner, on>> /\ locked' = locked \ {l}
      /\ ncli' = [ncli EXCEPT ![on[x]] = ncli[on[x]] - 1]
      /\ iflag' = IF ncli[on[x]] = 1 /\ on[x] \in intena THEN iflag \cup {on[x]} ELSE iflag
      /\ panic' = (on[x] \in iflag \/ ncli[on[x]] = 0)
      /\ Goes(x, "out", None, back[x])
  BY Zenon DEF free, popcli
<1>3. l = want[x] /\ on[x] \in Cpu /\ ncli[on[x]] = Depth(x)
  BY <1>1, Counted, Zenon
<1> HIDE DEF l
<1>4. at'[x] = "out" /\ want'[x] = None /\ back'[x] = back[x] /\ Moves(x) /\ Places'
  <2>1. Place(x, "out", None, back[x])
    BY <1>1, Zenon DEF Place, HandlerPlace, ProcessPlace
  <2> QED
    BY <1>1, <1>2, <2>1, GoesTo
<1>5. \A m \in Lock : /\ Inside(x, m)' <=> Inside(x, m) /\ m # l
                      /\ Has(x, m)' <=> Has(x, m) /\ m # l
                      /\ Inside(x, l) /\ Has(x, l)
  <2>1. CASE x = Irq
    BY <1>1, <1>3, <1>4, <2>1, Constants DEF Inside, Has, Place, HandlerPlace
  <2>2. CASE x \in Process
    BY <1>1, <1>3, <1>4, <2>2, Constants, ZenonT(30) DEF Inside, Has, Place, ProcessPlace
  <2> QED
    BY <2>1, <2>2, Constants, Zenon
<1>6. /\ Depth(x)' = Depth(x) - 1 /\ Depth(x) \in 1..2
      /\ on[x] \notin iflag /\ ncli[on[x]] # 0
  <2>1. Depth(x)' = Depth(x) - 1 /\ Depth(x) \in 1..2
    BY <1>1, <1>5, Constants DEF Depth
  <2> QED
    BY <1>3, <2>1 DEF SpinInv, CpuInv
<1>7. /\ ncli'[on[x]] = Depth(x)' /\ ncli' \in [Cpu -> Nat] /\ iflag' \subseteq Cpu
      /\ on[x] \in iflag' => Depth(x)' = 0
      /\ \A c \in Cpu \ {on[x]} : ncli'[c] = ncli[c] /\ (c \in iflag' => c \in iflag)
  BY <1>2, <1>3, <1>6 DEF SpinInv, SpinTypes
<1>8. SpinTypes'
  <2>1. panic' = FALSE
    BY <1>2, <1>6, Zenon
  <2> QED
    BY <1>2, <1>7, <2>1, Zenon DEF SpinInv, SpinTypes
<1>9. LockInv'
  <2>1. owner[l] = None /\ \A y \in Context \ {x} : ~Inside(y, l)
    BY <1>1, <1>3, <1>5, Zenon DEF SpinInv, LockInv
  <2>2. \A m \in Lock \ {l} : want'[x] = m <=> want[x] = m
    BY <1>3, <1>4, Constants, Zenon
  <2>3. locked' \subseteq Lock
    BY <1>8, Zenon DEF SpinTypes
  <2> QED
    BY <1>1, <1>2, <1>4, <1>5, <2>1, <2>2, <2>3, LockStep, Zenon
<1>10. CpuInv'
  <2>1. x = Irq => Handling'
    BY <1>1, <1>4, Zenon DEF Handling
  <2> QED
    BY <1>1, <1>2, <1>4, <1>7, <2>1, CpuStep, Zenon
<1> QED
  BY <1>4, <1>8, <1>9, <1>10 DEF SpinInv

\* A reader finds nothing to read.
LEMMA TestHolds ==
  ASSUME SpinInv, NEW p \in Process, read_test(p)
  PROVE  SpinInv'
<1>1. p \in Context /\ p # Irq /\ Runs(p) /\ at[p] = "out" /\ want[p] = None /\ back[p] = "read"
  BY Constants, PlaceOf, Zenon DEF read_test, At
<1>2. /\ back' = [back EXCEPT ![p] = "sleep"]
      /\ UNCHANGED <<locked, owner, ncli, iflag, at, want, on, panic>>
  BY Zenon DEF read_test, heldVars, cpuVars
<1>3. back'[p] = "sleep" /\ Moves(p) /\ PlaceTypes'
  BY <1>1, <1>2 DEF Moves, SpinInv, Places, PlaceTypes, Resumes
<1>4. \A m \in Lock : (Inside(p, m)' <=> Inside(p, m)) /\ (Has(p, m)' <=> Has(p, m))
  BY <1>1, <1>2, <1>3 DEF Inside, Has
<1>5. Places'
  <2>1. Place(p, "out", None, "sleep")
    BY <1>1, Zenon DEF Place, ProcessPlace
  <2> QED
    BY <1>1, <1>2, <1>3, <2>1 DEF Moves, SpinInv, Places
<1>6. LockInv'
  BY <1>1, <1>2, <1>3, <1>4, LockKept, ZenonT(30)
<1>7. CpuInv'
  BY <1>1, <1>2, <1>3, <1>4, CpuKept
<1> QED
  BY <1>2, <1>5, <1>6, <1>7, Zenon DEF SpinInv, SpinTypes

\* It goes to sleep with the lock let go.
LEMMA SleepHolds ==
  ASSUME SpinInv, NEW p \in Process, read_sleep(p)
  PROVE  SpinInv'
<1>1. p \in Context /\ p # Irq /\ Runs(p) /\ at[p] = "out" /\ want[p] = None /\ back[p] = "sleep"
  BY Constants, PlaceOf DEF read_sleep, At
<1>2. on[p] \in Cpu /\ ncli[on[p]] = Depth(p) /\ ~(on[p] = IrqCpu /\ Handling)
  BY <1>1, Counted, Zenon
<1>3. /\ locked' = locked \ {"input"} /\ owner' = [owner EXCEPT !["input"] = None]
      /\ ncli' = [ncli EXCEPT ![on[p]] = ncli[on[p]] - 1]
      /\ iflag' = IF ncli[on[p]] = 1 /\ on[p] \in intena THEN iflag \cup {on[p]} ELSE iflag
      /\ on' = [on EXCEPT ![p] = None] /\ panic' = ~holding("input", on[p])
      /\ Goes(p, "out", None, "woken")
  BY Zenon DEF read_sleep, popcli
<1>4. at'[p] = "out" /\ want'[p] = None /\ back'[p] = "woken" /\ Moves(p) /\ Places'
  <2>1. Place(p, "out", None, "woken") /\ "woken" \in Resumes
    BY <1>1, Zenon DEF Place, ProcessPlace, Resumes
  <2> QED
    BY <1>1, <1>3, <2>1, GoesTo
<1>5. on'[p] = None /\ \A y \in Context \ {p} : on'[y] = on[y]
  BY <1>1, <1>3 DEF SpinInv, SpinTypes
<1>6. Inside(p, "input") /\ ~Inside(p, "cons") /\ \A m \in Lock : ~Inside(p, m)' /\ ~Has(p, m)'
  BY <1>1, <1>4, Constants DEF Inside, Has
<1>7. Depth(p) = 1 /\ Depth(p)' = 0
  BY <1>1, <1>6, Constants DEF Depth, Has
<1>8. /\ ncli' \in [Cpu -> Nat] /\ iflag' \subseteq Cpu /\ ncli'[on[p]] = 0
      /\ \A c \in Cpu \ {on[p]} : ncli'[c] = ncli[c] /\ (c \in iflag' => c \in iflag)
  BY <1>2, <1>3, <1>7 DEF SpinInv, SpinTypes
<1>9. holding("input", on[p]) /\ \A y \in Context \ {p} : ~Inside(y, "input")
  BY <1>1, <1>6, Constants, Zenon DEF holding, SpinInv, LockInv
<1>10. SpinTypes'
  BY <1>1, <1>3, <1>5, <1>8, <1>9, Constants, Zenon DEF SpinInv, SpinTypes
<1>11. LockInv'
  <2>1. owner'["input"] = None /\ \A m \in Lock \ {"input"} : owner'[m] = owner[m]
    BY <1>3, Constants, Zenon DEF SpinInv, SpinTypes
  <2>2. locked' \subseteq Lock
    BY <1>10, Zenon DEF SpinTypes
  <2>3. "input" \in Lock /\ \A m \in Lock \ {"input"} : ~Inside(p, m)
    BY <1>6, Constants, ZenonT(30)
  <2> QED
    BY <1>1, <1>3, <1>4, <1>5, <1>6, <1>9, <2>1, <2>2, <2>3, LockStep, Zenon
<1>12. CpuInv'
  <2>1. (Handling' <=> Handling) /\ \A y \in Context \ {p} : Depth(y)' = Depth(y)
    BY <1>1, <1>4, Others, Zenon
  <2>2. \A y \in Process : on'[y] # None => on'[y] = on[y] /\ on[y] # on[p] /\ on[y] \in Cpu
    BY <1>2, <1>5, Constants, ZenonT(30) DEF SpinInv, SpinTypes, CpuInv
  <2>3. \A c \in Cpu \ {on[p]} : Idle(c)' => Idle(c)
    BY <1>5, Constants, Zenon DEF Idle
  <2> QED
    BY <1>1, <1>2, <1>5, <1>7, <1>8, <2>1, <2>2, <2>3, Constants DEF SpinInv, CpuInv
<1> QED
  BY <1>4, <1>10, <1>11, <1>12, ZenonT(30) DEF SpinInv

\* The timer moves a process that has no lock.
LEMMA MoveHolds ==
  ASSUME SpinInv, NEW p \in Process,
         preempt(p) \/ \E c \in Cpu : resume(p, c)
  PROVE  SpinInv'
<1>1. UNCHANGED <<locked, owner, ncli, iflag, at, want, back, panic>> /\ p \in Context /\ p # Irq
  BY Constants DEF preempt, resume, heldVars, cpuVars
<1>2. PICK c \in Cpu \cup {None} : on' = [on EXCEPT ![p] = c]
  BY Zenon DEF preempt, resume
<1>3. /\ on'[p] = c /\ (\A y \in Context \ {p} : on'[y] = on[y])
      /\ on' \in [Context -> Cpu \cup {None}]
  BY <1>1, <1>2 DEF SpinInv, SpinTypes
<1>4. /\ Depth(p) = 0
      /\ c # None => Idle(c) /\ ncli[c] = 0 /\ on[p] = None
      /\ c = None => on[p] \in Cpu /\ ncli[on[p]] = 0
  <2>1. Depth(p) \in Nat
    BY DEF Depth
  <2>2. CASE preempt(p)
    <3>1. Runs(p) /\ on[p] \in iflag /\ c = None
      BY <1>1, <1>3, <2>2 DEF preempt, SpinInv, SpinTypes
    <3> QED
      BY <1>1, <3>1, Counted DEF SpinInv, CpuInv
  <2>3. ASSUME NEW d \in Cpu, resume(p, d)
        PROVE  c = d /\ Depth(p) = 0 /\ Idle(c) /\ ncli[c] = 0 /\ on[p] = None
    <3>1. on[p] = None /\ Idle(d) /\ d \in iflag /\ c = d
      BY <1>1, <1>3, <2>3, Zenon DEF resume, SpinInv, SpinTypes
    <3> QED
      BY <2>1, <3>1 DEF SpinInv, CpuInv
  <2> QED
    BY <2>2, <2>3, Constants
<1>5. Moves(p) /\ \A m \in Lock : (Inside(p, m)' <=> Inside(p, m)) /\ ~Inside(p, m)
  <2>1. \A m \in Lock : ~Has(p, m)
    BY <1>4, Constants DEF Depth
  <2> QED
    BY <1>1, <2>1, Zenon DEF Inside, Has, Moves
<1>6. LockInv'
  BY <1>1, <1>3, <1>5, LockKept, Zenon
<1>7. CpuInv'
  <2>1. (Handling' <=> Handling) /\ \A y \in Context : Depth(y)' = Depth(y)
    BY <1>1 DEF Handling, Depth, Has, Inside
  <2>2. \A q \in Process \ {p} : on'[q] = on[q] /\ (c # None => on[q] # c)
    BY <1>3, <1>4, Constants, Zenon DEF Idle
  <2>3. ASSUME NEW d \in Cpu, Idle(d)' PROVE Idle(d) \/ (c = None /\ d = on[p])
    BY <1>3, <1>4, <2>2, <2>3, Constants, Zenon DEF Idle
  <2> QED
    BY <1>1, <1>3, <1>4, <2>1, <2>2, <2>3, Constants, SMTT(30) DEF SpinInv, CpuInv
<1>8. Places' /\ SpinTypes'
  BY <1>1, <1>3, Constants, Zenon DEF SpinInv, SpinTypes, Places, PlaceTypes
<1> QED
  BY <1>6, <1>7, <1>8, Zenon DEF SpinInv

\* The handler starts, and ends: the process under it has no lock.
LEMMA TrapHolds ==
  ASSUME SpinInv, interrupt \/ iret
  PROVE  SpinInv'
<1>1. UNCHANGED <<locked, owner, ncli, at, want, on, panic>> /\ on[Irq] = IrqCpu
  BY ZenonT(30) DEF interrupt, iret, heldVars, SpinInv, SpinTypes
<1>2. /\ at[Irq] = "out" /\ want[Irq] = None
      /\ \/ back[Irq] = "user" /\ IrqCpu \in iflag /\ iflag' = iflag \ {IrqCpu}
            /\ back' = [back EXCEPT ![Irq] = "intr"]
         \/ back[Irq] = "iret" /\ iflag' = iflag \cup {IrqCpu}
            /\ back' = [back EXCEPT ![Irq] = "user"]
  BY PlaceOf, Constants, ZenonT(30) DEF interrupt, iret, At, Place, HandlerPlace
<1>3. /\ back'[Irq] \in {"intr", "user"} /\ (back[Irq] = "user" <=> back'[Irq] = "intr")
      /\ Moves(Irq) /\ PlaceTypes'
  BY <1>1, <1>2, Constants, ZenonT(30) DEF Moves, SpinInv, Places, PlaceTypes, Resumes
<1>4. \A m \in Lock : ~Inside(Irq, m) /\ ~Inside(Irq, m)' /\ ~Has(Irq, m) /\ ~Has(Irq, m)'
  BY <1>1, <1>2, <1>3, Constants DEF Inside, Has
<1>5. Depth(Irq) = 0 /\ Depth(Irq)' = 0 /\ \A y \in Context \ {Irq} : Depth(y)' = Depth(y)
  BY <1>3, <1>4, Constants, Others DEF Depth
<1>6. ncli[IrqCpu] = 0 /\ \A p \in Process : on[p] = IrqCpu => Depth(p) = 0
  <2>1. CASE back[Irq] = "user"
    <3>1. ncli[IrqCpu] = 0
      BY <1>2, <2>1 DEF SpinInv, CpuInv
    <3> QED
      BY <2>1, <3>1, Constants DEF SpinInv, CpuInv, Handling
  <2>2. CASE back[Irq] = "iret"
    BY <1>5, <2>2, Zenon DEF SpinInv, CpuInv, Handling
  <2> QED
    BY <1>2, <2>1, <2>2, Zenon
<1>7. Places'
  <2>1. Place(Irq, "out", None, back'[Irq])
    BY <1>3, Constants DEF Place, HandlerPlace
  <2> QED
    BY <1>1, <1>2, <1>3, <2>1, Zenon DEF Moves, SpinInv, Places
<1>8. LockInv'
  BY <1>1, <1>3, <1>4, Constants, LockKept
<1>9. CpuInv'
  <2>1. \A c \in Cpu : Idle(c)' <=> Idle(c)
    BY <1>1, Zenon DEF Idle
  <2>2. \A y \in Context : Depth(y)' = Depth(y)
    BY <1>5, Zenon
  <2>3. \A c \in iflag' : c = IrqCpu \/ c \in iflag
    BY <1>2, Zenon
  <2>4. Handling' <=> ~Handling
    BY <1>2, <1>3, Zenon DEF Handling
  <2> QED
    BY <1>1, <1>5, <1>6, <2>1, <2>2, <2>3, <2>4, Constants DEF SpinInv, CpuInv
<1>10. SpinTypes'
  BY <1>1, <1>2, Constants, Zenon DEF SpinInv, SpinTypes
<1> QED
  BY <1>7, <1>8, <1>9, <1>10 DEF SpinInv

\* Steps that leave the locks and the CPUs alone.
LEMMA SameHolds ==
  ASSUME SpinInv, UNCHANGED spinVars
  PROVE  SpinInv'
<1>1. UNCHANGED <<locked, owner, ncli, iflag, at, want, back, on, panic>>
  BY Zenon DEF spinVars
<1>2. /\ Moves(Irq) /\ (Handling' <=> Handling) /\ \A c \in Cpu : Idle(c)' <=> Idle(c)
      /\ \A m : Inside(Irq, m)' <=> Inside(Irq, m)
  BY <1>1, Zenon DEF Moves, Handling, Idle, Inside
<1>3. \A x \in Context : Depth(x)' = Depth(x)
  BY <1>1 DEF Depth, Has, Inside
<1>4. SpinTypes' /\ Places'
  BY <1>1, Zenon DEF SpinInv, SpinTypes, Places, PlaceTypes
<1>5. LockInv'
  BY <1>1, <1>2, Constants, LockKept, Zenon
<1>6. CpuInv'
  BY <1>1, <1>2, <1>3, Constants, Zenon DEF SpinInv, CpuInv
<1> QED
  BY <1>4, <1>5, <1>6, Zenon DEF SpinInv

\* No lock is held and no CPU has interrupts off.
LEMMA InitHolds == Init => SpinInv
<1> SUFFICES ASSUME Init PROVE SpinInv
  BY Zenon
<1>1. /\ locked = {} /\ owner = [l \in Lock |-> None] /\ ncli = [c \in Cpu |-> 0] /\ iflag = Cpu
      /\ at = [x \in Context |-> "out"] /\ want = [x \in Context |-> None]
      /\ back = [x \in Context |-> "user"] /\ panic = FALSE
      /\ on \in [Context -> Cpu \cup {None}] /\ on[Irq] = IrqCpu
      /\ \A p, q \in Process : on[p] = on[q] /\ on[p] # None => p = q
  BY Zenon DEF Init, SpinInit, initlock
<1>2. \A x \in Context, l \in Lock : ~Inside(x, l) /\ ~Has(x, l)
  BY <1>1, Constants, Zenon DEF Inside, Has
<1>3. (\A x \in Context : Depth(x) = 0) /\ ~Handling
  BY <1>1, <1>2, Constants DEF Depth, Handling
<1>4. SpinTypes
  BY <1>1, Zenon DEF SpinTypes
<1>5. Places
  BY <1>1, Constants, Zenon DEF Places, PlaceTypes, Place, HandlerPlace, ProcessPlace, Resumes
<1>6. LockInv
  BY <1>1, <1>2, Zenon DEF LockInv
<1>7. CpuInv
  BY <1>1, <1>3, Constants DEF CpuInv
<1> QED
  BY <1>4, <1>5, <1>6, <1>7, Zenon DEF SpinInv

\* Every step keeps the invariant of the locks.
LEMMA SpinStep == SpinInv /\ [Next]_vars => SpinInv'
<1> SUFFICES ASSUME SpinInv, [Next]_vars PROVE SpinInv'
  BY Zenon
<1>1. CASE UNCHANGED vars
  BY <1>1, SameHolds, Zenon DEF vars
<1>2. CASE interrupt \/ iret
  BY <1>2, TrapHolds, Zenon
<1>3. CASE consoleintr \/ procdump
  BY <1>3, Constants, AcquireHolds, Zenon DEF consoleintr, procdump, At
<1>4. CASE procdump_end \/ getc_end
  BY <1>4, Constants, ReleaseHolds, Zenon DEF procdump_end, getc_end, At
<1>5. ASSUME NEW c \in Key, getc(c) PROVE SpinInv'
  BY <1>5, SameHolds, Zenon DEF getc
<1>6. ASSUME NEW x \in Context, Spins(x) PROVE SpinInv'
  BY <1>6, SpinHolds, OwnHolds, FreeHolds, Zenon DEF Spins
<1>7. ASSUME NEW p \in Process, preempt(p) \/ \E c \in Cpu : resume(p, c) PROVE SpinInv'
  BY <1>7, MoveHolds, Zenon
<1>8. ASSUME NEW p \in Process, kill(p) PROVE SpinInv'
  BY <1>8, SameHolds, Zenon DEF kill
<1>9. ASSUME NEW p \in Process, (\E k \in 1..MaxN : consoleread(p, k)) \/ read_woken(p) \/ consolewrite(p)
      PROVE  SpinInv'
  BY <1>9, Constants, AcquireHolds, Zenon DEF consoleread, read_woken, consolewrite, At
<1>10. ASSUME NEW p \in Process, read_test(p) \/ read_sleep(p) PROVE SpinInv'
  BY <1>10, TestHolds, SleepHolds, Zenon
<1>11. ASSUME NEW p \in Process, read_char(p) PROVE SpinInv'
  <2>1. CASE UNCHANGED spinVars
    BY <2>1, SameHolds, Zenon
  <2>2. CASE release(p, "input", "user")
    BY <1>11, <2>2, Constants, ReleaseHolds DEF read_char, At
  <2> QED
    BY <1>11, <2>1, <2>2, Zenon DEF read_char
<1>12. ASSUME NEW p \in Process, read_end(p) \/ write_done(p) PROVE SpinInv'
  BY <1>12, Constants, ReleaseHolds, Zenon DEF read_end, write_done, At
<1> QED
  BY <1>1, <1>2, <1>3, <1>4, <1>5, <1>6, <1>7, <1>8, <1>9, <1>10, <1>11, <1>12, Zenon DEF Next

\* The invariant of the spinlocks of the console.
THEOREM SpinInvariant == Spec => []SpinInv
  BY InitHolds, SpinStep, PTL DEF Spec

\* acquire() and release() never panic, whatever process the timer moves and
\* whenever the keyboard interrupts; a lock has one context inside, and no CPU
\* that holds or waits for one takes an interrupt.
THEOREM LocksHeldHolds == Spec => []LocksHeld
<1>1. SpinInv => LocksHeld
  <2> SUFFICES ASSUME SpinInv PROVE LocksHeld
    BY Zenon
  <2>1. ASSUME NEW x \in Context, at[x] # "out" \/ \E l \in Lock : Inside(x, l)
        PROVE  on[x] # None /\ on[x] \notin iflag /\ ncli[on[x]] > 0
    <3>1. \E l \in Lock : Has(x, l)
      BY <2>1, PlaceOf, Zenon DEF Has
    <3>2. Depth(x) \in Nat /\ Depth(x) > 0
      BY <3>1, Constants DEF Depth
    <3>3. CASE x = Irq
      <4>1. Handling
        BY <2>1, <3>3, PlaceOf, Zenon DEF Inside, Handling
      <4> QED
        BY <3>2, <3>3, <4>1, Constants DEF SpinInv, SpinTypes, CpuInv
    <3>4. CASE x \in Process
      BY <3>2, <3>4, Constants DEF SpinInv, SpinTypes, CpuInv
    <3> QED
      BY <3>3, <3>4, Constants, Zenon
  <2>2. ASSUME NEW l \in Lock, owner[l] # None PROVE \E x \in Context : Inside(x, l) /\ on[x] = owner[l]
    BY <2>2, Zenon DEF SpinInv, LockInv
  <2>3. /\ ~panic
        /\ \A l \in Lock : \A x, y \in Context : Inside(x, l) /\ Inside(y, l) => x = y
        /\ \A l \in Lock : l \in locked <=> \E x \in Context : Inside(x, l)
        /\ \A c \in iflag : ncli[c] = 0
    BY Zenon DEF SpinInv, SpinTypes, LockInv, CpuInv
  <2> QED
    BY <2>1, <2>2, <2>3, Zenon DEF LocksHeld
<1> QED
  BY <1>1, SpinInvariant, PTL

-----------------------------------------------------------------------------
\* A reader sleeps, or is about to, only while there is nothing to read.
SleepInv ==
  /\ asleep # {} => r = w
  /\ \A p \in Process : at[p] = "out" /\ back[p] = "sleep" => r = w

\* A step of x after which it is not about to sleep.
LEMMA SleepKept ==
  ASSUME SleepInv, SpinInv, NEW x \in Context, NEW a, NEW l, NEW b, Goes(x, a, l, b),
         a # "out" \/ b # "sleep", UNCHANGED <<r, w>>, asleep' \subseteq asleep
  PROVE  SleepInv'
<1>1. \A p \in Process : at'[p] = "out" /\ back'[p] = "sleep" => at[p] = "out" /\ back[p] = "sleep"
  BY Constants, Zenon DEF Goes, SpinInv, Places, PlaceTypes
<1> QED
  BY <1>1, Zenon DEF SleepInv

\* While the handler is at work, no reader is about to sleep.
LEMMA HandlerAlone ==
  ASSUME SpinInv, At(Irq, "getc"), NEW p \in Process
  PROVE  ~(at[p] = "out" /\ back[p] = "sleep")
<1>1. Inside(Irq, "input")
  BY Constants, Zenon DEF At, Inside
<1>2. at[p] = "out" /\ back[p] = "sleep" => Inside(p, "input")
  BY Constants, Zenon DEF Inside
<1> QED
  BY <1>1, <1>2, Constants, Zenon DEF SpinInv, LockInv

\* Every step keeps it: a line is handed over and the readers woken in one
\* section of input.lock, and the test and sleep() of a reader are in another.
LEMMA SleepStep == SpinInv /\ SleepInv /\ [Next]_vars => SleepInv'
<1> SUFFICES ASSUME SpinInv, SleepInv, [Next]_vars PROVE SleepInv'
  BY Zenon
<1>1. CASE UNCHANGED <<at, back, r, w>> /\ asleep' \subseteq asleep
  BY <1>1, Zenon DEF SleepInv
<1>2. CASE interrupt \/ iret
  <2>1. UNCHANGED <<at, r, w, asleep>> /\ \A p \in Process : back'[p] = back[p]
    BY <1>2, Constants, Zenon DEF interrupt, iret, inputVars, readVars, SpinInv, Places, PlaceTypes
  <2> QED
    BY <2>1, Zenon DEF SleepInv
<1>3. CASE consoleintr \/ procdump \/ procdump_end \/ getc_end
  <2>1. UNCHANGED <<r, w, asleep>>
    BY <1>3, Zenon DEF consoleintr, procdump, procdump_end, getc_end, inputVars, readVars
  <2>2. \E a \in {"spin", "free"}, l, b \in Lock \cup Resumes : Goes(Irq, a, l, b)
    BY <1>3, Constants, Zenon DEF consoleintr, procdump, procdump_end, getc_end, acquire, release, Resumes
  <2> QED
    BY <2>1, <2>2, Constants, SleepKept, Zenon
<1>4. ASSUME NEW c \in Key, getc(c) PROVE SleepInv'
  <2>1. UNCHANGED <<at, back, r>> /\ At(Irq, "getc")
    BY <1>4, Zenon DEF getc, spinVars, character, backspace, kill_line, inputVars
  <2>2. (w' = w /\ asleep' = asleep) \/ asleep' = {}
    BY <1>4, Zenon DEF getc, character, backspace, kill_line, inputVars
  <2> QED
    BY <2>1, <2>2, HandlerAlone, Zenon DEF SleepInv
<1>5. ASSUME NEW x \in Context, Spins(x) PROVE SleepInv'
  <2>1. UNCHANGED <<r, w, asleep>>
    BY <1>5, Zenon DEF Spins, inputVars, readVars
  <2>2. at[x] # "out" => back[x] # "sleep"
    BY PlaceOf, Constants, Zenon DEF Place, HandlerPlace, ProcessPlace
  <2>3. \E a \in {"out", "own"}, l \in Lock \cup {None} : Goes(x, a, l, back[x]) /\ at[x] # "out"
    BY <1>5, PlaceOf, Zenon DEF Spins, spin, own, free
  <2> QED
    BY <2>1, <2>2, <2>3, SleepKept, Zenon
<1>6. ASSUME NEW p \in Process, read_test(p) PROVE SleepInv'
  BY <1>6, Zenon DEF read_test, inputVars, readVars, SleepInv
<1>7. ASSUME NEW p \in Process, read_sleep(p) PROVE SleepInv'
  <2>1. r = w /\ UNCHANGED <<r, w>>
    BY <1>7, Zenon DEF read_sleep, At, inputVars, SleepInv
  <2> QED
    BY <2>1, Zenon DEF SleepInv
<1>8. ASSUME NEW p \in Process, read_char(p) PROVE SleepInv'
  <2>1. asleep = {} /\ asleep' = {} /\ \A q \in Process : ~(at[q] = "out" /\ back[q] = "sleep")
    BY <1>8, Zenon DEF read_char, SleepInv
  <2>2. UNCHANGED <<at, back>> \/ Goes(p, "free", "input", "user")
    BY <1>8, Zenon DEF read_char, release, spinVars
  <2>3. \A q \in Process : ~(at'[q] = "out" /\ back'[q] = "sleep")
    BY <2>1, <2>2, Constants, Zenon DEF Goes, SpinInv, Places, PlaceTypes
  <2> QED
    BY <2>1, <2>3, Zenon DEF SleepInv
<1>9. ASSUME NEW p \in Process,
             \/ (\E k \in 1..MaxN : consoleread(p, k)) \/ read_woken(p) \/ consolewrite(p)
             \/ read_end(p) \/ write_done(p)
      PROVE  SleepInv'
  <2>1. UNCHANGED <<r, w, asleep>>
    BY <1>9, Zenon DEF consoleread, read_woken, consolewrite, read_end, write_done, inputVars, readVars
  <2>2. \E a \in {"spin", "free"}, l, b \in Lock \cup Resumes : Goes(p, a, l, b)
    BY <1>9, Constants, Zenon
       DEF consoleread, read_woken, consolewrite, read_end, write_done, acquire, release, Resumes
  <2> QED
    BY <2>1, <2>2, Constants, SleepKept, Zenon
<1>10. ASSUME NEW p \in Process, kill(p) \/ preempt(p) \/ \E c \in Cpu : resume(p, c)
       PROVE  UNCHANGED <<at, back, r, w>> /\ asleep' \subseteq asleep
  BY <1>10, Zenon DEF kill, preempt, resume, spinVars, inputVars, readVars
<1>11. UNCHANGED vars => UNCHANGED <<at, back, r, w, asleep>>
  BY Zenon DEF vars, spinVars, inputVars, readVars
<1> QED
  BY <1>1, <1>2, <1>3, <1>4, <1>5, <1>6, <1>7, <1>8, <1>9, <1>10, <1>11 DEF Next

\* No reader sleeps while there is a line to read: no wakeup is lost.
THEOREM ReadersWokenHolds == Spec => []ReadersWoken
<1>1. Init => SleepInv
  BY Constants, Zenon DEF Init, SpinInit, SleepInv
<1>2. SleepInv => ReadersWoken
  BY Zenon DEF SleepInv, ReadersWoken
<1> QED
  BY <1>1, <1>2, SpinInvariant, SleepStep, PTL DEF Spec

-----------------------------------------------------------------------------
(* Quotients and remainders, for indices that wrap, and rings. *)

\* Quotient and remainder.
LEMMA DivMod ==
  ASSUME NEW a \in Nat, NEW m \in Nat \ {0}
  PROVE  /\ a \div m \in Nat /\ a % m \in Nat /\ a % m < m
         /\ a = m * (a \div m) + (a % m)
OBVIOUS

\* Multiplication distributes over addition.
LEMMA Distributes ==
  ASSUME NEW z \in Nat, NEW x \in Nat, NEW y \in Nat
  PROVE  z * (x + y) = z * x + z * y
OBVIOUS

\* Quotient and remainder are unique.
LEMMA DivUnique ==
  ASSUME NEW m \in Nat \ {0}, NEW q1 \in Int, NEW q2 \in Int, NEW r1 \in Int, NEW r2 \in Int,
         0 <= r1, r1 < m, 0 <= r2, r2 < m, m * q1 + r1 = m * q2 + r2
  PROVE  q1 = q2 /\ r1 = r2
<1>1. ASSUME NEW q \in Int, NEW o \in Int, q < o PROVE m * q + m <= m * o
  <2>1. q + 1 <= o
    BY <1>1
  <2>2. m * (q + 1) <= m * o
    BY <2>1, SMT
  <2> QED
    BY <2>2, SMT
<1>2. ~(q1 < q2)
  BY <1>1
<1>3. ~(q2 < q1)
  BY <1>1
<1> QED
  BY <1>2, <1>3

\* The remainder of a number given by quotient and remainder.
LEMMA ModIs ==
  ASSUME NEW m \in Nat \ {0}, NEW q \in Nat, NEW o \in Nat, o < m
  PROVE  (m * q + o) % m = o
<1>1. m * q + o \in Nat
  BY SMT
<1> QED
  BY <1>1, DivMod, DivUnique

\* Adding to a counter after or before it wraps comes to the same.
LEMMA ModAdd ==
  ASSUME NEW a \in Nat, NEW c \in Nat, NEW m \in Nat \ {0}
  PROVE  ((a % m) + c) % m = (a + c) % m
<1> DEFINE q == a \div m
           o == a % m
           q2 == (o + c) \div m
           r2 == (o + c) % m
<1>1. q \in Nat /\ o \in Nat /\ o < m /\ a = m * q + o
  BY DivMod
<1>2. q2 \in Nat /\ r2 \in Nat /\ r2 < m /\ o + c = m * q2 + r2
  <2>1. o + c \in Nat
    BY <1>1
  <2> HIDE DEF o
  <2> QED
    BY <2>1, DivMod, Zenon
<1> HIDE DEF q, o, q2, r2
<1>3. a + c = m * (q + q2) + r2
  BY <1>1, <1>2
<1>4. (a + c) % m = r2
  <2>1. q + q2 \in Nat
    BY <1>1, <1>2
  <2>2. (m * (q + q2) + r2) % m = r2
    BY <1>2, <2>1, ModIs, Zenon
  <2> QED
    BY <1>3, <2>2
<1> QED
  BY <1>4 DEF r2, o

\* A counter that wraps at a multiple of z has the remainders by z of one that
\* does not wrap.
LEMMA ModMod ==
  ASSUME NEW a \in Nat, NEW z \in Nat \ {0}, NEW m \in Nat \ {0}, m % z = 0
  PROVE  (a % m) % z = a % z
<1> DEFINE k == m \div z
           q == a \div m
           o == a % m
           q2 == o \div z
           r2 == o % z
<1>1. k \in Nat /\ m = z * k
  BY DivMod
<1>2. q \in Nat /\ o \in Nat /\ a = m * q + o
  BY DivMod
<1>3. q2 \in Nat /\ r2 \in Nat /\ r2 < z /\ o = z * q2 + r2
  <2> HIDE DEF o
  <2> QED
    BY <1>2, DivMod
<1> HIDE DEF k, q, o, q2, r2
<1>4. k * q \in Nat /\ m * q = z * (k * q)
  BY <1>1, <1>2
<1>5. a = z * ((k * q) + q2) + r2
  <2>1. z * ((k * q) + q2) = z * (k * q) + z * q2
    BY <1>3, <1>4, Distributes
  <2> QED
    BY <1>2, <1>3, <1>4, <2>1
<1>6. a % z = r2
  <2>1. (k * q) + q2 \in Nat
    BY <1>3, <1>4
  <2> QED
    BY <1>3, <1>5, <2>1, ModIs, Zenon
<1> QED
  BY <1>6 DEF r2, o

\* The difference of two counters, taken from their wrapped values.
LEMMA ModDiff ==
  ASSUME NEW a \in Nat, NEW b \in Nat, NEW m \in Nat \ {0}, a <= b, b - a < m
  PROVE  ((b % m) + m - (a % m)) % m = b - a
<1> DEFINE o == a % m
           c == b - a
<1>1. o \in Nat /\ o < m /\ c \in Nat /\ c < m
  BY DivMod
<1>2. b % m = (o + c) % m
  <2>1. a + c = b
    OBVIOUS
  <2> HIDE DEF c
  <2>2. ((a % m) + c) % m = (a + c) % m
    BY <1>1, ModAdd, Zenon
  <2> QED
    BY <2>1, <2>2
<1> HIDE DEF o, c
<1>3. CASE o + c < m
  <2>1. (o + c) % m = o + c
    <3>1. o + c = m * 0 + (o + c)
      BY <1>1
    <3> QED
      BY <1>1, <1>3, <3>1, ModIs
  <2>2. ((o + c) + m - o) % m = c
    <3>1. (o + c) + m - o = m * 1 + c
      BY <1>1
    <3> QED
      BY <1>1, <3>1, ModIs
  <2> QED
    BY <1>2, <2>1, <2>2, Zenon DEF o, c
<1>4. CASE o + c >= m
  <2>1. (o + c) % m = o + c - m
    <3>1. o + c = m * 1 + (o + c - m) /\ o + c - m \in Nat /\ o + c - m < m
      BY <1>1, <1>4
    <3> QED
      BY <1>1, <3>1, ModIs
  <2>2. ((o + c - m) + m - o) % m = c
    <3>1. (o + c - m) + m - o = m * 0 + c
      BY <1>1
    <3> QED
      BY <1>1, <3>1, ModIs
  <2> QED
    BY <1>2, <2>1, <2>2 DEF o, c
<1> QED
  BY <1>1, <1>3, <1>4

\* Counters less than a turn apart are equal when their wrapped values are.
LEMMA ModNear ==
  ASSUME NEW a \in Nat, NEW b \in Nat, NEW m \in Nat \ {0}, a <= b, b - a < m,
         a % m = b % m
  PROVE  a = b
<1>1. ((b % m) + m - (a % m)) % m = b - a
  BY ModDiff, Zenon
<1>2. (b % m) + m - (a % m) = m * 1 + 0
  BY DivMod
<1>3. (m * 1 + 0) % m = 0
  BY ModIs
<1> QED
  BY <1>1, <1>2, <1>3

\* Going back by j is adding a turn less j.
LEMMA ModBack ==
  ASSUME NEW a \in Nat, NEW j \in Nat, NEW m \in Nat \ {0}, j <= a, j <= m
  PROVE  ((a % m) + m - j) % m = (a - j) % m
<1>1. a % m \in Nat
  BY DivMod
<1> DEFINE c == m - j
           d == a - j
<1>2. c \in Nat /\ d \in Nat /\ a + c = d + m /\ (a % m) + m - j = (a % m) + c
  BY <1>1
<1>3. ((a % m) + c) % m = (a + c) % m
  BY <1>2, ModAdd, Zenon
<1>4. (d + m) % m = d % m
  <2> HIDE DEF d
  <2>1. d % m \in Nat /\ d % m < m /\ d \div m \in Nat /\ d = m * (d \div m) + (d % m)
    BY <1>2, DivMod
  <2>2. d + m = m * ((d \div m) + 1) + (d % m) /\ (d \div m) + 1 \in Nat
    BY <2>1
  <2> QED
    BY <2>1, <2>2, ModIs, Zenon
<1> QED
  BY <1>2, <1>3, <1>4

-----------------------------------------------------------------------------
(***************************************************************************)
(* A ring of z places with counters that wrap at m, a multiple of z: place *)
(* k of the ring that starts at the counter a is (a + k) % z.              *)
(***************************************************************************)
\* The place does not depend on where the counter wraps.
LEMMA RingPlace ==
  ASSUME NEW z \in Nat \ {0}, NEW m \in Nat \ {0}, m % z = 0
  PROVE  \A a, k \in Nat : ((a % m) + k) % z = (a + k) % z
<1> SUFFICES ASSUME NEW a \in Nat, NEW k \in Nat PROVE ((a % m) + k) % z = (a + k) % z
  BY Zenon
<1>1. a % m \in Nat
  BY DivMod
<1>2. (((a % m) % z) + k) % z = ((a % m) + k) % z
  <2> DEFINE b == a % m
  <2>1. b \in Nat
    BY <1>1
  <2> HIDE DEF b
  <2>2. ((b % z) + k) % z = (b + k) % z
    BY <2>1, ModAdd, Zenon
  <2> QED
    BY <2>2 DEF b
<1>3. (a % m) % z = a % z
  BY ModMod, Zenon
<1>4. ((a % z) + k) % z = (a + k) % z
  BY ModAdd, Zenon
<1> QED
  BY <1>2, <1>3, <1>4, Zenon

\* Places less than a turn apart are different.
LEMMA RingApart ==
  ASSUME NEW a \in Nat, NEW k \in Nat, NEW z \in Nat \ {0}, k < z, NEW j \in 0..k - 1
  PROVE  (a + j) % z # (a + k) % z /\ (a + j) % z \in 0..z - 1
<1>1. a + j \in Nat /\ a + k \in Nat /\ a + j <= a + k /\ (a + k) - (a + j) < z /\ a + j # a + k
  OBVIOUS
<1>2. (a + j) % z # (a + k) % z
  BY <1>1, ModNear, Zenon
<1>3. (a + j) % z \in Nat /\ (a + j) % z < z
  BY <1>1, DivMod
<1> QED
  BY <1>2, <1>3

(***************************************************************************)
(* The ring f with the counters b <= c <= d: the items of u lie from b on, *)
(* and behind them, from c to d, those of v.                               *)
(***************************************************************************)
RingOf(z, m, f, b, c, d, u, v) ==
  /\ DOMAIN f = 0..z - 1 /\ b \in 0..m - 1
  /\ Len(u) \in Nat /\ Len(v) \in Nat /\ Len(u) + Len(v) <= z
  /\ c = (b + Len(u)) % m /\ d = (b + Len(u) + Len(v)) % m
  /\ \A k \in 0..Len(u) - 1 : u[k + 1] = f[(b + k) % z]
  /\ \A k \in 0..Len(v) - 1 : v[k + 1] = f[(b + Len(u) + k) % z]

\* The distances of the counters.
LEMMA RingCounts ==
  ASSUME NEW z \in Nat \ {0}, NEW m \in Nat, z < m, m % z = 0,
         NEW f, NEW b, NEW c, NEW d, NEW u, NEW v, RingOf(z, m, f, b, c, d, u, v)
  PROVE  /\ (c + m - b) % m = Len(u) /\ (d + m - c) % m = Len(v)
         /\ (d + m - b) % m = Len(u) + Len(v)
         /\ (b = c <=> Len(u) = 0) /\ (c = d <=> Len(v) = 0)
<1> DEFINE i == Len(u)
           j == Len(v)
<1>1. /\ b \in Nat /\ b < m /\ i \in Nat /\ j \in Nat /\ i + j <= z /\ m \in Nat \ {0}
      /\ c = (b + i) % m /\ d = (b + i + j) % m
  BY DEF RingOf
<1> HIDE DEF i, j
<1>2. b % m = b
  <2>1. b = m * 0 + b
    BY <1>1
  <2> QED
    BY <1>1, <2>1, ModIs
<1>3. b + i \in Nat /\ b + i + j \in Nat /\ b <= b + i /\ b + i <= b + i + j /\ b <= b + i + j
  BY <1>1
<1>4. (b + i) - b = i /\ (b + i + j) - (b + i) = j /\ (b + i + j) - b = i + j /\ i < m /\ j < m /\ i + j < m
  BY <1>1
<1>5. (c + m - b) % m = i
  <2>1. (((b + i) % m) + m - (b % m)) % m = (b + i) - b
    BY <1>1, <1>3, <1>4, ModDiff, ZenonT(30)
  <2> QED
    BY <1>1, <1>2, <1>4, <2>1, Zenon
<1>6. (d + m - c) % m = j
  <2>1. (((b + i + j) % m) + m - ((b + i) % m)) % m = (b + i + j) - (b + i)
    BY <1>1, <1>3, <1>4, ModDiff, ZenonT(30)
  <2> QED
    BY <1>1, <1>4, <2>1, Zenon
<1>7. (d + m - b) % m = i + j
  <2>1. (((b + i + j) % m) + m - (b % m)) % m = (b + i + j) - b
    BY <1>1, <1>3, <1>4, ModDiff, ZenonT(30)
  <2> QED
    BY <1>1, <1>2, <1>4, <2>1, Zenon
<1>8. b = c <=> i = 0
  <2>1. b = c => b = b + i
    BY <1>1, <1>2, <1>3, <1>4, ModNear, Zenon
  <2>2. i = 0 => b + i = b
    BY <1>1
  <2> QED
    BY <1>1, <1>2, <2>1, <2>2
<1>9. c = d <=> j = 0
  <2>1. c = d => b + i = b + i + j
    BY <1>1, <1>3, <1>4, ModNear, Zenon
  <2>2. j = 0 => b + i = b + i + j
    BY <1>1
  <2> QED
    BY <1>1, <2>1, <2>2
<1> QED
  BY <1>5, <1>6, <1>7, <1>8, <1>9 DEF i, j

\* What lies between two counters.
LEMMA RingItems ==
  ASSUME NEW z \in Nat \ {0}, NEW m \in Nat, z < m, m % z = 0,
         NEW f, NEW b, NEW c, NEW d, NEW u, NEW v, RingOf(z, m, f, b, c, d, u, v),
         NEW S, u \in Seq(S), v \in Seq(S)
  PROVE  /\ [k \in 1..(c + m - b) % m |-> f[(b + k - 1) % z]] = u
         /\ [k \in 1..(d + m - c) % m |-> f[(c + k - 1) % z]] = v
         /\ u # <<>> => f[b % z] = u[1]
<1>0. \A i, j \in Nat : ((i % m) + j) % z = (i + j) % z
  <2>1. m \in Nat \ {0}
    OBVIOUS
  <2> QED
    BY <2>1, RingPlace, Zenon
<1>1. /\ b \in Nat /\ Len(u) \in Nat /\ Len(v) \in Nat /\ c = (b + Len(u)) % m /\ m \in Nat \ {0}
      /\ \A k \in 0..Len(u) - 1 : u[k + 1] = f[(b + k) % z]
      /\ \A k \in 0..Len(v) - 1 : v[k + 1] = f[(b + Len(u) + k) % z]
  BY DEF RingOf
<1>2. (c + m - b) % m = Len(u) /\ (d + m - c) % m = Len(v)
  BY RingCounts
<1>3. u = [k \in 1..Len(u) |-> u[k]] /\ v = [k \in 1..Len(v) |-> v[k]]
  <2>1. ASSUME NEW s \in Seq(S) PROVE s = [k \in 1..Len(s) |-> s[k]]
    OBVIOUS
  <2> QED
    BY <2>1
<1>4. ASSUME NEW k \in 1..Len(u) PROVE f[(b + k - 1) % z] = u[k]
  <2>1. k - 1 \in 0..Len(u) - 1 /\ (k - 1) + 1 = k /\ b + (k - 1) = b + k - 1
    BY <1>1
  <2> QED
    BY <1>1, <2>1, ZenonT(30)
<1>5. ASSUME NEW k \in 1..Len(v) PROVE f[(c + k - 1) % z] = v[k]
  <2>1. /\ k - 1 \in 0..Len(v) - 1 /\ (k - 1) + 1 = k /\ k - 1 \in Nat /\ b + Len(u) \in Nat
        /\ c + (k - 1) = c + k - 1
    <3>1. c \in Nat
      BY <1>1, DivMod
    <3> QED
      BY <1>1, <3>1
  <2>2. (((b + Len(u)) % m) + (k - 1)) % z = (b + Len(u) + (k - 1)) % z
    BY <1>0, <2>1, Zenon
  <2>3. v[(k - 1) + 1] = f[(b + Len(u) + (k - 1)) % z]
    BY <1>1, <2>1, Zenon
  <2> QED
    BY <1>1, <2>1, <2>2, <2>3, Zenon
<1>6. u # <<>> => f[b % z] = u[1]
  <2>1. u # <<>> => 0 \in 0..Len(u) - 1 /\ b + 0 = b /\ 0 + 1 = 1
    BY <1>1
  <2> QED
    BY <1>1, <2>1, Zenon
<1> QED
  BY <1>2, <1>3, <1>4, <1>5, <1>6, Zenon

\* An item is stored behind the last one.
LEMMA RingPut ==
  ASSUME NEW z \in Nat \ {0}, NEW m \in Nat, z < m, m % z = 0,
         NEW f, NEW b, NEW c, NEW d, NEW u, NEW v, RingOf(z, m, f, b, c, d, u, v),
         (d + m - b) % m < z, NEW S, v \in Seq(S), NEW x \in S,
         NEW g, g = [f EXCEPT ![d % z] = x]
  PROVE  RingOf(z, m, g, b, c, (d + 1) % m, u, Append(v, x))
<1> DEFINE i == Len(u)
           j == Len(v)
           k1 == i + j
<1>0. b \in Nat /\ i \in Nat /\ j \in Nat /\ m \in Nat \ {0} /\ z \in Nat \ {0} /\ 1 \in Nat
  BY DEF RingOf
<1>1. /\ b \in 0..m - 1 /\ m % z = 0
      /\ c = (b + i) % m /\ d = (b + i + j) % m /\ DOMAIN f = 0..z - 1
      /\ \A k \in 0..i - 1 : u[k + 1] = f[(b + k) % z]
      /\ \A k \in 0..j - 1 : v[k + 1] = f[(b + i + k) % z]
  BY DEF RingOf
<1>2. i + j < z
  BY RingCounts
<1>3. /\ Append(v, x) \in Seq(S) /\ Len(Append(v, x)) = j + 1 /\ Append(v, x)[j + 1] = x
      /\ \A k \in 0..j - 1 : Append(v, x)[k + 1] = v[k + 1]
  OBVIOUS
<1> HIDE DEF i, j
<1>4. k1 \in Nat /\ k1 < z /\ b + i + j = b + k1 /\ b + i + (j + 1) = (b + k1) + 1 /\ b + k1 \in Nat
  BY <1>0, <1>2
<1>5. \A k \in 0..j - 1 : i + k \in 0..k1 - 1 /\ b + i + k = b + (i + k)
  BY <1>0
<1>6. \A k \in 0..i - 1 : k \in 0..k1 - 1
  BY <1>0
<1> HIDE DEF k1
<1>7. /\ DOMAIN g = 0..z - 1 /\ g[(b + k1) % z] = x
      /\ \A k \in 0..k1 - 1 : g[(b + k) % z] = f[(b + k) % z]
  <2>1. b + k1 \in Nat
    BY <1>4
  <2>2. ((b + k1) % m) % z = (b + k1) % z
    BY <1>0, <1>1, <2>1, ModMod, Zenon
  <2>3. g = [f EXCEPT ![(b + k1) % z] = x]
    BY <1>1, <1>4, <2>2, Zenon
  <2>4. (b + k1) % z \in 0..z - 1
    <3>1. (b + k1) % z \in Nat /\ (b + k1) % z < z
      BY <2>1, DivMod
    <3> QED
      BY <3>1
  <2>5. ASSUME NEW k \in 0..k1 - 1 PROVE (b + k) % z # (b + k1) % z /\ (b + k) % z \in 0..z - 1
    <3>1. k1 \in Nat /\ k1 < z
      BY <1>4
    <3> QED
      BY <1>0, <3>1, RingApart, Zenon
  <2> DEFINE P(k) == (b + k) % z
  <2>6. /\ g = [f EXCEPT ![P(k1)] = x] /\ P(k1) \in 0..z - 1
        /\ \A k \in 0..k1 - 1 : P(k) # P(k1) /\ P(k) \in 0..z - 1
    BY <2>3, <2>4, <2>5, Zenon
  <2> HIDE DEF P
  <2>7. DOMAIN g = 0..z - 1 /\ g[P(k1)] = x /\ \A k \in 0..k1 - 1 : g[P(k)] = f[P(k)]
    BY <1>1, <2>6
  <2> QED
    BY <2>7 DEF P
<1>8. (d + 1) % m = (b + i + (j + 1)) % m
  <2>1. (((b + k1) % m) + 1) % m = ((b + k1) + 1) % m
    <3>1. b + k1 \in Nat
      BY <1>4
    <3> QED
      BY <1>0, <3>1, ModAdd, ZenonT(30)
  <2> QED
    BY <1>1, <1>4, <2>1, Zenon
<1>9. \A k \in 0..i - 1 : u[k + 1] = g[(b + k) % z]
  BY <1>1, <1>6, <1>7, Zenon
<1>10. ASSUME NEW k \in 0..j PROVE Append(v, x)[k + 1] = g[(b + i + k) % z]
  <2>1. CASE k = j
    BY <1>3, <1>4, <1>7, <2>1, Zenon
  <2>2. CASE k \in 0..j - 1
    <3>1. v[k + 1] = f[(b + i + k) % z] /\ b + i + k = b + (i + k) /\ i + k \in 0..k1 - 1
      BY <1>1, <1>5, <2>2, Zenon
    <3>2. g[(b + (i + k)) % z] = f[(b + (i + k)) % z]
      BY <1>7, <3>1, Zenon
    <3> QED
      BY <1>3, <2>2, <3>1, <3>2, Zenon
  <2>3. k = j \/ k \in 0..j - 1
    BY <1>0
  <2> QED
    BY <2>1, <2>2, <2>3, Zenon
<1>11. i + (j + 1) <= z /\ j + 1 \in Nat /\ (j + 1) - 1 = j
  BY <1>0, <1>2
<1> QED
  BY <1>0, <1>1, <1>3, <1>7, <1>8, <1>9, <1>10, <1>11, Zenon DEF RingOf, i

\* All the items join the first part.
LEMMA RingJoin ==
  ASSUME NEW z \in Nat \ {0}, NEW m \in Nat, z < m, m % z = 0,
         NEW f, NEW b, NEW c, NEW d, NEW u, NEW v, RingOf(z, m, f, b, c, d, u, v),
         NEW S, u \in Seq(S), v \in Seq(S)
  PROVE  RingOf(z, m, f, b, d, d, u \o v, <<>>)
<1> DEFINE i == Len(u)
           j == Len(v)
<1>0. b \in Nat /\ i \in Nat /\ j \in Nat /\ i + j <= z
  BY DEF RingOf
<1>1. /\ b \in 0..m - 1
      /\ d = (b + i + j) % m /\ DOMAIN f = 0..z - 1
      /\ \A k \in 0..i - 1 : u[k + 1] = f[(b + k) % z]
      /\ \A k \in 0..j - 1 : v[k + 1] = f[(b + i + k) % z]
  BY DEF RingOf
<1>2. /\ Len(u \o v) = i + j /\ Len(<<>>) = 0
      /\ \A k \in 1..i + j : (u \o v)[k] = IF k <= i THEN u[k] ELSE v[k - i]
  OBVIOUS
<1> HIDE DEF i, j
<1>3. ASSUME NEW k \in 0..(i + j) - 1 PROVE (u \o v)[k + 1] = f[(b + k) % z]
  <2>1. CASE k < i
    <3>1. k \in 0..i - 1 /\ k + 1 \in 1..i + j /\ k + 1 <= i
      BY <1>0, <2>1
    <3> QED
      BY <1>1, <1>2, <3>1, Zenon
  <2>2. CASE ~(k < i)
    <3>1. /\ k - i \in 0..j - 1 /\ k + 1 \in 1..i + j /\ ~(k + 1 <= i)
          /\ (k + 1) - i = (k - i) + 1 /\ b + i + (k - i) = b + k
      BY <1>0, <2>2
    <3>2. v[(k - i) + 1] = f[(b + i + (k - i)) % z]
      BY <1>1, <3>1, Zenon
    <3> QED
      BY <1>2, <3>1, <3>2, Zenon
  <2> QED
    BY <2>1, <2>2, Zenon
<1>4. b + (i + j) = b + i + j /\ b + (i + j) + 0 = b + i + j /\ (i + j) + 0 <= z /\ i + j \in Nat /\ 0 \in Nat
  BY <1>0
<1>5. \A k \in 0..0 - 1 : FALSE
  OBVIOUS
<1> QED
  BY <1>0, <1>1, <1>2, <1>3, <1>4, <1>5, Zenon DEF RingOf

\* The last h items are taken back.
LEMMA RingCut ==
  ASSUME NEW z \in Nat \ {0}, NEW m \in Nat, z < m, m % z = 0,
         NEW f, NEW b, NEW c, NEW d, NEW u, NEW v, RingOf(z, m, f, b, c, d, u, v),
         NEW S, v \in Seq(S), NEW h \in 0..Len(v)
  PROVE  RingOf(z, m, f, b, c, (d + m - h) % m, u, SubSeq(v, 1, Len(v) - h))
<1> DEFINE i == Len(u)
           j == Len(v)
           a == b + i + j
<1>0. b \in Nat /\ i \in Nat /\ j \in Nat /\ i + j <= z /\ h \in Nat /\ h <= j /\ m \in Nat \ {0}
  BY DEF RingOf
<1>1. /\ b \in 0..m - 1 /\ DOMAIN f = 0..z - 1 /\ c = (b + i) % m /\ d = (b + i + j) % m
      /\ \A k \in 0..i - 1 : u[k + 1] = f[(b + k) % z]
      /\ \A k \in 0..j - 1 : v[k + 1] = f[(b + i + k) % z]
  BY DEF RingOf
<1>2. /\ Len(SubSeq(v, 1, j - h)) = j - h
      /\ \A k \in 1..j - h : SubSeq(v, 1, j - h)[k] = v[k]
  BY <1>0
<1> HIDE DEF i, j
<1>3. (d + m - h) % m = (b + i + (j - h)) % m
  <2>1. a \in Nat /\ h <= a /\ h <= m /\ a - h = b + i + (j - h)
    BY <1>0
  <2>2. ((a % m) + m - h) % m = (a - h) % m
    <3>1. a \in Nat /\ h \in Nat /\ h <= a /\ h <= m /\ m \in Nat \ {0}
      BY <1>0, <2>1
    <3> HIDE DEF a
    <3> QED
      BY <3>1, ModBack, ZenonT(30)
  <2> QED
    BY <1>1, <2>1, <2>2, Zenon
<1>4. ASSUME NEW k \in 0..(j - h) - 1
      PROVE  SubSeq(v, 1, j - h)[k + 1] = f[(b + i + k) % z]
  <2>1. k + 1 \in 1..j - h /\ k \in 0..j - 1
    BY <1>0
  <2> QED
    BY <1>1, <1>2, <2>1, Zenon
<1>5. j - h \in Nat /\ i + (j - h) <= z
  BY <1>0
<1> QED
  BY <1>0, <1>1, <1>2, <1>3, <1>4, <1>5, Zenon DEF RingOf, i, j

\* The items from the last one backwards.
LEMMA RingLast ==
  ASSUME NEW z \in Nat \ {0}, NEW m \in Nat, z < m, m % z = 0,
         NEW f, NEW b, NEW c, NEW d, NEW u, NEW v, RingOf(z, m, f, b, c, d, u, v),
         NEW S, v \in Seq(S), NEW h \in 1..Len(v)
  PROVE  f[((d + m - h) % m) % z] = v[(Len(v) - h) + 1]
<1> DEFINE k == Len(v) - h
           a == b + Len(u) + k
<1>0. b \in Nat /\ Len(u) \in Nat /\ Len(v) \in Nat
  BY DEF RingOf
<1>1. h \in 0..Len(v) /\ k \in 0..Len(v) - 1 /\ Len(SubSeq(v, 1, k)) = k /\ a \in Nat /\ m \in Nat \ {0}
  BY <1>0
<1>2. v[k + 1] = f[a % z]
  BY <1>1, ZenonT(30) DEF RingOf
<1>3. RingOf(z, m, f, b, c, (d + m - h) % m, u, SubSeq(v, 1, k))
  BY <1>1, RingCut
<1>4. (d + m - h) % m = a % m
  BY <1>1, <1>3, Zenon DEF RingOf
<1>5. (a % m) % z = a % z
  <2> HIDE DEF a
  <2>1. a \in Nat /\ m \in Nat \ {0}
    BY <1>1
  <2> QED
    BY <2>1, ModMod, ZenonT(30)
<1> QED
  BY <1>2, <1>4, <1>5, Zenon

\* The first item is taken.
LEMMA RingGet ==
  ASSUME NEW z \in Nat \ {0}, NEW m \in Nat, z < m, m % z = 0,
         NEW f, NEW b, NEW c, NEW d, NEW u, NEW v, RingOf(z, m, f, b, c, d, u, v),
         NEW S, u \in Seq(S), u # <<>>
  PROVE  RingOf(z, m, f, (b + 1) % m, c, d, Tail(u), v)
<1> DEFINE i == Len(u)
           j == Len(v)
           b1 == (b + 1) % m
<1>0. b \in Nat /\ i \in Nat \ {0} /\ j \in Nat /\ i + j <= z /\ m \in Nat \ {0} /\ z \in Nat \ {0} /\ m % z = 0
  BY DEF RingOf
<1>1. /\ DOMAIN f = 0..z - 1 /\ c = (b + i) % m /\ d = (b + i + j) % m
      /\ \A k \in 0..i - 1 : u[k + 1] = f[(b + k) % z]
      /\ \A k \in 0..j - 1 : v[k + 1] = f[(b + i + k) % z]
  BY DEF RingOf
<1>2. Len(Tail(u)) = i - 1 /\ \A k \in 0..(i - 1) - 1 : Tail(u)[k + 1] = u[(k + 1) + 1]
  OBVIOUS
<1> HIDE DEF i, j
<1>3. /\ i - 1 \in Nat /\ (i - 1) + j \in Nat /\ b + 1 \in Nat
      /\ (b + 1) + (i - 1) = b + i /\ (b + 1) + ((i - 1) + j) = b + i + j
  BY <1>0
<1>4. b1 \in Nat /\ b1 < m /\ b1 \in 0..m - 1
  <2>1. b1 \in Nat /\ b1 < m
    BY <1>0, <1>3, DivMod
  <2> QED
    BY <2>1
<1>5. (b1 + (i - 1)) % m = c /\ (b1 + ((i - 1) + j)) % m = d
  <2>0. i - 1 \in Nat /\ (i - 1) + j \in Nat /\ b + 1 \in Nat
    BY <1>0, <1>3
  <2>1. ASSUME NEW p \in Nat, NEW q \in Nat PROVE ((p % m) + q) % m = (p + q) % m
    <3>1. m \in Nat \ {0}
      BY <1>0
    <3> QED
      BY <3>1, ModAdd, Zenon
  <2>2. (((b + 1) % m) + (i - 1)) % m = ((b + 1) + (i - 1)) % m
    BY <2>0, <2>1, Zenon
  <2>3. (((b + 1) % m) + ((i - 1) + j)) % m = ((b + 1) + ((i - 1) + j)) % m
    <3> DEFINE q == (i - 1) + j
    <3>1. q \in Nat /\ b + 1 \in Nat
      BY <2>0
    <3> HIDE DEF q
    <3>2. (((b + 1) % m) + q) % m = ((b + 1) + q) % m
      BY <2>1, <3>1, Zenon
    <3> QED
      BY <3>2 DEF q
  <2> QED
    BY <1>1, <1>3, <2>2, <2>3, Zenon
<1>6. ASSUME NEW q \in Nat PROVE (b1 + q) % z = ((b + 1) + q) % z
  <2>1. m \in Nat \ {0}
    BY <1>0
  <2>2. \A a, k \in Nat : ((a % m) + k) % z = (a + k) % z
    BY <2>1, RingPlace, Zenon
  <2>3. b + 1 \in Nat
    BY <1>3
  <2> QED
    BY <2>2, <2>3, Zenon
<1> HIDE DEF b1
<1>7. ASSUME NEW k \in 0..(i - 1) - 1 PROVE Tail(u)[k + 1] = f[(b1 + k) % z]
  <2>1. k \in Nat /\ k + 1 \in 0..i - 1 /\ (b + 1) + k = b + (k + 1)
    BY <1>0
  <2>2. (b1 + k) % z = ((b + 1) + k) % z
    BY <1>6, <2>1, Zenon
  <2>3. u[(k + 1) + 1] = f[(b + (k + 1)) % z]
    BY <1>1, <2>1, Zenon
  <2> QED
    BY <1>2, <2>1, <2>2, <2>3, Zenon
<1>8. ASSUME NEW k \in 0..j - 1 PROVE v[k + 1] = f[(b1 + (i - 1) + k) % z]
  <2>1. /\ (i - 1) + k \in Nat /\ (b + 1) + ((i - 1) + k) = b + i + k
        /\ b1 + (i - 1) + k = b1 + ((i - 1) + k)
    BY <1>0, <1>4
  <2>2. (b1 + ((i - 1) + k)) % z = ((b + 1) + ((i - 1) + k)) % z
    BY <1>6, <2>1, Zenon
  <2> QED
    BY <1>1, <2>1, <2>2, Zenon
<1>9. (i - 1) + j <= z /\ b1 + (i - 1) + j = b1 + ((i - 1) + j)
  BY <1>0, <1>4
<1> QED
  BY <1>0, <1>1, <1>2, <1>3, <1>4, <1>5, <1>7, <1>8, <1>9, Zenon DEF RingOf, j, b1

-----------------------------------------------------------------------------
\* The buffer holds what is to be read and, behind it, the line being edited,
\* which has no end yet: ^U takes all of it.
InputInv ==
  /\ RingOf(INPUT_BUF, WORD, buf, r, w, e, unread, line)
  /\ unread \in Seq(Key) /\ line \in Seq(Key \ {"\n", "^D"})

\* The buffer divides the range of its indices.
LEMMA Sizes ==
  INPUT_BUF \in Nat \ {0} /\ WORD \in Nat /\ INPUT_BUF < WORD /\ WORD % INPUT_BUF = 0
BY ConsoleAssumption, Zenon

\* What the indices say of the two sequences.
LEMMA Indices ==
  ASSUME InputInv
  PROVE  /\ Minus(w, r) = Len(unread) /\ Minus(e, w) = Len(line)
         /\ Minus(e, r) = Len(unread) + Len(line) /\ Len(unread) + Len(line) <= INPUT_BUF
         /\ (r = w <=> unread = <<>>) /\ (e = w <=> line = <<>>)
<1>1. RingOf(INPUT_BUF, WORD, buf, r, w, e, unread, line)
  BY Zenon DEF InputInv
<1>2. /\ Minus(w, r) = Len(unread) /\ Minus(e, w) = Len(line)
      /\ Minus(e, r) = Len(unread) + Len(line)
      /\ (r = w <=> Len(unread) = 0) /\ (w = e <=> Len(line) = 0)
  BY <1>1, Sizes, RingCounts DEF Minus
<1>3. (Len(unread) = 0 <=> unread = <<>>) /\ (Len(line) = 0 <=> line = <<>>)
  BY DEF InputInv
<1>4. Len(unread) + Len(line) <= INPUT_BUF
  BY <1>1, Zenon DEF RingOf
<1> QED
  BY <1>2, <1>3, <1>4, Zenon

\* A character is stored, and the line handed over at its end.
LEMMA CharacterHolds ==
  ASSUME InputInv, NEW c \in Key, character(c)
  PROVE  InputInv'
<1>1. CASE UNCHANGED inputVars
  BY <1>1, Zenon DEF inputVars, InputInv
<1>2. CASE ~(Minus(e, r) >= INPUT_BUF)
  <2>1. /\ buf' = [buf EXCEPT ![e % INPUT_BUF] = c] /\ e' = (e + 1) % WORD /\ r' = r
        /\ IF Ends(c) THEN w' = e' /\ unread' = unread \o Append(line, c) /\ line' = <<>>
                      ELSE line' = Append(line, c) /\ UNCHANGED <<w, unread>>
    BY <1>2, Zenon DEF character, Plus1
  <2>2. /\ unread \in Seq(Key) /\ line \in Seq(Key) /\ Append(line, c) \in Seq(Key)
        /\ unread \o Append(line, c) \in Seq(Key)
        /\ ~Ends(c) => Append(line, c) \in Seq(Key \ {"\n", "^D"})
    BY DEF InputInv, Ends
  <2>3. (e + WORD - r) % WORD < INPUT_BUF
    BY <1>2, Indices, Sizes DEF Minus
  <2>4. RingOf(INPUT_BUF, WORD, buf', r, w, e', unread, Append(line, c))
    BY <2>1, <2>2, <2>3, Sizes, RingPut, Zenon DEF InputInv
  <2>5. CASE Ends(c)
    <3>1. RingOf(INPUT_BUF, WORD, buf', r, e', e', unread \o Append(line, c), <<>>)
      <4> DEFINE l == Append(line, c)
      <4>1. l \in Seq(Key) /\ RingOf(INPUT_BUF, WORD, buf', r, w, e', unread, l)
        BY <2>2, <2>4, Zenon
      <4> HIDE DEF l
      <4>2. RingOf(INPUT_BUF, WORD, buf', r, e', e', unread \o l, <<>>)
        BY <2>2, <4>1, Sizes, RingJoin, Zenon
      <4> QED
        BY <4>2, Zenon DEF l
    <3>2. <<>> \in Seq(Key \ {"\n", "^D"})
      OBVIOUS
    <3> QED
      BY <2>1, <2>2, <2>5, <3>1, <3>2, Zenon DEF InputInv
  <2> QED
    BY <2>1, <2>2, <2>4, <2>5, Zenon DEF InputInv
<1> QED
  BY <1>1, <1>2, Zenon DEF character

\* The last h characters are taken back.
LEMMA CutHolds ==
  ASSUME InputInv, NEW h \in 0..Len(line), e' = Minus(e, h), line' = SubSeq(line, 1, Len(line) - h),
         UNCHANGED <<r, w, buf, unread>>
  PROVE  InputInv'
<1>1. RingOf(INPUT_BUF, WORD, buf, r, w, e', unread, line')
  BY Sizes, RingCut, Zenon DEF InputInv, Minus
<1>2. line' \in Seq(Key \ {"\n", "^D"})
  BY DEF InputInv
<1> QED
  BY <1>1, <1>2, Zenon DEF InputInv

\* One character, if there is any.
LEMMA BackspaceHolds ==
  ASSUME InputInv, backspace
  PROVE  InputInv'
<1>1. CASE e = w
  BY <1>1, Zenon DEF backspace, InputInv
<1>2. CASE e # w
  <2>1. 1 \in 0..Len(line)
    BY <1>2, Indices DEF InputInv
  <2> QED
    BY <1>2, <2>1, CutHolds, Zenon DEF backspace
<1> QED
  BY <1>1, <1>2, Zenon

\* ^U takes the whole line.
LEMMA KilledIs ==
  ASSUME InputInv
  PROVE  Killed = Len(line)
<1> DEFINE T == {k \in 0..Minus(e, w) : \A j \in 1..k : buf[Minus(e, j) % INPUT_BUF] # "\n"}
<1>1. line \in Seq(Key \ {"\n", "^D"}) /\ Minus(e, w) = Len(line) /\ Len(line) \in Nat
  BY Indices DEF InputInv
<1>2. ASSUME NEW j \in 1..Len(line) PROVE buf[Minus(e, j) % INPUT_BUF] # "\n"
  <2>1. buf[Minus(e, j) % INPUT_BUF] = line[(Len(line) - j) + 1]
    BY <1>1, Sizes, RingLast DEF InputInv, Minus
  <2>2. (Len(line) - j) + 1 \in 1..Len(line)
    BY <1>1
  <2> QED
    BY <1>1, <2>1, <2>2
<1>3. Len(line) \in T /\ \A k \in T : k \in Nat /\ k <= Len(line)
  BY <1>1, <1>2
<1>4. Killed = CHOOSE k \in T : \A j \in T : j <= k
  BY Zenon DEF Killed
<1> HIDE DEF T
<1>5. Killed \in T /\ \A j \in T : j <= Killed
  BY <1>3, <1>4, Zenon
<1> QED
  BY <1>1, <1>3, <1>5

LEMMA KillHolds ==
  ASSUME InputInv, kill_line
  PROVE  InputInv'
<1>1. Len(line) \in 0..Len(line) /\ SubSeq(line, 1, Len(line) - Len(line)) = <<>>
  BY DEF InputInv
<1> QED
  BY <1>1, KilledIs, CutHolds, Zenon DEF kill_line

\* A reader takes a character, or leaves it.
LEMMA ReadHolds ==
  ASSUME InputInv, NEW p \in Process, read_char(p)
  PROVE  InputInv'
<1>1. /\ UNCHANGED <<w, e, buf, line>> /\ r # w
      /\ \/ UNCHANGED <<r, unread>>
         \/ r' = (r + 1) % WORD /\ unread' = Tail(unread)
  BY Zenon DEF read_char, Plus1
<1>2. CASE UNCHANGED <<r, unread>>
  BY <1>1, <1>2, Zenon DEF InputInv
<1>3. CASE r' = (r + 1) % WORD /\ unread' = Tail(unread)
  <2>1. unread # <<>> /\ Tail(unread) \in Seq(Key)
    BY <1>1, Indices DEF InputInv
  <2>2. RingOf(INPUT_BUF, WORD, buf, r', w, e, unread', line)
    BY <1>3, <2>1, Sizes, RingGet, Zenon DEF InputInv
  <2> QED
    BY <1>1, <1>3, <2>1, <2>2, Zenon DEF InputInv
<1> QED
  BY <1>1, <1>2, <1>3, Zenon

LEMMA InputInit == Init => InputInv
<1> SUFFICES ASSUME Init PROVE InputInv
  BY Zenon
<1>1. r = 0 /\ w = 0 /\ e = 0 /\ buf = [i \in 0..INPUT_BUF - 1 |-> "a"] /\ unread = <<>> /\ line = <<>>
  BY Zenon DEF Init
<1>2. 0 % WORD = 0
  BY Sizes
<1> QED
  BY <1>1, <1>2, Sizes DEF InputInv, RingOf

\* Every step keeps the invariant of the buffer.
LEMMA InputStep == InputInv /\ [Next]_vars => InputInv'
<1> SUFFICES ASSUME InputInv, [Next]_vars PROVE InputInv'
  BY Zenon
<1>1. CASE UNCHANGED inputVars
  BY <1>1, Zenon DEF inputVars, InputInv
<1>2. ASSUME NEW c \in Key, getc(c) PROVE InputInv'
  BY <1>2, CharacterHolds, BackspaceHolds, KillHolds, Zenon DEF getc
<1>3. ASSUME NEW p \in Process, read_char(p) PROVE InputInv'
  BY <1>3, ReadHolds, Zenon
<1>4. \/ UNCHANGED inputVars
      \/ \E c \in Key : getc(c)
      \/ \E p \in Process : read_char(p)
  BY Zenon DEF Next, vars, interrupt, consoleintr, procdump, procdump_end, getc_end, iret, Spins, preempt,
         resume, kill, consoleread, read_test, read_sleep, read_woken, read_end, consolewrite, write_done
<1> QED
  BY <1>1, <1>2, <1>3, <1>4, Zenon

\* What is typed is read in the order in which it was typed, whatever the size
\* of the buffer and however often the indices wrap around.
THEOREM InputInOrderHolds == Spec => []InputInOrder
<1>1. InputInv => InputInOrder
  <2> SUFFICES ASSUME InputInv PROVE InputInOrder
    BY Zenon
  <2>1. line \in Seq(Key) /\ unread \in Seq(Key) /\ RingOf(INPUT_BUF, WORD, buf, r, w, e, unread, line)
    BY DEF InputInv
  <2>2. Between(r, w) = unread /\ Between(w, e) = line
    BY <2>1, Sizes, RingItems DEF Between, Minus
  <2>3. Minus(e, r) <= INPUT_BUF /\ Minus(w, r) <= Minus(e, r)
    BY <2>1, Indices
  <2> QED
    BY <2>2, <2>3, Zenon DEF InputInOrder
<1> QED
  BY <1>1, InputInit, InputStep, PTL DEF Spec

=============================================================================
