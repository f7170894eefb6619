--------------------------------- MODULE Vm ---------------------------------
(***************************************************************************)
(* Physical pages (kernel/kalloc.c) and the page directories that hold     *)
(* them (kernel/vm.c).  mem.free is the length of the free list and        *)
(* mem.dir[d] the set of user pages mapped in directory d, for the         *)
(* directories there are.  Besides its user pages a directory holds its    *)
(* own page and KPT page tables, which setupkvm() makes: the kernel's      *)
(* mappings begin in the 4 Mbyte that user memory is in, so that no user   *)
(* page needs a page table of its own.                                     *)
(*                                                                         *)
(* An operator returns the memory after the call.  kalloc() can fail in    *)
(* between, as other processes and the pipes take pages too.               *)
(***************************************************************************)
EXTENDS Integers, FiniteSets, FiniteSetsExt

CONSTANTS
  NPAGES,     \* physical pages
  KPT,        \* page tables of the kernel's mappings
  USERTOP     \* in pages

ASSUME VmAssumption ==
  NPAGES \in Nat /\ KPT \in Nat \ {0} /\ USERTOP \in Nat \ {0}

VARIABLE
  mem         \* [free, dir, lost]: lost counts the pages setupkvm() drops

DirId == 0..NPAGES-1
Dirs == DOMAIN mem.dir

\* d is the name that a new directory gets.
NewDir(d) == d \notin Dirs /\ \A e \in DirId : e \notin Dirs => d <= e

kinit == [free |-> NPAGES, dir |-> <<>>, lost |-> 0]

kalloc(m) == [m EXCEPT !.free = @ - 1]
kfree(m) == [m EXCEPT !.free = @ + 1]

\* walkpgdir() finds the page table, and the entry in it is present.
Present(d, a) == d \in Dirs /\ a \in mem.dir[d]

\* copyuvm() panics on a page that is not there, mappages() on one that is.
Mapped(d, n) == \A a \in 0..n-1 : Present(d, a)
remap(d, oldsz, newsz) == \E a \in oldsz..newsz-1 : Present(d, a)

\* A directory d with the mappings of the kernel.
setupkvm(m, d) ==
  [m EXCEPT !.free = @ - 1 - KPT, !.dir = [e \in DOMAIN @ \cup {d} |-> IF e = d THEN {} ELSE @[e]]]

\* kalloc() fails at one of the page tables, and the k pages that the
\* directory had by then are not given back.
setupkvm_fail(m, k) == [m EXCEPT !.free = @ - k, !.lost = @ + k]

deallocuvm(m, d, oldsz, newsz) ==
  LET gone == m.dir[d] \cap newsz..oldsz-1 IN
  [m EXCEPT !.free = @ + Cardinality(gone), !.dir[d] = @ \ gone]

allocuvm(m, d, oldsz, newsz) ==
  [m EXCEPT !.free = @ - (newsz - oldsz), !.dir[d] = @ \cup oldsz..newsz-1]

\* kalloc() fails for page a; what was allocated before it is freed.
allocuvm_fail(m, d, oldsz, newsz, a) ==
  deallocuvm(allocuvm(m, d, oldsz, a), d, newsz, oldsz)

\* What allocuvm() may return, 0 for an error.
allocuvm_ret(m, d, oldsz, newsz) ==
  IF newsz > USERTOP THEN {[sz |-> 0, mem |-> m]}
  ELSE {r \in {[sz |-> newsz, mem |-> allocuvm(m, d, oldsz, newsz)]} \cup
              {[sz |-> 0, mem |-> allocuvm_fail(m, d, oldsz, newsz, a)] : a \in oldsz..newsz-1} :
          r.mem.free >= 0}

freevm_KeepsTables(m, d) ==
  LET m1 == deallocuvm(m, d, USERTOP, 0) IN
  [m1 EXCEPT !.free = @ + 1, !.dir = [e \in DOMAIN @ \ {d} |-> @[e]]]

freevm(m, d) ==
  LET m1 == deallocuvm(m, d, USERTOP, 0) IN
  [m1 EXCEPT !.free = @ + KPT + 1, !.dir = [e \in DOMAIN @ \ {d} |-> @[e]]]

\* A new directory d with a copy of the first n pages.
copyuvm(m, d, n) == allocuvm(setupkvm(m, d), d, 0, n)

\* kalloc() fails for page a.
copyuvm_fail(m, d, a) == freevm(copyuvm(m, d, a), d)

\* The first process has a page directory with one page.
inituvm(m) == allocuvm(setupkvm(m, 0), 0, 0, 1)

\* Pages that directory d holds.
Held(d) == 1 + KPT + Cardinality(mem.dir[d])

=============================================================================
