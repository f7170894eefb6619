-------------------------------- MODULE Proc --------------------------------
(***************************************************************************)
(* The process table of kernel/proc.c: fork, clone, exit, wait, join,      *)
(* kill, growproc, exec's change of image, sleep and wakeup, the park      *)
(* calls, the scheduler, and the way trap() lets killed processes go.      *)
(*                                                                         *)
(* A step of this module is a stretch of kernel code under ptable.lock, or *)
(* an access to another process's fields that fork() and clone() make      *)
(* without it.  proc[c] is the process on CPU c, kpc[s] the place at which *)
(* process s is in the kernel ("user": not in a system call, "gone": nor   *)
(* able to make one) and np[s] the local of fork() and clone(), or the new *)
(* directory of exec().  Memory is that of Vm.                             *)
(***************************************************************************)
EXTENDS Park, Vm

CONSTANTS
  NPROC,      \* size of the table
  Cpu,
  None,       \* the null pointer
  Ticks,      \* the channel &ticks
  Syscalls,   \* the system calls the programs make, user/init.c aside
  Growth,     \* the arguments of sbrk(), in pages
  JoinFirst,  \* programs join their threads before they exit
  MemFail,    \* kalloc() may fail
  MaxLost,    \* bound: pages that setupkvm() drops
  MaxPid      \* bound: no fork or clone once nextpid is past it

ASSUME ProcAssumption ==
  /\ NPROC \in Nat \ {0} /\ Slot = 0..NPROC-1
  /\ MaxPid \in Nat /\ MaxLost \in Nat /\ Growth \subseteq Int
  /\ JoinFirst \in BOOLEAN /\ MemFail \in BOOLEAN
  /\ None \notin Slot \cup Cpu \cup {Ticks} /\ Ticks \notin Slot

VARIABLES pid, parent, isThread, chan, pgdir, sz, nextpid,
  kstack,     \* the entries that have a kernel stack
  proc,       \* proc[c]: the process on CPU c
  cursor,     \* cursor[c]: the entry c's scheduler() looks at next
  kpc, np,
  fault       \* the panic or wild access that ended the run, or "none"

procFields == <<pid, parent, isThread, chan, pgdir, sz>>
memVars == <<mem, kstack>>
vars == <<parkVars, procFields, nextpid, memVars, proc, cursor, kpc, np, fault>>

initproc == 0
Text == 2     \* pages of a program

\* userinit()
Init ==
  /\ ParkInit
  /\ state = [s \in Slot |-> IF s = initproc THEN "RUNNABLE" ELSE "UNUSED"]
  /\ pid = [s \in Slot |-> IF s = initproc THEN 1 ELSE 0]
  /\ nextpid = 2
  /\ parent = [s \in Slot |-> None]
  /\ chan = parent
  /\ isThread = [s \in Slot |-> 0]
  /\ pgdir = [s \in Slot |-> 0]
  /\ sz = [s \in Slot |-> IF s = initproc THEN 1 ELSE 0]
  /\ mem = inituvm(kalloc(kinit))
  /\ kstack = {initproc}
  /\ proc = [c \in Cpu |-> None]
  /\ cursor = [c \in Cpu |-> 0]
  /\ kpc = [s \in Slot |-> "user"]
  /\ np = [s \in Slot |-> None]
  /\ fault = "none"

-----------------------------------------------------------------------------
\* The process on CPU c is at place l of the kernel.
At(c, l) == fault = "none" /\ proc[c] # None /\ kpc[proc[c]] = l

\* It makes system call f: trap() lets an unkilled process do so.  The program
\* of initproc (user/init.c) forks and waits, nothing else.
Call(c, f) ==
  /\ At(c, "user")
  /\ killed[proc[c]] = 0
  /\ f \in IF proc[c] = initproc THEN {"fork", "wait"} ELSE Syscalls

Goto(s, l) == kpc' = [kpc EXCEPT ![s] = l]

\* A loop over the table that looks for an entry in S finds p.
Finds(S, p) == p \in S /\ \A q \in S : p <= q

(***************************************************************************)
(* allocproc() finds the first unused entry.  It sets state and pid only.  *)
(***************************************************************************)
allocproc(c, l) ==
  LET s == proc[c]
      free == {p \in Slot : state[p] = "UNUSED"}
  IN /\ nextpid <= MaxPid
     /\ \E p \in free : /\ Finds(free, p)
                        /\ state' = [state EXCEPT ![p] = "EMBRYO"]
                        /\ pid' = [pid EXCEPT ![p] = nextpid]
                        /\ np' = [np EXCEPT ![s] = p]
     /\ nextpid' = nextpid + 1
     /\ Goto(s, l)
     /\ UNCHANGED <<parkFlags, killed, parent, isThread, chan, pgdir, sz, memVars,
                    proc, cursor, fault>>

\* The entry goes back as it is, but for its kernel stack.
giveup(c, l) ==
  /\ At(c, l)
  /\ state' = [state EXCEPT ![np[proc[c]]] = "UNUSED"]
  /\ kstack' = kstack \ {np[proc[c]]}
  /\ Goto(proc[c], "user")
  /\ UNCHANGED <<parkFlags, killed, procFields, nextpid, proc, cursor, np, fault>>

\* The last step: np->state = RUNNABLE, without the lock.
launch(c, l) ==
  LET s == proc[c] IN
  /\ At(c, l)
  /\ state' = [state EXCEPT ![np[s]] = "RUNNABLE"]
  /\ kpc' = [kpc EXCEPT ![s] = "user", ![np[s]] = "user"]
  /\ UNCHANGED <<parkFlags, killed, procFields, nextpid, memVars, proc, cursor, np, fault>>

\* What is left of m when setupkvm() fails, after nothing or after k pages.
Unmade(m) ==
  {m} \cup {setupkvm_fail(m, k) : k \in {i \in 1..KPT : i <= m.free /\ i <= MaxLost - m.lost}}

(***************************************************************************)
(* fork()                                                                  *)
(***************************************************************************)
fork(c) == Call(c, "fork") /\ allocproc(c, "fork_copy")

\* kalloc() has failed, for the kernel stack or in copyuvm(); the kernel
\* stack is freed.
fork_fail(c) ==
  /\ MemFail
  /\ giveup(c, "fork_copy")
  /\ LET m == kalloc(mem)
         copied == {a \in 0..sz[proc[c]]-1 : a < m.free - 1 - KPT}
     IN \/ mem' = mem
        \/ mem.free > 0 /\ mem' \in {kfree(x) : x \in Unmade(m)}
        \/ \E d \in DirId : NewDir(d) /\ mem' \in {kfree(copyuvm_fail(m, d, a)) : a \in copied}

fork_copy(c) ==
  LET s == proc[c] IN
  /\ At(c, "fork_copy")
  /\ mem.free >= 2 + KPT + sz[s]
  /\ IF Mapped(pgdir[s], sz[s])
       THEN /\ \E d \in DirId : /\ NewDir(d)
                                 /\ mem' = copyuvm(kalloc(mem), d, sz[s])
                                 /\ pgdir' = [pgdir EXCEPT ![np[s]] = d]
            /\ kstack' = kstack \cup {np[s]}
            /\ UNCHANGED fault
       ELSE fault' = "copyuvm" /\ UNCHANGED <<memVars, pgdir>>
  /\ Goto(s, "fork_set")
  /\ UNCHANGED <<parkVars, pid, parent, isThread, chan, sz, nextpid, proc,
                 cursor, np>>

fork_set(c) ==
  LET s == proc[c] IN
  /\ At(c, "fork_set")
  /\ sz' = [sz EXCEPT ![np[s]] = sz[s]]
  /\ parent' = [parent EXCEPT ![np[s]] = s]
  /\ Goto(s, "fork_flag")
  /\ UNCHANGED <<parkVars, pid, isThread, chan, pgdir, nextpid, memVars, proc,
                 cursor, np, fault>>

\* Until here the entry has the isThread of the process that used it last.
fork_flag(c) ==
  LET s == proc[c] IN
  /\ At(c, "fork_flag")
  /\ isThread' = [isThread EXCEPT ![np[s]] = 0]
  /\ Goto(s, "fork_run")
  /\ UNCHANGED <<parkVars, pid, parent, chan, pgdir, sz, nextpid, memVars, proc,
                 cursor, np, fault>>

fork_run(c) == launch(c, "fork_run")

(***************************************************************************)
(* clone()                                                                 *)
(***************************************************************************)
clone(c) == Call(c, "clone") /\ allocproc(c, "clone_set")

clone_fail(c) == MemFail /\ giveup(c, "clone_set") /\ UNCHANGED mem

clone_set(c) ==
  LET s == proc[c] IN
  /\ At(c, "clone_set")
  /\ mem.free > 0
  /\ mem' = kalloc(mem)
  /\ kstack' = kstack \cup {np[s]}
  /\ isThread' = [isThread EXCEPT ![np[s]] = 1]
  /\ pgdir' = [pgdir EXCEPT ![np[s]] = pgdir[s]]
  /\ sz' = [sz EXCEPT ![np[s]] = sz[s]]
  /\ Goto(s, "clone_parent")
  /\ UNCHANGED <<parkVars, pid, parent, chan, nextpid, proc, cursor, np, fault>>

\* The thread becomes a child of its creator's parent.
clone_parent_Sibling(c) ==
  LET s == proc[c] IN
  /\ At(c, "clone_parent")
  /\ parent' = [parent EXCEPT ![np[s]] = parent[s]]
  /\ Goto(s, "clone_run")
  /\ UNCHANGED <<parkVars, pid, isThread, chan, pgdir, sz, nextpid, memVars,
                 proc, cursor, np, fault>>

clone_parent(c) ==
  LET s == proc[c] IN
  /\ At(c, "clone_parent")
  /\ parent' = [parent EXCEPT ![np[s]] = s]
  /\ Goto(s, "clone_run")
  /\ UNCHANGED <<parkVars, pid, isThread, chan, pgdir, sz, nextpid, memVars,
                 proc, cursor, np, fault>>

clone_run(c) == launch(c, "clone_run")

\* copyout() to a stack that is not mapped: goto bad.
clone_bad(c) == "badclone" \in Syscalls /\ giveup(c, "clone_run") /\ mem' = kfree(mem)

-----------------------------------------------------------------------------
(***************************************************************************)
(* Sleeping, waking and leaving the CPU.  sched() switches to the CPU's    *)
(* scheduler(), which has proc = 0 until it picks a process again.         *)
(***************************************************************************)
sched(c) == proc' = [proc EXCEPT ![c] = None]

\* The effect of wakeup1() on the states st for each channel in ch.
wakeup1(st, ch) ==
  [s \in Slot |-> IF st[s] = "SLEEPING" /\ chan[s] \in ch THEN "RUNNABLE" ELSE st[s]]

\* sleep(on, lk) at place l of the kernel.
sleep(c, on, l) ==
  /\ chan' = [chan EXCEPT ![proc[c]] = on]
  /\ state' = [state EXCEPT ![proc[c]] = "SLEEPING"]
  /\ sched(c)
  /\ Goto(proc[c], l)

(***************************************************************************)
(* exit(): by the program, or by trap() for a killed process or one that   *)
(* has no code.  JoinFirst is a rule the programs may follow, not the      *)
(* kernel's.                                                               *)
(***************************************************************************)
leave(c, kids, woken) ==
  LET s == proc[c] IN
  /\ s # initproc
  /\ \/ At(c, "user") /\ killed[s] = 1 /\ UNCHANGED killed
     \/ At(c, "gone") /\ killed' = [killed EXCEPT ![s] = 1]
     \/ Call(c, "exit") /\ (JoinFirst => \A p \in kids : isThread[p] = 0) /\ UNCHANGED killed
  /\ state' = [wakeup1(state, woken) EXCEPT ![s] = "ZOMBIE"]
  /\ parent' = [p \in Slot |-> IF p \in kids THEN initproc ELSE parent[p]]
  /\ sched(c)
  /\ UNCHANGED <<parkFlags, pid, isThread, chan, pgdir, sz, nextpid,
                 memVars, cursor, kpc, np, fault>>

children(s) == {p \in Slot : parent[p] = s}

exit_KeepsChildren(c) == leave(c, {}, {parent[proc[c]]})

exit_NoWakeup(c) == leave(c, children(proc[c]), {})

exit_NoInitWakeup(c) == leave(c, children(proc[c]), {parent[proc[c]]})

exit(c) ==
  LET kids == children(proc[c])
      orphan == \E p \in kids : state[p] = "ZOMBIE"
  IN leave(c, kids, {parent[proc[c]]} \cup (IF orphan THEN {initproc} ELSE {}))

(***************************************************************************)
(* wait() and join(), from the call or from the sleep inside it.  reap()   *)
(* is what both do to the entry of a child; only wait() frees its memory,  *)
(* m[p] is the memory after that for child p.                              *)
(***************************************************************************)
reap_KeepsStack(p, m) ==
  /\ mem' = m
  /\ kstack' = kstack \ {p}
  /\ state' = [state EXCEPT ![p] = "UNUSED"]
  /\ pid' = [pid EXCEPT ![p] = 0]
  /\ parent' = [parent EXCEPT ![p] = None]
  /\ killed' = [killed EXCEPT ![p] = 0]

reap(p, m) ==
  /\ mem' = kfree(m)
  /\ kstack' = kstack \ {p}
  /\ state' = [state EXCEPT ![p] = "UNUSED"]
  /\ pid' = [pid EXCEPT ![p] = 0]
  /\ parent' = [parent EXCEPT ![p] = None]
  /\ killed' = [killed EXCEPT ![p] = 0]

scan_IgnoresKill(c, l, zombies, kids, m) ==
  LET s == proc[c] IN
  /\ \/ /\ \E p \in zombies : Finds(zombies, p) /\ reap(p, m[p])
        /\ Goto(s, "user")
        /\ chan' = [chan EXCEPT ![s] = None]
        /\ UNCHANGED proc
     \/ /\ zombies = {} /\ kids = {}
        /\ Goto(s, "user")
        /\ chan' = [chan EXCEPT ![s] = None]
        /\ UNCHANGED <<state, pid, parent, killed, memVars, proc>>
     \/ /\ zombies = {} /\ kids # {}
        /\ sleep(c, s, l)
        /\ UNCHANGED <<pid, parent, killed, memVars>>
  /\ UNCHANGED <<parkFlags, isThread, pgdir, sz, nextpid, cursor, np, fault>>

scan(c, l, zombies, kids, m) ==
  LET s == proc[c] IN
  /\ \/ /\ \E p \in zombies : Finds(zombies, p) /\ reap(p, m[p])
        /\ Goto(s, "user")
        /\ chan' = [chan EXCEPT ![s] = None]
        /\ UNCHANGED proc
     \/ /\ zombies = {} /\ (kids = {} \/ killed[s] = 1)
        /\ Goto(s, "user")
        /\ chan' = [chan EXCEPT ![s] = None]
        /\ UNCHANGED <<state, pid, parent, killed, memVars, proc>>
     \/ /\ zombies = {} /\ kids # {} /\ killed[s] = 0
        /\ sleep(c, s, l)
        /\ UNCHANGED <<pid, parent, killed, memVars>>
  /\ UNCHANGED <<parkFlags, isThread, pgdir, sz, nextpid, cursor, np, fault>>

wait_LeavesMemory(c) ==
  LET kids == children(proc[c])
      zombies == {p \in kids : state[p] = "ZOMBIE" /\ isThread[p] = 0}
  IN /\ Call(c, "wait") \/ At(c, "wait")
     /\ scan(c, "wait", zombies, kids, [p \in zombies |-> mem])

wait(c) ==
  LET kids == children(proc[c])
      zombies == {p \in kids : state[p] = "ZOMBIE" /\ isThread[p] = 0}
  IN /\ Call(c, "wait") \/ At(c, "wait")
     /\ scan(c, "wait", zombies, kids, [p \in zombies |-> freevm(mem, pgdir[p])])

join(c) ==
  LET kids == {p \in children(proc[c]) : isThread[p] = 1}
      zombies == {p \in kids : state[p] = "ZOMBIE"}
  IN /\ Call(c, "join") \/ At(c, "join")
     /\ scan(c, "join", zombies, kids, [p \in zombies |-> mem])

(***************************************************************************)
(* sys_sleep() and the timer interrupt.  How many ticks are left is        *)
(* abstracted: at each test the loop may go on or end.                     *)
(***************************************************************************)
sys_sleep(c) ==
  /\ Call(c, "sleep")
  /\ Goto(proc[c], "sleep")
  /\ UNCHANGED <<parkVars, procFields, nextpid, memVars, proc, cursor, np, fault>>

\* The test of proc->killed comes before sleep() takes ptable.lock.
sleep_test(c) ==
  /\ At(c, "sleep")
  /\ killed[proc[c]] = 0
  /\ Goto(proc[c], "sleep_in")
  /\ chan' = [chan EXCEPT ![proc[c]] = None]
  /\ UNCHANGED <<parkVars, pid, parent, isThread, pgdir, sz, nextpid, memVars,
                 proc, cursor, np, fault>>

sleep_in(c) ==
  /\ At(c, "sleep_in")
  /\ sleep(c, Ticks, "sleep")
  /\ UNCHANGED <<parkFlags, killed, pid, parent, isThread, pgdir, sz, nextpid,
                 memVars, cursor, np, fault>>

sleep_end(c) ==
  /\ At(c, "sleep")
  /\ Goto(proc[c], "user")
  /\ chan' = [chan EXCEPT ![proc[c]] = None]
  /\ UNCHANGED <<parkVars, pid, parent, isThread, pgdir, sz, nextpid, memVars,
                 proc, cursor, np, fault>>

tick ==
  /\ fault = "none"
  /\ state' = wakeup1(state, {Ticks})
  /\ UNCHANGED <<parkFlags, killed, procFields, nextpid, memVars, proc, cursor,
                 kpc, np, fault>>

(***************************************************************************)
(* kill() and the park calls, by pid.  The programs do not kill initproc.  *)
(* unpark() of a pid no entry has goes on with the entry past the table.   *)
(***************************************************************************)
lookup(k) == {p \in Slot : pid[p] = k}

sys_kill(c, k) ==
  /\ Call(c, "kill")
  /\ k # pid[initproc]
  /\ \E p \in lookup(k) : Finds(lookup(k), p) /\ kill(p)
  /\ UNCHANGED <<procFields, nextpid, memVars, proc, cursor, kpc, np, fault>>

sys_setpark(c) ==
  /\ Call(c, "park")
  /\ setpark(proc[c])
  /\ UNCHANGED <<procFields, nextpid, memVars, proc, cursor, kpc, np, fault>>

sys_park(c) ==
  /\ Call(c, "park")
  /\ Goto(proc[c], "park_in")
  /\ UNCHANGED <<parkVars, procFields, nextpid, memVars, proc, cursor, np, fault>>

park_in(c) ==
  /\ At(c, "park_in")
  /\ park(proc[c])
  /\ IF state'[proc[c]] = "SLEEPING" THEN sched(c) ELSE UNCHANGED proc
  /\ Goto(proc[c], "user")
  /\ UNCHANGED <<procFields, nextpid, memVars, cursor, np, fault>>

sys_unpark(c, k) ==
  /\ Call(c, "park")
  /\ \/ /\ \E p \in lookup(k) : Finds(lookup(k), p) /\ unpark(p)
        /\ UNCHANGED fault
     \/ /\ lookup(k) = {} /\ "badunpark" \in Syscalls
        /\ fault' = "unpark"
        /\ UNCHANGED parkVars
  /\ UNCHANGED <<procFields, nextpid, memVars, proc, cursor, kpc, np>>

(***************************************************************************)
(* sbrk(n).  allocuvm() panics on a page that is mapped already.  A new    *)
(* size below 0 wraps to a large one, at which deallocuvm() does nothing.  *)
(* Size 0 is an error, but found after all pages are freed: sz stays, and  *)
(* kfree() has overwritten the program, which ends in a trap.              *)
(***************************************************************************)
Resized(s) ==
  {p \in Slot : \/ p = s
                \/ parent[p] = s /\ isThread[p] = 1
                \/ isThread[s] = 1 /\ p = parent[s]
                \/ parent[p] = parent[s] /\ isThread[p] = 1}

growproc(c, n) ==
  LET s == proc[c]
      d == pgdir[s]
      new == sz[s] + n
  IN
  /\ Call(c, "sbrk")
  /\ IF new <= USERTOP /\ remap(d, sz[s], new)
       THEN fault' = "remap" /\ UNCHANGED <<mem, sz>>
       ELSE \E r \in IF n > 0 THEN allocuvm_ret(mem, d, sz[s], new)
                     ELSE IF new < 0 THEN {[sz |-> sz[s], mem |-> mem]}
                     ELSE {[sz |-> new, mem |-> deallocuvm(mem, d, sz[s], new)]} :
              /\ mem' = r.mem
              /\ sz' = [p \in Slot |-> IF r.sz # 0 /\ p \in Resized(s) THEN r.sz ELSE sz[p]]
              /\ UNCHANGED fault
  /\ IF new = 0 THEN Goto(s, "gone") ELSE UNCHANGED kpc
  /\ UNCHANGED <<parkVars, pid, parent, isThread, chan, pgdir, nextpid, kstack,
                 proc, cursor, np>>

(***************************************************************************)
(* exec() builds a new image with its text and a page of stack, reading    *)
(* the file, and commits to it and frees the old one; or it gives up and   *)
(* frees what it has.                                                      *)
(***************************************************************************)
exec(c) ==
  LET s == proc[c] IN
  /\ Call(c, "exec")
  /\ mem.free >= 1 + KPT + Text
  /\ \E d \in DirId : /\ NewDir(d)
                      /\ mem' = allocuvm(setupkvm(mem, d), d, 0, Text)
                      /\ np' = [np EXCEPT ![s] = d]
  /\ Goto(s, "exec_commit")
  /\ UNCHANGED <<parkVars, procFields, nextpid, kstack, proc, cursor, fault>>

exec_fail(c) ==
  /\ Call(c, "exec") /\ MemFail
  /\ mem' \in Unmade(mem)
  /\ UNCHANGED <<parkVars, procFields, nextpid, kstack, proc, cursor, kpc, np, fault>>

exec_commit(c) ==
  LET s == proc[c] IN
  /\ At(c, "exec_commit")
  /\ mem.free >= 1
  /\ mem' = freevm(allocuvm(mem, np[s], Text, Text + 1), pgdir[s])
  /\ pgdir' = [pgdir EXCEPT ![s] = np[s]]
  /\ sz' = [sz EXCEPT ![s] = Text + 1]
  /\ Goto(s, "user")
  /\ UNCHANGED <<parkVars, pid, parent, isThread, chan, nextpid, kstack, proc,
                 cursor, np, fault>>

\* goto bad
exec_bad(c) ==
  /\ At(c, "exec_commit")
  /\ mem' = freevm(mem, np[proc[c]])
  /\ Goto(proc[c], "user")
  /\ UNCHANGED <<parkVars, procFields, nextpid, kstack, proc, cursor, np, fault>>

-----------------------------------------------------------------------------
(***************************************************************************)
(* scheduler() of CPU c walks the table, from its first entry again after  *)
(* the last, and runs the processes it finds RUNNABLE; yield() is called   *)
(* at a timer interrupt.                                                   *)
(***************************************************************************)
ahead(c) == {s \in Slot : s >= cursor[c] /\ state[s] = "RUNNABLE"}

scheduler_FromStart(c) ==
  LET ready == {s \in Slot : state[s] = "RUNNABLE"} IN
  /\ fault = "none" /\ proc[c] = None
  /\ \E s \in ready : /\ Finds(ready, s)
                      /\ proc' = [proc EXCEPT ![c] = s]
                      /\ state' = [state EXCEPT ![s] = "RUNNING"]
  /\ UNCHANGED <<parkFlags, killed, procFields, nextpid, memVars, cursor, kpc, np, fault>>

scheduler(c) ==
  /\ fault = "none" /\ proc[c] = None
  /\ \E s \in ahead(c) : /\ Finds(ahead(c), s)
                         /\ proc' = [proc EXCEPT ![c] = s]
                         /\ cursor' = [cursor EXCEPT ![c] = s + 1]
                         /\ state' = [state EXCEPT ![s] = "RUNNING"]
  /\ UNCHANGED <<parkFlags, killed, procFields, nextpid, memVars, kpc, np, fault>>

scheduler_again(c) ==
  /\ fault = "none" /\ proc[c] = None
  /\ ahead(c) = {} /\ cursor[c] # 0
  /\ cursor' = [cursor EXCEPT ![c] = 0]
  /\ UNCHANGED <<parkVars, procFields, nextpid, memVars, proc, kpc, np, fault>>

yield(c) ==
  /\ fault = "none" /\ proc[c] # None
  /\ state' = [state EXCEPT ![proc[c]] = "RUNNABLE"]
  /\ sched(c)
  /\ UNCHANGED <<parkFlags, killed, procFields, nextpid, memVars, cursor, kpc, np, fault>>

\* What the process on c does next in the kernel.
KernelStep(c) ==
  \/ fork_fail(c) \/ fork_copy(c) \/ fork_set(c) \/ fork_flag(c) \/ fork_run(c)
  \/ clone_fail(c) \/ clone_set(c) \/ clone_parent(c) \/ clone_run(c) \/ clone_bad(c)
  \/ exec_commit(c) \/ exec_bad(c) \/ exit(c) \/ wait(c) \/ join(c)
  \/ sleep_test(c) \/ sleep_in(c) \/ sleep_end(c) \/ park_in(c)

\* The system calls a program is free to make.
UserStep(c) ==
  \/ fork(c) \/ clone(c) \/ sys_sleep(c) \/ sys_setpark(c) \/ sys_park(c)
  \/ exec(c) \/ exec_fail(c)
  \/ \E k \in 0..MaxPid : sys_kill(c, k) \/ sys_unpark(c, k)
  \/ \E n \in Growth : growproc(c, n)

Next ==
  \/ tick
  \/ \E c \in Cpu : \/ KernelStep(c) \/ UserStep(c)
                    \/ scheduler(c) \/ scheduler_again(c) \/ yield(c)

Spec == Init /\ [][Next]_vars

(***************************************************************************)
(* The timer interrupts every process, so yield() and the scheduler go on  *)
(* on every CPU.  A time slice is long enough for a process in the kernel  *)
(* to get on, for a killed one to reach exit(), and for initproc to call   *)
(* wait() as its loop does.  Programs need not exit nor make any call.     *)
(***************************************************************************)
Obliged(s) == kpc[s] # "user" \/ killed[s] = 1 \/ s = initproc

StepOf(s) == \E c \in Cpu : proc[c] = s /\ Obliged(s) /\ KernelStep(c)

Fairness ==
  /\ WF_vars(tick)
  /\ \A c \in Cpu : WF_vars(scheduler(c) \/ scheduler_again(c)) /\ WF_vars(yield(c))
  /\ \A s \in Slot : SF_vars(StepOf(s))

FairSpec == Spec /\ Fairness

-----------------------------------------------------------------------------
Live(s) == state[s] \notin {"UNUSED", "EMBRYO"}

\* A process runs on at most one CPU, and the RUNNING ones are those on a CPU,
\* whatever kill(), wakeup() and unpark() do to them meanwhile.
OnOneCpu ==
  /\ \A c \in Cpu : proc[c] # None => state[proc[c]] = "RUNNING"
  /\ \A s \in Slot : state[s] = "RUNNING" => \E c \in Cpu : proc[c] = s
  /\ \A c, d \in Cpu : proc[c] = proc[d] /\ proc[c] # None => c = d

\* exit() leaves no child behind: the parent of every process but init is a
\* process that has not exited.
ParentAlive ==
  \A s \in Slot \ {initproc} : Live(s) =>
    parent[s] # None /\ Live(parent[s]) /\ state[parent[s]] # "ZOMBIE"

\* exit() against wait() and join(): no process sleeps in one of them while a
\* child that it would reap is a zombie, reparented ones included.
NoMissedExit ==
  \A s, p \in Slot :
    state[s] = "SLEEPING" /\ parent[p] = s /\ state[p] = "ZOMBIE" =>
      ~(kpc[s] = "wait" /\ isThread[p] = 0) /\ ~(kpc[s] = "join" /\ isThread[p] = 1)

\* Without threads, each process has a page directory of its own with exactly
\* the pages below its sz, no directory outlives its process, and none of
\* fork(), exec(), sbrk() and wait() panics over a page.  The exception is a
\* process that has called sbrk(-sz): it has no page, whatever its sz says, and
\* does nothing but exit.
MemoryOwned ==
  /\ \A s \in Slot : Live(s) =>
       /\ pgdir[s] \in Dirs
       /\ mem.dir[pgdir[s]] = IF kpc[s] = "gone" THEN {} ELSE 0..sz[s]-1
  /\ \A s, t \in Slot : Live(s) /\ Live(t) /\ pgdir[s] = pgdir[t] => s = t
  /\ \A d \in Dirs : \E s \in Slot :
       \/ state[s] # "UNUSED" /\ pgdir[s] = d
       \/ kpc[s] = "exec_commit" /\ np[s] = d
  /\ fault = "none"

\* No page of memory is lost or freed twice: it is on the free list, or a
\* directory or a process has it, or it is one of those that setupkvm() drops.
\* A process has its kernel stack for as long as it is in the table.
PagesConserved ==
  /\ mem.free >= 0
  /\ mem.free + mem.lost + Cardinality(kstack) + MapThenSumSet(Held, Dirs) = NPAGES
  /\ \A s \in Slot : /\ Live(s) => s \in kstack
                     /\ state[s] = "UNUSED" => s \notin kstack

\* A thread runs in the memory of the process that made it, for as long as it
\* runs, if processes join their threads before they exit.
ThreadsHaveMemory ==
  \A s \in Slot : Live(s) /\ isThread[s] = 1 /\ state[s] # "ZOMBIE" =>
    pgdir[s] = pgdir[parent[s]] /\ Mapped(pgdir[s], 1)

\* The liveness properties end at a panic: fork() by a thread whose process has
\* been reaped meets the memory that wait() has freed.
Panic == fault # "none"

\* A RUNNABLE process gets a CPU, whatever the others do.
NoStarvation ==
  \A s \in Slot : state[s] = "RUNNABLE" ~> state[s] # "RUNNABLE" \/ Panic

\* Process s is on its way into park(), or asleep there.
Parking(s) == kpc[s] = "park_in" \/ (kpc[s] = "user" /\ state[s] = "SLEEPING")

\* A killed process exits: kill() takes it out of wait(), join(), sys_sleep() and
\* park(), "Wake process from sleep if necessary", and each of the first three
\* calls lets it go.  A process killed between its call of park() and the sleep
\* there is the exception: park() does not look at killed.
KilledExits ==
  /\ [][\A s \in Slot : killed[s] # killed'[s] => state'[s] # "SLEEPING"]_vars
  /\ \A s \in Slot :
       killed[s] = 1 /\ Live(s) /\ ~Parking(s) ~> state[s] \in {"ZOMBIE", "UNUSED"} \/ Panic

\* initproc reaps the orphans it is given by exit(): "An exited process remains
\* in the zombie state until its parent calls wait()".  Orphaned threads it does
\* not: wait() passes over them, and init has no join().
OrphansReaped ==
  \A s \in Slot :
    state[s] = "ZOMBIE" /\ parent[s] = initproc /\ isThread[s] = 0 ~> state[s] = "UNUSED" \/ Panic

=============================================================================
