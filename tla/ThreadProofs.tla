---------------------------- MODULE ThreadProofs ----------------------------
(***************************************************************************)
(* Memory with threads.  A thread is told by its parent whose memory it    *)
(* has, but its parent may be a thread too, and the memory goes when the   *)
(* process at the end of that chain has exited and is reaped.  So the      *)
(* invariant also says that a process that has not exited has the memory   *)
(* of each thread, that processes do not share theirs, and that the        *)
(* parents of threads form no cycle: then a process with threads has one   *)
(* for a child, and cannot have joined it.                                 *)
(***************************************************************************)
EXTENDS ProcProofs

\* Programs join their threads, are not killed, do not call exec(), and do not
\* give memory back: umalloc.c never does, and sbrk(-sz) by one thread takes the
\* memory from under the others.
Joined ==
  JoinFirst /\ "kill" \notin Syscalls /\ "exec" \notin Syscalls /\ Growth \subseteq Nat

\* Those that own their memory and those that share it.
Root(s) == Live(s) /\ isThread[s] = 0
LiveRoot(s) == Root(s) /\ state[s] # "ZOMBIE"
Thread(s) == Live(s) /\ isThread[s] = 1 /\ state[s] # "ZOMBIE"

\* Process s has a directory for the process that it makes.
Forking(s) == fault = "none" /\ kpc[s] \in {"fork_set", "fork_flag", "fork_run"}

\* The places of fork() and clone() after the first step that fills in the entry.
Late == {"fork_set", "fork_flag", "fork_run", "clone_parent", "clone_run"}

\* The types of what the other conjuncts speak of; a process has a first page.
ThrTypes ==
  /\ DOMAIN pgdir = Slot /\ sz \in [Slot -> Nat]
  /\ "dir" \in DOMAIN mem /\ mem.dir = [d \in Dirs |-> mem.dir[d]]
  /\ isThread \in [Slot -> {0, 1}] /\ isThread[initproc] = 0
  /\ killed = [s \in Slot |-> 0]
  /\ \A s \in Slot : kpc[s] \notin {"exec_commit", "gone"} /\ (Live(s) => sz[s] > 0)

\* The entry that fork() or clone() fills in.
EntryInv ==
  \A s \in Slot :
    /\ kpc[s] \in {"clone_parent", "clone_run"} => isThread[np[s]] = 1 /\ pgdir[np[s]] = pgdir[s]
    /\ kpc[s] \in Late \ {"fork_set"} => sz[np[s]] > 0
    /\ kpc[s] = "fork_run" => isThread[np[s]] = 0

\* No two processes have the same directory, and each has its first page.
RootInv ==
  /\ \A s \in Slot : Root(s) => pgdir[s] \in Dirs /\ 0 \in mem.dir[pgdir[s]]
  /\ \A s \in Slot : Forking(s) => pgdir[np[s]] \in Dirs /\ 0 \in mem.dir[pgdir[np[s]]]
  /\ \A s, t \in Slot : Root(s) /\ Root(t) /\ pgdir[s] = pgdir[t] => s = t
  /\ \A s, t \in Slot : Forking(s) /\ Forking(t) /\ pgdir[np[s]] = pgdir[np[t]] => s = t
  /\ \A s, t \in Slot : Forking(s) /\ Root(t) => pgdir[np[s]] # pgdir[t]

\* A thread has the directory of its parent, and of a process that has not exited.
ThreadInv ==
  \A s \in Slot : Thread(s) =>
    /\ pgdir[s] = pgdir[parent[s]]
    /\ \E r \in Slot : LiveRoot(r) /\ pgdir[r] = pgdir[s]

\* No threads are each other's parents: of any there are, one has its parent
\* among the others.
TreeInv ==
  \A T \in SUBSET Slot : (\A t \in T : Thread(t)) /\ T # {} => \E t \in T : parent[t] \notin T

ThrInv == Joined /\ ThrTypes /\ EntryInv /\ RootInv /\ ThreadInv /\ TreeInv

\* The directories of G go, which no process has, and no process comes or exits.
LEMMA ThrFrame ==
  ASSUME ThrInv, NEW G,
         \A t \in Slot : Root(t)' => Root(t) /\ pgdir'[t] = pgdir[t] /\ pgdir[t] \notin G,
         \A t \in Slot : Forking(t)' =>
           Forking(t) /\ pgdir'[np'[t]] = pgdir[np[t]] /\ pgdir[np[t]] \notin G,
         \A d \in Dirs \ G : d \in Dirs' /\ (0 \in mem.dir[d] => 0 \in mem'.dir[d]),
         \A t \in Slot : Thread(t)' =>
           /\ Thread(t) /\ parent'[t] = parent[t]
           /\ pgdir'[t] = pgdir[t] /\ pgdir'[parent[t]] = pgdir[parent[t]],
         \A t, r \in Slot : Thread(t)' /\ LiveRoot(r) /\ pgdir[r] = pgdir[t] =>
           LiveRoot(r)' /\ pgdir'[r] = pgdir[r]
  PROVE  RootInv' /\ ThreadInv' /\ TreeInv'
<1>1. RootInv'
  BY DEF ThrInv, RootInv
<1>2. ThreadInv'
  BY DEF ThrInv, ThreadInv
<1>3. TreeInv'
  BY DEF ThrInv, TreeInv
<1> QED
  BY <1>1, <1>2, <1>3

\* The same when no directory goes.
LEMMA ThrKept ==
  ASSUME ThrInv,
         \A t \in Slot : Root(t)' => Root(t) /\ pgdir'[t] = pgdir[t],
         \A t \in Slot : Forking(t)' => Forking(t) /\ pgdir'[np'[t]] = pgdir[np[t]],
         \A d \in Dirs : d \in Dirs' /\ (0 \in mem.dir[d] => 0 \in mem'.dir[d]),
         \A t \in Slot : Thread(t)' =>
           /\ Thread(t) /\ parent'[t] = parent[t]
           /\ pgdir'[t] = pgdir[t] /\ pgdir'[parent[t]] = pgdir[parent[t]],
         \A t, r \in Slot : Thread(t)' /\ LiveRoot(r) /\ pgdir[r] = pgdir[t] =>
           LiveRoot(r)' /\ pgdir'[r] = pgdir[r]
  PROVE  RootInv' /\ ThreadInv' /\ TreeInv'
<1>1. PICK G : G = {}
  BY Zenon
<1> QED
  BY <1>1, ThrFrame

\* The first page is mapped.
LEMMA MappedFirst ==
  ASSUME NEW d \in Dirs, 0 \in mem.dir[d]
  PROVE  Mapped(d, 1)
BY DEF Mapped, Present

\* Nothing changes but where processes are in the kernel, and which of them run.
LEMMA ThrQuiet ==
  ASSUME ThrInv, UNCHANGED <<pgdir, sz, isThread, parent, killed>>,
         "dir" \in DOMAIN mem', mem'.dir = mem.dir, fault' = "none" => fault = "none",
         \A t \in Slot : Live(t)' = Live(t) /\ (state'[t] = "ZOMBIE") = (state[t] = "ZOMBIE"),
         \A t \in Slot : \/ kpc'[t] = kpc[t] /\ np'[t] = np[t]
                         \/ kpc'[t] \notin Late /\ kpc'[t] \notin {"exec_commit", "gone"}
  PROVE  ThrInv'
<1>1. \A t \in Slot : /\ Root(t)' = Root(t) /\ LiveRoot(t)' = LiveRoot(t) /\ Thread(t)' = Thread(t)
                      /\ Forking(t)' => Forking(t) /\ np'[t] = np[t]
  BY DEF Root, LiveRoot, Thread, Forking, Late
<1>2. RootInv' /\ ThreadInv' /\ TreeInv'
  BY <1>1, ThrKept DEF Dirs
<1>3. ThrTypes'
  BY DEF ThrInv, ThrTypes, Dirs
<1>4. EntryInv'
  BY DEF ThrInv, EntryInv, Late
<1> QED
  BY <1>2, <1>3, <1>4, Zenon DEF ThrInv

\* Nobody calls kill() or exec().
LEMMA NoKill ==
  ASSUME ProcInv, ThrInv, NEW c \in Cpu
  PROVE  /\ ~exec(c) /\ ~exec_fail(c) /\ ~exec_commit(c) /\ ~exec_bad(c)
         /\ \A k \in 0..MaxPid : ~sys_kill(c, k)
<1>1. proc[c] # None => proc[c] \in Slot
  BY Running, Zenon
<1>2. ~exec_commit(c) /\ ~exec_bad(c)
  BY <1>1, Zenon DEF exec_commit, exec_bad, At, ThrInv, ThrTypes
<1>3. ~Call(c, "kill") /\ ~Call(c, "exec")
  BY DEF Call, ThrInv, Joined
<1> QED
  BY <1>2, <1>3, Zenon DEF exec, exec_fail, sys_kill

\* What sets no process up and takes none away, but for sbrk().
LEMMA ThrWakes ==
  ASSUME ProcInv, ThrInv,
         \/ tick \/ UNCHANGED vars
         \/ \E c \in Cpu : \/ sys_setpark(c) \/ scheduler_again(c)
                           \/ \E k \in 0..MaxPid : sys_unpark(c, k)
  PROVE  ThrInv'
<1>1. \A s \in Slot : state'[s] = state[s] \/ (state[s] = "SLEEPING" /\ state'[s] = "RUNNABLE")
  BY WakesOnly, Zenon
<1>2. UNCHANGED <<pgdir, sz, isThread, parent, kpc, np, mem>> /\ (fault' = "none" => fault = "none")
  BY ZenonT(30) DEF tick, vars, sys_setpark, scheduler_again, sys_unpark, procFields,
     memVars, Call, At
<1>3. UNCHANGED killed
  <2>1. ASSUME NEW c \in Cpu, NEW k \in 0..MaxPid, sys_unpark(c, k) PROVE UNCHANGED killed
    BY <2>1, Zenon DEF sys_unpark, unpark, unpark1, parkVars
  <2> QED
    BY <2>1, Zenon DEF tick, vars, parkVars, sys_setpark, setpark, scheduler_again
<1>4. \A t \in Slot : Live(t)' = Live(t) /\ (state'[t] = "ZOMBIE") = (state[t] = "ZOMBIE")
  BY <1>1 DEF Live
<1>5. "dir" \in DOMAIN mem' /\ mem'.dir = mem.dir
  BY <1>2, Zenon DEF ThrInv, ThrTypes
<1> QED
  BY <1>2, <1>3, <1>4, <1>5, ThrQuiet, ZenonT(30)

\* scheduler() and yield().
LEMMA ThrSwitches ==
  ASSUME ProcInv, ThrInv, NEW c \in Cpu, scheduler(c) \/ yield(c)
  PROVE  ThrInv'
<1>1. UNCHANGED <<pgdir, sz, isThread, parent, killed, fault, kpc, np, mem>>
  BY Zenon DEF scheduler, yield, procFields, memVars
<1>2. PICK s \in Slot, st \in {"RUNNING", "RUNNABLE"} :
        state[s] \in {"RUNNING", "RUNNABLE"} /\ state' = [state EXCEPT ![s] = st]
  <2>1. CASE scheduler(c)
    BY <2>1, Zenon DEF scheduler, ahead
  <2>2. CASE yield(c)
    BY <2>2, Running, Zenon DEF yield
  <2> QED
    BY <2>1, <2>2, Zenon
<1>3. \A t \in Slot : Live(t)' = Live(t) /\ (state'[t] = "ZOMBIE") = (state[t] = "ZOMBIE")
  BY <1>2 DEF Live, ProcInv, Types
<1>4. "dir" \in DOMAIN mem' /\ mem'.dir = mem.dir
  BY <1>1, Zenon DEF ThrInv, ThrTypes
<1> QED
  BY <1>1, <1>3, <1>4, ThrQuiet, ZenonT(30)

\* A running process gets from one place of the kernel to another, and may go to
\* sleep there.
LEMMA ThrMoves ==
  ASSUME ProcInv, ThrInv, UNCHANGED <<pgdir, sz, isThread, parent, killed, fault, mem, np>>,
         NEW s \in Slot, state[s] = "RUNNING",
         state' = state \/ state' = [state EXCEPT ![s] = "SLEEPING"],
         NEW l \in {"user", "wait", "join", "sleep", "sleep_in", "park_in"},
         kpc' = [kpc EXCEPT ![s] = l]
  PROVE  ThrInv'
<1>1. \A t \in Slot : Live(t)' = Live(t) /\ (state'[t] = "ZOMBIE") = (state[t] = "ZOMBIE")
  BY DEF Live, ProcInv, Types
<1>2. "dir" \in DOMAIN mem' /\ mem'.dir = mem.dir
  BY Zenon DEF ThrInv, ThrTypes
<1>3. \A t \in Slot : \/ kpc'[t] = kpc[t] /\ np'[t] = np[t]
                      \/ kpc'[t] \notin Late /\ kpc'[t] \notin {"exec_commit", "gone"}
  BY DEF Late, ProcInv, Types
<1> QED
  BY <1>1, <1>2, <1>3, ThrQuiet, ZenonT(30)

\* A step in sys_sleep() or park().
LEMMA ThrSleeps ==
  ASSUME ProcInv, ThrInv, NEW c \in Cpu,
         \/ sys_sleep(c) \/ sleep_test(c) \/ sleep_in(c) \/ sleep_end(c)
         \/ sys_park(c) \/ park_in(c)
  PROVE  ThrInv'
<1>1. PICK s : s = proc[c]
  BY Zenon
<1>2. s # None
  BY <1>1, Zenon DEF sys_sleep, sleep_test, sleep_in, sleep_end, sys_park, park_in, Call, At
<1>3. s \in Slot /\ state[s] = "RUNNING"
  BY <1>1, <1>2, Running, Zenon
<1>4. UNCHANGED <<pgdir, sz, isThread, parent, fault, mem, np>>
  BY ZenonT(30) DEF sys_sleep, sleep_test, sleep_in, sleep_end, sys_park, park_in,
     procFields, memVars
<1>5. UNCHANGED killed
  BY Zenon DEF sys_sleep, sleep_test, sleep_in, sleep_end, sys_park, park_in, park, parkVars
<1>6. PICK l \in {"user", "sleep", "sleep_in", "park_in"} : kpc' = [kpc EXCEPT ![s] = l]
  BY <1>1, Zenon DEF sys_sleep, sleep_test, sleep_in, sleep_end, sys_park, park_in,
     sleep, Goto
<1>7. state' = state \/ state' = [state EXCEPT ![s] = "SLEEPING"]
  BY <1>1, Zenon DEF sys_sleep, sleep_test, sleep_in, sleep_end, sys_park, park_in, park,
                     sleep, parkVars
<1>8. l \in {"user", "wait", "join", "sleep", "sleep_in", "park_in"}
  BY Zenon
<1> QED
  BY <1>3, <1>4, <1>5, <1>6, <1>7, <1>8, ThrMoves, ZenonT(30)

\* fork() or clone() takes an entry, or gives it up.
LEMMA ThrEntries ==
  ASSUME ProcInv, ThrInv, NEW c \in Cpu,
         fork(c) \/ clone(c) \/ fork_fail(c) \/ clone_fail(c) \/ clone_bad(c)
  PROVE  ThrInv'
<1>1. PICK s : s = proc[c]
  BY Zenon
<1>2. s # None
  BY <1>1, Zenon DEF fork, clone, fork_fail, clone_fail, clone_bad, giveup, Call, At
<1>3. s \in Slot /\ state[s] = "RUNNING"
  BY <1>1, <1>2, Running, ZenonT(30)
<1>4. UNCHANGED <<pgdir, sz, isThread, parent, killed, fault>>
  BY Zenon DEF fork, clone, fork_fail, clone_fail, clone_bad, giveup, allocproc, procFields
<1>5. \E p \in Slot : /\ state[p] \in {"UNUSED", "EMBRYO"}
                      /\ \E st \in {"UNUSED", "EMBRYO"} : state' = [state EXCEPT ![p] = st]
  <2>1. CASE fork(c) \/ clone(c)
    BY <2>1, Zenon DEF fork, clone, allocproc
  <2>2. CASE fork_fail(c) \/ clone_fail(c) \/ clone_bad(c)
    <3>1. state' = [state EXCEPT ![np[s]] = "UNUSED"] /\ kpc[s] \in {"fork_copy", "clone_set", "clone_run"}
      BY <1>1, <2>2, Zenon DEF fork_fail, clone_fail, clone_bad, giveup, At
    <3>2. np[s] \in Slot /\ state[np[s]] = "EMBRYO"
      BY <1>3, <3>1, Zenon DEF ProcInv, MakingInv, Making
    <3> QED
      BY <3>1, <3>2, Zenon
  <2> QED
    BY <2>1, <2>2, Zenon
<1>6. \A t \in Slot : Live(t)' = Live(t) /\ (state'[t] = "ZOMBIE") = (state[t] = "ZOMBIE")
  BY <1>5 DEF Live, ProcInv, Types
<1>7. \E l \in {"user", "fork_copy", "clone_set"} : kpc' = [kpc EXCEPT ![s] = l]
  BY <1>1, Zenon DEF fork, clone, fork_fail, clone_fail, clone_bad, giveup, allocproc, Goto
<1>8. np' = np \/ \E p : np' = [np EXCEPT ![s] = p]
  BY <1>1, Zenon DEF fork, clone, fork_fail, clone_fail, clone_bad, giveup, allocproc
<1>9. \A t \in Slot : \/ kpc'[t] = kpc[t] /\ np'[t] = np[t]
                      \/ kpc'[t] \notin Late /\ kpc'[t] \notin {"exec_commit", "gone"}
  BY <1>3, <1>7, <1>8 DEF Late, ProcInv, Types
<1>10. "dir" \in DOMAIN mem' /\ mem'.dir = mem.dir
  <2>1. HasDirs(mem)
    BY Zenon DEF ThrInv, ThrTypes, HasDirs, Dirs
  <2>2. CASE fork(c) \/ fork_fail(c)
    BY <2>1, <2>2, ForkFails, Zenon
  <2>3. CASE clone(c) \/ clone_fail(c) \/ clone_bad(c)
    <3>1. mem' = mem \/ mem' = kfree(mem)
      BY <2>3, Zenon DEF clone, clone_fail, clone_bad, allocproc, memVars
    <3> QED
      BY <2>1, <3>1, PageCalls, Zenon DEF HasDirs
  <2> QED
    BY <2>2, <2>3, ZenonT(30)
<1> QED
  BY <1>4, <1>6, <1>9, <1>10, ThrQuiet, ZenonT(30)

\* wait() frees the directory of a process that has exited; its threads have too.
LEMMA ThrReaps ==
  ASSUME ProcInv, ThrInv, UNCHANGED <<pgdir, sz, isThread, fault, np>>,
         NEW s \in Slot, state[s] = "RUNNING", kpc[s] \in {"user", "wait", "join"},
         NEW p \in Slot, state[p] = "ZOMBIE", NEW m, reap(p, m),
         \/ isThread[p] = 0 /\ m = freevm(mem, pgdir[p])
         \/ isThread[p] = 1 /\ m = mem,
         kpc' = [kpc EXCEPT ![s] = "user"]
  PROVE  ThrInv'
<1>1. /\ state' = [state EXCEPT ![p] = "UNUSED"] /\ mem' = kfree(m)
      /\ parent' = [parent EXCEPT ![p] = None] /\ killed' = [killed EXCEPT ![p] = 0]
  BY ZenonT(30) DEF reap
<1>2. HasDirs(mem)
  BY Zenon DEF ThrInv, ThrTypes, HasDirs, Dirs
<1>3. PICK G : IF isThread[p] = 0 THEN G = {pgdir[p]} ELSE G = {}
  BY Zenon
<1>4. "dir" \in DOMAIN mem' /\ mem'.dir = [d \in Dirs \ G |-> mem.dir[d]]
  <2>1. CASE isThread[p] = 0
    <3>1. Drops(m, mem, pgdir[p])
      BY <1>2, <2>1, FreeCall DEF HasDirs
    <3>2. "dir" \in DOMAIN m
      BY <3>1, Zenon DEF Drops
    <3>3. "dir" \in DOMAIN mem' /\ mem'.dir = m.dir
      BY <1>1, <3>2, PageCalls, Zenon
    <3> QED
      BY <1>3, <2>1, <3>1, <3>3, ZenonT(30) DEF Drops, Dirs
  <2>2. CASE isThread[p] = 1
    <3>1. m = mem
      BY <2>2
    <3>2. "dir" \in DOMAIN mem' /\ mem'.dir = mem.dir
      BY <1>1, <1>2, <3>1, PageCalls, ZenonT(30) DEF HasDirs
    <3> QED
      BY <1>2, <1>3, <2>2, <3>2 DEF HasDirs, Dirs
  <2> QED
    BY <2>1, <2>2
<1>5. /\ state'[p] = "UNUSED" /\ \A t \in Slot \ {p} : state'[t] = state[t] /\ parent'[t] = parent[t]
      /\ kpc'[s] = "user" /\ \A t \in Slot \ {s} : kpc'[t] = kpc[t]
  BY <1>1, ZenonT(30) DEF ProcInv, Types
<1>6. \A t \in Slot : Root(t)' => Root(t) /\ pgdir[t] \notin G
  BY <1>3, <1>5, SMTT(30) DEF Root, Live, ThrInv, RootInv
<1>7. \A t \in Slot : Forking(t)' => Forking(t) /\ pgdir[np[t]] \notin G
  BY <1>3, <1>5, SMTT(30) DEF Forking, Root, Live, ThrInv, RootInv
<1>8. /\ \A t \in Slot : Thread(t)' => Thread(t) /\ parent'[t] = parent[t]
      /\ \A t \in Slot : LiveRoot(t) => LiveRoot(t)'
  BY <1>5 DEF Thread, LiveRoot, Root, Live
<1>9. \A d \in Dirs \ G : d \in Dirs' /\ mem'.dir[d] = mem.dir[d]
  BY <1>4 DEF Dirs
<1>10. RootInv' /\ ThreadInv' /\ TreeInv'
  BY <1>6, <1>7, <1>8, <1>9, ThrFrame, ZenonT(30)
<1>11. ThrTypes'
  BY <1>1, <1>4, <1>5, ZenonT(30) DEF ThrInv, ThrTypes, Dirs, Live
<1>12. EntryInv'
  BY <1>5, ZenonT(30) DEF ThrInv, EntryInv, Late
<1> QED
  BY <1>10, <1>11, <1>12, Zenon DEF ThrInv

\* wait() and join().
LEMMA ThrWaits ==
  ASSUME ProcInv, ThrInv, NEW c \in Cpu, wait(c) \/ join(c)
  PROVE  ThrInv'
<1>1. PICK s : s = proc[c]
  BY Zenon
<1>2. s # None /\ kpc[s] \in {"user", "wait", "join"}
  BY <1>1, Zenon DEF wait, join, Call, At
<1>3. s \in Slot /\ state[s] = "RUNNING"
  BY <1>1, <1>2, Running, Zenon
<1>4. UNCHANGED <<pgdir, sz, isThread, fault, np>>
  BY Zenon DEF wait, join, scan
<1>5. \/ \E p \in Slot : \E m : /\ state[p] = "ZOMBIE" /\ reap(p, m)
                                /\ \/ isThread[p] = 0 /\ m = freevm(mem, pgdir[p])
                                   \/ isThread[p] = 1 /\ m = mem
                                /\ kpc' = [kpc EXCEPT ![s] = "user"]
      \/ kpc' = [kpc EXCEPT ![s] = "user"] /\ UNCHANGED <<state, parent, killed, mem>>
      \/ \E l \in {"wait", "join"} : /\ kpc' = [kpc EXCEPT ![s] = l] /\ UNCHANGED <<parent, killed, mem>>
                                     /\ state' = [state EXCEPT ![s] = "SLEEPING"]
  <2>1. CASE wait(c)
    <3>1. PICK zombies, kids, m :
             /\ zombies = {p \in children(s) : state[p] = "ZOMBIE" /\ isThread[p] = 0}
             /\ m = [p \in zombies |-> freevm(mem, pgdir[p])]
             /\ scan(c, "wait", zombies, kids, m)
      BY <2>1, <1>1, Zenon DEF wait
    <3>2. \A p \in zombies : /\ p \in Slot /\ state[p] = "ZOMBIE" /\ isThread[p] = 0
                             /\ m[p] = freevm(mem, pgdir[p])
      BY <3>1, Zenon DEF children
    <3> QED
      BY <1>1, <3>1, <3>2, Zenon DEF scan, sleep, Goto, memVars
  <2>2. CASE join(c)
    <3>1. PICK zombies, kids, m :
             /\ zombies = {p \in children(s) : isThread[p] = 1 /\ state[p] = "ZOMBIE"}
             /\ m = [p \in zombies |-> mem]
             /\ scan(c, "join", zombies, kids, m)
      <4>1. {p \in {q \in children(s) : isThread[q] = 1} : state[p] = "ZOMBIE"} = 
              {p \in children(s) : isThread[p] = 1 /\ state[p] = "ZOMBIE"}
        BY Zenon
      <4> QED
        BY <1>1, <2>2, <4>1, Zenon DEF join
    <3>2. \A p \in zombies : p \in Slot /\ state[p] = "ZOMBIE" /\ isThread[p] = 1 /\ m[p] = mem
      BY <3>1, Zenon DEF children
    <3> QED
      BY <1>1, <3>1, <3>2, ZenonT(30) DEF scan, sleep, Goto, memVars
  <2> QED
    BY <2>1, <2>2, Zenon
<1> QED
  BY <1>2, <1>3, <1>4, <1>5, ThrReaps, ThrMoves, Zenon

\* If a process has threads at all, it has one for a child.
LEMMA FirstThread ==
  ASSUME ProcInv, ThrInv, NEW r \in Slot, LiveRoot(r),
         NEW t \in Slot, Thread(t), pgdir[t] = pgdir[r]
  PROVE  \E p \in Slot : Thread(p) /\ parent[p] = r
<1> DEFINE T == {p \in Slot : Thread(p) /\ pgdir[p] = pgdir[r]}
<1>1. T \in SUBSET Slot /\ T # {} /\ \A p \in T : Thread(p)
  BY Zenon
<1>2. PICK p \in T : parent[p] \notin T
  BY <1>1, ZenonT(30) DEF ThrInv, TreeInv
<1>3. p \in Slot /\ Thread(p) /\ pgdir[p] = pgdir[r] /\ p # initproc
  BY <1>2 DEF Thread, ThrInv, ThrTypes
<1>4. parent[p] \in Slot /\ Live(parent[p]) /\ state[parent[p]] # "ZOMBIE"
  BY <1>3, Entries, Zenon DEF Thread, ProcInv, ParentAlive, Types
<1>5. pgdir[parent[p]] = pgdir[r]
  BY <1>3, Zenon DEF ThrInv, ThreadInv
<1>6. ~Thread(parent[p])
  BY <1>2, <1>4, <1>5, Zenon
<1>7. Root(parent[p])
  BY <1>4, <1>6, ZenonT(30) DEF Root, Thread, ThrInv, ThrTypes
<1>8. parent[p] = r
  BY <1>4, <1>5, <1>7 DEF LiveRoot, ThrInv, RootInv
<1> QED
  BY <1>3, <1>8, Zenon

\* exit(): the process has joined its threads, so that none of them is left.
LEMMA ThrExits ==
  ASSUME ProcInv, ThrInv, NEW c \in Cpu, exit(c)
  PROVE  ThrInv'
<1>1. PICK s : s = proc[c]
  BY Zenon
<1>2. PICK woken : leave(c, children(s), woken)
  BY <1>1, Zenon DEF exit
<1>3. /\ s # None /\ s # initproc
      /\ \/ UNCHANGED killed /\ killed[s] = 1
         \/ UNCHANGED killed /\ (JoinFirst => \A p \in children(s) : isThread[p] = 0)
         \/ kpc[s] = "gone"
      /\ state' = [wakeup1(state, woken) EXCEPT ![s] = "ZOMBIE"]
      /\ parent' = [p \in Slot |-> IF p \in children(s) THEN initproc ELSE parent[p]]
      /\ UNCHANGED <<isThread, pgdir, sz, mem, kpc, np, fault>>
  BY <1>1, <1>2, Zenon DEF leave, Call, At, memVars
<1>4. s \in Slot /\ state[s] = "RUNNING"
  BY <1>1, <1>3, Running, Zenon
<1>5. UNCHANGED killed /\ \A p \in children(s) : isThread[p] = 0
  <2>1. killed[s] # 1 /\ kpc[s] # "gone" /\ JoinFirst
    BY <1>4 DEF ThrInv, ThrTypes, Joined
  <2> QED
    BY <1>3, <2>1, Zenon
<1>6. /\ state'[s] = "ZOMBIE"
      /\ \A t \in Slot \ {s} : \/ state'[t] = state[t]
                               \/ state[t] = "SLEEPING" /\ state'[t] = "RUNNABLE"
  BY <1>3, <1>4, Zenon DEF wakeup1
<1>7. \A t \in Slot : isThread[t] = 1 => parent[t] # s /\ parent'[t] = parent[t]
  BY <1>3, <1>5 DEF children
<1>8. \A t \in Slot \ {s} : Root(t)' = Root(t) /\ LiveRoot(t)' = LiveRoot(t) /\ Thread(t)' = Thread(t)
  BY <1>3, <1>6, ZenonT(30) DEF Root, LiveRoot, Thread, Live
<1>9. (Root(s)' => Root(s)) /\ ~Thread(s)'
  BY <1>3, <1>4, <1>6, Zenon DEF Root, Thread, Live
<1>10. \A t, r \in Slot : Thread(t)' /\ LiveRoot(r) /\ pgdir[r] = pgdir[t] => r # s
  <2> SUFFICES ASSUME NEW t \in Slot, Thread(t)', LiveRoot(s), pgdir[s] = pgdir[t] PROVE FALSE
    BY <1>4, Zenon
  <2>1. Thread(t)
    BY <1>8, <1>9, Zenon
  <2>2. PICK p \in Slot : Thread(p) /\ parent[p] = s
    BY <1>4, <2>1, FirstThread, ZenonT(30)
  <2> QED
    BY <1>7, <2>2 DEF Thread
<1>11. \A t \in Slot : Forking(t)' = Forking(t)
  BY <1>3, ZenonT(30) DEF Forking
<1>12. RootInv' /\ ThreadInv' /\ TreeInv'
  <2>1. UNCHANGED <<pgdir, np, mem>>
    BY <1>3, Zenon
  <2>2. \A t \in Slot : Root(t)' => Root(t)
    BY <1>8, <1>9, Zenon
  <2>3. \A t \in Slot : Thread(t)' => Thread(t) /\ parent'[t] = parent[t]
    BY <1>7, <1>8, <1>9, Zenon DEF Thread
  <2>4. \A t, r \in Slot : Thread(t)' /\ LiveRoot(r) /\ pgdir[r] = pgdir[t] => LiveRoot(r)'
    BY <1>8, <1>10
  <2>5. Dirs' = Dirs
    BY <2>1, Zenon DEF Dirs
  <2> QED
    BY <1>11, <2>1, <2>2, <2>3, <2>4, <2>5, ThrKept, ZenonT(30)
<1>13. ThrTypes'
  BY <1>3, <1>4, <1>5, <1>6, ZenonT(30) DEF ThrInv, ThrTypes, Dirs, Live
<1>14. EntryInv'
  BY <1>3 DEF ThrInv, EntryInv
<1> QED
  BY <1>12, <1>13, <1>14, Zenon DEF ThrInv

\* The entry that s fills in is nobody's yet.
LEMMA EntryApart ==
  ASSUME ProcInv, ThrInv, NEW s \in Slot, kpc[s] \in Making
  PROVE  /\ np[s] \in Slot \ {s, initproc} /\ ~Live(np[s]) /\ Live(s) /\ state[s] # "ZOMBIE"
         /\ kpc[np[s]] \notin Making
         /\ \A t \in Slot \ {s} : kpc[t] \in Making => np[t] \in Slot \ {np[s]}
         /\ \A t \in Slot : Thread(t) => parent[t] \in Slot \ {np[s]}
<1>1. /\ state[s] \in {"RUNNING", "RUNNABLE"} /\ np[s] \in Slot /\ state[np[s]] = "EMBRYO"
      /\ \A t \in Slot \ {s} : kpc[t] \in Making => np[t] \in Slot /\ np[t] # np[s]
      /\ kpc[np[s]] \in Making => state[np[s]] \in {"RUNNING", "RUNNABLE"}
  BY DEF ProcInv, MakingInv
<1>2. \A t \in Slot : Thread(t) => parent[t] \in Slot /\ Live(parent[t])
  BY Entries DEF Thread, ProcInv, ParentAlive, Types, ThrInv, ThrTypes
<1>3. np[s] # initproc
  BY <1>1, Zenon DEF ProcInv, InitInv
<1> QED
  BY <1>1, <1>2, <1>3 DEF Live

\* fork() and clone() set fields of the entry.
LEMMA ThrFills ==
  ASSUME ProcInv, ThrInv, UNCHANGED <<state, np, killed>>, fault' = "none" => fault = "none",
         "dir" \in DOMAIN mem', mem'.dir = mem.dir,
         NEW s \in Slot, NEW p, p = np[s], kpc[s] \in Making,
         NEW l \in Making, kpc' = [kpc EXCEPT ![s] = l],
         \A t \in Slot \ {p} : /\ parent'[t] = parent[t] /\ isThread'[t] = isThread[t]
                               /\ pgdir'[t] = pgdir[t] /\ sz'[t] = sz[t],
         DOMAIN pgdir' = Slot, sz' \in [Slot -> Nat], isThread' \in [Slot -> {0, 1}],
         Forking(s)' => Forking(s) /\ pgdir'[p] = pgdir[p],
         l \in {"clone_parent", "clone_run"} => isThread'[p] = 1 /\ pgdir'[p] = pgdir[s],
         l \in Late \ {"fork_set"} => sz'[p] > 0,
         l = "fork_run" => isThread'[p] = 0
  PROVE  ThrInv'
<1>1. /\ p \in Slot \ {s, initproc} /\ ~Live(p) /\ Live(s) /\ kpc[p] \notin Making
      /\ \A t \in Slot \ {s} : kpc[t] \in Making => np[t] \in Slot \ {p}
      /\ \A t \in Slot : Thread(t) => parent[t] \in Slot \ {p}
  BY EntryApart, ZenonT(30)
<1>2. kpc'[s] = l /\ \A t \in Slot \ {s} : kpc'[t] = kpc[t]
  BY ZenonT(30) DEF ProcInv, Types
<1>3. \A t \in Slot : /\ Live(t)' = Live(t) /\ Root(t)' = Root(t)
                      /\ LiveRoot(t)' = LiveRoot(t) /\ Thread(t)' = Thread(t)
  BY <1>1, ZenonT(30) DEF Root, LiveRoot, Thread, Live
<1>4. \A t \in Slot \ {s} : Forking(t)' => Forking(t) /\ np[t] \in Slot \ {p}
  BY <1>1, <1>2 DEF Forking, Making
<1>5. RootInv' /\ ThreadInv' /\ TreeInv'
  <2>1. Dirs' = Dirs /\ mem'.dir = mem.dir
    BY Zenon DEF Dirs
  <2>2. \A t \in Slot : Root(t)' => t # p
    BY <1>1, <1>3, ZenonT(30) DEF Root
  <2>3. \A t \in Slot : Thread(t)' => t # p /\ parent[t] \in Slot \ {p}
    BY <1>1, <1>3, ZenonT(30) DEF Thread
  <2>4. \A t \in Slot : LiveRoot(t) => t # p
    BY <1>1, ZenonT(30) DEF LiveRoot, Root
  <2>5. \A t \in Slot : Forking(t)' => Forking(t) /\ pgdir'[np'[t]] = pgdir[np[t]]
    BY <1>4, ZenonT(30)
  <2> QED
    BY <1>3, <2>1, <2>2, <2>3, <2>4, <2>5, ThrKept, ZenonT(30)
<1>6. ThrTypes'
  <2>1. /\ DOMAIN pgdir' = Slot /\ sz' \in [Slot -> Nat] /\ isThread' \in [Slot -> {0, 1}]
        /\ "dir" \in DOMAIN mem' /\ mem'.dir = [d \in Dirs' |-> mem'.dir[d]]
    BY Zenon DEF ThrInv, ThrTypes, Dirs
  <2>2. isThread'[initproc] = 0 /\ killed' = [t \in Slot |-> 0]
    BY <1>1, Entries, ZenonT(30) DEF ThrInv, ThrTypes
  <2>3. \A t \in Slot : kpc'[t] \notin {"exec_commit", "gone"}
    BY <1>2, ZenonT(30) DEF ThrInv, ThrTypes, Making
  <2>4. \A t \in Slot : Live(t)' => sz'[t] > 0
    BY <1>1, <1>3, ZenonT(30) DEF ThrInv, ThrTypes
  <2> QED
    BY <2>1, <2>2, <2>3, <2>4, ZenonT(30) DEF ThrTypes
<1>7. EntryInv'
  BY <1>1, <1>2 DEF ThrInv, EntryInv, Late, Making
<1> QED
  BY <1>5, <1>6, <1>7, Zenon DEF ThrInv

\* The steps of fork() and clone() that fill in the entry, but for fork()'s copy.
LEMMA ThrFillSteps ==
  ASSUME ProcInv, ThrInv, NEW c \in Cpu,
         fork_set(c) \/ fork_flag(c) \/ clone_set(c) \/ clone_parent(c)
  PROVE  ThrInv'
<1>1. PICK s, p : s = proc[c] /\ p = np[s]
  BY Zenon
<1>2. s # None /\ kpc[s] \in {"fork_set", "fork_flag", "clone_set", "clone_parent"} /\ fault = "none"
  BY <1>1, ZenonT(30) DEF fork_set, fork_flag, clone_set, clone_parent, At
<1>3. s \in Slot /\ state[s] = "RUNNING" /\ kpc[s] \in Making
  BY <1>1, <1>2, Running DEF Making
<1>4. p \in Slot \ {s, initproc} /\ Live(s)
  BY <1>1, <1>3, EntryApart, Zenon
<1>5. UNCHANGED <<state, np, killed, fault>>
  BY Zenon DEF fork_set, fork_flag, clone_set, clone_parent, parkVars
<1>6. "dir" \in DOMAIN mem' /\ mem'.dir = mem.dir
  <2>1. mem' = mem \/ mem' = kalloc(mem)
    BY Zenon DEF fork_set, fork_flag, clone_set, clone_parent, memVars
  <2> QED
    BY <2>1, PageCalls, Zenon DEF ThrInv, ThrTypes
<1>7. sz[s] > 0 /\ sz \in [Slot -> Nat] /\ DOMAIN pgdir = Slot /\ isThread \in [Slot -> {0, 1}]
  BY <1>3, <1>4, ZenonT(30) DEF ThrInv, ThrTypes
<1>8. CASE fork_set(c)
  <2>1. /\ kpc[s] = "fork_set" /\ kpc' = [kpc EXCEPT ![s] = "fork_flag"]
        /\ sz' = [sz EXCEPT ![p] = sz[s]] /\ parent' = [parent EXCEPT ![p] = s]
        /\ UNCHANGED <<isThread, pgdir>>
    BY <1>1, <1>8, Zenon DEF fork_set, At, Goto
  <2>2. "fork_flag" \in Making /\ (Forking(s)' => Forking(s) /\ pgdir'[p] = pgdir[p])
    BY <1>2, <2>1 DEF Making, Forking
  <2>3. /\ sz' \in [Slot -> Nat] /\ sz'[p] > 0
        /\ \A t \in Slot \ {p} : parent'[t] = parent[t] /\ sz'[t] = sz[t]
    BY <1>3, <1>4, <1>7, <2>1, ZenonT(30) DEF ProcInv, Types
  <2> QED
    BY <1>1, <1>3, <1>4, <1>5, <1>6, <1>7, <2>1, <2>2, <2>3, ThrFills, ZenonT(30)
<1>9. CASE fork_flag(c)
  <2>1. /\ kpc[s] = "fork_flag" /\ kpc' = [kpc EXCEPT ![s] = "fork_run"]
        /\ isThread' = [isThread EXCEPT ![p] = 0]
        /\ UNCHANGED <<parent, sz, pgdir>>
    BY <1>1, <1>9, Zenon DEF fork_flag, At, Goto
  <2>2. "fork_run" \in Making /\ (Forking(s)' => Forking(s) /\ pgdir'[p] = pgdir[p])
    BY <1>2, <2>1 DEF Making, Forking
  <2>3. /\ isThread' \in [Slot -> {0, 1}] /\ isThread'[p] = 0
        /\ \A t \in Slot \ {p} : isThread'[t] = isThread[t]
    BY <1>4, <1>7, <2>1
  <2>4. sz'[p] > 0
    BY <1>1, <1>3, <2>1 DEF ThrInv, EntryInv, Late
  <2> QED
    BY <1>1, <1>3, <1>4, <1>5, <1>6, <1>7, <2>1, <2>2, <2>3, <2>4, ThrFills, ZenonT(30)
<1>10. CASE clone_set(c)
  <2>1. /\ kpc' = [kpc EXCEPT ![s] = "clone_parent"] /\ isThread' = [isThread EXCEPT ![p] = 1]
        /\ pgdir' = [pgdir EXCEPT ![p] = pgdir[s]] /\ sz' = [sz EXCEPT ![p] = sz[s]]
        /\ UNCHANGED parent
    BY <1>1, <1>10, Zenon DEF clone_set, Goto
  <2>2. "clone_parent" \in Making /\ ~Forking(s)'
    BY <1>3, <2>1 DEF Making, Forking, ProcInv, Types
  <2>3. /\ isThread' \in [Slot -> {0, 1}] /\ isThread'[p] = 1 /\ pgdir'[p] = pgdir[s]
        /\ sz' \in [Slot -> Nat] /\ sz'[p] > 0 /\ DOMAIN pgdir' = Slot
        /\ \A t \in Slot \ {p} : isThread'[t] = isThread[t] /\ pgdir'[t] = pgdir[t] /\ sz'[t] = sz[t]
    BY <1>3, <1>4, <1>7, <2>1
  <2> QED
    BY <1>1, <1>3, <1>4, <1>5, <1>6, <2>1, <2>2, <2>3, ThrFills, ZenonT(30)
<1>11. CASE clone_parent(c)
  <2>1. /\ kpc[s] = "clone_parent" /\ kpc' = [kpc EXCEPT ![s] = "clone_run"]
        /\ parent' = [parent EXCEPT ![p] = s] /\ UNCHANGED <<isThread, pgdir, sz>>
    BY <1>1, <1>11, ZenonT(30) DEF clone_parent, At, Goto
  <2>2. "clone_run" \in Making /\ ~Forking(s)'
    BY <1>3, <2>1, ZenonT(30) DEF Making, Forking, ProcInv, Types
  <2>3. isThread'[p] = 1 /\ pgdir'[p] = pgdir[s] /\ sz'[p] > 0
    BY <1>1, <1>3, <2>1 DEF ThrInv, EntryInv, Late
  <2>4. \A t \in Slot \ {p} : /\ parent'[t] = parent[t] /\ isThread'[t] = isThread[t]
                              /\ pgdir'[t] = pgdir[t] /\ sz'[t] = sz[t]
    BY <1>4, <2>1 DEF ProcInv, Types
  <2>5. DOMAIN pgdir' = Slot /\ sz' \in [Slot -> Nat] /\ isThread' \in [Slot -> {0, 1}]
    BY <1>7, <2>1
  <2>6. kpc' = [kpc EXCEPT ![s] = "clone_run"] /\ "clone_run" # "fork_run"
    BY <2>1
  <2> QED
    BY <1>1, <1>3, <1>5, <1>6, <2>2, <2>3, <2>4, <2>5, <2>6, ThrFills, ZenonT(30)
<1> QED
  BY <1>8, <1>9, <1>10, <1>11, Zenon

\* fork() copies the memory of its process, or panics over a page.
LEMMA ThrCopies ==
  ASSUME ProcInv, ThrInv, NEW c \in Cpu, fork_copy(c)
  PROVE  ThrInv'
<1>1. PICK s, p : s = proc[c] /\ p = np[s]
  BY Zenon
<1>2. s # None /\ kpc[s] = "fork_copy" /\ kpc' = [kpc EXCEPT ![s] = "fork_set"] /\ fault = "none"
  BY <1>1, Zenon DEF fork_copy, At, Goto
<1>3. s \in Slot /\ state[s] = "RUNNING" /\ kpc[s] \in Making /\ "fork_set" \in Making
  BY <1>1, <1>2, Running DEF Making
<1>4. /\ p \in Slot \ {s, initproc} /\ ~Live(p) /\ Live(s) /\ kpc[p] \notin Making
      /\ \A t \in Slot \ {s} : kpc[t] \in Making => np[t] \in Slot \ {p}
      /\ \A t \in Slot : Thread(t) => parent[t] \in Slot \ {p}
  BY <1>1, <1>3, EntryApart, Zenon
<1>5. UNCHANGED <<state, killed, sz, isThread, parent, np>>
  BY Zenon DEF fork_copy, parkVars
<1>6. HasDirs(mem) /\ sz[s] \in Nat \ {0} /\ sz \in [Slot -> Nat] /\ DOMAIN pgdir = Slot
      /\ isThread \in [Slot -> {0, 1}]
  BY <1>3, <1>4 DEF ThrInv, ThrTypes, HasDirs, Dirs
<1>7. CASE fault' = "copyuvm" /\ UNCHANGED <<mem, pgdir>>
  <2>1. ~Forking(s)' /\ (fault' = "none" => fault = "none") /\ "dir" \in DOMAIN mem' /\ mem'.dir = mem.dir
    BY <1>6, <1>7, Zenon DEF Forking, HasDirs
  <2>2. "fork_set" \notin {"clone_parent", "clone_run"} /\ "fork_set" # "fork_run"
    BY Zenon
  <2>3. \A t \in Slot \ {p} : /\ parent'[t] = parent[t] /\ isThread'[t] = isThread[t]
                              /\ pgdir'[t] = pgdir[t] /\ sz'[t] = sz[t]
    BY <1>5, <1>7, Zenon
  <2>4. DOMAIN pgdir' = Slot /\ sz' \in [Slot -> Nat] /\ isThread' \in [Slot -> {0, 1}]
    BY <1>5, <1>6, <1>7, Zenon
  <2> QED
    BY <1>1, <1>2, <1>3, <1>5, <2>1, <2>2, <2>3, <2>4, ThrFills, ZenonT(30)
<1>8. ASSUME NEW d, NewDir(d), mem' = copyuvm(kalloc(mem), d, sz[s]),
             pgdir' = [pgdir EXCEPT ![p] = d], UNCHANGED fault
      PROVE  ThrInv'
  <2>1. Puts(mem', mem, d, 0..sz[s]-1)
    <3>1. PICK m : m = kalloc(mem)
      BY Zenon
    <3>2. "dir" \in DOMAIN m /\ m.dir = mem.dir
      BY <1>6, <3>1, PageCalls, Zenon DEF HasDirs
    <3>3. Puts(mem', m, d, 0..sz[s]-1)
      BY <1>8, <3>1, <3>2, MakeCalls, ZenonT(30) DEF copyuvm
    <3> QED
      BY <3>2, <3>3, Zenon DEF Puts
  <2>2. /\ Dirs' = Dirs \cup {d} /\ d \notin Dirs /\ 0 \in mem'.dir[d]
        /\ \A e \in Dirs : mem'.dir[e] = mem.dir[e]
    BY <1>6, <1>8, <2>1 DEF Puts, Dirs, NewDir
  <2>3. /\ pgdir'[p] = d /\ DOMAIN pgdir' = Slot /\ \A t \in Slot \ {p} : pgdir'[t] = pgdir[t]
        /\ kpc'[s] = "fork_set" /\ \A t \in Slot \ {s} : kpc'[t] = kpc[t]
    BY <1>2, <1>3, <1>4, <1>6, <1>8, ZenonT(30) DEF ProcInv, Types
  <2>4. \A t \in Slot : /\ Live(t)' = Live(t) /\ Root(t)' = Root(t)
                        /\ LiveRoot(t)' = LiveRoot(t) /\ Thread(t)' = Thread(t)
    BY <1>5, ZenonT(30) DEF Root, LiveRoot, Thread, Live
  <2>5. /\ Forking(s)' /\ ~Forking(s)
        /\ \A t \in Slot \ {s} : Forking(t)' = Forking(t) /\ (Forking(t) => np[t] \in Slot \ {p})
    BY <1>2, <1>4, <1>8, <2>3, ZenonT(30) DEF Forking, Making
  <2>6. \A t \in Slot : (Root(t) => t # p) /\ (Thread(t) => t # p)
    BY <1>4, Zenon DEF Root, Thread
  <2>7. RootInv'
    <3>1. \A t \in Slot : Root(t)' => Root(t) /\ pgdir'[t] = pgdir[t]
      BY <2>3, <2>4, <2>6, Zenon
    <3>2. \A t \in Slot \ {s} : Forking(t)' => Forking(t) /\ np'[t] = np[t] /\ pgdir'[np[t]] = pgdir[np[t]]
      BY <1>5, <2>3, <2>5, Zenon
    <3>3. pgdir'[np'[s]] = d
      BY <1>1, <1>5, <2>3, Zenon
    <3>4. \A t \in Slot : Root(t)' => pgdir'[t] \in Dirs' /\ 0 \in mem'.dir[pgdir'[t]] /\ pgdir'[t] # d
      BY <2>2, <3>1, SMTT(30) DEF ThrInv, RootInv
    <3>5. \A t \in Slot \ {s} : Forking(t)' => /\ pgdir'[np'[t]] \in Dirs' /\ 0 \in mem'.dir[pgdir'[np'[t]]]
                                             /\ pgdir'[np'[t]] # d
      BY <2>2, <3>2, SMTT(30) DEF ThrInv, RootInv
    <3>6. \A t \in Slot : Forking(t)' => pgdir'[np'[t]] \in Dirs' /\ 0 \in mem'.dir[pgdir'[np'[t]]]
      BY <2>2, <3>3, <3>5, ZenonT(30)
    <3>7. \A t, u \in Slot : Root(t)' /\ Root(u)' /\ pgdir'[t] = pgdir'[u] => t = u
      BY <3>1, ZenonT(30) DEF ThrInv, RootInv
    <3>8. \A t, u \in Slot : Forking(t)' /\ Forking(u)' /\ pgdir'[np'[t]] = pgdir'[np'[u]] => t = u
      BY <3>2, <3>3, <3>5, SMTT(30) DEF ThrInv, RootInv
    <3>9. \A t, u \in Slot : Forking(t)' /\ Root(u)' => pgdir'[np'[t]] # pgdir'[u]
      BY <3>1, <3>2, <3>3, <3>4, SMTT(30) DEF ThrInv, RootInv
    <3> QED
      BY <3>4, <3>6, <3>7, <3>8, <3>9, Zenon DEF RootInv
  <2>8. ThreadInv'
    <3>1. \A t \in Slot : Thread(t) => /\ pgdir'[t] = pgdir[t] /\ parent'[t] = parent[t]
                                     /\ pgdir'[parent[t]] = pgdir[parent[t]]
      BY <1>4, <1>5, <2>3, <2>6, Zenon
    <3>2. \A t \in Slot : LiveRoot(t) => LiveRoot(t)' /\ pgdir'[t] = pgdir[t]
      BY <2>3, <2>4, <2>6, Zenon DEF LiveRoot
    <3>3. ASSUME NEW t \in Slot, Thread(t)'
          PROVE  /\ pgdir'[t] = pgdir'[parent'[t]]
                 /\ \E x \in Slot : LiveRoot(x)' /\ pgdir'[x] = pgdir'[t]
      <4>1. Thread(t)
        BY <2>4, <3>3, Zenon
      <4>2. pgdir[t] = pgdir[parent[t]] /\ \E x \in Slot : LiveRoot(x) /\ pgdir[x] = pgdir[t]
        BY <4>1, Zenon DEF ThrInv, ThreadInv
      <4> QED
        BY <3>1, <3>2, <4>1, <4>2, Zenon
    <3> QED
      BY <3>3, Zenon DEF ThreadInv
  <2>9. TreeInv'
    BY <1>5, <2>4, Zenon DEF ThrInv, TreeInv
  <2>10. ThrTypes'
    BY <1>5, <2>1, <2>3, <2>4, ZenonT(30) DEF ThrInv, ThrTypes, Puts, Dirs
  <2>11. EntryInv'
    <3>1. ASSUME NEW t \in Slot, kpc'[t] \in Late \ {"fork_set"}
          PROVE  /\ t # s /\ t # p /\ kpc'[t] = kpc[t] /\ np[t] \in Slot \ {p}
                 /\ pgdir'[np[t]] = pgdir[np[t]] /\ pgdir'[t] = pgdir[t]
      <4>1. t # s /\ kpc'[t] = kpc[t]
        BY <2>3, <3>1, Zenon
      <4>2. kpc[t] \in Making
        BY <3>1, <4>1, ZenonT(30) DEF Late, Making
      <4>3. t # p /\ np[t] \in Slot \ {p}
        BY <1>4, <4>1, <4>2, Zenon
      <4> QED
        BY <2>3, <4>1, <4>3, Zenon
    <3>2. \A t \in Slot : kpc'[t] \in {"clone_parent", "clone_run", "fork_run"} =>
            kpc'[t] \in Late \ {"fork_set"}
      BY ZenonT(30) DEF Late
    <3>3. UNCHANGED <<sz, isThread, np>>
      BY <1>5, Zenon
    <3>4. EntryInv
      BY Zenon DEF ThrInv
    <3> QED
      BY <3>1, <3>2, <3>3, <3>4, ZenonT(30) DEF EntryInv
  <2> QED
    BY <2>7, <2>8, <2>9, <2>10, <2>11, Zenon DEF ThrInv
<1> QED
  BY <1>1, <1>7, <1>8, Zenon DEF fork_copy, memVars

\* The new process or thread runs.
LEMMA ThrLaunches ==
  ASSUME ProcInv, ThrInv, NEW c \in Cpu, fork_run(c) \/ clone_run(c)
  PROVE  ThrInv'
<1>1. PICK s, p : s = proc[c] /\ p = np[s]
  BY Zenon
<1>2. s # None /\ kpc[s] \in {"fork_run", "clone_run"} /\ fault = "none"
  BY <1>1, Zenon DEF fork_run, clone_run, launch, At
<1>3. s \in Slot /\ state[s] = "RUNNING" /\ kpc[s] \in Making
  BY <1>1, <1>2, Running DEF Making
<1>4. /\ p \in Slot \ {s, initproc} /\ ~Live(p) /\ Live(s) /\ kpc[p] \notin Making
      /\ \A t \in Slot \ {s} : kpc[t] \in Making => np[t] \in Slot \ {p}
      /\ \A t \in Slot : Thread(t) => parent[t] \in Slot \ {p}
  BY <1>1, <1>3, EntryApart, Zenon
<1>5. /\ UNCHANGED <<pgdir, sz, isThread, parent, killed, np, mem, fault>>
      /\ state' = [state EXCEPT ![p] = "RUNNABLE"]
      /\ kpc' = [kpc EXCEPT ![s] = "user", ![p] = "user"]
  BY <1>1, ZenonT(30) DEF fork_run, clone_run, launch, procFields, memVars
<1>6. /\ kpc'[s] = "user" /\ kpc'[p] = "user" /\ state'[p] = "RUNNABLE"
      /\ \A t \in Slot \ {s, p} : kpc'[t] = kpc[t]
      /\ \A t \in Slot \ {p} : state'[t] = state[t]
  BY <1>3, <1>4, <1>5, ZenonT(30) DEF ProcInv, Types
<1>7. \A t \in Slot \ {p} : /\ Live(t)' = Live(t) /\ Root(t)' = Root(t)
                            /\ LiveRoot(t)' = LiveRoot(t) /\ Thread(t)' = Thread(t)
  BY <1>5, <1>6, ZenonT(30) DEF Root, LiveRoot, Thread, Live
<1>8. ~Root(p) /\ ~Thread(p) /\ Live(p)' /\ parent[p] = s /\ sz[p] > 0
  BY <1>1, <1>2, <1>3, <1>4, <1>6, ZenonT(30) DEF Root, Thread, Live, ProcInv, MakingInv, Made, ThrInv, EntryInv, Late
<1>9. ~Forking(s)' /\ ~Forking(p)' /\ ~Forking(p) /\ \A t \in Slot \ {s, p} : Forking(t)' = Forking(t)
  BY <1>4, <1>5, <1>6, ZenonT(30) DEF Forking, Making
<1>10. ThrTypes'
  BY <1>4, <1>5, <1>6, <1>7, <1>8, ZenonT(30) DEF ThrInv, ThrTypes, Dirs
<1>11. EntryInv'
  BY <1>5, <1>6, ZenonT(30) DEF ThrInv, EntryInv, Late
<1>12. CASE kpc[s] = "fork_run"
  <2>1. Root(p)' /\ LiveRoot(p)' /\ ~Thread(p)' /\ Forking(s)
    BY <1>1, <1>2, <1>3, <1>5, <1>6, <1>8, <1>12, SMTT(30)
       DEF Root, LiveRoot, Thread, Forking, ThrInv, EntryInv
  <2>2. RootInv'
    BY <1>1, <1>3, <1>5, <1>7, <1>9, <2>1, ZenonT(30) DEF ThrInv, RootInv, Dirs
  <2>3. ThreadInv'
    BY <1>5, <1>7, <1>8, <2>1, ZenonT(30) DEF ThrInv, ThreadInv, LiveRoot
  <2>4. TreeInv'
    BY <1>5, <1>7, <2>1, ZenonT(30) DEF ThrInv, TreeInv
  <2> QED
    BY <1>10, <1>11, <2>2, <2>3, <2>4, ZenonT(30) DEF ThrInv
<1>13. CASE kpc[s] = "clone_run"
  <2>1. Thread(p)' /\ ~Root(p)' /\ pgdir[p] = pgdir[s]
    BY <1>1, <1>3, <1>5, <1>6, <1>8, <1>13, SMTT(30) DEF Root, Thread, ThrInv, EntryInv
  <2>2. RootInv'
    BY <1>5, <1>7, <1>9, <2>1, ZenonT(30) DEF ThrInv, RootInv, Dirs
  <2>3. \E r \in Slot : LiveRoot(r) /\ pgdir[r] = pgdir[s]
    <3>1. CASE isThread[s] = 0
      BY <1>3, <1>4, <3>1, ZenonT(30) DEF LiveRoot, Root
    <3>2. CASE isThread[s] = 1
      BY <1>3, <1>4, <3>2, ZenonT(30) DEF Thread, ThrInv, ThreadInv
    <3> QED
      BY <1>3, <3>1, <3>2, ZenonT(30) DEF ThrInv, ThrTypes
  <2>4. ThreadInv'
    BY <1>5, <1>7, <1>8, <2>1, <2>3, ZenonT(30) DEF ThrInv, ThreadInv, LiveRoot
  <2>5. TreeInv'
    <3> SUFFICES ASSUME NEW T \in SUBSET Slot, \A t \in T : Thread(t)', T # {}
                 PROVE  \E t \in T : parent[t] \notin T
      BY <1>5, ZenonT(30) DEF TreeInv
    <3>1. CASE T = {p}
      BY <1>4, <1>8, <3>1, ZenonT(30)
    <3>2. CASE T # {p}
      <4>1. PICK U \in SUBSET Slot : U = T \ {p}
        BY Zenon
      <4>2. U # {} /\ \A t \in U : Thread(t)
        BY <1>7, <3>2, <4>1, ZenonT(30)
      <4>3. PICK t \in U : parent[t] \notin U
        BY <4>2, ZenonT(30) DEF ThrInv, TreeInv
      <4>4. parent[t] # p
        BY <1>4, <4>2, ZenonT(30)
      <4> QED
        BY <4>1, <4>3, <4>4
    <3> QED
      BY <3>1, <3>2, ZenonT(30)
  <2> QED
    BY <1>10, <1>11, <2>2, <2>4, <2>5, ZenonT(30) DEF ThrInv
<1> QED
  BY <1>2, <1>12, <1>13, Zenon

\* Whoever runs has a first page in its directory.
LEMMA FirstPage ==
  ASSUME ThrInv, NEW s \in Slot, Live(s), state[s] # "ZOMBIE"
  PROVE  pgdir[s] \in Dirs /\ 0 \in mem.dir[pgdir[s]]
<1>1. CASE isThread[s] = 0
  BY <1>1, ZenonT(30) DEF Root, ThrInv, RootInv
<1>2. CASE isThread[s] = 1
  <2>1. PICK r \in Slot : LiveRoot(r) /\ pgdir[r] = pgdir[s]
    BY <1>2 DEF Thread, ThrInv, ThreadInv
  <2> QED
    BY <2>1, ZenonT(30) DEF LiveRoot, ThrInv, RootInv
<1> QED
  BY <1>1, <1>2, ZenonT(30) DEF ThrInv, ThrTypes

\* sbrk() leaves it there.
LEMMA ThrGrows ==
  ASSUME ProcInv, ThrInv, NEW c \in Cpu, NEW n \in Growth, growproc(c, n)
  PROVE  ThrInv'
<1>1. PICK s, d, old, new : s = proc[c] /\ d = pgdir[s] /\ old = sz[s] /\ new = old + n
  BY Zenon
<1>2. /\ s # None /\ kpc[s] = "user" /\ fault = "none"
      /\ UNCHANGED <<state, pgdir, isThread, parent, killed, np>>
      /\ new # 0 => UNCHANGED kpc
  BY <1>1, Zenon DEF growproc, Call, At, parkVars
<1>3. s \in Slot /\ state[s] = "RUNNING"
  BY <1>1, <1>2, Running, Zenon
<1>4. Live(s)
  BY <1>3, ZenonT(30) DEF Live
<1>5. old \in Nat \ {0} /\ new \in Nat \ {0} /\ ~(new < 0)
  <2>1. n \in Nat
    BY Zenon DEF ThrInv, Joined
  <2>2. old \in Nat /\ old > 0
    BY <1>1, <1>3, <1>4, Zenon DEF ThrInv, ThrTypes
  <2> QED
    BY <1>1, <2>1, <2>2
<1>6. UNCHANGED kpc
  BY <1>2, <1>5
<1>7. HasDirs(mem) /\ d \in DOMAIN mem.dir /\ 0 \in mem.dir[d]
  <2>1. HasDirs(mem)
    BY ZenonT(30) DEF ThrInv, ThrTypes, HasDirs, Dirs
  <2> QED
    BY <1>1, <1>3, <1>4, <2>1, FirstPage, Zenon DEF Dirs
<1>8. \/ UNCHANGED <<mem, sz>> /\ fault' # "none"
      \/ /\ UNCHANGED fault
         /\ \E r \in IF n > 0 THEN allocuvm_ret(mem, d, old, new)
                              ELSE {[sz |-> new, mem |-> deallocuvm(mem, d, old, new)]} :
              /\ mem' = r.mem
              /\ sz' = [p \in Slot |-> IF r.sz # 0 /\ p \in Resized(s) THEN r.sz ELSE sz[p]]
  BY <1>1, <1>5, SMTT(30) DEF growproc
<1>9. ASSUME /\ "dir" \in DOMAIN mem' /\ mem'.dir = [e \in Dirs |-> mem'.dir[e]]
             /\ \A e \in Dirs : 0 \in mem.dir[e] => 0 \in mem'.dir[e],
             sz' \in [Slot -> Nat] /\ \A t \in Slot : sz'[t] = sz[t] \/ sz'[t] > 0
      PROVE  ThrInv'
  <2>1. \A t \in Slot : /\ Live(t)' = Live(t) /\ Root(t)' = Root(t)
                        /\ LiveRoot(t)' = LiveRoot(t) /\ Thread(t)' = Thread(t)
                        /\ Forking(t)' => Forking(t)
    BY <1>2, <1>6, Zenon DEF Root, LiveRoot, Thread, Live, Forking
  <2>2. Dirs' = Dirs
    BY <1>9, ZenonT(30) DEF Dirs
  <2>3. RootInv' /\ ThreadInv' /\ TreeInv'
    <3>1. UNCHANGED <<pgdir, parent, np>>
      BY <1>2, Zenon
    <3> QED
      BY <1>9, <2>1, <2>2, <3>1, ThrKept, ZenonT(30)
  <2>4. ThrTypes'
    BY <1>2, <1>6, <1>9, <2>1, <2>2, ZenonT(30) DEF ThrInv, ThrTypes
  <2>5. EntryInv'
    <3>1. \A t \in Slot : kpc[t] \in Making => np[t] \in Slot
      BY Zenon DEF ProcInv, MakingInv
    <3> QED
      BY <1>2, <1>6, <1>9, <3>1, ZenonT(30) DEF ThrInv, EntryInv, Late, Making
  <2> QED
    BY <2>3, <2>4, <2>5, Zenon DEF ThrInv
<1>10. CASE UNCHANGED <<mem, sz>>
  <2>1. sz' \in [Slot -> Nat] /\ \A t \in Slot : sz'[t] = sz[t] \/ sz'[t] > 0
    BY <1>10 DEF ThrInv, ThrTypes
  <2>2. /\ "dir" \in DOMAIN mem' /\ mem'.dir = [e \in Dirs |-> mem'.dir[e]]
        /\ \A e \in Dirs : 0 \in mem.dir[e] => 0 \in mem'.dir[e]
    BY <1>7, <1>10 DEF HasDirs, Dirs
  <2> QED
    BY <1>9, <2>1, <2>2, ZenonT(30)
<1>11. ASSUME NEW k \in Nat, NEW S, 0 \in S, Puts(mem', mem, d, S),
              sz' = [p \in Slot |-> IF k # 0 /\ p \in Resized(s) THEN k ELSE sz[p]]
       PROVE  ThrInv'
  <2>1. sz' \in [Slot -> Nat] /\ \A t \in Slot : sz'[t] = sz[t] \/ sz'[t] > 0
    <3>1. sz \in [Slot -> Nat]
      BY Zenon DEF ThrInv, ThrTypes
    <3>2. k # 0 => k > 0
      OBVIOUS
    <3> QED
      BY <1>11, <3>1, <3>2, ZenonT(30)
  <2>2. /\ "dir" \in DOMAIN mem' /\ mem'.dir = [e \in Dirs |-> mem'.dir[e]]
        /\ \A e \in Dirs : 0 \in mem.dir[e] => 0 \in mem'.dir[e]
    BY <1>7, <1>11 DEF Puts, Dirs
  <2> QED
    BY <1>9, <2>1, <2>2, ZenonT(30)
<1>12. ASSUME NEW r, mem' = r.mem,
              sz' = [p \in Slot |-> IF r.sz # 0 /\ p \in Resized(s) THEN r.sz ELSE sz[p]],
              \/ r = [sz |-> 0, mem |-> mem]
              \/ r = [sz |-> new, mem |-> allocuvm(mem, d, old, new)]
              \/ r = [sz |-> new, mem |-> deallocuvm(mem, d, old, new)]
              \/ \E a \in old..new-1 : r = [sz |-> 0, mem |-> allocuvm_fail(mem, d, old, new, a)]
       PROVE  ThrInv'
  <2>1. r.sz \in Nat
    BY <1>5, <1>12
  <2>2. \E S : 0 \in S /\ Puts(mem', mem, d, S)
    <3>1. CASE r = [sz |-> 0, mem |-> mem]
      <4>1. Puts(mem', mem, d, mem.dir[d])
        BY <1>7, <1>12, <3>1 DEF Puts, HasDirs
      <4> QED
        BY <1>7, <4>1, ZenonT(30)
    <3>2. CASE r = [sz |-> new, mem |-> allocuvm(mem, d, old, new)]
      <4>1. Puts(mem', mem, d, mem.dir[d] \cup old..new-1)
        BY <1>7, <1>12, <3>2, ResizeCalls, ZenonT(30) DEF HasDirs
      <4> QED
        BY <1>7, <4>1, ZenonT(30)
    <3>3. CASE r = [sz |-> new, mem |-> deallocuvm(mem, d, old, new)]
      <4>1. Puts(mem', mem, d, mem.dir[d] \ (new..old-1))
        BY <1>7, <1>12, <3>3, ResizeCalls, Zenon DEF HasDirs
      <4>2. 0 \in mem.dir[d] \ (new..old-1)
        BY <1>5, <1>7
      <4> QED
        BY <4>1, <4>2, ZenonT(30)
    <3>4. ASSUME NEW a \in old..new-1, r = [sz |-> 0, mem |-> allocuvm_fail(mem, d, old, new, a)]
          PROVE  \E S : 0 \in S /\ Puts(mem', mem, d, S)
      <4>1. PICK m : m = allocuvm(mem, d, old, a)
        BY ZenonT(30)
      <4>2. Puts(m, mem, d, mem.dir[d] \cup old..a-1)
        BY <1>7, <4>1, ResizeCalls, ZenonT(30) DEF HasDirs
      <4>3. "dir" \in DOMAIN m /\ d \in DOMAIN m.dir /\ m.dir[d] = mem.dir[d] \cup old..a-1
        BY <4>2 DEF Puts
      <4>4. Puts(deallocuvm(m, d, new, old), m, d, m.dir[d] \ (old..new-1))
        BY <4>3, ResizeCalls, ZenonT(30)
      <4>5. mem' = deallocuvm(m, d, new, old)
        BY <1>12, <3>4, <4>1, Zenon DEF allocuvm_fail
      <4>6. Puts(mem', mem, d, m.dir[d] \ (old..new-1))
        BY <4>2, <4>4, <4>5, ZenonT(30) DEF Puts
      <4>7. 0 \in m.dir[d] \ (old..new-1)
        BY <1>5, <1>7, <4>3
      <4> QED
        BY <4>6, <4>7, Zenon
    <3> QED
      BY <1>12, <3>1, <3>2, <3>3, <3>4, ZenonT(30)
  <2> QED
    BY <1>11, <1>12, <2>1, <2>2, ZenonT(30)
<1> QED
  <2>1. ASSUME NEW r \in IF n > 0 THEN allocuvm_ret(mem, d, old, new)
                              ELSE {[sz |-> new, mem |-> deallocuvm(mem, d, old, new)]}
        PROVE  \/ r = [sz |-> 0, mem |-> mem]
               \/ r = [sz |-> new, mem |-> allocuvm(mem, d, old, new)]
               \/ r = [sz |-> new, mem |-> deallocuvm(mem, d, old, new)]
               \/ \E a \in old..new-1 : r = [sz |-> 0, mem |-> allocuvm_fail(mem, d, old, new, a)]
    BY <2>1, Zenon DEF allocuvm_ret
  <2> QED
    BY <1>8, <1>10, <1>12, <2>1, ZenonT(30)

\* The first process is no thread.
LEMMA ThrStarts == Init /\ Joined => ThrInv
<1> SUFFICES ASSUME Init, Joined PROVE ThrInv
  BY Zenon
<1>1. /\ state = [s \in Slot |-> IF s = initproc THEN "RUNNABLE" ELSE "UNUSED"]
      /\ pgdir = [s \in Slot |-> 0] /\ sz = [s \in Slot |-> IF s = initproc THEN 1 ELSE 0]
      /\ isThread = [s \in Slot |-> 0] /\ kpc = [s \in Slot |-> "user"]
      /\ killed = [s \in Slot |-> 0]
  BY Zenon DEF Init, ParkInit
<1>2. "dir" \in DOMAIN mem /\ Dirs = {0} /\ mem.dir[0] = 0..0 /\ mem.dir = [d \in Dirs |-> mem.dir[d]]
  BY FirstMemory
<1>3. \A s \in Slot : ~Forking(s) /\ ~Thread(s) /\ (Live(s) <=> s = initproc) /\ (Root(s) <=> s = initproc)
  <2>1. \A s \in Slot : isThread[s] = 0 /\ kpc[s] = "user" /\ (Live(s) <=> s = initproc)
    BY <1>1, Zenon DEF Live
  <2>2. \A s \in Slot : ~Forking(s)
    <3>1. "user" \notin {"fork_set", "fork_flag", "fork_run"}
      OBVIOUS
    <3> QED
      BY <2>1, <3>1, Zenon DEF Forking
  <2>3. \A s \in Slot : isThread[s] # 1
    <3>1. 0 # 1
      OBVIOUS
    <3> QED
      BY <2>1, <3>1, Zenon
  <2> QED
    BY <2>1, <2>2, <2>3, Zenon DEF Thread, Root
<1>4. ThrTypes
  BY <1>1, <1>2, <1>3, Entries DEF ThrTypes
<1>5. EntryInv
  BY <1>1, Zenon DEF EntryInv, Late
<1>6. RootInv
  <2>1. pgdir[initproc] = 0 /\ 0 \in mem.dir[0] /\ 0 \in Dirs
    BY <1>1, <1>2, Entries
  <2> QED
    BY <1>3, <2>1, ZenonT(30) DEF RootInv
<1>7. ThreadInv /\ TreeInv
  BY <1>3, Zenon DEF ThreadInv, TreeInv
<1> QED
  BY <1>4, <1>5, <1>6, <1>7, Zenon DEF ThrInv

\* Every step keeps it.
LEMMA ThrStep == ProcInv /\ ThrInv /\ [Next]_vars => ThrInv'
<1> SUFFICES ASSUME ProcInv, ThrInv, [Next]_vars PROVE ThrInv'
  BY Zenon
<1>1. CASE tick \/ UNCHANGED vars
  BY <1>1, ThrWakes, Zenon
<1>2. ASSUME NEW c \in Cpu, KernelStep(c) PROVE ThrInv'
  BY <1>2, NoKill, ThrEntries, ThrCopies, ThrFillSteps, ThrLaunches, ThrExits, ThrWaits, ThrSleeps, ZenonT(30) DEF KernelStep
<1>3. ASSUME NEW c \in Cpu, UserStep(c) PROVE ThrInv'
  BY <1>3, NoKill, ThrEntries, ThrSleeps, ThrWakes, ThrGrows, ZenonT(30) DEF UserStep
<1>4. ASSUME NEW c \in Cpu, scheduler(c) \/ scheduler_again(c) \/ yield(c) PROVE ThrInv'
  BY <1>4, ThrWakes, ThrSwitches, Zenon
<1> QED
  BY <1>1, <1>2, <1>3, <1>4, ZenonT(30) DEF Next

\* A thread has the memory of the process that made it for as long as it runs, if
\* programs join their threads and neither kill() nor exec() is called.
THEOREM ThreadsHaveMemoryHolds == Spec /\ Joined => []ThreadsHaveMemory
<1>1. ThrInv => ThreadsHaveMemory
  <2> SUFFICES ASSUME ThrInv, NEW s \in Slot, Live(s), isThread[s] = 1, state[s] # "ZOMBIE"
               PROVE  pgdir[s] = pgdir[parent[s]] /\ Mapped(pgdir[s], 1)
    BY DEF ThreadsHaveMemory
  <2>1. pgdir[s] = pgdir[parent[s]]
    BY DEF Thread, ThrInv, ThreadInv
  <2>2. pgdir[s] \in Dirs /\ 0 \in mem.dir[pgdir[s]]
    BY FirstPage
  <2> QED
    BY <2>1, <2>2, MappedFirst, Zenon
<1> QED
  BY <1>1, ThrStarts, ThrStep, ProcInvariant, PTL DEF Spec

=============================================================================
