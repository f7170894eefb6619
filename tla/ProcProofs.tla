----------------------------- MODULE ProcProofs -----------------------------
(***************************************************************************)
(* What holds of the process table for any number of entries and of CPUs,  *)
(* any programs, and any failures of kalloc(): first the inductive         *)
(* invariant and what the ways in which a step changes the table do to it; *)
(* then who owns memory, when there are no threads.                        *)
(***************************************************************************)
EXTENDS Proc, TLAPS

\* The places of fork() and clone() that have a new entry, and those where the
\* entry has its parent.
Making == {"fork_copy", "fork_set", "fork_flag", "fork_run",
           "clone_set", "clone_parent", "clone_run"}
Made == {"fork_flag", "fork_run", "clone_run"}

\* The types of what the other conjuncts speak of.
Types ==
  /\ state \in [Slot -> ProcState]
  /\ parent \in [Slot -> Slot \cup {None}]
  /\ proc \in [Cpu -> Slot \cup {None}]
  /\ DOMAIN kpc = Slot /\ DOMAIN chan = Slot /\ DOMAIN np = Slot /\ DOMAIN isThread = Slot

\* A process that makes another is not asleep, and has the entry for itself.
MakingInv ==
  \A s \in Slot : kpc[s] \in Making =>
    /\ state[s] \in {"RUNNING", "RUNNABLE"}
    /\ np[s] \in Slot /\ state[np[s]] = "EMBRYO"
    /\ \A t \in Slot \ {s} : kpc[t] \in Making => np[t] # np[s]
    /\ kpc[s] \in Made => parent[np[s]] = s

\* init does not exit.
InitInv == state[initproc] \in {"SLEEPING", "RUNNABLE", "RUNNING"}

\* Nobody but init is its own child.
SelfInv == \A s \in Slot \ {initproc} : Live(s) => parent[s] # s

\* Whoever sleeps in wait() or join() does so on its own entry.
WaitInv ==
  \A s \in Slot : state[s] = "SLEEPING" /\ kpc[s] \in {"wait", "join"} => chan[s] = s

\* wait() or join(), according to l, by s has no child to reap.
NoneFor(s, l) ==
  \A p \in Slot : parent[p] = s /\ state[p] = "ZOMBIE" =>
    ~(l = "wait" /\ isThread[p] = 0) /\ ~(l = "join" /\ isThread[p] = 1)

\* The inductive invariant of the process table.
ProcInv ==
  /\ Types /\ OnOneCpu /\ MakingInv /\ InitInv /\ ParentAlive /\ SelfInv
  /\ WaitInv /\ NoMissedExit

-----------------------------------------------------------------------------
\* initproc is an entry, and no entry is the null pointer.
LEMMA Entries == initproc \in Slot /\ None \notin Slot
BY ProcAssumption DEF initproc

-----------------------------------------------------------------------------
\* kill(), unpark() and wakeup() of the timer: sleepers may become RUNNABLE.
LEMMA Wakes ==
  ASSUME ProcInv, UNCHANGED <<parent, proc, kpc, np, chan, isThread>>,
         state' \in [Slot -> ProcState],
         \A s \in Slot : state'[s] = state[s] \/ (state[s] = "SLEEPING" /\ state'[s] = "RUNNABLE")
  PROVE  ProcInv'
<1> USE Entries DEF ProcInv, Types, Live
<1>1. OnOneCpu'
  BY DEF OnOneCpu
<1>2. MakingInv'
  BY ZenonT(30) DEF MakingInv
<1>3. InitInv' /\ ParentAlive' /\ SelfInv'
  BY DEF InitInv, ParentAlive, SelfInv
<1>4. WaitInv' /\ NoMissedExit'
  BY DEF WaitInv, NoMissedExit
<1> QED
  BY <1>1, <1>2, <1>3, <1>4, Zenon

\* A running process gets from one place of the kernel to another.
LEMMA Moves ==
  ASSUME ProcInv, UNCHANGED <<state, parent, proc, isThread>>,
         NEW s \in Slot, state[s] = "RUNNING", kpc[s] \notin Making,
         NEW l, l \notin Making, kpc' = [kpc EXCEPT ![s] = l],
         DOMAIN chan' = Slot, \A t \in Slot \ {s} : chan'[t] = chan[t],
         DOMAIN np' = Slot, \A t \in Slot \ {s} : np'[t] = np[t]
  PROVE  ProcInv'
<1> USE Entries DEF ProcInv, Types, Live
<1>1. OnOneCpu'
  BY Zenon DEF OnOneCpu
<1>2. MakingInv'
  BY DEF MakingInv
<1>3. InitInv' /\ ParentAlive' /\ SelfInv'
  BY Zenon DEF InitInv, ParentAlive, SelfInv
<1>4. WaitInv' /\ NoMissedExit'
  BY Zenon DEF WaitInv, NoMissedExit
<1> QED
  BY <1>1, <1>2, <1>3, <1>4, Zenon

\* fork() and clone() fill in the new entry.
LEMMA Advances ==
  ASSUME ProcInv, UNCHANGED <<state, proc, chan, np>>,
         NEW s \in Slot, kpc[s] \in Making,
         NEW l \in Making, kpc' = [kpc EXCEPT ![s] = l],
         \/ parent' = parent /\ (l \in Made => kpc[s] \in Made)
         \/ parent' = [parent EXCEPT ![np[s]] = s],
         DOMAIN isThread' = Slot, \A t \in Slot \ {np[s]} : isThread'[t] = isThread[t]
  PROVE  ProcInv'
<1> USE Entries DEF ProcInv, Types, Live
<1>1. np[s] \in Slot /\ state[np[s]] = "EMBRYO" /\ state[s] \in {"RUNNING", "RUNNABLE"}
  BY Zenon DEF MakingInv
<1>2. Types'
  BY <1>1
<1>3. OnOneCpu'
  BY Zenon DEF OnOneCpu
<1>4. MakingInv'
  BY <1>1 DEF MakingInv
<1>5. InitInv' /\ ParentAlive' /\ SelfInv'
  BY <1>1 DEF InitInv, ParentAlive, SelfInv
<1>6. WaitInv' /\ NoMissedExit'
  BY <1>1 DEF WaitInv, NoMissedExit, Making
<1> QED
  BY <1>2, <1>3, <1>4, <1>5, <1>6, Zenon

\* The running process s gives up CPU c to sleep.
LEMMA Sleeps ==
  ASSUME ProcInv, UNCHANGED <<parent, np, isThread>>,
         NEW c \in Cpu, NEW s \in Slot, proc[c] = s, kpc[s] \notin Making,
         state' = [state EXCEPT ![s] = "SLEEPING"], proc' = [proc EXCEPT ![c] = None],
         NEW l, l \notin Making, kpc' = [kpc EXCEPT ![s] = l],
         DOMAIN chan' = Slot, \A t \in Slot \ {s} : chan'[t] = chan[t],
         l \in {"wait", "join"} => chan'[s] = s, NoneFor(s, l)
  PROVE  ProcInv'
<1> USE Entries DEF ProcInv, Types, Live
<1>1. state[s] = "RUNNING" /\ \A d \in Cpu \ {c} : proc[d] # s
  BY ZenonT(30) DEF OnOneCpu
<1>2. Types'
  BY Zenon DEF ProcState
<1>3. OnOneCpu'
  BY <1>1 DEF OnOneCpu
<1>4. MakingInv'
  BY <1>1 DEF MakingInv
<1>5. InitInv' /\ ParentAlive' /\ SelfInv'
  BY <1>1 DEF InitInv, ParentAlive, SelfInv
<1>6. WaitInv'
  BY <1>1, Zenon DEF WaitInv
<1>7. NoMissedExit'
  BY <1>1 DEF NoMissedExit, NoneFor
<1> QED
  BY <1>2, <1>3, <1>4, <1>5, <1>6, <1>7, Zenon

\* yield() by s on CPU c.
LEMMA Yields ==
  ASSUME ProcInv, UNCHANGED <<parent, np, isThread, kpc, chan>>,
         NEW c \in Cpu, NEW s \in Slot, proc[c] = s,
         state' = [state EXCEPT ![s] = "RUNNABLE"], proc' = [proc EXCEPT ![c] = None]
  PROVE  ProcInv'
<1> USE Entries DEF ProcInv, Types, Live
<1>1. state[s] = "RUNNING" /\ \A d \in Cpu \ {c} : proc[d] # s
  BY Zenon DEF OnOneCpu
<1>2. Types'
  BY Zenon DEF ProcState
<1>3. OnOneCpu'
  BY <1>1 DEF OnOneCpu
<1>4. MakingInv'
  BY <1>1 DEF MakingInv
<1>5. InitInv' /\ ParentAlive' /\ SelfInv'
  BY <1>1, Zenon DEF InitInv, ParentAlive, SelfInv
<1>6. WaitInv' /\ NoMissedExit'
  BY <1>1 DEF WaitInv, NoMissedExit
<1> QED
  BY <1>2, <1>3, <1>4, <1>5, <1>6, Zenon

\* allocproc() by s takes entry p.
LEMMA Allocates ==
  ASSUME ProcInv, UNCHANGED <<parent, proc, chan, isThread>>,
         NEW s \in Slot, state[s] = "RUNNING", kpc[s] \notin Making,
         NEW p \in Slot, state[p] = "UNUSED", state' = [state EXCEPT ![p] = "EMBRYO"],
         np' = [np EXCEPT ![s] = p],
         NEW l \in Making \ Made, kpc' = [kpc EXCEPT ![s] = l]
  PROVE  ProcInv'
<1> USE Entries DEF ProcInv, Types, Live
<1>1. Types'
  BY Zenon DEF ProcState
<1>2. OnOneCpu'
  BY ZenonT(30) DEF OnOneCpu
<1>3. MakingInv'
  BY DEF MakingInv
<1>4. InitInv' /\ ParentAlive' /\ SelfInv'
  BY Zenon DEF InitInv, ParentAlive, SelfInv
<1>5. WaitInv' /\ NoMissedExit'
  BY ZenonT(30) DEF WaitInv, NoMissedExit, Making
<1> QED
  BY <1>1, <1>2, <1>3, <1>4, <1>5, Zenon

\* fork() or clone() by s is done with its entry: it is RUNNABLE, or given back.
LEMMA Ends ==
  ASSUME ProcInv, UNCHANGED <<parent, proc, chan, np, isThread>>,
         NEW s \in Slot, kpc[s] \in Making,
         \/ /\ kpc[s] \in Made
            /\ state' = [state EXCEPT ![np[s]] = "RUNNABLE"]
            /\ kpc' = [kpc EXCEPT ![s] = "user", ![np[s]] = "user"]
         \/ /\ state' = [state EXCEPT ![np[s]] = "UNUSED"]
            /\ kpc' = [kpc EXCEPT ![s] = "user"]
  PROVE  ProcInv'
<1> USE Entries DEF ProcInv, Types, Live
<1>1. np[s] \in Slot /\ state[np[s]] = "EMBRYO" /\ state[s] \in {"RUNNING", "RUNNABLE"}
  BY Zenon DEF MakingInv
<1>2. Types'
  BY <1>1 DEF ProcState
<1>3. OnOneCpu'
  BY <1>1 DEF OnOneCpu
<1>4. MakingInv'
  BY <1>1 DEF MakingInv, Making
<1>5. InitInv' /\ ParentAlive' /\ SelfInv'
  BY <1>1 DEF InitInv, ParentAlive, SelfInv, MakingInv
<1>6. WaitInv' /\ NoMissedExit'
  BY <1>1 DEF WaitInv, NoMissedExit
<1> QED
  BY <1>2, <1>3, <1>4, <1>5, <1>6, Zenon

\* exit() of s on CPU c.  Its parent is woken, and so is initproc if it gets a
\* zombie.
LEMMA Exits ==
  ASSUME ProcInv, UNCHANGED <<kpc, chan, np, isThread>>,
         NEW c \in Cpu, NEW s \in Slot, proc[c] = s, s # initproc, kpc[s] \in {"user", "gone"},
         NEW woken, parent[s] \in woken,
         (\E p \in children(s) : state[p] = "ZOMBIE") => initproc \in woken,
         state' = [wakeup1(state, woken) EXCEPT ![s] = "ZOMBIE"],
         parent' = [p \in Slot |-> IF p \in children(s) THEN initproc ELSE parent[p]],
         proc' = [proc EXCEPT ![c] = None]
  PROVE  ProcInv'
<1> USE Entries DEF ProcInv, Types, Live
<1>1. state[s] = "RUNNING" /\ \A d \in Cpu \ {c} : proc[d] # s
  BY DEF OnOneCpu
<1>2. /\ state' \in [Slot -> ProcState] /\ state'[s] = "ZOMBIE"
      /\ \A t \in Slot \ {s} :
           IF state[t] = "SLEEPING" /\ chan[t] \in woken THEN state'[t] = "RUNNABLE"
                                                        ELSE state'[t] = state[t]
  BY Zenon DEF wakeup1, ProcState
<1>3. \A p \in Slot : parent'[p] = IF parent[p] = s THEN initproc ELSE parent[p]
  BY Zenon DEF children
<1>4. Types'
  BY <1>2, Zenon
<1>5. OnOneCpu'
  BY <1>1, <1>2 DEF OnOneCpu
<1>6. MakingInv'
  BY <1>1, <1>2, <1>3 DEF MakingInv, Making
<1>7. InitInv' /\ ParentAlive' /\ SelfInv'
  BY <1>1, <1>2, <1>3 DEF InitInv, ParentAlive, SelfInv
<1>8. WaitInv'
  BY <1>1, <1>2 DEF WaitInv
<1>9. NoMissedExit'
  <2> SUFFICES ASSUME NEW t \in Slot, NEW p \in Slot,
                      state'[t] = "SLEEPING", parent'[p] = t, state'[p] = "ZOMBIE",
                      kpc[t] \in {"wait", "join"}
               PROVE  parent[p] = t /\ state[p] = "ZOMBIE"
    BY <1>2 DEF NoMissedExit
  <2>1. t # s /\ state[t] = "SLEEPING" /\ chan[t] \notin woken
    BY <1>2
  <2>2. chan[t] = t
    BY <2>1, Zenon DEF WaitInv
  <2>3. p # s
    BY <1>1, <1>3, <2>1, <2>2 DEF SelfInv
  <2>4. state[p] = "ZOMBIE"
    BY <1>2, <2>3
  <2>5. parent[p] # s
    BY <1>3, <2>1, <2>2, <2>4 DEF children
  <2> QED
    BY <1>3, <2>4, <2>5, Zenon
<1> QED
  BY <1>4, <1>5, <1>6, <1>7, <1>8, <1>9, Zenon

\* wait() or join() by s, which is running, reaps the zombie p.
LEMMA Reaps ==
  ASSUME ProcInv, UNCHANGED <<proc, np, isThread>>,
         NEW s \in Slot, state[s] = "RUNNING", kpc[s] \notin Making,
         NEW p \in Slot, state[p] = "ZOMBIE",
         state' = [state EXCEPT ![p] = "UNUSED"], parent' = [parent EXCEPT ![p] = None],
         kpc' = [kpc EXCEPT ![s] = "user"], chan' = [chan EXCEPT ![s] = None]
  PROVE  ProcInv'
<1> USE Entries DEF ProcInv, Types, Live
<1>1. Types'
  BY Zenon DEF ProcState
<1>2. OnOneCpu'
  BY ZenonT(30) DEF OnOneCpu
<1>3. MakingInv'
  BY DEF MakingInv, Making
<1>4. InitInv' /\ ParentAlive' /\ SelfInv'
  BY Zenon DEF InitInv, ParentAlive, SelfInv
<1>5. WaitInv' /\ NoMissedExit'
  BY DEF WaitInv, NoMissedExit
<1> QED
  BY <1>1, <1>2, <1>3, <1>4, <1>5, Zenon

\* scheduler() of CPU c switches to s.
LEMMA Runs ==
  ASSUME ProcInv, UNCHANGED <<parent, kpc, chan, np, isThread>>,
         NEW c \in Cpu, proc[c] = None, NEW s \in Slot, state[s] = "RUNNABLE",
         proc' = [proc EXCEPT ![c] = s], state' = [state EXCEPT ![s] = "RUNNING"]
  PROVE  ProcInv'
<1> USE Entries DEF ProcInv, Types, Live
<1>1. Types'
  BY Zenon DEF ProcState
<1>2. OnOneCpu'
  BY DEF OnOneCpu
<1>3. MakingInv'
  BY ZenonT(30) DEF MakingInv
<1>4. InitInv' /\ ParentAlive' /\ SelfInv'
  BY Zenon DEF InitInv, ParentAlive, SelfInv
<1>5. WaitInv' /\ NoMissedExit'
  BY ZenonT(30) DEF WaitInv, NoMissedExit
<1> QED
  BY <1>1, <1>2, <1>3, <1>4, <1>5, Zenon

\* The process on CPU c is running.
LEMMA Running ==
  ASSUME ProcInv, NEW c \in Cpu, proc[c] # None
  PROVE  proc[c] \in Slot /\ state[proc[c]] = "RUNNING"
BY DEF ProcInv, Types, OnOneCpu

\* A step in fork() or clone().
LEMMA MakingStep ==
  ASSUME ProcInv, NEW c \in Cpu,
         \/ fork(c) \/ clone(c)
         \/ fork_fail(c) \/ fork_copy(c) \/ fork_set(c) \/ fork_flag(c) \/ fork_run(c)
         \/ clone_fail(c) \/ clone_set(c) \/ clone_parent(c) \/ clone_run(c) \/ clone_bad(c)
  PROVE  ProcInv'
<1> DEFINE s == proc[c]
<1>1. s \in Slot /\ state[s] = "RUNNING"
  <2>1. s # None
    BY Zenon DEF fork, clone, fork_fail, fork_copy, fork_set, fork_flag, fork_run,
           clone_fail, clone_set, clone_parent, clone_run, clone_bad, giveup, launch, Call, At
  <2> QED
    BY Zenon, <2>1, Running
<1>2. CASE fork(c) \/ clone(c)
  <2> DEFINE free == {p \in Slot : state[p] = "UNUSED"}
  <2>1. /\ UNCHANGED <<parent, proc, chan, isThread>> /\ kpc[s] = "user"
        /\ \E p \in free : state' = [state EXCEPT ![p] = "EMBRYO"] /\ np' = [np EXCEPT ![s] = p]
        /\ \E l \in {"fork_copy", "clone_set"} : kpc' = [kpc EXCEPT ![s] = l]
    BY Zenon, <1>2 DEF fork, clone, allocproc, Goto, Call, At
  <2>2. PICK p \in Slot : /\ state[p] = "UNUSED"
                          /\ state' = [state EXCEPT ![p] = "EMBRYO"] /\ np' = [np EXCEPT ![s] = p]
    BY <2>1, Zenon
  <2>3. PICK l \in {"fork_copy", "clone_set"} : kpc' = [kpc EXCEPT ![s] = l]
    BY Zenon, <2>1
  <2>4. kpc[s] \notin Making /\ l \in Making \ Made
    BY <2>1, <2>3, Zenon DEF Making, Made
  <2> HIDE DEF free, s
  <2> QED
    BY ZenonT(30), <1>1, <2>1, <2>2, <2>3, <2>4, Allocates
<1>3. CASE fork_fail(c) \/ clone_fail(c) \/ clone_bad(c)
  <2>1. /\ UNCHANGED <<parent, proc, chan, np, isThread>> /\ kpc[s] \in Making
        /\ state' = [state EXCEPT ![np[s]] = "UNUSED"] /\ kpc' = [kpc EXCEPT ![s] = "user"]
    BY <1>3, Zenon DEF fork_fail, clone_fail, clone_bad, giveup, Goto, At, Making,
       procFields
  <2> HIDE DEF s
  <2> QED
    BY Zenon, <1>1, <2>1, Ends
<1>4. CASE fork_run(c) \/ clone_run(c)
  <2>1. /\ UNCHANGED <<parent, proc, chan, np, isThread>> /\ kpc[s] \in Making /\ kpc[s] \in Made
        /\ state' = [state EXCEPT ![np[s]] = "RUNNABLE"]
        /\ kpc' = [kpc EXCEPT ![s] = "user", ![np[s]] = "user"]
    BY <1>4, Zenon DEF fork_run, clone_run, launch, At, Making, Made, procFields
  <2> HIDE DEF s
  <2> QED
    BY Zenon, <1>1, <2>1, Ends
<1>5. CASE fork_copy(c) \/ fork_set(c) \/ fork_flag(c) \/ clone_set(c) \/ clone_parent(c)
  <2>1. CASE fork_copy(c)
    <3>1. /\ UNCHANGED <<state, parent, proc, chan, np, isThread>>
          /\ kpc[s] \in Making /\ kpc' = [kpc EXCEPT ![s] = "fork_set"]
      BY <2>1, Zenon DEF fork_copy, At, Goto, parkVars, Making
    <3>2. "fork_set" \in Making /\ "fork_set" \notin Made
      BY Zenon DEF Making, Made
    <3> HIDE DEF s
    <3> QED
      BY Zenon, <1>1, <3>1, <3>2, Advances DEF ProcInv, Types
  <2>2. CASE fork_set(c)
    <3>1. /\ UNCHANGED <<state, proc, chan, np, isThread>> /\ parent' = [parent EXCEPT ![np[s]] = s]
          /\ kpc[s] \in Making /\ kpc' = [kpc EXCEPT ![s] = "fork_flag"]
      BY <2>2, Zenon DEF fork_set, At, Goto, parkVars, Making
    <3>2. "fork_flag" \in Making
      BY Zenon DEF Making
    <3> HIDE DEF s
    <3> QED
      BY Zenon, <1>1, <3>1, <3>2, Advances DEF ProcInv, Types
  <2>3. CASE fork_flag(c)
    <3>1. /\ UNCHANGED <<state, parent, proc, chan, np>> /\ isThread' = [isThread EXCEPT ![np[s]] = 0]
          /\ kpc[s] \in Making /\ kpc[s] \in Made /\ kpc' = [kpc EXCEPT ![s] = "fork_run"]
      BY Zenon, <2>3 DEF fork_flag, At, Goto, parkVars, Making, Made
    <3>2. "fork_run" \in Making
      BY Zenon DEF Making
    <3> HIDE DEF s
    <3> QED
      BY Zenon, <1>1, <3>1, <3>2, Advances DEF ProcInv, Types
  <2>4. CASE clone_set(c)
    <3>1. /\ UNCHANGED <<state, parent, proc, chan, np>> /\ isThread' = [isThread EXCEPT ![np[s]] = 1]
          /\ kpc[s] \in Making /\ kpc' = [kpc EXCEPT ![s] = "clone_parent"]
      BY <2>4, Zenon DEF clone_set, At, Goto, parkVars, Making
    <3>2. "clone_parent" \in Making /\ "clone_parent" \notin Made
      BY Zenon DEF Making, Made
    <3> HIDE DEF s
    <3> QED
      BY Zenon, <1>1, <3>1, <3>2, Advances DEF ProcInv, Types
  <2>5. CASE clone_parent(c)
    <3>1. /\ UNCHANGED <<state, proc, chan, np, isThread>> /\ parent' = [parent EXCEPT ![np[s]] = s]
          /\ kpc[s] \in Making /\ kpc' = [kpc EXCEPT ![s] = "clone_run"]
      BY <2>5, Zenon DEF clone_parent, At, Goto, parkVars, Making
    <3>2. "clone_run" \in Making
      BY Zenon DEF Making
    <3> HIDE DEF s
    <3> QED
      BY Zenon, <1>1, <3>1, <3>2, Advances DEF ProcInv, Types
  <2> QED
    BY <1>5, <2>1, <2>2, <2>3, <2>4, <2>5, Zenon
<1> QED
  BY <1>2, <1>3, <1>4, <1>5, Zenon

\* The scan of wait() and of join().
LEMMA Scans ==
  ASSUME ProcInv, NEW c \in Cpu, proc[c] # None, kpc[proc[c]] \notin Making,
         NEW l, l \in {"wait", "join"}, NEW kids, NEW m,
         NEW zombies \in SUBSET Slot,
         zombies = {p \in Slot : /\ parent[p] = proc[c] /\ state[p] = "ZOMBIE"
                                 /\ isThread[p] = IF l = "wait" THEN 0 ELSE 1},
         scan(c, l, zombies, kids, m)
  PROVE  ProcInv'
<1> DEFINE s == proc[c]
<1>1. s \in Slot /\ state[s] = "RUNNING"
  BY Running, Zenon
<1>2. UNCHANGED <<isThread, np>>
  BY Zenon DEF scan
<1>3. CASE /\ \E p \in zombies : reap(p, m[p])
           /\ Goto(s, "user") /\ chan' = [chan EXCEPT ![s] = None] /\ UNCHANGED proc
  <2>1. PICK p \in Slot : state[p] = "ZOMBIE" /\ reap(p, m[p])
    BY <1>3, Zenon
  <2>2. /\ state' = [state EXCEPT ![p] = "UNUSED"]
        /\ parent' = [parent EXCEPT ![p] = None]
        /\ kpc' = [kpc EXCEPT ![s] = "user"]
    BY <1>3, <2>1, Zenon DEF reap, Goto
  <2> HIDE DEF s
  <2> QED
    BY Zenon, <1>1, <1>2, <1>3, <2>1, <2>2, Reaps DEF s
<1>4. CASE Goto(s, "user") /\ chan' = [chan EXCEPT ![s] = None] /\ UNCHANGED <<state, parent, proc>>
  <2>1. kpc' = [kpc EXCEPT ![s] = "user"] /\ "user" \notin Making
    BY <1>4, Zenon DEF Goto, Making
  <2> QED
    BY Zenon, <1>1, <1>2, <1>4, <2>1, Moves DEF ProcInv, Types
<1>5. CASE zombies = {} /\ sleep(c, s, l) /\ UNCHANGED parent
  <2>1. /\ chan' = [chan EXCEPT ![s] = s] /\ state' = [state EXCEPT ![s] = "SLEEPING"]
        /\ proc' = [proc EXCEPT ![c] = None] /\ kpc' = [kpc EXCEPT ![s] = l]
    BY <1>5, Zenon DEF sleep, sched, Goto
  <2>2. l \notin Making
    BY Zenon DEF Making
  <2>3. DOMAIN chan' = Slot /\ chan'[s] = s /\ \A t \in Slot \ {s} : chan'[t] = chan[t]
    BY <1>1, <2>1, Zenon DEF ProcInv, Types
  <2>4. NoneFor(s, l)
    BY <1>5, Zenon DEF NoneFor
  <2>5. proc[c] = s /\ kpc[s] \notin Making /\ UNCHANGED <<parent, np, isThread>>
    BY <1>2, <1>5, Zenon
  <2> HIDE DEF s
  <2> QED
    BY Zenon, <1>1, <2>1, <2>2, <2>3, <2>4, <2>5, Sleeps
<1> QED
  BY <1>3, <1>4, <1>5, Zenon DEF scan

\* A step in wait() or join().
LEMMA WaitStep ==
  ASSUME ProcInv, NEW c \in Cpu, wait(c) \/ join(c)
  PROVE  ProcInv'
<1>1. proc[c] # None /\ kpc[proc[c]] \notin Making
  BY Zenon DEF wait, join, Call, At, Making
<1>2. CASE wait(c)
  <2> DEFINE zombies == {p \in children(proc[c]) : state[p] = "ZOMBIE" /\ isThread[p] = 0}
  <2>1. zombies = {p \in Slot : parent[p] = proc[c] /\ state[p] = "ZOMBIE" /\ isThread[p] = 0}
    BY Zenon DEF children
  <2>2. scan(c, "wait", zombies, children(proc[c]), [p \in zombies |-> freevm(mem, pgdir[p])])
    BY <1>2, Zenon DEF wait
  <2> HIDE DEF zombies
  <2> QED
    BY <1>1, <2>1, <2>2, Scans
<1>3. CASE join(c)
  <2> DEFINE kids == {p \in children(proc[c]) : isThread[p] = 1}
             zombies == {p \in kids : state[p] = "ZOMBIE"}
  <2>1. zombies = {p \in Slot : parent[p] = proc[c] /\ state[p] = "ZOMBIE" /\ isThread[p] = 1}
    BY Zenon DEF children
  <2>2. scan(c, "join", zombies, kids, [p \in zombies |-> mem])
    BY <1>3, Zenon DEF join
  <2> HIDE DEF zombies, kids
  <2> QED
    BY <1>1, <2>1, <2>2, Scans
<1> QED
  BY <1>2, <1>3, Zenon

\* exit()
LEMMA ExitStep ==
  ASSUME ProcInv, NEW c \in Cpu, exit(c)
  PROVE  ProcInv'
<1> DEFINE s == proc[c]
           orphan == \E p \in children(s) : state[p] = "ZOMBIE"
           woken == {parent[s]} \cup (IF orphan THEN {initproc} ELSE {})
<1>1. leave(c, children(s), woken)
  BY Zenon DEF exit
<1>2. s # None /\ kpc[s] \in {"user", "gone"} /\ s # initproc
  BY <1>1, Zenon DEF leave, Call, At
<1>3. s \in Slot
  BY <1>2, Running, Zenon
<1>4. /\ state' = [wakeup1(state, woken) EXCEPT ![s] = "ZOMBIE"]
      /\ parent' = [p \in Slot |-> IF p \in children(s) THEN initproc ELSE parent[p]]
      /\ proc' = [proc EXCEPT ![c] = None] /\ UNCHANGED <<kpc, chan, np, isThread>>
  BY <1>1, Zenon DEF leave, sched
<1>5. parent[s] \in woken /\ ((\E p \in children(s) : state[p] = "ZOMBIE") => initproc \in woken)
  BY Zenon
<1> HIDE DEF s, woken, orphan
<1> QED
  BY Zenon, <1>2, <1>3, <1>4, <1>5, Exits DEF s

\* A step in sys_sleep(), park() or exec().
LEMMA KernelMoves ==
  ASSUME ProcInv, NEW c \in Cpu,
         \/ sys_sleep(c) \/ sleep_test(c) \/ sleep_in(c) \/ sleep_end(c)
         \/ sys_park(c) \/ park_in(c) \/ exec(c) \/ exec_commit(c) \/ exec_bad(c)
  PROVE  ProcInv'
<1> DEFINE s == proc[c]
<1>1. s # None /\ kpc[s] \notin Making
  BY ZenonT(30) DEF sys_sleep, sleep_test, sleep_in, sleep_end, sys_park, park_in,
         exec, exec_commit, exec_bad, Call, At, Making
<1>2. s \in Slot /\ state[s] = "RUNNING"
  BY ZenonT(30), <1>1, Running
<1>3. UNCHANGED <<parent, isThread>>
  BY Zenon DEF sys_sleep, sleep_test, sleep_in, sleep_end, sys_park, park_in,
         exec, exec_commit, exec_bad, procFields
<1>4. CASE sleep_in(c) \/ (park_in(c) /\ state'[s] = "SLEEPING")
  <2>1. /\ UNCHANGED np /\ proc' = [proc EXCEPT ![c] = None]
        /\ chan' = chan \/ chan' = [chan EXCEPT ![s] = Ticks]
        /\ \E l \in {"sleep", "user"} : kpc' = [kpc EXCEPT ![s] = l]
    BY <1>4, Zenon DEF sleep_in, park_in, sleep, sched, Goto, procFields
  <2>2. state' = [state EXCEPT ![s] = "SLEEPING"]
    BY <1>2, <1>4, Zenon DEF sleep_in, park_in, park, sleep
  <2>3. PICK l \in {"sleep", "user"} : kpc' = [kpc EXCEPT ![s] = l]
    BY Zenon, <2>1
  <2>4. l \notin Making /\ l \notin {"wait", "join"}
    BY Zenon DEF Making
  <2>5. DOMAIN chan' = Slot /\ \A t \in Slot \ {s} : chan'[t] = chan[t]
    BY <1>2, <2>1, Zenon DEF ProcInv, Types
  <2>6. proc[c] = s /\ NoneFor(s, l)
    BY <2>4, Zenon DEF NoneFor
  <2> HIDE DEF s
  <2> QED
    BY Zenon, <1>1, <1>2, <1>3, <2>1, <2>2, <2>3, <2>4, <2>5, <2>6, Sleeps
<1>5. CASE ~(sleep_in(c) \/ (park_in(c) /\ state'[s] = "SLEEPING"))
  <2>1. UNCHANGED <<state, proc>>
    BY ZenonT(30), <1>2, <1>5 DEF sys_sleep, sleep_test, sleep_end, sys_park, park_in,
                      park, exec, exec_commit, exec_bad, parkVars, ProcInv, Types
  <2>2. \E l \in {"sleep", "sleep_in", "user", "park_in", "exec_commit"} : kpc' = [kpc EXCEPT ![s] = l]
    BY ZenonT(30), <1>5 DEF sys_sleep, sleep_test, sleep_end, sys_park, park_in, exec,
                      exec_commit, exec_bad, Goto
  <2>3. chan' = chan \/ chan' = [chan EXCEPT ![s] = None]
    BY ZenonT(30), <1>5 DEF sys_sleep, sleep_test, sleep_end, sys_park, park_in, exec,
                      exec_commit, exec_bad, procFields
  <2>4. np' = np \/ \E d \in DirId : np' = [np EXCEPT ![s] = d]
    BY ZenonT(30), <1>5 DEF sys_sleep, sleep_test, sleep_end, sys_park, park_in, exec,
                      exec_commit, exec_bad
  <2>5. /\ DOMAIN chan' = Slot /\ \A t \in Slot \ {s} : chan'[t] = chan[t]
        /\ DOMAIN np' = Slot /\ \A t \in Slot \ {s} : np'[t] = np[t]
    BY Zenon, <1>2, <2>3, <2>4 DEF ProcInv, Types
  <2>6. PICK l \in {"sleep", "sleep_in", "user", "park_in", "exec_commit"} : kpc' = [kpc EXCEPT ![s] = l]
    BY Zenon, <2>2
  <2>7. l \notin Making
    BY Zenon DEF Making
  <2> HIDE DEF s
  <2> QED
    BY Zenon, <1>1, <1>2, <1>3, <2>1, <2>5, <2>6, <2>7, Moves
<1> QED
  BY <1>4, <1>5, Zenon

\* sbrk().
LEMMA GrowMoves ==
  ASSUME ProcInv, NEW c \in Cpu, NEW n \in Growth, growproc(c, n)
  PROVE  ProcInv'
<1>1. PICK s : s = proc[c]
  BY Zenon
<1>2. /\ s # None /\ kpc[s] = "user"
      /\ UNCHANGED <<state, parent, proc, isThread, chan, np>>
  BY <1>1, Zenon DEF growproc, Call, At, parkVars
<1>3. s \in Slot /\ state[s] = "RUNNING"
  BY <1>1, <1>2, Running, Zenon
<1>4. kpc' = kpc \/ kpc' = [kpc EXCEPT ![s] = "gone"]
  BY <1>1, Zenon DEF growproc, Goto
<1>5. Types
  BY Zenon DEF ProcInv
<1>6. CASE kpc' = kpc
  BY <1>2, <1>5, <1>6, Wakes, Zenon DEF Types
<1>7. CASE kpc' = [kpc EXCEPT ![s] = "gone"]
  <2>1. "user" \notin Making /\ "gone" \notin Making
    BY Zenon DEF Making
  <2> QED
    BY <1>2, <1>3, <1>5, <1>7, <2>1, Moves, Zenon DEF Types
<1> QED
  BY <1>4, <1>6, <1>7, Zenon

\* kill(), unpark(), the timer and what leaves the states alone.
LEMMA WakesOnly ==
  ASSUME ProcInv,
         \/ tick \/ UNCHANGED vars
         \/ \E c \in Cpu : \/ sys_setpark(c) \/ exec_fail(c) \/ scheduler_again(c)
                           \/ \E k \in 0..MaxPid : sys_kill(c, k) \/ sys_unpark(c, k)
  PROVE  /\ state' \in [Slot -> ProcState]
         /\ \A s \in Slot : state'[s] = state[s] \/ (state[s] = "SLEEPING" /\ state'[s] = "RUNNABLE")
<1>1. \/ UNCHANGED state
      \/ state' = wakeup1(state, {Ticks})
      \/ \E s \in Slot : kill(s) \/ unpark(s)
  <2>1. ASSUME NEW c \in Cpu, NEW k \in 0..MaxPid, sys_kill(c, k) \/ sys_unpark(c, k)
        PROVE  UNCHANGED state \/ \E s \in Slot : kill(s) \/ unpark(s)
    BY <2>1, Zenon DEF sys_kill, sys_unpark, lookup, parkVars
  <2> QED
    BY Zenon, <2>1 DEF tick, vars, parkVars, sys_setpark, setpark, exec_fail,
                        scheduler_again
<1> USE DEF ProcInv, Types, ProcState
<1>2. CASE UNCHANGED state
  BY <1>2, Zenon
<1>3. CASE state' = wakeup1(state, {Ticks})
  BY <1>3, Zenon DEF wakeup1
<1>4. ASSUME NEW s \in Slot, kill(s) \/ unpark(s)
      PROVE  \/ UNCHANGED state
             \/ state[s] = "SLEEPING" /\ state' = [state EXCEPT ![s] = "RUNNABLE"]
             \/ state' = [state EXCEPT ![s] = IF @ = "SLEEPING" THEN "RUNNABLE" ELSE @]
  BY Zenon, <1>4 DEF kill, unpark, unpark1, parkVars
<1> QED
  BY <1>1, <1>2, <1>3, <1>4

\* What leaves the table as it is, or only wakes.
LEMMA WakeStep ==
  ASSUME ProcInv,
         \/ tick \/ UNCHANGED vars
         \/ \E c \in Cpu : \/ sys_setpark(c) \/ exec_fail(c) \/ scheduler_again(c)
                           \/ \E k \in 0..MaxPid : sys_kill(c, k) \/ sys_unpark(c, k)
  PROVE  ProcInv'
<1>1. UNCHANGED <<parent, proc, kpc, np, chan, isThread>>
  BY ZenonT(30) DEF tick, vars, sys_setpark, exec_fail, scheduler_again,
                    sys_kill, sys_unpark, procFields
<1>2. /\ state' \in [Slot -> ProcState]
      /\ \A s \in Slot : state'[s] = state[s] \/ (state[s] = "SLEEPING" /\ state'[s] = "RUNNABLE")
  BY WakesOnly, Zenon
<1> QED
  BY <1>1, <1>2, Wakes, Zenon

\* scheduler() and yield().
LEMMA ScheduleStep ==
  ASSUME ProcInv, NEW c \in Cpu, scheduler(c) \/ yield(c)
  PROVE  ProcInv'
<1>1. CASE scheduler(c)
  <2>1. PICK s \in Slot : /\ state[s] = "RUNNABLE" /\ proc' = [proc EXCEPT ![c] = s]
                          /\ state' = [state EXCEPT ![s] = "RUNNING"]
    BY <1>1, Zenon DEF scheduler, ahead
  <2>2. /\ proc[c] = None
        /\ UNCHANGED <<parent, kpc, chan, np, isThread>>
    BY <1>1, Zenon DEF scheduler, procFields
  <2> QED
    BY ZenonT(30), <2>1, <2>2, Runs
<1>2. CASE yield(c)
  <2>1. /\ proc[c] # None /\ state' = [state EXCEPT ![proc[c]] = "RUNNABLE"]
        /\ proc' = [proc EXCEPT ![c] = None] /\ UNCHANGED <<parent, np, isThread, kpc, chan>>
    BY <1>2, Zenon DEF yield, sched, procFields
  <2>2. proc[c] \in Slot
    BY <2>1, Running, Zenon
  <2> QED
    BY Zenon, <2>1, <2>2, Yields
<1> QED
  BY <1>1, <1>2, Zenon

\* The first process and nothing else.
LEMMA InitHolds == Init => ProcInv
<1> SUFFICES ASSUME Init PROVE ProcInv
  BY Zenon
<1>1. /\ state = [s \in Slot |-> IF s = initproc THEN "RUNNABLE" ELSE "UNUSED"]
      /\ parent = [s \in Slot |-> None] /\ chan = parent
      /\ isThread = [s \in Slot |-> 0] /\ np = [s \in Slot |-> None]
      /\ proc = [c \in Cpu |-> None] /\ kpc = [s \in Slot |-> "user"]
  BY Zenon DEF Init
<1>2. Types
  BY <1>1, Zenon DEF Types, ProcState
<1>3. OnOneCpu /\ MakingInv /\ WaitInv /\ NoMissedExit
  BY <1>1, Entries, Zenon DEF OnOneCpu, MakingInv, Making, WaitInv, NoMissedExit
<1>4. InitInv /\ ParentAlive /\ SelfInv
  BY <1>1, Entries, Zenon DEF InitInv, ParentAlive, SelfInv, Live
<1> QED
  BY <1>2, <1>3, <1>4, Zenon DEF ProcInv

\* Every step keeps the invariant.
LEMMA StepHolds == ProcInv /\ [Next]_vars => ProcInv'
<1> SUFFICES ASSUME ProcInv, [Next]_vars PROVE ProcInv'
  BY Zenon
<1>1. CASE tick \/ UNCHANGED vars
  BY <1>1, WakeStep, Zenon
<1>2. ASSUME NEW c \in Cpu, KernelStep(c) PROVE ProcInv'
  BY <1>2, MakingStep, WaitStep, ExitStep, KernelMoves, Zenon DEF KernelStep
<1>3. ASSUME NEW c \in Cpu, UserStep(c) PROVE ProcInv'
  BY <1>3, MakingStep, KernelMoves, GrowMoves, WakeStep DEF UserStep
<1>4. ASSUME NEW c \in Cpu, scheduler(c) \/ scheduler_again(c) \/ yield(c) PROVE ProcInv'
  BY <1>4, ScheduleStep, WakeStep, Zenon
<1> QED
  BY <1>1, <1>2, <1>3, <1>4 DEF Next

-----------------------------------------------------------------------------
\* The invariant of the process table, for any number of entries and CPUs.
THEOREM ProcInvariant == Spec => []ProcInv
BY InitHolds, StepHolds, PTL DEF Spec

\* A process is on at most one CPU, and RUNNING just when it is on one.
THEOREM OnOneCpuHolds == Spec => []OnOneCpu
<1>1. ProcInv => OnOneCpu
  BY Zenon DEF ProcInv
<1> QED
  BY <1>1, ProcInvariant, PTL

\* exit() leaves every child to a process that has not exited.
THEOREM ParentAliveHolds == Spec => []ParentAlive
<1>1. ProcInv => ParentAlive
  BY DEF ProcInv
<1> QED
  BY <1>1, ProcInvariant, PTL

\* Nobody sleeps in wait() or join() while there is a child for it to reap.
THEOREM NoMissedExitHolds == Spec => []NoMissedExit
<1>1. ProcInv => NoMissedExit
  BY Zenon DEF ProcInv
<1> QED
  BY <1>1, ProcInvariant, PTL

-----------------------------------------------------------------------------
(***************************************************************************)
(* Memory without threads.  MemoryOwned is not inductive: fork() and       *)
(* exec() make a directory some steps before a process has it.  The        *)
(* invariant says of those in the making what it says of the others, and   *)
(* that each directory has one holder.                                     *)
(***************************************************************************)
\* What sbrk() does to memory.
GrowResults(n, d, old, new) ==
  IF n > 0 THEN allocuvm_ret(mem, d, old, new)
  ELSE IF new < 0 THEN {[sz |-> old, mem |-> mem]}
  ELSE {[sz |-> new, mem |-> deallocuvm(mem, d, old, new)]}

\* The programs make no threads, and no wild unpark().
NoThreads == "clone" \notin Syscalls /\ "badunpark" \notin Syscalls

\* Process s has made a directory that is not yet that of a process: in exec(),
\* or in fork() for the new entry.
Building(s) == kpc[s] \in {"exec_commit", "fork_set", "fork_flag", "fork_run"}
Built(s) == IF kpc[s] = "exec_commit" THEN np[s] ELSE pgdir[np[s]]
Want(s) == IF kpc[s] = "exec_commit" THEN Text ELSE sz[s]

\* The types of what the other conjuncts speak of; nobody is a thread.
MemTypes ==
  /\ DOMAIN pgdir = Slot /\ sz \in [Slot -> Nat]
  /\ "dir" \in DOMAIN mem /\ mem.dir = [d \in Dirs |-> mem.dir[d]]
  /\ \A s \in Slot : isThread[s] = 0 /\ kpc[s] \notin {"clone_set", "clone_parent", "clone_run"}

\* exec() does not sleep before it commits, and fork() has copied sz.
BuildInv ==
  \A s \in Slot :
    /\ kpc[s] = "exec_commit" => state[s] \in {"RUNNING", "RUNNABLE"}
    /\ kpc[s] \in {"fork_flag", "fork_run"} => sz[np[s]] = sz[s]

\* The pages of process s: sbrk() has taken them all if it is to die of that.
Pages(s) == IF kpc[s] = "gone" THEN {} ELSE 0..sz[s]-1

\* Directories and those who hold them are one to one.
DirInv ==
  /\ \A s \in Slot : Live(s) => pgdir[s] \in Dirs /\ mem.dir[pgdir[s]] = Pages(s)
  /\ \A s \in Slot : Building(s) => Built(s) \in Dirs /\ mem.dir[Built(s)] = 0..Want(s)-1
  /\ \A s, t \in Slot : Live(s) /\ Live(t) /\ pgdir[s] = pgdir[t] => s = t
  /\ \A s, t \in Slot : Building(s) /\ Building(t) /\ Built(s) = Built(t) => s = t
  /\ \A s, t \in Slot : Building(s) /\ Live(t) => Built(s) # pgdir[t]
  /\ \A d \in Dirs : \E s \in Slot : (Live(s) /\ pgdir[s] = d) \/ (Building(s) /\ Built(s) = d)

MemInv == NoThreads /\ MemTypes /\ BuildInv /\ DirInv /\ fault = "none"

\* The memory x is m but for directory d, which has the pages of S, or is gone.
Puts(x, m, d, S) ==
  "dir" \in DOMAIN x /\ x.dir = [e \in DOMAIN m.dir \cup {d} |-> IF e = d THEN S ELSE m.dir[e]]
Drops(x, m, d) ==
  "dir" \in DOMAIN x /\ x.dir = [e \in DOMAIN m.dir \ {d} |-> m.dir[e]]

\* The directories of memory m are a function.
HasDirs(m) == "dir" \in DOMAIN m /\ m.dir = [d \in DOMAIN m.dir |-> m.dir[d]]

\* What process t holds is as before.
HoldsSame(t) ==
  /\ Live(t)' = Live(t) /\ Building(t)' = Building(t)
  /\ Live(t) => pgdir'[t] = pgdir[t] /\ Pages(t)' = Pages(t)
  /\ Building(t) => Built(t)' = Built(t) /\ Want(t)' = Want(t)

\* Nobody's directory changes.
LEMMA DirsSame ==
  ASSUME DirInv, mem'.dir = mem.dir, \A t \in Slot : HoldsSame(t)
  PROVE  DirInv'
BY SMTT(30) DEF DirInv, HoldsSame, Dirs

\* fork() or exec() by s has made d.
LEMMA DirMade ==
  ASSUME DirInv, NEW s \in Slot, NEW d, d \notin Dirs, Puts(mem', mem, d, 0..Want(s)'-1),
         \A t \in Slot \ {s} : HoldsSame(t),
         Live(s) /\ Live(s)' /\ ~Building(s) /\ Building(s)',
         pgdir'[s] = pgdir[s], Pages(s)' = Pages(s), Built(s)' = d
  PROVE  DirInv'
BY SMTT(30) DEF DirInv, HoldsSame, Puts, Dirs

\* fork() by s has passed its directory on to p.
LEMMA DirPassed ==
  ASSUME DirInv, NEW s \in Slot, NEW p \in Slot, p # s, mem'.dir = mem.dir,
         \A t \in Slot \ {s, p} : HoldsSame(t),
         Live(s) /\ Live(s)' /\ Building(s) /\ ~Building(s)', pgdir'[s] = pgdir[s], Pages(s)' = Pages(s),
         ~Live(p) /\ ~Building(p) /\ ~Building(p)' /\ Live(p)',
         pgdir'[p] = Built(s), Pages(p)' = 0..Want(s)-1
  PROVE  DirInv'
BY SMTT(30) DEF DirInv, HoldsSame, Dirs

\* exec() by s has replaced its directory.
LEMMA DirReplaced ==
  ASSUME DirInv, NEW s \in Slot, 
         \A t \in Slot \ {s} : HoldsSame(t),
         Live(s) /\ Live(s)' /\ Building(s) /\ ~Building(s)', pgdir'[s] = Built(s),
         NEW m, Puts(m, mem, Built(s), Pages(s)'), Drops(mem', m, pgdir[s])
  PROVE  DirInv'
<1>1. Built(s) \in Dirs /\ pgdir[s] \in Dirs /\ Built(s) # pgdir[s]
  BY Zenon DEF DirInv
<1>2. /\ Dirs' = Dirs \ {pgdir[s]}
      /\ \A d \in Dirs' : mem'.dir[d] = IF d = Built(s) THEN Pages(s)' ELSE mem.dir[d]
  BY <1>1 DEF Puts, Drops, Dirs
<1>3. \A t \in Slot \ {s} : /\ Live(t)' => Live(t) /\ pgdir'[t] = pgdir[t] /\ Pages(t)' = Pages(t)
                            /\ Building(t)' => Building(t) /\ Built(t)' = Built(t) /\ Want(t)' = Want(t)
  BY Zenon DEF HoldsSame
<1>4. \A t \in Slot \ {s} : /\ Live(t) => pgdir[t] # pgdir[s] /\ pgdir[t] # Built(s)
                            /\ Building(t) => Built(t) # pgdir[s] /\ Built(t) # Built(s)
  BY Zenon DEF DirInv
<1>5. \A t \in Slot : Live(t)' => pgdir'[t] \in Dirs' /\ mem'.dir[pgdir'[t]] = Pages(t)'
  BY <1>1, <1>2, <1>3, <1>4 DEF DirInv
<1>6. \A t \in Slot : Building(t)' => Built(t)' \in Dirs' /\ mem'.dir[Built(t)'] = 0..Want(t)'-1
  BY <1>2, <1>3, <1>4 DEF DirInv
<1>7. \A t, u \in Slot : Live(t)' /\ Live(u)' /\ pgdir'[t] = pgdir'[u] => t = u
  BY <1>3, <1>4 DEF DirInv
<1>8. \A t, u \in Slot : Building(t)' /\ Building(u)' /\ Built(t)' = Built(u)' => t = u
  BY <1>3 DEF DirInv
<1>9. \A t, u \in Slot : Building(t)' /\ Live(u)' => Built(t)' # pgdir'[u]
  BY <1>3, <1>4 DEF DirInv
<1>10. \A d \in Dirs' : \E t \in Slot : (Live(t)' /\ pgdir'[t] = d) \/ (Building(t)' /\ Built(t)' = d)
  <2> SUFFICES ASSUME NEW d \in Dirs'
               PROVE  \E t \in Slot : (Live(t)' /\ pgdir'[t] = d) \/ (Building(t)' /\ Built(t)' = d)
    BY Zenon
  <2>1. PICK t \in Slot : (Live(t) /\ pgdir[t] = d) \/ (Building(t) /\ Built(t) = d)
    BY <1>2, Zenon DEF DirInv
  <2>2. CASE t = s
    BY <1>2, <2>1, <2>2, Zenon
  <2>3. CASE t # s
    BY <2>1, <2>3, Zenon DEF HoldsSame
  <2> QED
    BY <2>2, <2>3, Zenon
<1> QED
  BY <1>5, <1>6, <1>7, <1>8, <1>9, <1>10, Zenon DEF DirInv

\* exec() by s has given up its directory.
LEMMA DirUnmade ==
  ASSUME DirInv, NEW s \in Slot, Drops(mem', mem, Built(s)),
         \A t \in Slot \ {s} : HoldsSame(t),
         Live(s) /\ Live(s)' /\ Building(s) /\ ~Building(s)', pgdir'[s] = pgdir[s], Pages(s)' = Pages(s)
  PROVE  DirInv'
BY SMTT(30) DEF DirInv, HoldsSame, Drops, Dirs

\* The directory of p is freed with it.
LEMMA DirFreed ==
  ASSUME DirInv, NEW p \in Slot, Drops(mem', mem, pgdir[p]),
         \A t \in Slot \ {p} : HoldsSame(t),
         Live(p) /\ ~Live(p)' /\ ~Building(p) /\ ~Building(p)'
  PROVE  DirInv'
BY SMTT(30) DEF DirInv, HoldsSame, Drops, Dirs

\* Process s is resized.
LEMMA DirResized ==
  ASSUME DirInv, NEW s \in Slot, Puts(mem', mem, pgdir[s], Pages(s)'),
         \A t \in Slot \ {s} : HoldsSame(t),
         Live(s) /\ Live(s)' /\ ~Building(s) /\ ~Building(s)', pgdir'[s] = pgdir[s]
  PROVE  DirInv'
BY SMTT(30) DEF DirInv, HoldsSame, Puts, Dirs

\* kalloc(), kfree() and a setupkvm() that fails leave the directories alone.
LEMMA PageCalls ==
  ASSUME NEW m, "dir" \in DOMAIN m
  PROVE  /\ "dir" \in DOMAIN kalloc(m) /\ kalloc(m).dir = m.dir
         /\ "dir" \in DOMAIN kfree(m) /\ kfree(m).dir = m.dir
         /\ \A k : "dir" \in DOMAIN setupkvm_fail(m, k) /\ setupkvm_fail(m, k).dir = m.dir
BY Zenon DEF kalloc, kfree, setupkvm_fail

\* allocuvm() and deallocuvm() change one directory.
LEMMA ResizeCalls ==
  ASSUME NEW m, "dir" \in DOMAIN m, NEW d \in DOMAIN m.dir, NEW a, NEW b
  PROVE  /\ Puts(allocuvm(m, d, a, b), m, d, m.dir[d] \cup a..b-1)
         /\ Puts(deallocuvm(m, d, a, b), m, d, m.dir[d] \ (b..a-1))
BY Zenon DEF allocuvm, deallocuvm, Puts

\* A new directory has the pages asked for.
LEMMA MakeCalls ==
  ASSUME NEW m, "dir" \in DOMAIN m, NEW d, NEW n
  PROVE  Puts(allocuvm(setupkvm(m, d), d, 0, n), m, d, 0..n-1)
<1> DEFINE x == setupkvm(m, d)
<1>1. "dir" \in DOMAIN x /\ x.dir = [e \in DOMAIN m.dir \cup {d} |-> IF e = d THEN {} ELSE m.dir[e]]
  BY Zenon DEF setupkvm
<1> HIDE DEF x
<1>2. d \in DOMAIN x.dir
  BY <1>1, Zenon
<1>3. Puts(allocuvm(x, d, 0, n), x, d, x.dir[d] \cup 0..n-1)
  BY <1>1, <1>2, ResizeCalls, Zenon
<1>4. x.dir[d] \cup 0..n-1 = 0..n-1
  BY <1>1
<1>5. Puts(allocuvm(x, d, 0, n), m, d, 0..n-1)
  BY <1>1, <1>3, <1>4, Zenon DEF Puts
<1> QED
  BY <1>5, Zenon DEF x

\* freevm() takes one away.
LEMMA FreeCall ==
  ASSUME NEW m, "dir" \in DOMAIN m, NEW d
  PROVE  Drops(freevm(m, d), m, d)
<1> DEFINE x == deallocuvm(m, d, USERTOP, 0)
<1>1. /\ "dir" \in DOMAIN x /\ DOMAIN x.dir = DOMAIN m.dir
      /\ \A e \in DOMAIN m.dir \ {d} : x.dir[e] = m.dir[e]
  BY DEF deallocuvm
<1> HIDE DEF x
<1>3. freevm(m, d) = [x EXCEPT !.free = @ + KPT + 1, !.dir = [e \in DOMAIN @ \ {d} |-> @[e]]]
  BY Zenon DEF freevm, x
<1>4. "dir" \in DOMAIN freevm(m, d) /\ freevm(m, d).dir = [e \in DOMAIN x.dir \ {d} |-> x.dir[e]]
  BY <1>1, <1>3
<1> QED
  BY <1>1, <1>4 DEF Drops

\* A copyuvm() that fails takes away what it made.
LEMMA UnmakeCall ==
  ASSUME NEW m, "dir" \in DOMAIN m, NEW d, d \notin DOMAIN m.dir, NEW n,
         m.dir = [e \in DOMAIN m.dir |-> m.dir[e]]
  PROVE  "dir" \in DOMAIN copyuvm_fail(m, d, n) /\ copyuvm_fail(m, d, n).dir = m.dir
<1> DEFINE x == copyuvm(m, d, n)
<1>1. Puts(x, m, d, 0..n-1)
  BY MakeCalls, Zenon DEF copyuvm
<1> HIDE DEF x
<1>2. "dir" \in DOMAIN x
  BY <1>1 DEF Puts
<1>3. Drops(freevm(x, d), x, d)
  BY <1>2, FreeCall, Zenon
<1>4. "dir" \in DOMAIN freevm(x, d) /\ freevm(x, d).dir = m.dir
  BY <1>1, <1>3 DEF Puts, Drops
<1> QED
  BY <1>4, Zenon DEF copyuvm_fail, x

\* Nobody's directory changes.
LEMMA MemSame ==
  ASSUME MemInv, UNCHANGED <<pgdir, sz, isThread, fault>>,
         "dir" \in DOMAIN mem', mem'.dir = mem.dir,
         \A t \in Slot : /\ Live(t)' = Live(t)
                         /\ kpc[t] = "exec_commit" => state'[t] \in {"RUNNING", "RUNNABLE"},
         \A t \in Slot : \/ kpc'[t] = kpc[t] /\ np'[t] = np[t]
                         \/ /\ ~Building(t) /\ ~Building(t)' /\ kpc[t] # "gone" /\ kpc'[t] # "gone"
                            /\ kpc'[t] \notin {"clone_set", "clone_parent", "clone_run"}
  PROVE  MemInv'
<1>1. \A t \in Slot : HoldsSame(t)
  BY DEF HoldsSame, Building, Built, Want, Pages
<1>2. DirInv'
  BY <1>1, DirsSame, Zenon DEF MemInv
<1>3. MemTypes'
  BY DEF MemInv, MemTypes, Dirs
<1>4. BuildInv'
  BY DEF MemInv, BuildInv, Building
<1> QED
  BY <1>2, <1>3, <1>4, Zenon DEF MemInv

\* A running process gets from one place of the kernel to another, and may go to
\* sleep there.
LEMMA MemMoves ==
  ASSUME MemInv, UNCHANGED <<pgdir, sz, isThread, fault>>,
         "dir" \in DOMAIN mem', mem'.dir = mem.dir,
         NEW s \in Slot, state[s] = "RUNNING", ~Building(s), kpc[s] # "gone",
         \A t \in Slot \ {s} : state'[t] = state[t] /\ kpc'[t] = kpc[t] /\ np'[t] = np[t],
         state'[s] \in {"RUNNING", "SLEEPING"},
         kpc'[s] \in {"user", "wait", "join", "sleep", "sleep_in", "park_in"}
  PROVE  MemInv'
<1>1. \A t \in Slot : /\ Live(t)' = Live(t)
                      /\ kpc[t] = "exec_commit" => state'[t] \in {"RUNNING", "RUNNABLE"}
  BY DEF MemInv, BuildInv, Live, Building
<1>2. \A t \in Slot : \/ kpc'[t] = kpc[t] /\ np'[t] = np[t]
                      \/ /\ ~Building(t) /\ ~Building(t)' /\ kpc[t] # "gone" /\ kpc'[t] # "gone"
                         /\ kpc'[t] \notin {"clone_set", "clone_parent", "clone_run"}
  BY DEF Building
<1> QED
  BY <1>1, <1>2, MemSame, Zenon

\* Sleepers are woken.
LEMMA MemWakes ==
  ASSUME MemInv, UNCHANGED <<pgdir, sz, isThread, fault, kpc, np>>,
         "dir" \in DOMAIN mem', mem'.dir = mem.dir,
         \A s \in Slot : state'[s] = state[s] \/ (state[s] = "SLEEPING" /\ state'[s] = "RUNNABLE")
  PROVE  MemInv'
<1>1. \A t \in Slot : /\ Live(t)' = Live(t)
                      /\ kpc[t] = "exec_commit" => state'[t] \in {"RUNNING", "RUNNABLE"}
  BY DEF MemInv, BuildInv, Live
<1> QED
  BY <1>1, MemSame, Zenon

\* scheduler(), yield() and exit().
LEMMA MemSwitches ==
  ASSUME ProcInv, MemInv, NEW c \in Cpu, scheduler(c) \/ yield(c) \/ exit(c)
  PROVE  MemInv'
<1>1. UNCHANGED <<pgdir, sz, isThread, fault, kpc, np, mem>>
  BY Zenon DEF scheduler, yield, exit, leave, procFields, memVars
<1>2. \A t \in Slot : /\ Live(t)' = Live(t)
                      /\ kpc[t] = "exec_commit" => state'[t] \in {"RUNNING", "RUNNABLE"}
  <2>1. CASE scheduler(c)
    <3>1. PICK s \in Slot : state[s] = "RUNNABLE" /\ state' = [state EXCEPT ![s] = "RUNNING"]
      BY <2>1, Zenon DEF scheduler, ahead
    <3> QED
      BY <3>1 DEF ProcInv, Types, MemInv, BuildInv, Live
  <2>2. CASE yield(c)
    <3>1. proc[c] # None /\ state' = [state EXCEPT ![proc[c]] = "RUNNABLE"]
      BY <2>2, Zenon DEF yield
    <3>2. proc[c] \in Slot /\ state[proc[c]] = "RUNNING"
      BY <3>1, Running, ZenonT(30)
    <3> QED
      BY <3>1, <3>2 DEF ProcInv, Types, MemInv, BuildInv, Live
  <2>3. CASE exit(c)
    <3>1. PICK woken : /\ proc[c] # None /\ kpc[proc[c]] \in {"user", "gone"}
                       /\ state' = [wakeup1(state, woken) EXCEPT ![proc[c]] = "ZOMBIE"]
      BY <2>3, Zenon DEF exit, leave, Call, At
    <3>2. proc[c] \in Slot /\ state[proc[c]] = "RUNNING"
      BY <3>1, Running, Zenon
    <3>3. \A t \in Slot \ {proc[c]} : state'[t] = state[t] \/ (state[t] = "SLEEPING" /\ state'[t] = "RUNNABLE")
      BY <3>1, <3>2, Zenon DEF wakeup1
    <3>4. state'[proc[c]] = "ZOMBIE"
      BY <3>1, <3>2, ZenonT(30) DEF wakeup1
    <3> QED
      BY <3>1, <3>2, <3>3, <3>4 DEF ProcInv, Types, MemInv, BuildInv, Live
  <2> QED
    BY <2>1, <2>2, <2>3, Zenon
<1>3. "dir" \in DOMAIN mem' /\ mem'.dir = mem.dir
  BY <1>1 DEF MemInv, MemTypes
<1> QED
  BY <1>1, <1>2, <1>3, MemSame, Zenon

\* What sets no process up and takes none away, but for sbrk().
LEMMA MemQuiet ==
  ASSUME ProcInv, MemInv,
         \/ tick \/ UNCHANGED vars
         \/ \E c \in Cpu : \/ sys_setpark(c) \/ exec_fail(c) \/ scheduler_again(c)
                           \/ \E k \in 0..MaxPid : sys_kill(c, k) \/ sys_unpark(c, k),
         \A s \in Slot : state'[s] = state[s] \/ (state[s] = "SLEEPING" /\ state'[s] = "RUNNABLE")
  PROVE  MemInv'
<1>1. UNCHANGED <<pgdir, sz, isThread, kpc, np>>
  BY ZenonT(30) DEF tick, vars, sys_setpark, exec_fail, scheduler_again,
                    sys_kill, sys_unpark, procFields
<1>2. UNCHANGED fault
  <2>1. ASSUME NEW c \in Cpu, NEW k \in 0..MaxPid, sys_unpark(c, k) PROVE UNCHANGED fault
    BY <2>1, Zenon DEF sys_unpark, MemInv, NoThreads
  <2> QED
    BY <2>1, Zenon DEF tick, vars, sys_setpark, exec_fail, scheduler_again, sys_kill
<1>3. "dir" \in DOMAIN mem' /\ mem'.dir = mem.dir
  <2>1. "dir" \in DOMAIN mem
    BY Zenon DEF MemInv, MemTypes
  <2>2. mem' = mem \/ mem' \in Unmade(mem)
    BY Zenon DEF tick, vars, sys_setpark, exec_fail, scheduler_again, sys_kill,
       sys_unpark, memVars
  <2>3. mem' = mem \/ \E k : mem' = setupkvm_fail(mem, k)
    BY <2>2, Zenon DEF Unmade
  <2> QED
    BY <2>1, <2>3, PageCalls, Zenon
<1> QED
  BY <1>1, <1>2, <1>3, MemWakes, Zenon

\* A step in sys_sleep() or park().
LEMMA MemSleeps ==
  ASSUME ProcInv, MemInv, NEW c \in Cpu,
         \/ sys_sleep(c) \/ sleep_test(c) \/ sleep_in(c) \/ sleep_end(c)
         \/ sys_park(c) \/ park_in(c)
  PROVE  MemInv'
<1>1. PICK s : s = proc[c]
  BY Zenon
<1>2. s # None /\ kpc[s] \in {"user", "sleep", "sleep_in", "park_in"}
  BY <1>1, Zenon DEF sys_sleep, sleep_test, sleep_in, sleep_end, sys_park, park_in, Call, At
<1>3. s \in Slot /\ state[s] = "RUNNING"
  BY <1>1, <1>2, Running, Zenon
<1>4. UNCHANGED <<pgdir, sz, isThread, fault, mem, np>>
  BY ZenonT(30) DEF sys_sleep, sleep_test, sleep_in, sleep_end, sys_park, park_in,
     procFields, memVars
<1>5. \E l \in {"user", "sleep", "sleep_in", "park_in"} : kpc' = [kpc EXCEPT ![s] = l]
  BY <1>1, Zenon DEF sys_sleep, sleep_test, sleep_in, sleep_end, sys_park, park_in,
     sleep, Goto
<1>6. state' = state \/ state' = [state EXCEPT ![s] = "SLEEPING"]
  BY <1>1, Zenon DEF sys_sleep, sleep_test, sleep_in, sleep_end, sys_park, park_in, park,
                     sleep, parkVars
<1>7. /\ \A t \in Slot \ {s} : state'[t] = state[t] /\ kpc'[t] = kpc[t] /\ np'[t] = np[t]
      /\ state'[s] \in {"RUNNING", "SLEEPING"}
      /\ kpc'[s] \in {"user", "wait", "join", "sleep", "sleep_in", "park_in"}
  BY <1>3, <1>4, <1>5, <1>6, Zenon DEF ProcInv, Types
<1>8. "dir" \in DOMAIN mem' /\ mem'.dir = mem.dir /\ ~Building(s) /\ kpc[s] # "gone"
  BY <1>2, <1>4, Zenon DEF MemInv, MemTypes, Building
<1> QED
  BY <1>3, <1>4, <1>7, <1>8, MemMoves, Zenon

\* wait() and join(): p is freed with its directory, or none is.
LEMMA MemWaits ==
  ASSUME ProcInv, MemInv, NEW c \in Cpu, wait(c) \/ join(c)
  PROVE  MemInv'
<1>1. PICK s : s = proc[c]
  BY Zenon
<1>2. s # None /\ kpc[s] \in {"user", "wait", "join"}
  BY <1>1, Zenon DEF wait, join, Call, At
<1>3. s \in Slot /\ state[s] = "RUNNING"
  BY <1>1, <1>2, Running, Zenon
<1>4. UNCHANGED <<pgdir, sz, isThread, fault, np>>
  BY Zenon DEF wait, join, scan
<1>5. \/ \E p \in Slot : /\ state[p] = "ZOMBIE" /\ reap(p, freevm(mem, pgdir[p]))
                         /\ kpc' = [kpc EXCEPT ![s] = "user"]
      \/ kpc' = [kpc EXCEPT ![s] = "user"] /\ UNCHANGED <<state, mem>>
      \/ \E l \in {"wait", "join"} : /\ kpc' = [kpc EXCEPT ![s] = l] /\ UNCHANGED mem
                                     /\ state' = [state EXCEPT ![s] = "SLEEPING"]
  <2>1. CASE wait(c)
    <3>1. PICK zombies, kids, m : 
             /\ zombies = {p \in children(s) : state[p] = "ZOMBIE" /\ isThread[p] = 0}
             /\ m = [p \in zombies |-> freevm(mem, pgdir[p])]
             /\ scan(c, "wait", zombies, kids, m)
      BY <2>1, <1>1, Zenon DEF wait
    <3>2. \A p \in zombies : p \in Slot /\ state[p] = "ZOMBIE" /\ m[p] = freevm(mem, pgdir[p])
      BY <3>1, Zenon DEF children
    <3> QED
      BY <1>1, <3>1, <3>2, Zenon DEF scan, sleep, Goto, memVars
  <2>2. CASE join(c)
    <3>1. PICK zombies, kids, m :
             zombies \subseteq {p \in Slot : isThread[p] = 1} /\ scan(c, "join", zombies, kids, m)
      BY <2>2, <1>1, Zenon DEF join, children
    <3>2. zombies = {}
      BY <3>1 DEF MemInv, MemTypes
    <3> QED
      BY <1>1, <3>1, <3>2, Zenon DEF scan, sleep, Goto, memVars
  <2> QED
    BY <2>1, <2>2, Zenon
<1>6. ~Building(s) /\ "dir" \in DOMAIN mem /\ kpc[s] # "gone"
  BY <1>2, Zenon DEF MemInv, MemTypes, Building
<1>7. CASE UNCHANGED mem /\ \/ kpc' = [kpc EXCEPT ![s] = "user"] /\ UNCHANGED <<state, mem>>
                            \/ \E l \in {"wait", "join"} : /\ kpc' = [kpc EXCEPT ![s] = l]
                                                           /\ state' = [state EXCEPT ![s] = "SLEEPING"]
  <2>1. /\ \A t \in Slot \ {s} : state'[t] = state[t] /\ kpc'[t] = kpc[t] /\ np'[t] = np[t]
        /\ state'[s] \in {"RUNNING", "SLEEPING"}
        /\ kpc'[s] \in {"user", "wait", "join", "sleep", "sleep_in", "park_in"}
    BY <1>3, <1>4, <1>7, Zenon DEF ProcInv, Types
  <2>2. "dir" \in DOMAIN mem' /\ mem'.dir = mem.dir
    BY <1>6, <1>7, Zenon
  <2> QED
    BY <1>3, <1>4, <1>6, <2>1, <2>2, MemMoves, Zenon
<1>8. ASSUME NEW p \in Slot, state[p] = "ZOMBIE", reap(p, freevm(mem, pgdir[p])),
             kpc' = [kpc EXCEPT ![s] = "user"]
      PROVE  MemInv'
  <2>1. state' = [state EXCEPT ![p] = "UNUSED"] /\ mem' = kfree(freevm(mem, pgdir[p]))
    BY <1>8, Zenon DEF reap
  <2>2. Drops(freevm(mem, pgdir[p]), mem, pgdir[p])
    BY <1>6, FreeCall, Zenon
  <2>3. Drops(mem', mem, pgdir[p])
    <3>1. "dir" \in DOMAIN freevm(mem, pgdir[p])
      BY <2>2, Zenon DEF Drops
    <3>2. "dir" \in DOMAIN mem' /\ mem'.dir = freevm(mem, pgdir[p]).dir
      BY <2>1, <3>1, PageCalls, ZenonT(30)
    <3> QED
      BY <2>2, <3>2, Zenon DEF Drops
  <2>4. /\ ~Building(p) /\ ~Building(p)' /\ Live(p) /\ ~Live(p)' /\ p # s
        /\ kpc[p] # "exec_commit"
    BY <1>3, <1>8, <2>1, ZenonT(30) DEF ProcInv, Types, MakingInv, Making, MemInv, BuildInv, Building, Live
  <2>5. \A t \in Slot \ {p} : HoldsSame(t)
    <3>1. /\ \A t \in Slot \ {p} : state'[t] = state[t]
          /\ kpc'[s] = "user" /\ \A t \in Slot \ {s} : kpc'[t] = kpc[t]
      BY <1>3, <1>8, <2>1, ZenonT(30) DEF ProcInv, Types
    <3>2. \A t \in Slot \ {p, s} : HoldsSame(t)
      BY <1>4, <3>1, ZenonT(30) DEF Building, Live, HoldsSame, Built, Want, Pages
    <3>3. HoldsSame(s)
      <4>1. Building(s)' = Building(s)
        BY <1>2, <3>1 DEF Building
      <4>2. Pages(s)' = Pages(s) /\ Live(s)' = Live(s)
        BY <1>3, <1>4, <1>6, <2>4, <3>1, ZenonT(30) DEF Pages, Live
      <4> QED
        BY <1>4, <1>6, <4>1, <4>2, ZenonT(30) DEF HoldsSame
    <3> QED
      BY <3>2, <3>3, Zenon
  <2>6. DirInv'
    BY <2>3, <2>4, <2>5, DirFreed, ZenonT(30) DEF MemInv
  <2>7. MemTypes'
    <3>1. "dir" \in DOMAIN mem' /\ mem'.dir = [d \in Dirs' |-> mem'.dir[d]]
      BY <2>3 DEF Drops, Dirs
    <3>2. DOMAIN pgdir' = Slot /\ sz' \in [Slot -> Nat] /\ \A t \in Slot : isThread'[t] = 0
      BY <1>4, Zenon DEF MemInv, MemTypes
    <3>3. \A t \in Slot : kpc'[t] = "user" \/ kpc'[t] = kpc[t]
      BY <1>3, <1>8, ZenonT(30) DEF ProcInv, Types
    <3>4. \A t \in Slot : kpc'[t] \notin {"clone_set", "clone_parent", "clone_run"}
      BY <3>3, ZenonT(30) DEF MemInv, MemTypes
    <3> QED
      BY <3>1, <3>2, <3>4, Zenon DEF MemTypes
  <2>8. BuildInv'
    BY <1>3, <1>4, <1>6, <1>8, <2>1, <2>4 DEF MemInv, BuildInv, ProcInv, Types, Building
  <2> QED
    BY <1>4, <2>6, <2>7, <2>8, Zenon DEF MemInv
<1> QED
  BY <1>5, <1>7, <1>8, Zenon

\* There are no threads to make.
LEMMA NoClone ==
  ASSUME ProcInv, MemInv, NEW c \in Cpu
  PROVE  ~(clone(c) \/ clone_fail(c) \/ clone_set(c) \/ clone_parent(c) \/ clone_run(c) \/ clone_bad(c))
<1>1. ~clone(c)
  BY Zenon DEF clone, Call, MemInv, NoThreads
<1>2. proc[c] # None => proc[c] \in Slot
  BY Running, Zenon
<1>3. ~(clone_fail(c) \/ clone_set(c) \/ clone_parent(c) \/ clone_run(c) \/ clone_bad(c))
  BY <1>2, Zenon DEF clone_fail, clone_set, clone_parent, clone_run, clone_bad, giveup,
     launch, At,
                     MemInv, MemTypes
<1> QED
  BY <1>1, <1>3, Zenon

\* fork() leaves the directories there are alone, whatever kalloc() does.
LEMMA ForkFails ==
  ASSUME HasDirs(mem), NEW c \in Cpu, fork(c) \/ fork_fail(c)
  PROVE  "dir" \in DOMAIN mem' /\ mem'.dir = mem.dir
<1>1. PICK m : m = kalloc(mem)
  BY Zenon
<1>2. "dir" \in DOMAIN m /\ m.dir = mem.dir
  BY <1>1, PageCalls, Zenon DEF HasDirs
<1>3. \/ mem' = mem
      \/ \E x \in Unmade(m) : mem' = kfree(x)
      \/ \E d \in DirId : NewDir(d) /\ \E a : mem' = kfree(copyuvm_fail(m, d, a))
  BY <1>1, Zenon DEF fork, fork_fail, allocproc, memVars
<1>4. ASSUME NEW x \in Unmade(m), mem' = kfree(x) PROVE "dir" \in DOMAIN mem' /\ mem'.dir = mem.dir
  <2>1. x = m \/ \E k : x = setupkvm_fail(m, k)
    BY Zenon DEF Unmade
  <2>2. "dir" \in DOMAIN x /\ x.dir = m.dir
    BY <1>2, <2>1, PageCalls, Zenon
  <2> QED
    BY <1>2, <1>4, <2>2, PageCalls, Zenon
<1>5. ASSUME NEW d, NEW a, NewDir(d), mem' = kfree(copyuvm_fail(m, d, a))
      PROVE  "dir" \in DOMAIN mem' /\ mem'.dir = mem.dir
  <2>1. d \notin DOMAIN m.dir
    BY <1>2, <1>5, Zenon DEF NewDir, Dirs
  <2>2. m.dir = [e \in DOMAIN m.dir |-> m.dir[e]]
    BY <1>2 DEF HasDirs
  <2>3. "dir" \in DOMAIN copyuvm_fail(m, d, a) /\ copyuvm_fail(m, d, a).dir = m.dir
    BY <1>2, <2>1, <2>2, UnmakeCall, ZenonT(30)
  <2> QED
    BY <1>2, <1>5, <2>3, PageCalls, Zenon
<1> QED
  BY <1>3, <1>4, <1>5, Zenon DEF HasDirs

\* fork() takes an entry, or gives it up.
LEMMA MemForks ==
  ASSUME ProcInv, MemInv, NEW c \in Cpu, fork(c) \/ fork_fail(c)
  PROVE  MemInv'
<1>1. PICK s : s = proc[c]
  BY Zenon
<1>2. s # None /\ kpc[s] \in {"user", "fork_copy"}
  BY <1>1, Zenon DEF fork, fork_fail, giveup, Call, At
<1>3. s \in Slot /\ state[s] = "RUNNING"
  BY <1>1, <1>2, Running, Zenon
<1>4. UNCHANGED <<pgdir, sz, isThread, fault>>
  BY Zenon DEF fork, fork_fail, giveup, allocproc, procFields
<1>5. \E p \in Slot : /\ state[p] \in {"UNUSED", "EMBRYO"}
                      /\ \E st \in {"UNUSED", "EMBRYO"} : state' = [state EXCEPT ![p] = st]
  <2>1. CASE fork(c)
    BY <2>1, Zenon DEF fork, allocproc
  <2>2. CASE fork_fail(c)
    <3>1. state' = [state EXCEPT ![np[s]] = "UNUSED"] /\ kpc[s] = "fork_copy"
      BY <1>1, <2>2, Zenon DEF fork_fail, giveup, At
    <3>2. np[s] \in Slot /\ state[np[s]] = "EMBRYO"
      BY <1>3, <3>1, ZenonT(30) DEF ProcInv, MakingInv, Making
    <3> QED
      BY <3>1, <3>2, Zenon
  <2> QED
    BY <2>1, <2>2, Zenon
<1>6. \A t \in Slot : Live(t)' = Live(t) /\ (kpc[t] = "exec_commit" => state'[t] \in {"RUNNING", "RUNNABLE"})
  BY <1>5 DEF MemInv, BuildInv, Live, ProcInv, Types
<1>7. \E l \in {"user", "fork_copy"} : kpc' = [kpc EXCEPT ![s] = l]
  BY <1>1, Zenon DEF fork, fork_fail, giveup, allocproc, Goto
<1>8. np' = np \/ \E p : np' = [np EXCEPT ![s] = p]
  BY <1>1, Zenon DEF fork, fork_fail, giveup, allocproc
<1>9. \A t \in Slot : \/ kpc'[t] = kpc[t] /\ np'[t] = np[t]
                      \/ /\ ~Building(t) /\ ~Building(t)' /\ kpc[t] # "gone" /\ kpc'[t] # "gone"
                         /\ kpc'[t] \notin {"clone_set", "clone_parent", "clone_run"}
  BY <1>2, <1>3, <1>7, <1>8 DEF Building, ProcInv, Types
<1>10. "dir" \in DOMAIN mem' /\ mem'.dir = mem.dir
  <2>1. HasDirs(mem)
    BY DEF MemInv, MemTypes, HasDirs, Dirs
  <2> QED
    BY <2>1, ForkFails, Zenon
<1> QED
  BY <1>4, <1>6, <1>9, <1>10, MemSame, Zenon

\* fork() copies the memory of its process.
LEMMA MemCopies ==
  ASSUME ProcInv, MemInv, NEW c \in Cpu, fork_copy(c)
  PROVE  MemInv'
<1>1. PICK s : s = proc[c]
  BY Zenon
<1>2. s # None /\ kpc[s] = "fork_copy" /\ kpc' = [kpc EXCEPT ![s] = "fork_set"]
  BY <1>1, Zenon DEF fork_copy, At, Goto
<1>3. s \in Slot /\ state[s] = "RUNNING"
  BY <1>1, <1>2, Running, Zenon
<1>4. PICK p \in Slot : p = np[s] /\ state[p] = "EMBRYO"
  BY <1>2, <1>3, Zenon DEF ProcInv, MakingInv, Making
<1>5. UNCHANGED <<state, sz, isThread, np>>
  BY Zenon DEF fork_copy, parkVars
<1>6. Live(s)
  BY <1>3 DEF Live
<1>7. Mapped(pgdir[s], sz[s])
  <2>1. pgdir[s] \in Dirs /\ mem.dir[pgdir[s]] = 0..sz[s]-1
    BY <1>2, <1>3, <1>6, Zenon DEF MemInv, DirInv, Pages
  <2> QED
    BY <2>1, Zenon DEF Mapped, Present
<1>8. PICK d \in DirId : /\ NewDir(d) /\ mem' = copyuvm(kalloc(mem), d, sz[s])
                         /\ pgdir' = [pgdir EXCEPT ![p] = d] /\ UNCHANGED fault
  BY <1>1, <1>4, <1>7, Zenon DEF fork_copy
<1>9. Puts(mem', mem, d, 0..sz[s]-1)
  <2>1. PICK m : m = kalloc(mem)
    BY Zenon
  <2>2. "dir" \in DOMAIN m /\ m.dir = mem.dir
    BY <2>1, PageCalls, Zenon DEF MemInv, MemTypes
  <2>3. Puts(mem', m, d, 0..sz[s]-1)
    BY <1>8, <2>1, <2>2, MakeCalls, ZenonT(30) DEF copyuvm
  <2> QED
    BY <2>2, <2>3, Zenon DEF Puts
<1>10. /\ Live(s)' /\ ~Building(s) /\ Building(s)' /\ pgdir'[s] = pgdir[s]
       /\ Built(s)' = d /\ Want(s)' = sz[s] /\ Pages(s)' = Pages(s)
  BY <1>2, <1>3, <1>4, <1>5, <1>8
     DEF Live, Building, Built, Want, Pages, ProcInv, Types, MemInv, MemTypes
<1>11. \A t \in Slot \ {s} : Building(t) => (np[t] # p /\ np[t] \in Slot) \/ kpc[t] = "exec_commit"
  BY <1>2, <1>3, <1>4, ZenonT(30) DEF Building, ProcInv, MakingInv, Making
<1>12. \A t \in Slot \ {s} : HoldsSame(t)
  BY <1>2, <1>3, <1>4, <1>5, <1>8, <1>11, ZenonT(30) 
     DEF HoldsSame, Live, Building, Built, Want, Pages, ProcInv, Types, MemInv, MemTypes
<1>13. DirInv'
  <2>1. d \notin Dirs
    BY <1>8, ZenonT(30) DEF NewDir
  <2> QED
    BY <1>3, <1>5, <1>6, <1>9, <1>10, <1>12, <2>1, DirMade DEF MemInv
<1>14. MemTypes'
  BY <1>2, <1>3, <1>5, <1>8, <1>9, ZenonT(30) DEF MemInv, MemTypes, Puts, Dirs, ProcInv, Types
<1>15. BuildInv'
  BY <1>2, <1>3, <1>5 DEF MemInv, BuildInv, ProcInv, Types
<1> QED
  BY <1>8, <1>13, <1>14, <1>15, Zenon DEF MemInv

\* fork() fills in the new entry.
LEMMA MemFills ==
  ASSUME ProcInv, MemInv, NEW c \in Cpu, fork_set(c) \/ fork_flag(c)
  PROVE  MemInv'
<1>1. PICK s : s = proc[c]
  BY Zenon
<1>2. /\ s # None /\ kpc[s] \in {"fork_set", "fork_flag"}
      /\ \E l \in {"fork_flag", "fork_run"} : kpc' = [kpc EXCEPT ![s] = l]
  BY <1>1, Zenon DEF fork_set, fork_flag, At, Goto
<1>3. s \in Slot /\ state[s] = "RUNNING"
  BY <1>1, <1>2, Running, Zenon
<1>4. PICK p \in Slot : p = np[s] /\ state[p] = "EMBRYO"
  BY <1>2, <1>3, Zenon DEF ProcInv, MakingInv, Making
<1>5. UNCHANGED <<state, pgdir, np, mem, fault>>
  BY Zenon DEF fork_set, fork_flag, parkVars, memVars
<1>6. /\ sz' = [sz EXCEPT ![p] = sz[s]] \/ (sz' = sz /\ kpc[s] = "fork_flag")
      /\ isThread' = isThread \/ isThread' = [isThread EXCEPT ![p] = 0]
  BY <1>1, <1>4, ZenonT(30) DEF fork_set, fork_flag, At
<1>7. p # s /\ ~Live(p) /\ ~Building(p)
  BY <1>2, <1>3, <1>4, ZenonT(30) DEF Live, Building, MemInv, BuildInv, ProcInv, MakingInv, Making
<1>8. sz' \in [Slot -> Nat] /\ sz'[p] = sz[s] /\ \A t \in Slot \ {p} : sz'[t] = sz[t]
  BY <1>2, <1>3, <1>4, <1>6, ZenonT(30) DEF MemInv, MemTypes, BuildInv
<1>9. \A t \in Slot : HoldsSame(t)
  <2>1. kpc'[s] \in {"fork_flag", "fork_run"} /\ \A t \in Slot \ {s} : kpc'[t] = kpc[t]
    BY <1>2, <1>3, ZenonT(30) DEF ProcInv, Types
  <2>2. \A t \in Slot \ {s, p} : HoldsSame(t)
    BY <1>5, <1>8, <2>1, ZenonT(30) DEF HoldsSame, Live, Building, Built, Want, Pages
  <2>3. HoldsSame(p)
    BY <1>5, <1>7, <2>1, ZenonT(30) DEF HoldsSame, Live, Building
  <2>4. HoldsSame(s)
    <3>1. Building(s)' /\ Building(s) /\ Live(s)' = Live(s) /\ Pages(s)' = Pages(s)
      BY <1>2, <1>3, <1>5, <1>7, <1>8, <2>1, ZenonT(30) DEF Building, Live, Pages
    <3>2. Built(s)' = Built(s) /\ Want(s)' = Want(s)
      BY <1>2, <1>3, <1>5, <1>7, <1>8, <2>1, ZenonT(30) DEF Built, Want
    <3> QED
      BY <1>5, <3>1, <3>2, Zenon DEF HoldsSame
  <2> QED
    BY <2>2, <2>3, <2>4, Zenon
<1>10. DirInv'
  BY <1>5, <1>9, DirsSame DEF MemInv
<1>11. MemTypes'
  <2>1. \A t \in Slot : isThread'[t] = 0
    BY <1>4, <1>6 DEF MemInv, MemTypes, ProcInv, Types
  <2>2. \A t \in Slot : kpc'[t] \notin {"clone_set", "clone_parent", "clone_run"}
    BY <1>2, <1>3 DEF MemInv, MemTypes, ProcInv, Types
  <2> QED
    BY <1>5, <1>8, <2>1, <2>2, ZenonT(30) DEF MemInv, MemTypes, Dirs
<1>12. BuildInv'
  <2>1. ASSUME NEW t \in Slot, kpc'[t] \in {"fork_flag", "fork_run"} PROVE sz'[np[t]] = sz'[t]
    <3>1. CASE t = s
      BY <1>4, <1>7, <1>8, <3>1
    <3>2. CASE t # s
      <4>1. kpc[t] \in {"fork_flag", "fork_run"}
        BY <1>2, <1>3, <2>1, <3>2 DEF ProcInv, Types
      <4>2. t # p
        BY <1>7, <4>1, ZenonT(30) DEF Building
      <4>3. np[t] # p /\ np[t] \in Slot
        BY <1>2, <1>3, <1>4, <3>2, <4>1, ZenonT(30) DEF ProcInv, MakingInv, Making
      <4> QED
        BY <1>8, <4>1, <4>2, <4>3, ZenonT(30) DEF MemInv, BuildInv
    <3> QED
      BY <3>1, <3>2
  <2>2. \A t \in Slot : kpc'[t] = "exec_commit" => kpc[t] = "exec_commit"
    BY <1>2, <1>3 DEF ProcInv, Types
  <2> QED
    BY <1>5, <2>1, <2>2 DEF MemInv, BuildInv
<1> QED
  BY <1>5, <1>10, <1>11, <1>12, Zenon DEF MemInv

\* The new process runs.
LEMMA MemLaunches ==
  ASSUME ProcInv, MemInv, NEW c \in Cpu, fork_run(c)
  PROVE  MemInv'
<1>1. PICK s : s = proc[c]
  BY Zenon
<1>2. s # None /\ kpc[s] = "fork_run"
  BY <1>1, Zenon DEF fork_run, launch, At
<1>3. s \in Slot /\ state[s] = "RUNNING"
  BY <1>1, <1>2, Running, Zenon
<1>4. PICK p \in Slot : p = np[s] /\ state[p] = "EMBRYO"
  BY <1>2, <1>3, Zenon DEF ProcInv, MakingInv, Making
<1>5. /\ UNCHANGED <<pgdir, sz, isThread, np, mem, fault>>
      /\ state' = [state EXCEPT ![p] = "RUNNABLE"]
      /\ kpc' = [kpc EXCEPT ![s] = "user", ![p] = "user"]
  BY <1>1, <1>4, Zenon DEF fork_run, launch, procFields, memVars
<1>6. p # s /\ ~Live(p) /\ ~Building(p)
  BY <1>3, <1>4, ZenonT(30) DEF Live, Building, MemInv, BuildInv, ProcInv, MakingInv, Making
<1>7. /\ kpc'[s] = "user" /\ kpc'[p] = "user" /\ state'[p] = "RUNNABLE"
      /\ \A t \in Slot \ {s, p} : kpc'[t] = kpc[t]
      /\ \A t \in Slot \ {p} : state'[t] = state[t]
  BY <1>3, <1>5, <1>6 DEF ProcInv, Types
<1>8. /\ Live(s) /\ Live(s)' /\ Building(s) /\ ~Building(s)' /\ ~Building(p)' /\ Live(p)'
      /\ pgdir'[p] = Built(s) /\ Pages(p)' = 0..Want(s)-1 /\ Pages(s)' = Pages(s)
  BY <1>2, <1>3, <1>4, <1>5, <1>6, <1>7 DEF Live, Building, Built, Want, Pages, MemInv, BuildInv
<1>9. \A t \in Slot \ {s, p} : HoldsSame(t)
  BY <1>5, <1>7, Zenon DEF HoldsSame, Live, Building, Built, Want, Pages
<1>10. DirInv'
  BY <1>3, <1>5, <1>6, <1>8, <1>9, DirPassed, Zenon DEF MemInv
<1>11. MemTypes'
  BY <1>5, <1>7, Zenon DEF MemInv, MemTypes, Dirs
<1>12. BuildInv'
  BY <1>5, <1>6, <1>7, ZenonT(30) DEF MemInv, BuildInv, Building
<1> QED
  BY <1>5, <1>10, <1>11, <1>12, Zenon DEF MemInv

\* exec() makes a directory for the new image.
LEMMA MemExecs ==
  ASSUME ProcInv, MemInv, NEW c \in Cpu, exec(c)
  PROVE  MemInv'
<1>1. PICK s : s = proc[c]
  BY Zenon
<1>2. s # None /\ kpc[s] = "user" /\ kpc' = [kpc EXCEPT ![s] = "exec_commit"]
  BY <1>1, Zenon DEF exec, Call, At, Goto
<1>3. s \in Slot /\ state[s] = "RUNNING"
  BY <1>1, <1>2, Running, Zenon
<1>4. UNCHANGED <<state, pgdir, sz, isThread, fault>>
  BY Zenon DEF exec, parkVars, procFields
<1>5. PICK d \in DirId : /\ NewDir(d) /\ mem' = allocuvm(setupkvm(mem, d), d, 0, Text)
                         /\ np' = [np EXCEPT ![s] = d]
  BY <1>1, Zenon DEF exec
<1>6. Puts(mem', mem, d, 0..Text-1)
  BY <1>5, MakeCalls, Zenon DEF MemInv, MemTypes
<1>7. /\ kpc'[s] = "exec_commit" /\ np'[s] = d
      /\ \A t \in Slot \ {s} : kpc'[t] = kpc[t] /\ np'[t] = np[t]
  BY <1>2, <1>3, <1>5, Zenon DEF ProcInv, Types
<1>8. /\ Live(s) /\ Live(s)' /\ ~Building(s) /\ Building(s)' /\ Built(s)' = d /\ Want(s)' = Text
      /\ Pages(s)' = Pages(s)
  BY <1>2, <1>3, <1>4, <1>7, ZenonT(30) DEF Live, Building, Built, Want, Pages
<1>9. \A t \in Slot \ {s} : HoldsSame(t)
  BY <1>4, <1>7, ZenonT(30) DEF HoldsSame, Live, Building, Built, Want, Pages
<1>10. DirInv'
  <2>1. d \notin Dirs
    BY <1>5, Zenon DEF NewDir
  <2> QED
    BY <1>3, <1>4, <1>6, <1>8, <1>9, <2>1, DirMade DEF MemInv
<1>11. MemTypes'
  BY <1>4, <1>6, <1>7, ZenonT(30) DEF MemInv, MemTypes, Puts, Dirs
<1>12. BuildInv'
  BY <1>3, <1>4, <1>7 DEF MemInv, BuildInv
<1> QED
  BY <1>4, <1>10, <1>11, <1>12, Zenon DEF MemInv

\* exec() puts it in the place of the old one, or gives it up.
LEMMA MemCommits ==
  ASSUME ProcInv, MemInv, NEW c \in Cpu, exec_commit(c) \/ exec_bad(c)
  PROVE  MemInv'
<1>1. PICK s : s = proc[c]
  BY Zenon
<1>2. s # None /\ kpc[s] = "exec_commit" /\ kpc' = [kpc EXCEPT ![s] = "user"]
  BY <1>1, Zenon DEF exec_commit, exec_bad, At, Goto
<1>3. s \in Slot /\ state[s] = "RUNNING"
  BY <1>1, <1>2, Running, Zenon
<1>4. UNCHANGED <<state, isThread, np, fault>>
  BY Zenon DEF exec_commit, exec_bad, parkVars, procFields
<1>5. kpc'[s] = "user" /\ \A t \in Slot \ {s} : kpc'[t] = kpc[t]
  BY <1>2, <1>3, Zenon DEF ProcInv, Types
<1>6. Live(s) /\ Live(s)' /\ Building(s) /\ ~Building(s)' /\ Built(s) = np[s]
  BY <1>2, <1>3, <1>4, <1>5, ZenonT(30) DEF Live, Building, Built
<1>7. "dir" \in DOMAIN mem /\ np[s] \in Dirs /\ mem.dir[np[s]] = 0..Text-1 /\ pgdir[s] \in Dirs
  <2>1. Want(s) = Text
    BY <1>2, Zenon DEF Want
  <2>2. Built(s) \in Dirs /\ mem.dir[Built(s)] = 0..Want(s)-1 /\ pgdir[s] \in Dirs
    BY <1>3, <1>6, Zenon DEF MemInv, DirInv
  <2> QED
    BY <1>6, <2>1, <2>2, Zenon DEF MemInv, MemTypes
<1>8. \A t \in Slot \ {s} : Building(t) => kpc[t] = "exec_commit" \/ (np[t] \in Slot \ {s})
  BY <1>3, Zenon DEF ProcInv, MakingInv, Making, Building
<1>9. CASE exec_commit(c)
  <2>1. /\ mem' = freevm(allocuvm(mem, np[s], Text, Text + 1), pgdir[s])
        /\ pgdir' = [pgdir EXCEPT ![s] = np[s]] /\ sz' = [sz EXCEPT ![s] = Text + 1]
    BY <1>1, <1>9, Zenon DEF exec_commit
  <2>2. PICK m : m = allocuvm(mem, np[s], Text, Text + 1)
    BY Zenon
  <2>3. Puts(m, mem, np[s], mem.dir[np[s]] \cup Text..(Text+1)-1)
    BY <1>7, <2>2, ResizeCalls, ZenonT(30) DEF Dirs
  <2>4. mem.dir[np[s]] \cup Text..(Text+1)-1 = 0..(Text+1)-1
    BY <1>7 DEF Text
  <2>5. Puts(m, mem, np[s], 0..(Text+1)-1)
    BY <2>3, <2>4, Zenon
  <2>6. Drops(mem', m, pgdir[s])
    <3>1. "dir" \in DOMAIN m
      BY <2>5, ZenonT(30) DEF Puts
    <3> QED
      BY <2>1, <2>2, <3>1, FreeCall, Zenon
  <2>7. /\ pgdir'[s] = np[s] /\ sz'[s] = Text + 1 /\ sz' \in [Slot -> Nat]
        /\ \A t \in Slot \ {s} : pgdir'[t] = pgdir[t] /\ sz'[t] = sz[t]
    BY <1>3, <2>1, SMTT(30) DEF MemInv, MemTypes, Text
  <2>8. \A t \in Slot \ {s} : HoldsSame(t)
    BY <1>4, <1>5, <1>8, <2>7 DEF HoldsSame, Live, Building, Built, Want, Pages
  <2>9. DirInv'
    <3>1. Puts(m, mem, Built(s), Pages(s)') /\ pgdir'[s] = Built(s)
      BY <1>5, <1>6, <2>5, <2>7, ZenonT(30) DEF Pages
    <3> QED
      BY <1>3, <1>6, <2>6, <2>8, <3>1, DirReplaced, Zenon DEF MemInv
  <2>10. MemTypes'
    BY <1>4, <1>5, <2>1, <2>6, <2>7, ZenonT(30) DEF MemInv, MemTypes, Drops, Dirs
  <2>11. BuildInv'
    <3>1. "user" \notin {"exec_commit", "fork_flag", "fork_run"}
      OBVIOUS
    <3>2. ASSUME NEW t \in Slot, kpc'[t] \in {"fork_flag", "fork_run"}
          PROVE  t # s /\ np[t] \in Slot \ {s}
      <4>1. t # s /\ kpc[t] \in {"fork_flag", "fork_run"}
        BY <1>5, <3>1, <3>2, Zenon
      <4>2. Building(t) /\ kpc[t] # "exec_commit"
        BY <4>1, Zenon DEF Building
      <4> QED
        BY <1>8, <4>1, <4>2, Zenon
    <3>3. \A t \in Slot : kpc'[t] = "exec_commit" => kpc[t] = "exec_commit"
      BY <1>5, <3>1, Zenon
    <3>4. BuildInv
      BY Zenon DEF MemInv
    <3> QED
      BY <1>4, <1>5, <2>7, <3>2, <3>3, <3>4, ZenonT(30) DEF BuildInv
  <2> QED
    BY <1>4, <2>9, <2>10, <2>11, Zenon DEF MemInv
<1>10. CASE exec_bad(c)
  <2>1. mem' = freevm(mem, np[s]) /\ UNCHANGED <<pgdir, sz>>
    BY <1>1, <1>10, Zenon DEF exec_bad, procFields
  <2>2. Drops(mem', mem, Built(s))
    BY <1>6, <1>7, <2>1, FreeCall, ZenonT(30)
  <2>3. \A t \in Slot \ {s} : HoldsSame(t)
    BY <1>4, <1>5, <2>1 DEF HoldsSame, Live, Building, Built, Want, Pages
  <2>4. DirInv'
    <3>1. Pages(s)' = Pages(s)
      BY <1>2, <1>5, <2>1, Zenon DEF Pages
    <3> QED
      BY <1>3, <1>6, <2>1, <2>2, <2>3, <3>1, DirUnmade, ZenonT(30) DEF MemInv
  <2>5. MemTypes'
    BY <1>4, <1>5, <2>1, <2>2, ZenonT(30) DEF MemInv, MemTypes, Drops, Dirs
  <2>6. BuildInv'
    BY <1>3, <1>4, <1>5, <2>1 DEF MemInv, BuildInv
  <2> QED
    BY <1>4, <2>4, <2>5, <2>6, Zenon DEF MemInv
<1> QED
  BY <1>9, <1>10, Zenon

\* What is left of the pages when those from b on go.
LEMMA Shortened ==
  ASSUME NEW a \in Nat, NEW b \in Nat, b <= a
  PROVE  (0..a-1) \ (b..a-1) = 0..b-1
OBVIOUS

\* sbrk() changes the size of its process.
LEMMA MemGrows ==
  ASSUME ProcInv, MemInv, NEW c \in Cpu, NEW n \in Growth, growproc(c, n)
  PROVE  MemInv'
<1>1. PICK s, d, old, new : s = proc[c] /\ d = pgdir[s] /\ old = sz[s] /\ new = old + n
  BY Zenon
<1>2. /\ s # None /\ kpc[s] = "user" /\ UNCHANGED <<state, pgdir, isThread, np>>
      /\ IF new = 0 THEN kpc' = [kpc EXCEPT ![s] = "gone"] ELSE UNCHANGED kpc
  BY <1>1, Zenon DEF growproc, Call, At, Goto, parkVars
<1>3. s \in Slot /\ state[s] = "RUNNING"
  BY <1>1, <1>2, Running, Zenon
<1>4. /\ old \in Nat /\ n \in Int /\ (n > 0 => new > old) /\ (~(n > 0) => new <= old) /\ new \in Int
  BY <1>1, <1>3, ProcAssumption DEF MemInv, MemTypes
<1>5. kpc'[s] = (IF new = 0 THEN "gone" ELSE "user") /\ \A t \in Slot \ {s} : kpc'[t] = kpc[t]
  BY <1>2, <1>3, Zenon DEF ProcInv, Types
<1>6. Live(s) /\ Live(s)' /\ ~Building(s) /\ ~Building(s)'
  BY <1>2, <1>3, <1>5, Zenon DEF Live, Building
<1>7. "dir" \in DOMAIN mem /\ d \in DOMAIN mem.dir /\ mem.dir[d] = 0..old-1
  BY <1>1, <1>2, <1>3, <1>6, Zenon DEF MemInv, MemTypes, DirInv, Dirs, Pages
<1>8. ~(new <= USERTOP /\ remap(d, old, new))
  BY <1>4, <1>7 DEF remap, Present
<1>9. PICK r \in GrowResults(n, d, old, new) :
        /\ mem' = r.mem /\ UNCHANGED fault
        /\ sz' = [p \in Slot |-> IF r.sz # 0 /\ p \in Resized(s) THEN r.sz ELSE sz[p]]
  BY <1>1, <1>8, SMTT(30) DEF growproc, GrowResults
<1>10. Resized(s) = {s}
  <2>1. \A p \in Slot : isThread[p] = 0
    BY Zenon DEF MemInv, MemTypes
  <2>2. 0 # 1
    OBVIOUS
  <2>3. \A p \in Slot : isThread[p] # 1
    BY <2>1, <2>2, Zenon
  <2> QED
    BY <1>3, <2>3, ZenonT(30) DEF Resized
<1>11. ASSUME NEW k \in Nat, r.sz = k,
              Puts(mem', mem, d, IF new = 0 THEN {} ELSE 0..(IF k = 0 THEN old ELSE k)-1)
       PROVE  MemInv'
  <2>1. /\ sz' \in [Slot -> Nat] /\ sz'[s] = (IF k = 0 THEN old ELSE k)
        /\ \A t \in Slot \ {s} : sz'[t] = sz[t]
    BY <1>1, <1>3, <1>9, <1>10, <1>11, Zenon DEF MemInv, MemTypes
  <2>2. \A t \in Slot \ {s} : HoldsSame(t)
    BY <1>2, <1>5, <2>1, ZenonT(30) DEF HoldsSame, Live, Building, Built, Want, Pages
  <2>3. Puts(mem', mem, pgdir[s], Pages(s)')
    BY <1>1, <1>5, <1>11, <2>1, ZenonT(30) DEF Pages
  <2>4. DirInv'
    BY <1>2, <1>3, <1>6, <2>2, <2>3, DirResized, ZenonT(30) DEF MemInv
  <2>5. MemTypes'
    BY <1>2, <1>3, <1>5, <1>11, <2>1, ZenonT(30) DEF MemInv, MemTypes, Puts, Dirs
  <2>6. BuildInv'
    <3>1. \A t \in Slot : kpc[t] \in {"fork_flag", "fork_run"} => t # s /\ np[t] \in Slot \ {s}
      BY <1>2, <1>3, ZenonT(30) DEF ProcInv, MakingInv, Making
    <3> QED
      BY <1>2, <1>5, <2>1, <3>1, ZenonT(30) DEF MemInv, BuildInv
  <2> QED
    BY <1>9, <2>4, <2>5, <2>6, ZenonT(30) DEF MemInv
<1>12. CASE r = [sz |-> new, mem |-> deallocuvm(mem, d, old, new)] /\ ~(n > 0) /\ ~(new < 0)
  <2>1. Puts(mem', mem, d, mem.dir[d] \ (new..old-1))
    BY <1>7, <1>9, <1>12, ResizeCalls, Zenon
  <2>2. new \in Nat /\ new <= old
    BY <1>4, <1>12
  <2>3. mem.dir[d] \ (new..old-1) = 0..new-1
    BY <1>4, <1>7, <2>2, Shortened, Zenon
  <2>4. 0..new-1 = IF new = 0 THEN {} ELSE 0..(IF new = 0 THEN old ELSE new)-1
    BY <2>2
  <2>5. r.sz = new
    BY <1>12
  <2> QED
    BY <1>11, <2>1, <2>2, <2>3, <2>4, <2>5, ZenonT(30)
<1>13. CASE r = [sz |-> 0, mem |-> mem] /\ n > 0
  <2>1. Puts(mem', mem, d, 0..old-1)
    BY <1>7, <1>9, <1>13, ZenonT(30) DEF Puts, MemInv, MemTypes, Dirs
  <2>2. new # 0 /\ 0 \in Nat
    BY <1>4, <1>13
  <2> QED
    BY <1>11, <1>13, <2>1, <2>2, ZenonT(30)
<1>14. CASE r = [sz |-> old, mem |-> mem] /\ new < 0
  <2>1. Puts(mem', mem, d, 0..old-1)
    BY <1>7, <1>9, <1>14, ZenonT(30) DEF Puts, MemInv, MemTypes, Dirs
  <2>2. new # 0 /\ r.sz = old
    BY <1>14
  <2> QED
    BY <1>4, <1>11, <2>1, <2>2, ZenonT(30)
<1>15. CASE r = [sz |-> new, mem |-> allocuvm(mem, d, old, new)] /\ n > 0
  <2>1. Puts(mem', mem, d, mem.dir[d] \cup old..new-1)
    BY <1>7, <1>9, <1>15, ResizeCalls, Zenon
  <2>2. mem.dir[d] \cup old..new-1 = 0..new-1
    BY <1>4, <1>7, <1>15
  <2>3. new # 0 /\ new \in Nat /\ r.sz = new
    BY <1>4, <1>15
  <2> QED
    BY <1>11, <2>1, <2>2, <2>3, ZenonT(30)
<1>16. ASSUME NEW a \in old..new-1, r = [sz |-> 0, mem |-> allocuvm_fail(mem, d, old, new, a)]
       PROVE  MemInv'
  <2>1. PICK m : m = allocuvm(mem, d, old, a)
    BY Zenon
  <2>2. Puts(m, mem, d, mem.dir[d] \cup old..a-1)
    BY <1>7, <2>1, ResizeCalls, ZenonT(30)
  <2>3. "dir" \in DOMAIN m /\ d \in DOMAIN m.dir /\ m.dir[d] = mem.dir[d] \cup old..a-1
    BY <2>2 DEF Puts
  <2>4. Puts(deallocuvm(m, d, new, old), m, d, m.dir[d] \ (old..new-1))
    BY <2>3, ResizeCalls, ZenonT(30)
  <2>5. m.dir[d] \ (old..new-1) = 0..old-1
    BY <1>4, <1>7, <2>3
  <2>6. mem' = deallocuvm(m, d, new, old)
    BY <1>9, <1>16, <2>1, Zenon DEF allocuvm_fail
  <2>7. Puts(mem', m, d, 0..old-1)
    BY <2>4, <2>5, <2>6, ZenonT(30)
  <2>8. Puts(mem', mem, d, 0..old-1)
    BY <2>2, <2>7 DEF Puts
  <2>9. new # 0 /\ r.sz = 0 /\ 0 \in Nat
    BY <1>4, <1>16
  <2> QED
    BY <1>11, <2>8, <2>9, ZenonT(30)
<1> QED
  <2>1. CASE n > 0
    <3>1. r \in allocuvm_ret(mem, d, old, new)
      BY <1>9, <2>1, Zenon DEF GrowResults
    <3>2. \/ r = [sz |-> 0, mem |-> mem]
          \/ r = [sz |-> new, mem |-> allocuvm(mem, d, old, new)]
          \/ \E a \in old..new-1 : r = [sz |-> 0, mem |-> allocuvm_fail(mem, d, old, new, a)]
      BY <3>1, Zenon DEF allocuvm_ret
    <3> QED
      BY <1>13, <1>15, <1>16, <2>1, <3>2, Zenon
  <2>2. CASE ~(n > 0)
    BY <1>9, <1>12, <1>14, <2>2, Zenon DEF GrowResults
  <2> QED
    BY <2>1, <2>2, Zenon

\* userinit() makes the directory of the first process, with one page.
LEMMA FirstMemory ==
  ASSUME Init
  PROVE  "dir" \in DOMAIN mem /\ Dirs = {0} /\ mem.dir[0] = 0..0 /\ mem.dir = [d \in Dirs |-> mem.dir[d]]
<1>1. mem = inituvm(kalloc(kinit))
  BY Zenon DEF Init
<1>2. PICK m : m = kalloc(kinit)
  BY Zenon
<1>3. "dir" \in DOMAIN m /\ DOMAIN m.dir = {}
  BY <1>2 DEF kalloc, kinit
<1>4. Puts(mem, m, 0, 0..1-1)
  BY <1>1, <1>2, <1>3, MakeCalls, Zenon DEF inituvm
<1>5. "dir" \in DOMAIN mem /\ mem.dir = [e \in {0} |-> 0..0]
  BY <1>3, <1>4 DEF Puts
<1> QED
  BY <1>5, Zenon DEF Dirs

\* The first process has it.
LEMMA MemStarts == Init /\ NoThreads => MemInv
<1> SUFFICES ASSUME Init, NoThreads PROVE MemInv
  BY Zenon
<1>1. /\ state = [s \in Slot |-> IF s = initproc THEN "RUNNABLE" ELSE "UNUSED"]
      /\ pgdir = [s \in Slot |-> 0] /\ sz = [s \in Slot |-> IF s = initproc THEN 1 ELSE 0]
      /\ isThread = [s \in Slot |-> 0] /\ kpc = [s \in Slot |-> "user"]
      /\ fault = "none"
  BY Zenon DEF Init
<1>2. "dir" \in DOMAIN mem /\ Dirs = {0} /\ mem.dir[0] = 0..0 /\ mem.dir = [d \in Dirs |-> mem.dir[d]]
  BY FirstMemory, Zenon
<1>3. MemTypes
  BY <1>1, <1>2 DEF MemTypes
<1>4. \A s \in Slot : ~Building(s) /\ (Live(s) <=> s = initproc)
  BY <1>1, Zenon DEF Building, Live
<1>5. BuildInv
  BY <1>1, Zenon DEF BuildInv
<1>6. DirInv
  <2>1. pgdir[initproc] = 0 /\ sz[initproc]-1 = 0
    BY <1>1, Entries
  <2>2. pgdir[initproc] \in Dirs /\ mem.dir[pgdir[initproc]] = Pages(initproc)
    BY <1>1, <1>2, <2>1, Entries, Zenon DEF Pages
  <2> QED
    BY <1>2, <1>4, <2>1, <2>2, Entries, Zenon DEF DirInv
<1> QED
  BY <1>1, <1>3, <1>5, <1>6, Zenon DEF MemInv

\* Every step keeps it.
LEMMA MemStep == ProcInv /\ MemInv /\ [Next]_vars => MemInv'
<1> SUFFICES ASSUME ProcInv, MemInv, [Next]_vars PROVE MemInv'
  BY Zenon
<1>1. CASE \/ tick \/ UNCHANGED vars
           \/ \E c \in Cpu : \/ sys_setpark(c) \/ exec_fail(c) \/ scheduler_again(c)
                             \/ \E k \in 0..MaxPid : sys_kill(c, k) \/ sys_unpark(c, k)
  <2>1. \A s \in Slot : state'[s] = state[s] \/ (state[s] = "SLEEPING" /\ state'[s] = "RUNNABLE")
    BY <1>1, WakesOnly, Zenon
  <2> QED
    BY <1>1, <2>1, MemQuiet, Zenon
<1>2. ASSUME NEW c \in Cpu, KernelStep(c) PROVE MemInv'
  BY <1>2, NoClone, MemForks, MemCopies, MemFills, MemLaunches, MemCommits, MemSwitches, MemWaits, MemSleeps, ZenonT(30) DEF KernelStep
<1>3. ASSUME NEW c \in Cpu, UserStep(c) PROVE MemInv'
  BY <1>1, <1>3, NoClone, MemForks, MemSleeps, MemExecs, MemGrows, Zenon DEF UserStep
<1>4. ASSUME NEW c \in Cpu, scheduler(c) \/ scheduler_again(c) \/ yield(c) PROVE MemInv'
  BY <1>1, <1>4, MemSwitches, Zenon
<1> QED
  BY <1>1, <1>2, <1>3, <1>4, Zenon DEF Next

\* Without threads every process has a page directory of its own with just the
\* pages below its size, none is left over, and no page is missing or mapped
\* twice in fork() and sbrk().
THEOREM MemoryOwnedHolds == Spec /\ NoThreads => []MemoryOwned
<1>1. ProcInv /\ MemInv => MemoryOwned
  <2> SUFFICES ASSUME ProcInv, MemInv PROVE MemoryOwned
    BY Zenon
  <2>1. ASSUME NEW d \in Dirs
        PROVE  \E s \in Slot : \/ state[s] # "UNUSED" /\ pgdir[s] = d
                               \/ kpc[s] = "exec_commit" /\ np[s] = d
    <3>1. PICK s \in Slot : (Live(s) /\ pgdir[s] = d) \/ (Building(s) /\ Built(s) = d)
      BY <2>1, Zenon DEF MemInv, DirInv
    <3>2. CASE Live(s) /\ pgdir[s] = d
      BY <3>2 DEF Live
    <3>3. CASE Building(s) /\ Built(s) = d
      BY <3>3 DEF Building, Built, ProcInv, MakingInv, Making
    <3> QED
      BY <3>1, <3>2, <3>3
  <2> QED
    BY <2>1 DEF MemInv, DirInv, Pages, MemoryOwned
<1> QED
  BY <1>1, MemStarts, MemStep, ProcInvariant, PTL DEF Spec

=============================================================================
