------------------------------ MODULE Console ------------------------------
(***************************************************************************)
(* Console input (kernel/console.c): processes in consoleread() and        *)
(* consolewrite() on several CPUs, and the keyboard or serial interrupt    *)
(* on the CPU IrqCpu, all through the spinlocks of KSpinlock.  A step is   *)
(* one of KSpinlock or one turn of a loop under input.lock.  sleep() and   *)
(* wakeup(), which take ptable.lock, are one step.                         *)
(***************************************************************************)
EXTENDS KSpinlock, Sequences, FiniteSets

CONSTANTS
  Process,
  IrqCpu,           \* ioapicenable(IRQ_KBD, 0)
  Irq,              \* the context of the handler
  INPUT_BUF,
  WORD,             \* the indices are counted modulo WORD
  Key,              \* what may be typed
  MaxN,             \* bound: bytes asked for
  MaxKilled         \* bound: processes that are killed

ASSUME ConsoleAssumption ==
  /\ Context = Process \cup {Irq} /\ Lock = {"input", "cons"}
  /\ Irq \notin Process /\ IrqCpu \in Cpu
  /\ INPUT_BUF \in Nat \ {0} /\ WORD \in Nat /\ WORD % INPUT_BUF = 0 /\ WORD > INPUT_BUF

VARIABLES
  r, w, e, buf,     \* input
  n, target, asleep,
  killed,           \* processes with proc->killed
  unread, line      \* history: what is to be read, what is being edited

inputVars == <<r, w, e, buf, line, unread>>
readVars == <<n, target, asleep, killed>>
vars == <<spinVars, inputVars, readVars>>

Init ==
  /\ SpinInit
  /\ on \in [Context -> Cpu \cup {None}] /\ on[Irq] = IrqCpu
  /\ \A p, q \in Process : on[p] = on[q] /\ on[p] # None => p = q
  /\ r = 0 /\ w = 0 /\ e = 0
  /\ buf = [i \in 0..INPUT_BUF - 1 |-> "a"]
  /\ n = [p \in Process |-> 0] /\ target = [p \in Process |-> 0] /\ asleep = {} /\ killed = {}
  /\ unread = <<>> /\ line = <<>>

-----------------------------------------------------------------------------
\* x executes: it has a CPU, and no handler runs on top of it.
Runs(x) ==
  /\ ~panic /\ on[x] # None
  /\ x # Irq => ~(on[x] = IrqCpu /\ back[Irq] # "user")

At(x, l) == Runs(x) /\ at[x] = "out" /\ back[x] = l

Spins(x) ==
  /\ Runs(x)
  /\ spin(x) \/ own(x) \/ free(x)
  /\ UNCHANGED <<inputVars, readVars>>

\* The timer: a process leaves its CPU and goes on on any other.
preempt(p) ==
  /\ Runs(p) /\ on[p] \in iflag
  /\ on' = [on EXCEPT ![p] = None]
  /\ UNCHANGED <<heldVars, cpuVars, at, want, back, panic, inputVars, readVars>>

Idle(c) == \A p \in Process : on[p] # c

resume(p, c) ==
  /\ ~panic /\ on[p] = None /\ p \notin asleep
  /\ Idle(c) /\ c \in iflag
  /\ on' = [on EXCEPT ![p] = c]
  /\ UNCHANGED <<heldVars, cpuVars, at, want, back, panic, inputVars, readVars>>

(***************************************************************************)
(* consoleintr(), with interrupts off.                                     *)
(***************************************************************************)
Minus(a, b) == (a + WORD - b) % WORD
Plus1(a) == (a + 1) % WORD

interrupt ==
  /\ ~panic /\ IrqCpu \in iflag /\ back[Irq] = "user"
  /\ iflag' = iflag \ {IrqCpu}
  /\ back' = [back EXCEPT ![Irq] = "intr"]
  /\ UNCHANGED <<heldVars, ncli, intena, at, want, on, panic, inputVars, readVars>>

consoleintr ==
  /\ At(Irq, "intr")
  /\ acquire(Irq, "input", "getc")
  /\ UNCHANGED <<inputVars, readVars>>

\* The characters that ^U takes away.
Killed ==
  LET n1 == {k \in 0..Minus(e, w) :
               \A j \in 1..k : buf[Minus(e, j) % INPUT_BUF] # "\n"}
  IN CHOOSE k \in n1 : \A j \in n1 : j <= k

kill_line ==
  /\ e' = Minus(e, Killed)
  /\ line' = <<>>
  /\ UNCHANGED <<r, w, buf, unread, asleep>>

backspace ==
  /\ IF e # w THEN e' = Minus(e, 1) /\ line' = SubSeq(line, 1, Len(line) - 1)
              ELSE UNCHANGED <<e, line>>
  /\ UNCHANGED <<r, w, buf, unread, asleep>>

Ends(c) == c \in {"\n", "^D"} \/ Plus1(e) = (r + INPUT_BUF) % WORD

\* One place more than there is.
character_Overruns(c) ==
  IF Minus(e, r) > INPUT_BUF THEN UNCHANGED <<inputVars, asleep>>
  ELSE /\ buf' = [buf EXCEPT ![e % INPUT_BUF] = c]
       /\ e' = Plus1(e)
       /\ IF Ends(c)
            THEN w' = e' /\ asleep' = {} /\ unread' = unread \o Append(line, c) /\ line' = <<>>
            ELSE line' = Append(line, c) /\ UNCHANGED <<w, asleep, unread>>
       /\ UNCHANGED r

\* The readers are woken for a newline only.
character_NoWakeup(c) ==
  IF Minus(e, r) >= INPUT_BUF THEN UNCHANGED <<inputVars, asleep>>
  ELSE /\ buf' = [buf EXCEPT ![e % INPUT_BUF] = c]
       /\ e' = Plus1(e)
       /\ IF Ends(c)
            THEN /\ w' = e' /\ unread' = unread \o Append(line, c) /\ line' = <<>>
                 /\ asleep' = IF c = "\n" THEN {} ELSE asleep
            ELSE line' = Append(line, c) /\ UNCHANGED <<w, asleep, unread>>
       /\ UNCHANGED r

\* The default case: stored if there is room, and the line is handed over at
\* its end, or when the buffer is full.
character(c) ==
  IF Minus(e, r) >= INPUT_BUF THEN UNCHANGED <<inputVars, asleep>>
  ELSE /\ buf' = [buf EXCEPT ![e % INPUT_BUF] = c]
       /\ e' = Plus1(e)
       /\ IF Ends(c)
            THEN w' = e' /\ asleep' = {} /\ unread' = unread \o Append(line, c) /\ line' = <<>>
            ELSE line' = Append(line, c) /\ UNCHANGED <<w, asleep, unread>>
       /\ UNCHANGED r

getc(c) ==
  /\ At(Irq, "getc")
  /\ \/ c = "^U" /\ kill_line
     \/ c = "^H" /\ backspace
     \/ c \notin {"^U", "^H", "^P"} /\ character(c)
  /\ UNCHANGED <<spinVars, n, target, killed>>

\* ^P: cprintf() takes the other lock.
procdump ==
  /\ At(Irq, "getc") /\ "^P" \in Key
  /\ acquire(Irq, "cons", "dump")
  /\ UNCHANGED <<inputVars, readVars>>

procdump_end ==
  /\ At(Irq, "dump")
  /\ release(Irq, "cons", "getc")
  /\ UNCHANGED <<inputVars, readVars>>

getc_end ==
  /\ At(Irq, "getc")
  /\ release(Irq, "input", "iret")
  /\ UNCHANGED <<inputVars, readVars>>

iret ==
  /\ At(Irq, "iret")
  /\ back' = [back EXCEPT ![Irq] = "user"]
  /\ iflag' = iflag \cup {IrqCpu}
  /\ UNCHANGED <<heldVars, ncli, intena, at, want, on, panic, inputVars, readVars>>

(***************************************************************************)
(* consoleread() and consolewrite().                                       *)
(***************************************************************************)
kill(p) ==
  /\ ~panic /\ Cardinality(killed) < MaxKilled
  /\ killed' = killed \cup {p}
  /\ asleep' = asleep \ {p}
  /\ UNCHANGED <<spinVars, inputVars, n, target>>

consoleread(p, k) ==
  /\ At(p, "user") /\ p \notin killed
  /\ n' = [n EXCEPT ![p] = k] /\ target' = [target EXCEPT ![p] = k]
  /\ acquire(p, "input", "read")
  /\ UNCHANGED <<inputVars, asleep, killed>>

read_test(p) ==
  /\ At(p, "read") /\ n[p] > 0 /\ r = w /\ p \notin killed
  /\ back' = [back EXCEPT ![p] = "sleep"]
  /\ UNCHANGED <<heldVars, cpuVars, at, want, on, panic, inputVars, readVars>>

\* sleep(): input.lock is released once the process is asleep.
read_sleep(p) ==
  /\ At(p, "sleep")
  /\ asleep' = asleep \cup {p}
  /\ locked' = locked \ {"input"} /\ owner' = [owner EXCEPT !["input"] = None]
  /\ popcli(on[p])
  /\ on' = [on EXCEPT ![p] = None]
  /\ Goes(p, "out", None, "woken")
  /\ panic' = ~holding("input", on[p])
  /\ UNCHANGED <<inputVars, n, target, killed>>

read_woken(p) ==
  /\ At(p, "woken")
  /\ acquire(p, "input", "read")
  /\ UNCHANGED <<inputVars, readVars>>

\* The call is over; its locals are gone.
Returns(p) ==
  /\ n' = [n EXCEPT ![p] = 0]
  /\ target' = [target EXCEPT ![p] = 0]

\* ^D is left for the next call if there are bytes to return.
read_char(p) ==
  LET c == buf[r % INPUT_BUF]
      keeps == c = "^D" /\ n[p] < target[p]
  IN
  /\ At(p, "read") /\ n[p] > 0 /\ r # w
  /\ r' = IF keeps THEN r ELSE Plus1(r)
  /\ unread' = IF keeps THEN unread ELSE Tail(unread)
  /\ IF c \in {"^D", "\n"}
       THEN release(p, "input", "user") /\ Returns(p)
       ELSE n' = [n EXCEPT ![p] = @ - 1] /\ UNCHANGED <<target, spinVars>>
  /\ UNCHANGED <<w, e, buf, line, asleep, killed>>

\* All bytes are there, or the process was killed and there is none.
read_end(p) ==
  /\ At(p, "read") /\ (n[p] = 0 \/ (r = w /\ p \in killed))
  /\ release(p, "input", "user") /\ Returns(p)
  /\ UNCHANGED <<inputVars, asleep, killed>>

consolewrite(p) ==
  /\ At(p, "user") /\ p \notin killed
  /\ acquire(p, "cons", "write")
  /\ UNCHANGED <<inputVars, readVars>>

write_done(p) ==
  /\ At(p, "write")
  /\ release(p, "cons", "user")
  /\ UNCHANGED <<inputVars, readVars>>

Next ==
  \/ interrupt \/ consoleintr \/ (\E c \in Key : getc(c)) \/ procdump \/ procdump_end
  \/ getc_end \/ iret
  \/ \E x \in Context : Spins(x)
  \/ \E p \in Process : preempt(p) \/ \E c \in Cpu : resume(p, c)
  \/ \E p \in Process : \/ kill(p)
                       \/ \E k \in 1..MaxN : consoleread(p, k)
                       \/ read_test(p) \/ read_sleep(p) \/ read_woken(p) \/ read_char(p) \/ read_end(p)
  \/ \E p \in Process : consolewrite(p) \/ write_done(p)

Spec == Init /\ [][Next]_vars

-----------------------------------------------------------------------------
\* x is inside a section of lock l.
Inside(x, l) ==
  \/ at[x] \in {"own", "free"} /\ want[x] = l
  \/ l = "input" /\ x = Irq /\ back[x] \in {"getc", "dump"} /\ ~(want[x] = l /\ at[x] = "spin")
  \/ l = "input" /\ x # Irq /\ at[x] = "out" /\ back[x] \in {"read", "sleep"}
  \/ l = "cons" /\ at[x] = "out" /\ back[x] \in {"write", "dump"}

\* A lock is held by one context, which no other CPU takes for its own; and
\* while a CPU holds a lock or waits for one, its interrupts are off: the
\* handler never waits for the process that it interrupted.
LocksHeld ==
  /\ ~panic
  /\ \A l \in Lock : \A x, y \in Context : Inside(x, l) /\ Inside(y, l) => x = y
  /\ \A l \in Lock : l \in locked <=> \E x \in Context : Inside(x, l)
  /\ \A l \in Lock : owner[l] # None => \E x \in Context : Inside(x, l) /\ on[x] = owner[l]
  /\ \A x \in Context : at[x] # "out" \/ (\E l \in Lock : Inside(x, l)) =>
       on[x] # None /\ on[x] \notin iflag /\ ncli[on[x]] > 0
  /\ \A c \in iflag : ncli[c] = 0

Between(i, j) == [k \in 1..Minus(j, i) |-> buf[(i + k - 1) % INPUT_BUF]]

\* What is typed is read in order, edited as typed and no byte twice: the
\* indices r <= w <= e never overtake each other, also when they wrap.
InputInOrder ==
  /\ Minus(e, r) <= INPUT_BUF /\ Minus(w, r) <= Minus(e, r)
  /\ Between(r, w) = unread
  /\ Between(w, e) = line

\* No reader sleeps while there is a line to read.
ReadersWoken == asleep # {} => r = w

=============================================================================
