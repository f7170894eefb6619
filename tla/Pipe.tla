-------------------------------- MODULE Pipe --------------------------------
(***************************************************************************)
(* A pipe of kernel/pipe.c between processes that hold its read end, its   *)
(* write end or both.  Everything happens under p->lock, except that       *)
(* sleep() gives the lock up and that kill() does not take it.  The end    *)
(* counters are uint: they wrap at W (2^32 in the code).                   *)
(*                                                                         *)
(* The bytes written are numbered 1, 2, 3, ... in the order in which they  *)
(* enter the pipe.                                                         *)
(***************************************************************************)
EXTENDS Naturals, Sequences, FiniteSetsExt

CONSTANTS
  Process, Reader, Writer,   \* who holds which end at the start
  PIPESIZE, W,
  Sizes,                     \* the lengths of the reads and writes
  Killable,
  NoOne,
  MaxSent                    \* bound on the bytes written

ASSUME PipeAssumption ==
  /\ Reader \cup Writer \subseteq Process /\ Reader # {} /\ Writer # {}
  /\ PIPESIZE \in Nat \ {0} /\ W \in Nat /\ W > PIPESIZE /\ W % PIPESIZE = 0
  /\ Sizes \subseteq Nat \ {0} /\ Killable \subseteq Process
  /\ NoOne \notin Process /\ MaxSent \in Nat

VARIABLES
  data, nread, nwrite, readopen, writeopen,   \* struct pipe
  freed,      \* kfree() was called for it
  lock,       \* the holder of p->lock
  chan,       \* chan[t]: "none" or the counter t sleeps on
  killed,
  ends,       \* ends[t]: the ends t has open files for
  pc,
  left,       \* n - i of the call t is in
  cnt,        \* bytes read by the piperead() t is in, or that it returned
  sent,       \* history: the number of bytes written
  rcvd        \* history: the bytes read

pipeVars == <<data, nread, nwrite, readopen, writeopen, freed>>
vars == <<pipeVars, lock, chan, killed, ends, pc, left, cnt, sent, rcvd>>

Init ==
  /\ data = [k \in 0..PIPESIZE-1 |-> 0]
  /\ nread = 0 /\ nwrite = 0 /\ readopen = 1 /\ writeopen = 1 /\ freed = 0
  /\ lock = NoOne
  /\ chan = [t \in Process |-> "none"]
  /\ killed = [t \in Process |-> 0]
  /\ ends = [t \in Process |-> (IF t \in Reader THEN {"read"} ELSE {})
                          \cup (IF t \in Writer THEN {"write"} ELSE {})]
  /\ pc = [t \in Process |-> "user"]
  /\ left = [t \in Process |-> 0] /\ cnt = left
  /\ sent = 0 /\ rcvd = <<>>

-----------------------------------------------------------------------------
Full  == nwrite = (nread + PIPESIZE) % W
Empty == nread = nwrite

\* t is at l and not asleep.
At(t, l) == pc[t] = l /\ chan[t] = "none"

Goto(t, l) == pc' = [pc EXCEPT ![t] = l]

wakeup(on) == chan' = [t \in Process |-> IF chan[t] = on THEN "none" ELSE chan[t]]

\* acquire(&p->lock), first or after a sleep.
acquire(t, l, next) ==
  /\ At(t, l)
  /\ lock = NoOne
  /\ lock' = t
  /\ Goto(t, next)
  /\ UNCHANGED <<pipeVars, chan, killed, ends, left, cnt, sent, rcvd>>

\* sleep(on, &p->lock)
sleep(t, l, on, next) ==
  /\ At(t, l)
  /\ chan' = [chan EXCEPT ![t] = on]
  /\ lock' = NoOne
  /\ Goto(t, next)
  /\ UNCHANGED <<pipeVars, killed, ends, left, cnt, sent, rcvd>>

\* release(&p->lock) and return to user mode.
return(t) == lock' = NoOne /\ Goto(t, "user")

call(t, end, n, l) ==
  /\ At(t, "user") /\ killed[t] = 0
  /\ end \in ends[t]
  /\ left' = [left EXCEPT ![t] = n]
  /\ cnt' = [cnt EXCEPT ![t] = 0]
  /\ Goto(t, l)
  /\ UNCHANGED <<pipeVars, lock, chan, killed, ends, sent, rcvd>>

(***************************************************************************)
(* pipewrite()                                                             *)
(***************************************************************************)
pipewrite(t, n) == call(t, "write", n, "w_lock")

w_lock(t) == acquire(t, "w_lock", "w_loop")

w_byte(t) ==
  /\ At(t, "w_loop") /\ left[t] > 0 /\ ~Full
  /\ data' = [data EXCEPT ![nwrite % PIPESIZE] = sent + 1]
  /\ nwrite' = (nwrite + 1) % W
  /\ left' = [left EXCEPT ![t] = @ - 1]
  /\ sent' = sent + 1
  /\ UNCHANGED <<nread, readopen, writeopen, freed, lock, chan, killed, ends,
                 pc, cnt, rcvd>>

w_full(t) ==
  /\ At(t, "w_loop") /\ left[t] > 0 /\ Full
  /\ \/ /\ readopen = 0 \/ killed[t] = 1
        /\ return(t)
        /\ UNCHANGED chan
     \/ /\ ~(readopen = 0 \/ killed[t] = 1)
        /\ wakeup("nread")
        /\ Goto(t, "w_sleep")
        /\ UNCHANGED lock
  /\ UNCHANGED <<pipeVars, killed, ends, left, cnt, sent, rcvd>>

w_sleep(t) == sleep(t, "w_sleep", "nwrite", "w_lock")

w_done(t) ==
  /\ At(t, "w_loop") /\ left[t] = 0
  /\ wakeup("nread")
  /\ return(t)
  /\ UNCHANGED <<pipeVars, killed, ends, left, cnt, sent, rcvd>>

(***************************************************************************)
(* piperead()                                                              *)
(***************************************************************************)
piperead(t, n) == call(t, "read", n, "r_lock")

r_lock(t) == acquire(t, "r_lock", "r_wait")

r_wait_KilledReads(t) ==
  /\ At(t, "r_wait")
  /\ Goto(t, IF Empty /\ writeopen = 1 /\ killed[t] = 0
                THEN "r_sleep" ELSE "r_copy")
  /\ UNCHANGED <<pipeVars, lock, chan, killed, ends, left, cnt, sent, rcvd>>

r_wait(t) ==
  /\ At(t, "r_wait")
  /\ \/ /\ Empty /\ writeopen = 1
        /\ IF killed[t] = 1 THEN return(t) ELSE Goto(t, "r_sleep") /\ UNCHANGED lock
     \/ /\ ~(Empty /\ writeopen = 1)
        /\ Goto(t, "r_copy")
        /\ UNCHANGED lock
  /\ UNCHANGED <<pipeVars, chan, killed, ends, left, cnt, sent, rcvd>>

r_sleep(t) == sleep(t, "r_sleep", "nread", "r_lock")

r_byte_Overrun(t) ==
  /\ At(t, "r_copy") /\ left[t] > 0
  /\ cnt' = [cnt EXCEPT ![t] = @ + 1]
  /\ rcvd' = Append(rcvd, data[nread % PIPESIZE])
  /\ nread' = (nread + 1) % W
  /\ left' = [left EXCEPT ![t] = @ - 1]
  /\ UNCHANGED <<data, nwrite, readopen, writeopen, freed, lock, chan, killed,
                 ends, pc, sent>>

r_byte(t) ==
  /\ At(t, "r_copy") /\ left[t] > 0 /\ ~Empty
  /\ cnt' = [cnt EXCEPT ![t] = @ + 1]
  /\ rcvd' = Append(rcvd, data[nread % PIPESIZE])
  /\ nread' = (nread + 1) % W
  /\ left' = [left EXCEPT ![t] = @ - 1]
  /\ UNCHANGED <<data, nwrite, readopen, writeopen, freed, lock, chan, killed,
                 ends, pc, sent>>

r_done(t) ==
  /\ At(t, "r_copy") /\ (left[t] = 0 \/ Empty)
  /\ wakeup("nwrite")
  /\ return(t)
  /\ UNCHANGED <<pipeVars, killed, ends, left, cnt, sent, rcvd>>

(***************************************************************************)
(* close() of one end by t; fileclose() calls pipeclose() for the last     *)
(* open file of that end only.  An exiting process closes its files.       *)
(***************************************************************************)
Holders(end) == {t \in Process : end \in ends[t]}

pipeclose_NoWakeup(end) ==
  /\ readopen' = IF end = "read" THEN 0 ELSE readopen
  /\ writeopen' = IF end = "write" THEN 0 ELSE writeopen
  /\ freed' = IF readopen' = 0 /\ writeopen' = 0 THEN 1 ELSE freed
  /\ UNCHANGED <<data, nread, nwrite, chan>>

pipeclose_Frees(end) ==
  /\ readopen' = IF end = "read" THEN 0 ELSE readopen
  /\ writeopen' = IF end = "write" THEN 0 ELSE writeopen
  /\ wakeup(IF end = "write" THEN "nread" ELSE "nwrite")
  /\ freed' = 1
  /\ UNCHANGED <<data, nread, nwrite>>

pipeclose(end) ==
  /\ readopen' = IF end = "read" THEN 0 ELSE readopen
  /\ writeopen' = IF end = "write" THEN 0 ELSE writeopen
  /\ wakeup(IF end = "write" THEN "nread" ELSE "nwrite")
  /\ freed' = IF readopen' = 0 /\ writeopen' = 0 THEN 1 ELSE freed
  /\ UNCHANGED <<data, nread, nwrite>>

close(t, end) ==
  /\ At(t, "user")
  /\ end \in ends[t]
  /\ ends' = [ends EXCEPT ![t] = @ \ {end}]
  /\ IF Holders(end) = {t}
       THEN lock = NoOne /\ pipeclose(end)
       ELSE UNCHANGED <<pipeVars, chan>>
  /\ UNCHANGED <<lock, killed, pc, left, cnt, sent, rcvd>>

\* kill() of t: any sleep ends.
kill(t) ==
  /\ t \in Killable
  /\ killed' = [killed EXCEPT ![t] = 1]
  /\ chan' = [chan EXCEPT ![t] = "none"]
  /\ UNCHANGED <<pipeVars, lock, ends, pc, left, cnt, sent, rcvd>>

-----------------------------------------------------------------------------
\* What t does in the kernel, once it has made a call.
InKernel(t) ==
  \/ w_lock(t) \/ w_byte(t) \/ w_full(t) \/ w_sleep(t) \/ w_done(t)
  \/ r_lock(t) \/ r_wait(t) \/ r_sleep(t) \/ r_byte(t) \/ r_done(t)

\* The bytes that the calls of pipewrite() in progress still have to write.
Pending ==
  MapThenSumSet(LAMBDA t : left[t],
                {t \in Process : pc[t] \in {"w_lock", "w_loop", "w_sleep"}})

Next ==
  \E t \in Process :
    \/ InKernel(t)
    \/ \E n \in Sizes : \/ sent + Pending + n <= MaxSent /\ pipewrite(t, n)
                       \/ piperead(t, n)
    \/ \E end \in {"read", "write"} : close(t, end)
    \/ kill(t)

Spec == Init /\ [][Next]_vars

\* Processes get on in the kernel; those that hold an end need not use it, but
\* they close it in the end (exit() does so).
FairSpec ==
  /\ Spec
  /\ \A t \in Process : /\ WF_vars(InKernel(t))
                       /\ SF_vars(\E end \in {"read", "write"} : close(t, end))

-----------------------------------------------------------------------------

Used == (nwrite + W - nread) % W

\* The bytes come out once each in the order in which they went in, and what
\* was not read yet is in data, also when the counters have wrapped: nwrite
\* never laps nread.
InOrder ==
  /\ \A k \in 1..Len(rcvd) : rcvd[k] = k
  /\ Used <= PIPESIZE
  /\ Len(rcvd) + Used = sent
  /\ \A k \in 0..Used-1 : data[(nread + k) % PIPESIZE] = Len(rcvd) + 1 + k

\* The pipe is not freed while a process is in pipewrite() or piperead() or
\* holds an open file for it.
NoUseAfterFree ==
  freed = 1 => \A t \in Process : pc[t] = "user" /\ ends[t] = {}

\* A piperead() by an unkilled process returns no bytes only at end of file:
\* all write ends are closed and all bytes were read.
ZeroMeansEof ==
  [][\A t \in Process :
       pc[t] = "r_copy" /\ pc'[t] = "user" /\ cnt'[t] = 0 =>
         Empty /\ writeopen = 0 /\ Holders("write") = {}]_vars

\* t sleeps at one end and keeps the other open.
BlocksItself(t) == chan[t] # "none" /\ ends[t] = {"read", "write"}

\* Every pipewrite() and piperead() returns: a reader gets bytes or end of
\* file, a writer gets room or learns that nobody reads any more.  Only a
\* process that sleeps at one end with the other open can prevent that.
CallsReturn ==
  \A t \in Process :
    pc[t] # "user" ~> pc[t] = "user" \/ \E u \in Process : BlocksItself(u)

=============================================================================
