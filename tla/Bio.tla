-------------------------------- MODULE Bio --------------------------------
(***************************************************************************)
(* The buffer cache (kernel/bio.c) over the disk driver (kernel/ide.c).    *)
(*                                                                         *)
(* A step is a stretch of code under bcache.lock or under idelock, or what *)
(* a process does to a buffer that it has locked.  The three flags are the *)
(* sets busy, valid and dirty of buffers; lru is the list from head.next   *)
(* on.  chan[p] is what process p sleeps on: bget() and iderw() sleep on   *)
(* the same address, that of the buffer.  drive is the command idestart()  *)
(* has given to the drive and platter what the drive stores.               *)
(***************************************************************************)
EXTENDS Naturals, Sequences

CONSTANTS
  NBUF,       \* number of buffers
  Process,
  Sector,     \* the sectors in use, on device 0
  Uses,       \* the sectors each process reads
  Writer,     \* the processes that also write
  Data,       \* contents of a sector
  NoOne,      \* no buffer, sector or process
  MaxErrors   \* bound: requests that the drive fails

Buf == 1..NBUF

ASSUME BioAssumption ==
  /\ NBUF \in Nat \ {0}
  /\ NoOne \notin Buf \cup Process \cup Sector
  /\ Uses \in [Process -> SUBSET Sector] /\ Writer \subseteq Process
  /\ Data # {} /\ MaxErrors \in Nat

VARIABLES busy, valid, dirty, sector, data, lru,  \* struct buf, bcache.head
  idequeue, drive, platter, errors,
  pc, want, mine, chan,
  suspect,    \* history: sectors with a failed request and no write since
  panic

bufVars == <<busy, valid, dirty, sector, data, lru>>
ideVars == <<idequeue, drive, platter, errors, suspect>>
procVars == <<pc, want, mine, chan, panic>>
vars == <<bufVars, ideVars, procVars>>

\* binit(): each buffer is put in front of the list, with no sector.
binit ==
  /\ lru = [i \in Buf |-> NBUF + 1 - i]
  /\ busy = {} /\ valid = {} /\ dirty = {}
  /\ sector = [b \in Buf |-> NoOne]
  /\ data \in [Buf -> {CHOOSE v \in Data : TRUE}]

Idle == [write |-> FALSE, sector |-> NoOne, data |-> CHOOSE v \in Data : TRUE]

Init ==
  /\ binit
  /\ idequeue = <<>> /\ drive = Idle
  /\ platter \in [Sector -> {CHOOSE v \in Data : TRUE}]
  /\ errors = 0 /\ suspect = {}
  /\ pc = [p \in Process |-> "out"]
  /\ want = [p \in Process |-> NoOne]
  /\ mine = [p \in Process |-> NoOne]
  /\ chan = [p \in Process |-> NoOne]
  /\ panic = FALSE

-----------------------------------------------------------------------------
\* Process p runs at place l.
At(p, l) == ~panic /\ pc[p] = l /\ chan[p] = NoOne

Goto(p, l) == pc' = [pc EXCEPT ![p] = l]

\* sleep(b, lk), and wakeup(b) as the new value of chan.
Asleep(p, b) == chan' = [chan EXCEPT ![p] = b]

Woken(b) == [p \in Process |-> IF chan[p] = b THEN NoOne ELSE chan[p]]

(***************************************************************************)
(* bread(): bget() looks for a buffer of the sector, from head.next on.    *)
(***************************************************************************)
bread(p, s) ==
  /\ At(p, "out")
  /\ s \in Uses[p]
  /\ want' = [want EXCEPT ![p] = s]
  /\ Goto(p, "bget")
  /\ UNCHANGED <<bufVars, ideVars, mine, chan, panic>>

\* Place i of the list is the first with a buffer of sector s.
Finds(i, s) ==
  /\ i \in DOMAIN lru /\ sector[lru[i]] = s
  /\ \A j \in DOMAIN lru : j < i => sector[lru[j]] # s

Cached(s) == \E b \in Buf : sector[b] = s

Takes(p, b, l) ==
  /\ busy' = busy \cup {b}
  /\ mine' = [mine EXCEPT ![p] = b]
  /\ Goto(p, l)

bget_hit(p) ==
  /\ At(p, "bget")
  /\ \E i \in DOMAIN lru :
       /\ Finds(i, want[p]) /\ lru[i] \notin busy
       /\ Takes(p, lru[i], "bread")
  /\ UNCHANGED <<valid, dirty, sector, data, lru, ideVars, want, chan, panic>>

\* After the sleep the buffer is taken without another look.
bget_wait_Trusts(p) ==
  /\ At(p, "bget")
  /\ \E i \in DOMAIN lru :
       /\ Finds(i, want[p]) /\ lru[i] \in busy
       /\ Asleep(p, lru[i])
       /\ mine' = [mine EXCEPT ![p] = lru[i]]
       /\ Goto(p, "bread")
  /\ UNCHANGED <<bufVars, ideVars, want, panic>>

\* The buffer is in use: sleep, then goto loop.
bget_wait(p) ==
  /\ At(p, "bget")
  /\ \E i \in DOMAIN lru :
       /\ Finds(i, want[p]) /\ lru[i] \in busy
       /\ Asleep(p, lru[i])
  /\ UNCHANGED <<bufVars, ideVars, pc, want, mine, panic>>

\* The last buffer of the list that is not busy is used for the sector.
Recycles(p, i) ==
  /\ lru[i] \notin busy
  /\ \A j \in DOMAIN lru : j > i => lru[j] \in busy
  /\ sector' = [sector EXCEPT ![lru[i]] = want[p]]
  /\ valid' = valid \ {lru[i]}
  /\ dirty' = dirty \ {lru[i]}
  /\ Takes(p, lru[i], "bread")

bget_miss(p) ==
  /\ At(p, "bget")
  /\ ~Cached(want[p])
  /\ \E i \in DOMAIN lru : Recycles(p, i)
  /\ UNCHANGED <<data, lru, ideVars, want, chan, panic>>

\* "bget: no buffers"
bget_panic(p) ==
  /\ At(p, "bget")
  /\ ~Cached(want[p])
  /\ \A b \in Buf : b \in busy
  /\ panic' = TRUE
  /\ UNCHANGED <<bufVars, ideVars, pc, want, mine, chan>>

(***************************************************************************)
(* ide.c.  idestart() hands the buffer to the drive.  iderw() appends it   *)
(* to the queue and sleeps until ideintr() has set B_VALID and cleared     *)
(* B_DIRTY; that the request is not done yet is tested before.             *)
(***************************************************************************)
idestart(b, dirt) ==
  [write |-> b \in dirt, sector |-> sector[b], data |-> data[b]]

iderw(p, dirt) ==
  LET b == mine[p] IN
  /\ idequeue' = Append(idequeue, b)
  /\ drive' = IF idequeue = <<>> THEN idestart(b, dirt) ELSE drive
  /\ Asleep(p, b)
  /\ Goto(p, "iderw")

Done(b) == b \in valid /\ b \notin dirty

\* Woken: the test of the loop again.
iderw_wakes(p) ==
  /\ At(p, "iderw")
  /\ IF Done(mine[p]) THEN Goto(p, "use") /\ UNCHANGED chan
                      ELSE Asleep(p, mine[p]) /\ UNCHANGED pc
  /\ UNCHANGED <<bufVars, ideVars, want, mine, panic>>

\* The rest of bread().
bread_valid(p) ==
  /\ At(p, "bread")
  /\ mine[p] \in valid
  /\ Goto(p, "use")
  /\ UNCHANGED <<bufVars, ideVars, want, mine, chan, panic>>

bread_disk(p) ==
  /\ At(p, "bread")
  /\ mine[p] \notin valid
  /\ iderw(p, dirty)
  /\ UNCHANGED <<bufVars, platter, errors, suspect, want, mine, panic>>

(***************************************************************************)
(* ideintr(): the drive has done, or failed, the command for the buffer at *)
(* the head of the queue.  Only the result of a read is looked at, and the *)
(* buffer is valid in any case.                                            *)
(***************************************************************************)
drive_ok(b) ==
  /\ IF drive.write
       THEN /\ platter' = [platter EXCEPT ![drive.sector] = drive.data]
            /\ suspect' = suspect \ {drive.sector}
       ELSE UNCHANGED <<platter, suspect>>
  /\ data' = IF b \in dirty THEN data ELSE [data EXCEPT ![b] = platter[drive.sector]]
  /\ UNCHANGED errors

drive_fails ==
  /\ errors < MaxErrors
  /\ errors' = errors + 1
  /\ suspect' = suspect \cup {drive.sector}
  /\ UNCHANGED <<platter, data>>

\* The next command is started before the head is taken off the queue.
ideintr_Restarts ==
  LET b == Head(idequeue) IN
  /\ ~panic /\ idequeue # <<>>
  /\ drive_ok(b) \/ drive_fails
  /\ valid' = valid \cup {b}
  /\ dirty' = dirty \ {b}
  /\ idequeue' = Tail(idequeue)
  /\ drive' = IF Tail(idequeue) = <<>> THEN Idle ELSE idestart(b, dirty)
  /\ chan' = Woken(b)
  /\ UNCHANGED <<busy, sector, lru, pc, want, mine, panic>>

ideintr_NoNext ==
  LET b == Head(idequeue) IN
  /\ ~panic /\ idequeue # <<>> /\ drive # Idle
  /\ drive_ok(b) \/ drive_fails
  /\ valid' = valid \cup {b}
  /\ dirty' = dirty \ {b}
  /\ idequeue' = Tail(idequeue)
  /\ drive' = Idle
  /\ chan' = Woken(b)
  /\ UNCHANGED <<busy, sector, lru, pc, want, mine, panic>>

ideintr ==
  LET b == Head(idequeue) IN
  /\ ~panic /\ idequeue # <<>>
  /\ drive_ok(b) \/ drive_fails
  /\ valid' = valid \cup {b}
  /\ dirty' = dirty \ {b}
  /\ idequeue' = Tail(idequeue)
  /\ drive' = IF Tail(idequeue) = <<>> THEN Idle ELSE idestart(idequeue[2], dirty)
  /\ chan' = Woken(b)
  /\ UNCHANGED <<busy, sector, lru, pc, want, mine, panic>>

(***************************************************************************)
(* The caller changes the data of its buffer and writes it; brelse() puts  *)
(* the buffer in front of the list.                                        *)
(***************************************************************************)
modify(p, v) ==
  /\ At(p, "use") /\ p \in Writer
  /\ data' = [data EXCEPT ![mine[p]] = v]
  /\ Goto(p, "bwrite")
  /\ UNCHANGED <<busy, valid, dirty, sector, lru, ideVars, want, mine, chan, panic>>

bwrite(p) ==
  /\ At(p, "bwrite")
  /\ dirty' = dirty \cup {mine[p]}
  /\ iderw(p, dirty')
  /\ UNCHANGED <<busy, valid, sector, data, lru, platter, errors, suspect, want, mine, panic>>

ToFront(b) ==
  LET i == CHOOSE k \in DOMAIN lru : lru[k] = b
  IN [k \in DOMAIN lru |-> IF k = 1 THEN b ELSE IF k <= i THEN lru[k-1] ELSE lru[k]]

brelse(p) ==
  /\ At(p, "use")
  /\ lru' = ToFront(mine[p])
  /\ busy' = busy \ {mine[p]}
  /\ chan' = Woken(mine[p])
  /\ mine' = [mine EXCEPT ![p] = NoOne]
  /\ want' = [want EXCEPT ![p] = NoOne]
  /\ Goto(p, "out")
  /\ UNCHANGED <<valid, dirty, sector, data, ideVars, panic>>

Step(p) ==
  \/ bget_hit(p) \/ bget_wait(p) \/ bget_miss(p) \/ bget_panic(p)
  \/ bread_valid(p) \/ bread_disk(p) \/ iderw_wakes(p)
  \/ bwrite(p) \/ brelse(p)

Next ==
  \/ ideintr
  \/ \E p \in Process : \/ Step(p)
                        \/ \E s \in Sector : bread(p, s)
                        \/ \E v \in Data : modify(p, v)

Spec == Init /\ [][Next]_vars

\* The drive answers every command, and processes in the kernel go on.
FairSpec ==
  /\ Spec /\ WF_vars(ideintr)
  /\ \A p \in Process : WF_vars(Step(p))

-----------------------------------------------------------------------------

\* "Only one process at a time can use a buffer" (bio.c:13), and no two
\* buffers have one sector, whatever bget() found before it slept.
OneBufferPerSector ==
  /\ \A b, c \in Buf : sector[b] = sector[c] /\ sector[b] # NoOne => b = c
  /\ \A p, q \in Process : mine[p] = mine[q] /\ mine[p] # NoOne => p = q
  /\ busy = {mine[p] : p \in Process} \ {NoOne}
  /\ \A p \in Process : mine[p] # NoOne => sector[mine[p]] = want[p]

\* Every request to the disk is served, failed ones included.
RequestsServed ==
  \A p \in Process : pc[p] = "iderw" ~> pc[p] # "iderw" \/ panic

\* The cache and the driver are one store of sectors to the file system.
Contents ==
  [s \in Sector |-> IF \E b \in valid : sector[b] = s
                     THEN data[CHOOSE b \in valid : sector[b] = s] ELSE platter[s]]

User ==
  [s \in Sector |-> IF \E p \in Process : mine[p] # NoOne /\ sector[mine[p]] = s
                     THEN CHOOSE p \in Process : mine[p] # NoOne /\ sector[mine[p]] = s
                     ELSE NoOne]

Store == INSTANCE SectorStore WITH content <- Contents, user <- User

ImplementsStore == Store!Spec

=============================================================================
