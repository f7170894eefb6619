----------------------------- MODULE DiskProofs -----------------------------
(***************************************************************************)
(* The disk as the file system sees it.  The buffer cache and the driver,  *)
(* for any processes, sectors, contents and number of buffers: a sector    *)
(* has one buffer and a buffer one user, and the two implement a           *)
(* SectorStore.  The places of things on the disk, for any size of it, are *)
(* apart.                                                                  *)
(*                                                                         *)
(* OneBufferPerSector needs the place of a process to say whether it has a *)
(* buffer (HasBuffer).  The refinement needs more: what is in the queue of *)
(* the driver and in the drive (Queued), and that a buffer that is valid   *)
(* and not being changed is as on the disk unless a request failed         *)
(* (Coherent), so that it can be used for another sector.                  *)
(***************************************************************************)
EXTENDS Bio, Layout, Integers, TLAPS

Places == {"out", "bget", "bread", "iderw", "use", "bwrite"}

Types ==
  /\ busy \subseteq Buf /\ valid \subseteq Buf /\ dirty \subseteq Buf
  /\ sector \in [Buf -> Sector \cup {NoOne}] /\ data \in [Buf -> Data]
  /\ lru \in [Buf -> Buf]
  /\ idequeue \in Seq(Buf) /\ platter \in [Sector -> Data] /\ suspect \subseteq Sector
  /\ pc \in [Process -> Places]
  /\ want \in [Process -> Sector \cup {NoOne}]
  /\ mine \in [Process -> Buf \cup {NoOne}]

\* From bget() to brelse() a process has a buffer; it uses it once it is valid.
HasBuffer ==
  \A p \in Process : /\ pc[p] # "out" => want[p] \in Sector
                     /\ mine[p] = NoOne <=> pc[p] \in {"out", "bget"}
                     /\ pc[p] \in {"use", "bwrite"} => mine[p] \in valid

\* A buffer is queued once, by its user, to be read or to be written; the
\* drive works on the first.
Queued ==
  /\ \A i, j \in DOMAIN idequeue : idequeue[i] = idequeue[j] => i = j
  /\ \A i \in DOMAIN idequeue : \E p \in Process : pc[p] = "iderw" /\ mine[p] = idequeue[i]
  /\ \A i \in DOMAIN idequeue : idequeue[i] \in dirty <=> idequeue[i] \in valid
  /\ \A b \in dirty : \E i \in DOMAIN idequeue : idequeue[i] = b
  /\ idequeue # <<>> => drive = idestart(idequeue[1], dirty)

\* A valid buffer is as on the disk, but for a write that is under way or a
\* request that failed.
Coherent ==
  \A b \in valid : /\ sector[b] \in Sector
                   /\ \/ b \in dirty \/ sector[b] \in suspect
                      \/ data[b] = platter[sector[b]]
                      \/ \E p \in Process : pc[p] = "bwrite" /\ mine[p] = b

\* The inductive invariant of the cache and the driver.
BioInv == Types /\ HasBuffer /\ OneBufferPerSector /\ Queued /\ Coherent

-----------------------------------------------------------------------------
\* A process at a place of its own is no other.
LEMMA Buffers ==
  ASSUME BioInv, NEW p \in Process
  PROVE  /\ pc[p] \in {"bread", "iderw", "use", "bwrite"} =>
              mine[p] \in Buf /\ mine[p] \in busy /\ sector[mine[p]] = want[p] /\ want[p] \in Sector
         /\ pc[p] \in {"bread", "use", "bwrite"} => \A i \in DOMAIN idequeue : idequeue[i] # mine[p]
<1> USE BioAssumption DEF BioInv, Types, HasBuffer, OneBufferPerSector
<1>1. pc[p] \in {"bread", "iderw", "use", "bwrite"} => mine[p] # NoOne /\ mine[p] \in Buf
  BY Zenon
<1>2. mine[p] # NoOne => mine[p] \in busy /\ sector[mine[p]] = want[p] /\ want[p] \in Sector
  BY DEF Places
<1>3. ASSUME pc[p] \in {"bread", "use", "bwrite"}, NEW i \in DOMAIN idequeue PROVE idequeue[i] # mine[p]
  <2>1. PICK q \in Process : pc[q] = "iderw" /\ mine[q] = idequeue[i]
    BY Zenon DEF Queued
  <2> QED
    BY <1>1, <1>3, <2>1, Zenon
<1> QED
  BY <1>1, <1>2, <1>3, Zenon

\* The cache is empty.
LEMMA InitHolds == Init => BioInv
<1> SUFFICES ASSUME Init PROVE BioInv
  BY Zenon
<1> DEFINE v == CHOOSE x \in Data : TRUE
<1>0. v \in Data
  BY BioAssumption, Zenon
<1> HIDE DEF v
<1>1. Types
  <2>1. lru \in [Buf -> Buf]
    BY BioAssumption DEF Init, binit, Buf
  <2>2. data \in [Buf -> Data] /\ platter \in [Sector -> Data]
    BY <1>0, Zenon DEF Init, binit, v
  <2> QED
    BY <2>1, <2>2 DEF Init, binit, Types, Places
<1>2. HasBuffer
  BY Zenon DEF Init, HasBuffer
<1>3. OneBufferPerSector
  BY Zenon DEF Init, binit, OneBufferPerSector
<1>4. Queued /\ Coherent
  BY DEF Init, binit, Queued, Coherent
<1> QED
  BY <1>1, <1>2, <1>3, <1>4, Zenon DEF BioInv

-----------------------------------------------------------------------------
\* Steps of a process that leave the buffers and the driver alone.
LEMMA WalkHolds ==
  ASSUME BioInv, NEW p \in Process,
         \/ \E s \in Sector : bread(p, s)
         \/ bget_wait(p) \/ bget_panic(p) \/ bread_valid(p) \/ iderw_wakes(p)
  PROVE  BioInv'
<1>1. UNCHANGED <<bufVars, ideVars, mine>>
  BY Zenon DEF bread, bget_wait, bget_panic, bread_valid, iderw_wakes
<1>2. \/ \E s \in Sector : /\ pc[p] = "out" /\ pc' = [pc EXCEPT ![p] = "bget"]
                           /\ want' = [want EXCEPT ![p] = s]
      \/ UNCHANGED <<pc, want>>
      \/ pc[p] = "bread" /\ mine[p] \in valid /\ pc' = [pc EXCEPT ![p] = "use"] /\ want' = want
      \/ /\ pc[p] = "iderw" /\ Done(mine[p]) /\ pc' = [pc EXCEPT ![p] = "use"] /\ want' = want
  BY Zenon DEF bread, bget_wait, bget_panic, bread_valid, iderw_wakes, At, Goto
<1>3. /\ pc' \in [Process -> Places] /\ want' \in [Process -> Sector \cup {NoOne}]
      /\ \A q \in Process \ {p} : pc'[q] = pc[q] /\ want'[q] = want[q]
      /\ \/ pc'[p] = pc[p] /\ want'[p] = want[p]
         \/ pc[p] = "out" /\ pc'[p] = "bget" /\ want'[p] \in Sector
         \/ want'[p] = want[p] /\ pc[p] = "bread" /\ mine[p] \in valid /\ pc'[p] = "use"
         \/ want'[p] = want[p] /\ pc[p] = "iderw" /\ Done(mine[p]) /\ pc'[p] = "use"
  BY <1>2, ZenonT(30) DEF BioInv, Types, Places
<1>4. Types'
  BY <1>1, <1>3, Zenon DEF BioInv, Types, bufVars, ideVars
<1>5. HasBuffer'
  BY <1>1, <1>3, Zenon DEF BioInv, HasBuffer, bufVars, Done
<1>6. OneBufferPerSector'
  <2>1. ASSUME NEW q \in Process, mine[q] # NoOne PROVE want'[q] = want[q]
    BY <1>3, <2>1, Zenon DEF BioInv, HasBuffer
  <2> QED
    BY <1>1, <2>1, ZenonT(30) DEF BioInv, OneBufferPerSector, bufVars
<1>7. Queued'
  <2>1. ASSUME NEW i \in DOMAIN idequeue PROVE \E q \in Process : pc'[q] = "iderw" /\ mine[q] = idequeue[i]
    <3>1. PICK q \in Process : pc[q] = "iderw" /\ mine[q] = idequeue[i]
      BY Zenon DEF BioInv, Queued
    <3>2. ~Done(mine[q])
      BY <3>1, Zenon DEF Done, BioInv, Queued
    <3> QED
      BY <1>3, <3>1, <3>2, Zenon
  <2> QED
    BY <1>1, <2>1, Zenon DEF BioInv, Queued, idestart, bufVars, ideVars
<1>8. Coherent'
  <2>1. ASSUME NEW q \in Process, pc[q] = "bwrite" PROVE pc'[q] = "bwrite"
    BY <1>3, <2>1, Zenon
  <2> QED
    BY <1>1, <2>1 DEF BioInv, Coherent, bufVars, ideVars
<1> QED
  BY <1>4, <1>5, <1>6, <1>7, <1>8, Zenon DEF BioInv

\* bget() returns buffer b, of the right sector or used for it from now on.
LEMMA TakeHolds ==
  ASSUME BioInv, NEW p \in Process, bget_hit(p) \/ bget_miss(p)
  PROVE  BioInv'
<1>1. PICK b \in Buf :
        /\ b \notin busy /\ busy' = busy \cup {b} /\ mine' = [mine EXCEPT ![p] = b]
        /\ pc' = [pc EXCEPT ![p] = "bread"]
        /\ \/ sector[b] = want[p] /\ UNCHANGED <<sector, valid, dirty>>
           \/ /\ ~Cached(want[p]) /\ sector' = [sector EXCEPT ![b] = want[p]]
              /\ valid' = valid \ {b} /\ dirty' = dirty \ {b}
  BY Zenon DEF bget_hit, bget_miss, Finds, Recycles, Takes, Goto, BioInv, Types
<1>2. pc[p] = "bget" /\ UNCHANGED <<data, lru, ideVars, want>>
  BY Zenon DEF bget_hit, bget_miss, At
<1>3. /\ mine[p] = NoOne /\ want[p] \in Sector
      /\ \A q \in Process : mine[q] # b
      /\ \A i \in DOMAIN idequeue : idequeue[i] # b
  <2>1. \A q \in Process : mine[q] # b
    BY <1>1, BioAssumption DEF BioInv, OneBufferPerSector
  <2> QED
    BY <1>2, <2>1 DEF BioInv, HasBuffer, Queued
<1>4. Types'
  BY <1>1, <1>2, <1>3, Zenon DEF BioInv, Types, Places, ideVars
<1>5. HasBuffer'
  <2>1. ASSUME NEW q \in Process, pc[q] \in {"use", "bwrite"} PROVE mine[q] \in valid'
    BY <1>1, <1>3, <2>1, Zenon DEF BioInv, HasBuffer
  <2> QED
    BY <1>1, <1>2, <1>3, <2>1, BioAssumption DEF BioInv, HasBuffer, Types, Places
<1>6. OneBufferPerSector'
  <2>1. ASSUME NEW x \in Buf, NEW y \in Buf, sector'[x] = sector'[y], sector'[x] # NoOne PROVE x = y
    BY <1>1, <2>1 DEF BioInv, OneBufferPerSector, Types, Cached
  <2>2. ASSUME NEW q \in Process, NEW z \in Process, mine'[q] = mine'[z], mine'[q] # NoOne PROVE q = z
    BY <1>1, <1>3, <2>2 DEF BioInv, OneBufferPerSector, Types
  <2>3. busy' = {mine'[q] : q \in Process} \ {NoOne}
    <3>1. ASSUME NEW x \in busy' PROVE x # NoOne /\ \E q \in Process : mine'[q] = x
      BY <1>1, <1>3, BioAssumption DEF BioInv, OneBufferPerSector, Types
    <3>2. ASSUME NEW q \in Process, mine'[q] # NoOne PROVE mine'[q] \in busy'
      BY <1>1, <3>2, ZenonT(30) DEF BioInv, OneBufferPerSector, Types
    <3> QED
      BY <3>1, <3>2, Zenon
  <2>4. ASSUME NEW q \in Process, mine'[q] # NoOne PROVE sector'[mine'[q]] = want'[q]
    BY <1>1, <1>2, <1>3, <2>4 DEF BioInv, OneBufferPerSector, Types
  <2> QED
    BY <2>1, <2>2, <2>3, <2>4, Zenon DEF OneBufferPerSector
<1>7. Queued'
  <2>1. ASSUME NEW i \in DOMAIN idequeue PROVE \E q \in Process : pc'[q] = "iderw" /\ mine'[q] = idequeue[i]
    <3>1. PICK q \in Process : pc[q] = "iderw" /\ mine[q] = idequeue[i]
      BY Zenon DEF BioInv, Queued
    <3> QED
      BY <1>1, <1>2, <3>1, Zenon DEF BioInv, Types
  <2>2. idequeue # <<>> => idequeue[1] \in Buf /\ 1 \in DOMAIN idequeue
    BY DEF BioInv, Types
  <2>3. \A i \in DOMAIN idequeue : /\ idequeue[i] \in Buf /\ idequeue[i] # b
                                   /\ idequeue[i] \in dirty' <=> idequeue[i] \in dirty
                                   /\ idequeue[i] \in valid' <=> idequeue[i] \in valid
                                   /\ sector'[idequeue[i]] = sector[idequeue[i]]
    BY <1>1, <1>3 DEF BioInv, Types
  <2>4. (idequeue # <<>> => drive = idestart(idequeue[1], dirty))'
    BY <1>2, <2>2, <2>3 DEF BioInv, Queued, idestart, ideVars
  <2> QED
    BY <1>1, <1>2, <2>1, <2>3, <2>4 DEF BioInv, Queued, ideVars
<1>8. Coherent'
  <2>1. ASSUME NEW q \in Process, pc[q] = "bwrite" PROVE pc'[q] = "bwrite" /\ mine'[q] = mine[q]
    BY <1>1, <1>2, <2>1, Zenon DEF BioInv, Types
  <2> SUFFICES ASSUME NEW x \in valid'
               PROVE  /\ sector'[x] \in Sector
                      /\ \/ x \in dirty' \/ sector'[x] \in suspect
                         \/ data[x] = platter[sector'[x]]
                         \/ \E q \in Process : pc'[q] = "bwrite" /\ mine'[q] = x
    BY <1>2, Zenon DEF Coherent, ideVars
  <2>2. x \in valid /\ x \in Buf /\ sector'[x] = sector[x] /\ (x \in dirty' <=> x \in dirty)
    BY <1>1 DEF BioInv, Types
  <2> QED
    BY <2>1, <2>2 DEF BioInv, Coherent
<1> QED
  BY <1>4, <1>5, <1>6, <1>7, <1>8, Zenon DEF BioInv

\* A buffer is given to the driver: to be read, or to be written.
LEMMA RequestHolds ==
  ASSUME BioInv, NEW p \in Process, bread_disk(p) \/ bwrite(p)
  PROVE  BioInv'
<1> DEFINE b == mine[p]
<1>1. /\ UNCHANGED <<busy, valid, sector, data, lru, platter, suspect, want, mine>>
      /\ idequeue' = Append(idequeue, b) /\ pc' = [pc EXCEPT ![p] = "iderw"]
      /\ drive' = IF idequeue = <<>> THEN idestart(b, dirty') ELSE drive
      /\ \/ pc[p] = "bread" /\ b \notin valid /\ dirty' = dirty
         \/ pc[p] = "bwrite" /\ dirty' = dirty \cup {b}
  BY Zenon DEF bread_disk, bwrite, iderw, At, Goto, bufVars
<1>2. /\ b \in Buf /\ b \in busy /\ want[p] \in Sector /\ sector[b] = want[p]
      /\ \A i \in DOMAIN idequeue : idequeue[i] # b
  BY <1>1, Buffers, Zenon
<1>3. (b \in dirty') <=> (b \in valid)
  <2>1. b \notin dirty
    BY <1>2, Zenon DEF BioInv, Queued
  <2> QED
    BY <1>1, <2>1, Zenon DEF BioInv, HasBuffer
<1>4. /\ idequeue \in Seq(Buf) /\ idequeue' \in Seq(Buf)
      /\ Len(idequeue) \in Nat /\ Len(idequeue') = Len(idequeue) + 1
      /\ DOMAIN idequeue = 1..Len(idequeue) /\ DOMAIN idequeue' = 1..(Len(idequeue) + 1)
      /\ \A i \in DOMAIN idequeue : i # Len(idequeue) + 1 /\ idequeue'[i] = idequeue[i]
      /\ idequeue'[Len(idequeue) + 1] = b
      /\ \A i \in DOMAIN idequeue' : i \in DOMAIN idequeue \/ i = Len(idequeue) + 1
  BY <1>1, <1>2 DEF BioInv, Types
<1>5. /\ pc' \in [Process -> Places] /\ pc'[p] = "iderw"
      /\ \A q \in Process \ {p} : pc'[q] = pc[q]
  BY <1>1, Zenon DEF BioInv, Types, Places
<1> HIDE DEF b
<1>6. Types'
  BY <1>1, <1>2, <1>4, <1>5, Zenon DEF BioInv, Types
<1>7. HasBuffer'
  BY <1>1, <1>5, Zenon DEF BioInv, HasBuffer
<1>8. OneBufferPerSector'
  BY <1>1 DEF BioInv, OneBufferPerSector
<1>9. Queued'
  <2>1. ASSUME NEW i \in DOMAIN idequeue', NEW j \in DOMAIN idequeue', idequeue'[i] = idequeue'[j]
        PROVE  i = j
    BY <1>2, <1>4, <2>1 DEF BioInv, Queued
  <2>2. ASSUME NEW i \in DOMAIN idequeue' PROVE \E q \in Process : pc'[q] = "iderw" /\ mine'[q] = idequeue'[i]
    <3>1. CASE i \in DOMAIN idequeue
      <4>1. PICK q \in Process : pc[q] = "iderw" /\ mine[q] = idequeue[i]
        BY <3>1, Zenon DEF BioInv, Queued
      <4> QED
        BY <1>1, <1>4, <1>5, <3>1, <4>1, Zenon
    <3>2. CASE i = Len(idequeue) + 1
      BY <1>1, <1>4, <1>5, <3>2, Zenon DEF b
    <3> QED
      BY <1>4, <3>1, <3>2, Zenon
  <2>3. ASSUME NEW i \in DOMAIN idequeue' PROVE (idequeue'[i] \in dirty') <=> (idequeue'[i] \in valid')
    <3>1. CASE i \in DOMAIN idequeue
      BY <1>1, <1>2, <1>4, <3>1, Zenon DEF BioInv, Queued
    <3>2. CASE i = Len(idequeue) + 1
      BY <1>1, <1>3, <1>4, <3>2, Zenon
    <3> QED
      BY <1>4, <3>1, <3>2, Zenon
  <2>4. ASSUME NEW x \in dirty' PROVE \E i \in DOMAIN idequeue' : idequeue'[i] = x
    <3>1. CASE x \in dirty
      <4>1. PICK i \in DOMAIN idequeue : idequeue[i] = x
        BY <3>1, Zenon DEF BioInv, Queued
      <4> QED
        BY <1>4, <4>1
    <3>2. CASE x = b
      BY <1>4, <3>2
    <3> QED
      BY <1>1, <3>1, <3>2, Zenon
  <2>5. (drive = idestart(idequeue[1], dirty))'
    <3>1. CASE idequeue = <<>>
      <4>1. idequeue'[1] = b
        BY <1>4, <3>1
      <4> QED
        BY <1>1, <3>1, <4>1, Zenon DEF idestart
    <3>2. CASE idequeue # <<>>
      <4>1. 1 \in DOMAIN idequeue /\ idequeue'[1] = idequeue[1] /\ idequeue[1] # b
        BY <1>2, <1>4, <3>2
      <4>2. idequeue[1] \in dirty' <=> idequeue[1] \in dirty
        BY <1>1, <4>1, Zenon
      <4> QED
        BY <1>1, <3>2, <4>1, <4>2 DEF BioInv, Queued, idestart
    <3> QED
      BY <3>1, <3>2, Zenon
  <2> QED
    BY <2>1, <2>2, <2>3, <2>4, <2>5, Zenon DEF Queued
<1>10. Coherent'
  <2> SUFFICES ASSUME NEW x \in valid
               PROVE  /\ sector[x] \in Sector
                      /\ \/ x \in dirty' \/ sector[x] \in suspect
                         \/ data[x] = platter[sector[x]]
                         \/ \E q \in Process : pc'[q] = "bwrite" /\ mine[q] = x
    BY <1>1, Zenon DEF Coherent
  <2>1. x = b => x \in dirty'
    BY <1>3, Zenon
  <2>2. ASSUME x # b, NEW q \in Process, pc[q] = "bwrite", mine[q] = x PROVE pc'[q] = "bwrite"
    BY <1>5, <2>2, Zenon DEF b
  <2>3. x # b => (x \in dirty' <=> x \in dirty)
    BY <1>1, Zenon
  <2> QED
    BY <2>1, <2>2, <2>3, Zenon DEF BioInv, Coherent
<1> QED
  BY <1>6, <1>7, <1>8, <1>9, <1>10, Zenon DEF BioInv

\* The caller changes the data of its buffer.
LEMMA ModifyHolds ==
  ASSUME BioInv, NEW p \in Process, NEW v \in Data, modify(p, v)
  PROVE  BioInv'
<1> DEFINE b == mine[p]
<1>1. /\ UNCHANGED <<busy, valid, dirty, sector, lru, ideVars, want, mine>>
      /\ pc[p] = "use" /\ pc' = [pc EXCEPT ![p] = "bwrite"] /\ data' = [data EXCEPT ![b] = v]
  BY Zenon DEF modify, At, Goto
<1>2. b \in Buf /\ \A i \in DOMAIN idequeue : idequeue[i] # b
  BY <1>1, Buffers, Zenon
<1>3. /\ pc' \in [Process -> Places] /\ pc'[p] = "bwrite"
      /\ \A q \in Process \ {p} : pc'[q] = pc[q]
      /\ data' \in [Buf -> Data] /\ \A x \in Buf \ {b} : data'[x] = data[x]
  BY <1>1, <1>2, Zenon DEF BioInv, Types, Places
<1> HIDE DEF b
<1>4. Types'
  BY <1>1, <1>3, Zenon DEF BioInv, Types, ideVars
<1>5. HasBuffer' /\ OneBufferPerSector'
  BY <1>1, <1>3 DEF BioInv, HasBuffer, OneBufferPerSector
<1>6. Queued'
  <2>1. ASSUME NEW i \in DOMAIN idequeue PROVE \E q \in Process : pc'[q] = "iderw" /\ mine[q] = idequeue[i]
    <3>1. PICK q \in Process : pc[q] = "iderw" /\ mine[q] = idequeue[i]
      BY Zenon DEF BioInv, Queued
    <3> QED
      BY <1>1, <1>3, <3>1, Zenon
  <2>2. (idequeue # <<>> => drive = idestart(idequeue[1], dirty))'
    <3>1. idequeue # <<>> => idequeue[1] \in Buf \ {b}
      BY <1>2 DEF BioInv, Types
    <3> QED
      BY <1>1, <1>3, <3>1 DEF BioInv, Queued, idestart, ideVars
  <2> QED
    BY <1>1, <2>1, <2>2, ZenonT(30) DEF BioInv, Queued, ideVars
<1>7. Coherent'
  <2>1. ASSUME NEW q \in Process, pc[q] = "bwrite" PROVE pc'[q] = "bwrite"
    BY <1>3, <2>1, Zenon
  <2>2. valid \subseteq Buf
    BY Zenon DEF BioInv, Types
  <2> QED
    BY <1>1, <1>3, <2>1, <2>2 DEF BioInv, Coherent, ideVars, b
<1> QED
  BY <1>4, <1>5, <1>6, <1>7, Zenon DEF BioInv

\* The buffer is given back.
LEMMA ReleaseHolds ==
  ASSUME BioInv, NEW p \in Process, brelse(p)
  PROVE  BioInv'
<1> DEFINE b == mine[p]
<1>1. /\ UNCHANGED <<valid, dirty, sector, data, ideVars>>
      /\ pc[p] = "use" /\ pc' = [pc EXCEPT ![p] = "out"] /\ busy' = busy \ {b}
      /\ mine' = [mine EXCEPT ![p] = NoOne] /\ want' = [want EXCEPT ![p] = NoOne]
      /\ lru' = ToFront(b)
  BY Zenon DEF brelse, At, Goto
<1>2. b \in Buf /\ \A i \in DOMAIN idequeue : idequeue[i] # b
  BY <1>1, Buffers, Zenon
<1>3. /\ pc' \in [Process -> Places] /\ pc'[p] = "out"
      /\ mine' \in [Process -> Buf \cup {NoOne}] /\ mine'[p] = NoOne
      /\ want' \in [Process -> Sector \cup {NoOne}]
      /\ \A q \in Process \ {p} : pc'[q] = pc[q] /\ mine'[q] = mine[q] /\ want'[q] = want[q]
  BY <1>1, Zenon DEF BioInv, Types, Places
<1>4. \A q \in Process \ {p} : mine[q] # b
  BY <1>2, BioAssumption, Zenon DEF BioInv, OneBufferPerSector
<1>5. lru' \in [Buf -> Buf]
  <2>1. ASSUME NEW k \in Buf, k # 1 PROVE k - 1 \in Buf
    BY <2>1, BioAssumption DEF Buf
  <2>2. DOMAIN lru = Buf /\ \A k \in Buf : lru[k] \in Buf
    BY Zenon DEF BioInv, Types
  <2> QED
    BY <1>1, <1>2, <2>1, <2>2, Zenon DEF ToFront
<1> HIDE DEF b
<1>6. Types'
  BY <1>1, <1>3, <1>5, Zenon DEF BioInv, Types, ideVars
<1>7. HasBuffer'
  BY <1>1, <1>3, Zenon DEF BioInv, HasBuffer
<1>8. OneBufferPerSector'
  <2>1. busy' = {mine'[q] : q \in Process} \ {NoOne}
    <3>1. ASSUME NEW x \in busy' PROVE x # NoOne /\ \E q \in Process : mine'[q] = x
      <4>1. PICK q \in Process : mine[q] = x /\ x # NoOne /\ x # b
        BY <1>1, Zenon DEF BioInv, OneBufferPerSector
      <4>2. q # p
        BY <4>1, Zenon DEF b
      <4> QED
        BY <1>3, <4>1, <4>2, Zenon
    <3>2. ASSUME NEW q \in Process, mine'[q] # NoOne PROVE mine'[q] \in busy'
      <4>1. q # p /\ mine'[q] = mine[q]
        BY <1>3, <3>2, Zenon
      <4> QED
        BY <1>1, <1>4, <3>2, <4>1 DEF BioInv, OneBufferPerSector
    <3> QED
      BY <3>1, <3>2, Zenon
  <2>2. ASSUME NEW q \in Process, mine'[q] # NoOne PROVE mine'[q] = mine[q] /\ want'[q] = want[q]
    BY <1>3, <2>2, Zenon
  <2>3. \A q, z \in Process : mine'[q] = mine'[z] /\ mine'[q] # NoOne => q = z
    BY <2>2 DEF BioInv, OneBufferPerSector
  <2>4. \A q \in Process : mine'[q] # NoOne => sector'[mine'[q]] = want'[q]
    BY <1>1, <2>2 DEF BioInv, OneBufferPerSector
  <2> QED
    BY <1>1, <2>1, <2>3, <2>4, Zenon DEF BioInv, OneBufferPerSector
<1>9. Queued'
  <2>1. ASSUME NEW i \in DOMAIN idequeue PROVE \E q \in Process : pc'[q] = "iderw" /\ mine'[q] = idequeue[i]
    <3>1. PICK q \in Process : pc[q] = "iderw" /\ mine[q] = idequeue[i]
      BY Zenon DEF BioInv, Queued
    <3> QED
      BY <1>1, <1>3, <3>1, Zenon
  <2> QED
    BY <1>1, <2>1 DEF BioInv, Queued, idestart, ideVars
<1>10. Coherent'
  <2>1. ASSUME NEW q \in Process, pc[q] = "bwrite" PROVE pc'[q] = "bwrite" /\ mine'[q] = mine[q]
    BY <1>1, <1>3, <2>1, Zenon
  <2> QED
    BY <1>1, <2>1 DEF BioInv, Coherent, ideVars
<1> QED
  BY <1>6, <1>7, <1>8, <1>9, <1>10, Zenon DEF BioInv

\* What an interrupt of the drive finds, and what it does, for the buffer at
\* the head of the queue.
LEMMA Interrupt ==
  ASSUME BioInv, ideintr, NEW b, b = idequeue[1]
  PROVE  /\ idequeue # <<>> /\ b \in Buf /\ sector[b] \in Sector /\ idequeue' = Tail(idequeue)
         /\ \E p \in Process : pc[p] = "iderw" /\ mine[p] = b
         /\ b \in dirty <=> b \in valid
         /\ valid' = valid \cup {b} /\ dirty' = dirty \ {b}
         /\ UNCHANGED <<busy, sector, lru, pc, want, mine>>
         /\ data' \in [Buf -> Data] /\ \A x \in Buf \ {b} : data'[x] = data[x]
         /\ \/ /\ b \in dirty /\ platter' = [platter EXCEPT ![sector[b]] = data[b]]
               /\ suspect' = suspect \ {sector[b]} /\ data' = data
            \/ b \notin dirty /\ UNCHANGED <<platter, suspect>> /\ data'[b] = platter[sector[b]]
            \/ suspect' = suspect \cup {sector[b]} /\ UNCHANGED <<platter, data>>
<1>1. /\ idequeue # <<>> /\ Head(idequeue) = b /\ 1 \in DOMAIN idequeue /\ b \in Buf
  BY DEF ideintr, BioInv, Types
<1>2. /\ idequeue' = Tail(idequeue) /\ valid' = valid \cup {b} /\ dirty' = dirty \ {b}
      /\ UNCHANGED <<busy, sector, lru, pc, want, mine>> /\ (drive_ok(b) \/ drive_fails)
  BY <1>1, Zenon DEF ideintr
<1>3. PICK p \in Process : pc[p] = "iderw" /\ mine[p] = b
  BY <1>1 DEF BioInv, Queued
<1>4. sector[b] \in Sector
  BY <1>3, Buffers, Zenon
<1>5. b \in dirty <=> b \in valid
  BY <1>1 DEF BioInv, Queued
<1>6. drive.write = (b \in dirty) /\ drive.sector = sector[b] /\ drive.data = data[b]
  BY <1>1 DEF BioInv, Queued, idestart
<1>7. /\ data \in [Buf -> Data] /\ platter \in [Sector -> Data]
  BY Zenon DEF BioInv, Types
<1>8. CASE drive_fails
  BY <1>1, <1>2, <1>3, <1>4, <1>5, <1>6, <1>7, <1>8, Zenon DEF drive_fails
<1>9. CASE drive_ok(b)
  <2>1. CASE b \in dirty
    <3>1. /\ platter' = [platter EXCEPT ![sector[b]] = data[b]]
          /\ suspect' = suspect \ {sector[b]} /\ data' = data
      BY <1>6, <1>9, <2>1, Zenon DEF drive_ok
    <3> QED
      BY <1>1, <1>2, <1>3, <1>4, <1>5, <1>7, <2>1, <3>1, Zenon
  <2>2. CASE b \notin dirty
    <3>1. UNCHANGED <<platter, suspect>> /\ data' = [data EXCEPT ![b] = platter[sector[b]]]
      BY <1>6, <1>9, <2>2, Zenon DEF drive_ok
    <3> QED
      BY <1>1, <1>2, <1>3, <1>4, <1>5, <1>7, <2>2, <3>1, Zenon
  <2> QED
    BY <2>1, <2>2, Zenon
<1> QED
  BY <1>2, <1>8, <1>9, Zenon

\* The request at the head of the queue is done, or has failed.
LEMMA InterruptHolds ==
  ASSUME BioInv, ideintr
  PROVE  BioInv'
<1> DEFINE b == idequeue[1]
<1>1. /\ idequeue # <<>> /\ b \in Buf /\ sector[b] \in Sector /\ idequeue' = Tail(idequeue)
      /\ \E p \in Process : pc[p] = "iderw" /\ mine[p] = b
      /\ b \in dirty <=> b \in valid
      /\ valid' = valid \cup {b} /\ dirty' = dirty \ {b}
      /\ UNCHANGED <<busy, sector, lru, pc, want, mine>>
      /\ data' \in [Buf -> Data] /\ \A x \in Buf \ {b} : data'[x] = data[x]
      /\ \/ /\ b \in dirty /\ platter' = [platter EXCEPT ![sector[b]] = data[b]]
            /\ suspect' = suspect \ {sector[b]} /\ data' = data
         \/ b \notin dirty /\ UNCHANGED <<platter, suspect>> /\ data'[b] = platter[sector[b]]
         \/ suspect' = suspect \cup {sector[b]} /\ UNCHANGED <<platter, data>>
  BY Interrupt, Zenon
<1>2. drive' = IF Tail(idequeue) = <<>> THEN Idle ELSE idestart(idequeue[2], dirty)
  BY Zenon DEF ideintr
<1>3. /\ idequeue \in Seq(Buf) /\ Len(idequeue) \in Nat /\ idequeue' \in Seq(Buf)
      /\ Len(idequeue') = Len(idequeue) - 1
      /\ DOMAIN idequeue = 1..Len(idequeue) /\ DOMAIN idequeue' = 1..(Len(idequeue) - 1)
      /\ \A i \in DOMAIN idequeue' : i + 1 \in DOMAIN idequeue /\ idequeue'[i] = idequeue[i + 1]
      /\ \A i \in DOMAIN idequeue : i # 1 => i - 1 \in DOMAIN idequeue' /\ idequeue'[i - 1] = idequeue[i]
  BY <1>1 DEF BioInv, Types
<1>4. \A i \in DOMAIN idequeue' : idequeue[i + 1] # b /\ idequeue[i + 1] \in Buf
  <2> SUFFICES ASSUME NEW i \in DOMAIN idequeue' PROVE idequeue[i + 1] # b /\ idequeue[i + 1] \in Buf
    BY Zenon
  <2>1. i + 1 \in DOMAIN idequeue /\ 1 \in DOMAIN idequeue /\ i + 1 # 1
    BY <1>1, <1>3
  <2>2. \A j \in DOMAIN idequeue : idequeue[j] \in Buf
    BY <1>3
  <2>3. idequeue[i + 1] # idequeue[1]
    BY ZenonT(30), <2>1 DEF BioInv, Queued
  <2> QED
    BY <2>1, <2>2, <2>3, Zenon
<1>5. \A x \in Buf \ {b} : sector[x] # sector[b]
  BY <1>1, BioAssumption, ZenonT(30) DEF BioInv, OneBufferPerSector
<1>6. \A s \in Sector \ {sector[b]} : platter'[s] = platter[s] /\ (s \in suspect' <=> s \in suspect)
  BY <1>1, Zenon DEF BioInv, Types
<1>7. platter' \in [Sector -> Data] /\ suspect' \subseteq Sector
  BY <1>1, ZenonT(30) DEF BioInv, Types
<1> HIDE DEF b
<1>8. Types'
  BY <1>1, <1>3, <1>7, Zenon DEF BioInv, Types
<1>9. HasBuffer' /\ OneBufferPerSector'
  BY <1>1 DEF BioInv, HasBuffer, OneBufferPerSector
<1>10. Queued'
  <2>1. ASSUME NEW i \in DOMAIN idequeue', NEW j \in DOMAIN idequeue', idequeue'[i] = idequeue'[j]
        PROVE  i = j
    <3>1. i + 1 = j + 1
      BY <1>3, <2>1 DEF BioInv, Queued
    <3> QED
      BY <1>3, <3>1
  <2>2. ASSUME NEW i \in DOMAIN idequeue'
        PROVE  /\ \E p \in Process : pc'[p] = "iderw" /\ mine'[p] = idequeue'[i]
               /\ idequeue'[i] \in dirty' <=> idequeue'[i] \in valid'
    BY <1>1, <1>3, <1>4 DEF BioInv, Queued
  <2>3. ASSUME NEW x \in dirty' PROVE \E i \in DOMAIN idequeue' : idequeue'[i] = x
    <3>1. PICK i \in DOMAIN idequeue : idequeue[i] = x /\ x # b
      BY <1>1, Zenon DEF BioInv, Queued
    <3>2. i # 1
      BY <3>1, Zenon DEF b
    <3> QED
      BY <1>3, <3>1, <3>2, Zenon
  <2>4. (idequeue # <<>> => drive = idestart(idequeue[1], dirty))'
    <3> SUFFICES ASSUME idequeue' # <<>> PROVE (drive = idestart(idequeue[1], dirty))'
      BY Zenon
    <3>1. 1 \in DOMAIN idequeue' /\ idequeue'[1] = idequeue[2] /\ idequeue[2] # b /\ idequeue[2] \in Buf
      BY <1>3, <1>4
    <3>2. drive' = idestart(idequeue[2], dirty)
      BY <1>1, <1>2, Zenon
    <3>3. /\ data'[idequeue[2]] = data[idequeue[2]] /\ sector' = sector
          /\ idequeue[2] \in dirty' <=> idequeue[2] \in dirty
      BY <1>1, <3>1, Zenon
    <3> QED
      BY <3>1, <3>2, <3>3 DEF idestart
  <2> QED
    BY <2>1, <2>2, <2>3, <2>4, Zenon DEF Queued
<1>11. Coherent'
  <2> SUFFICES ASSUME NEW x \in valid'
               PROVE  /\ sector[x] \in Sector
                      /\ \/ x \in dirty' \/ sector[x] \in suspect'
                         \/ data'[x] = platter'[sector[x]]
                         \/ \E q \in Process : pc[q] = "bwrite" /\ mine[q] = x
    BY <1>1, Zenon DEF Coherent
  <2>1. CASE x = b
    BY <1>1, <2>1 DEF BioInv, Types
  <2>2. CASE x # b
    <3>1. x \in valid /\ x \in Buf /\ sector[x] \in Sector \ {sector[b]} /\ data'[x] = data[x]
      BY <1>1, <1>5, <2>2, Zenon DEF BioInv, Types, Coherent
    <3>2. x \in dirty' <=> x \in dirty
      BY <1>1, <2>2, Zenon
    <3> QED
      BY <1>6, <3>1, <3>2, Zenon DEF BioInv, Coherent
  <2> QED
    BY <2>1, <2>2, Zenon
<1> QED
  BY <1>8, <1>9, <1>10, <1>11, Zenon DEF BioInv

\* Every step keeps the invariant.
LEMMA StepHolds == BioInv /\ [Next]_vars => BioInv'
<1> SUFFICES ASSUME BioInv, [Next]_vars PROVE BioInv'
  BY Zenon
<1>1. CASE ideintr
  BY <1>1, InterruptHolds, Zenon
<1>2. ASSUME NEW p \in Process, Step(p) PROVE BioInv'
  BY <1>2, TakeHolds, WalkHolds, RequestHolds, ReleaseHolds, Zenon DEF Step
<1>3. ASSUME NEW p \in Process, NEW s \in Sector, bread(p, s) PROVE BioInv'
  BY <1>3, WalkHolds, Zenon
<1>4. ASSUME NEW p \in Process, NEW v \in Data, modify(p, v) PROVE BioInv'
  BY <1>4, ModifyHolds, Zenon
<1>5. CASE UNCHANGED vars
  BY <1>5 DEF vars, bufVars, ideVars, procVars, BioInv, Types, HasBuffer, OneBufferPerSector,
              Queued, Coherent, idestart
<1> QED
  BY <1>1, <1>2, <1>3, <1>4, <1>5, Zenon DEF Next

-----------------------------------------------------------------------------
\* The invariant of the buffer cache and the disk driver holds throughout, for
\* any number of buffers, processes and failed requests.
THEOREM BioInvariant == Spec => []BioInv
  BY InitHolds, StepHolds, PTL DEF Spec

\* bget() never gives a sector two buffers nor a buffer two users.
THEOREM OneBufferPerSectorHolds == Spec => []OneBufferPerSector
<1>1. BioInv => OneBufferPerSector
  BY Zenon DEF BioInv
<1> QED
  BY <1>1, BioInvariant, PTL

-----------------------------------------------------------------------------
\* What the file system finds in a sector: the data of its valid buffer, or
\* what the disk has.
LEMMA ContentsAre ==
  ASSUME BioInv, NEW s \in Sector
  PROVE  /\ Contents[s] \in Data
         /\ \A b \in valid : sector[b] = s => Contents[s] = data[b]
         /\ (\A b \in valid : sector[b] # s) => Contents[s] = platter[s]
<1>1. CASE \E b \in valid : sector[b] = s
  <2>1. PICK b \in valid : sector[b] = s
    BY <1>1, Zenon
  <2> DEFINE c == CHOOSE x \in valid : sector[x] = s
  <2>2. c \in valid /\ sector[c] = s
    BY <2>1, Zenon
  <2>3. Contents[s] = data[c]
    BY <1>1, Zenon DEF Contents
  <2> HIDE DEF c
  <2>4. \A x \in valid : sector[x] = s => x = c
    BY <2>2, BioAssumption DEF BioInv, Types, OneBufferPerSector
  <2> QED
    BY <2>2, <2>3, <2>4, Zenon DEF BioInv, Types
<1>2. CASE \A b \in valid : sector[b] # s
  <2>1. Contents[s] = platter[s]
    BY <1>2, Zenon DEF Contents
  <2> QED
    BY <1>2, <2>1, Zenon DEF BioInv, Types
<1> QED
  BY <1>1, <1>2, Zenon

\* The same in the state after a step.
LEMMA ContentsBecome ==
  ASSUME BioInv', NEW s \in Sector
  PROVE  /\ Contents'[s] \in Data
         /\ \A b \in valid' : sector'[b] = s => Contents'[s] = data'[b]
         /\ (\A b \in valid' : sector'[b] # s) => Contents'[s] = platter'[s]
<1>1. CASE \E b \in valid' : sector'[b] = s
  <2>1. PICK b \in valid' : sector'[b] = s
    BY <1>1, Zenon
  <2> DEFINE c == CHOOSE x \in valid' : sector'[x] = s
  <2>2. c \in valid' /\ sector'[c] = s
    BY <2>1, Zenon
  <2>3. Contents'[s] = data'[c]
    BY <1>1, Zenon DEF Contents
  <2> HIDE DEF c
  <2>4. \A x \in valid' : sector'[x] = s => x = c
    BY <2>2, BioAssumption DEF BioInv, Types, OneBufferPerSector
  <2> QED
    BY <2>2, <2>3, <2>4, Zenon DEF BioInv, Types
<1>2. CASE \A b \in valid' : sector'[b] # s
  <2>1. Contents'[s] = platter'[s]
    BY <1>2, Zenon DEF Contents
  <2> QED
    BY <1>2, <2>1, Zenon DEF BioInv, Types
<1> QED
  BY <1>1, <1>2, Zenon

\* The user of a sector is the process that has its buffer.
LEMMA UserIs ==
  ASSUME BioInv, NEW s \in Sector
  PROVE  /\ \A p \in Process : mine[p] # NoOne /\ sector[mine[p]] = s => User[s] = p
         /\ (\A p \in Process : mine[p] # NoOne => sector[mine[p]] # s) => User[s] = NoOne
<1>1. CASE \E p \in Process : mine[p] # NoOne /\ sector[mine[p]] = s
  <2> DEFINE c == CHOOSE p \in Process : mine[p] # NoOne /\ sector[mine[p]] = s
  <2>1. c \in Process /\ mine[c] # NoOne /\ sector[mine[c]] = s
    BY <1>1, Zenon
  <2>2. User[s] = c
    BY <1>1, Zenon DEF User
  <2> HIDE DEF c
  <2>3. \A p \in Process : mine[p] # NoOne /\ sector[mine[p]] = s => p = c
    BY <2>1, BioAssumption, ZenonT(30) DEF BioInv, Types, OneBufferPerSector
  <2> QED
    BY <2>1, <2>2, <2>3, Zenon
<1>2. CASE \A p \in Process : ~(mine[p] # NoOne /\ sector[mine[p]] = s)
  <2>1. User[s] = NoOne
    BY <1>2, Zenon DEF User
  <2> QED
    BY <1>2, <2>1, Zenon
<1> QED
  BY <1>1, <1>2, Zenon

\* The same in the state after a step.
LEMMA UserBecomes ==
  ASSUME BioInv', NEW s \in Sector
  PROVE  /\ \A p \in Process : mine'[p] # NoOne /\ sector'[mine'[p]] = s => User'[s] = p
         /\ (\A p \in Process : mine'[p] # NoOne => sector'[mine'[p]] # s) => User'[s] = NoOne
<1>1. CASE \E p \in Process : mine'[p] # NoOne /\ sector'[mine'[p]] = s
  <2> DEFINE c == CHOOSE p \in Process : mine'[p] # NoOne /\ sector'[mine'[p]] = s
  <2>1. c \in Process /\ mine'[c] # NoOne /\ sector'[mine'[c]] = s
    BY <1>1, Zenon
  <2>2. User'[s] = c
    BY <1>1, Zenon DEF User
  <2> HIDE DEF c
  <2>3. \A p \in Process : mine'[p] # NoOne /\ sector'[mine'[p]] = s => p = c
    BY <2>1, BioAssumption, Zenon DEF BioInv, Types, OneBufferPerSector
  <2> QED
    BY <2>1, <2>2, <2>3, Zenon
<1>2. CASE \A p \in Process : ~(mine'[p] # NoOne /\ sector'[mine'[p]] = s)
  <2>1. User'[s] = NoOne
    BY <1>2, Zenon DEF User
  <2> QED
    BY <1>2, <2>1, Zenon
<1> QED
  BY <1>1, <1>2, Zenon

\* A step that leaves the sectors with their users and contents is none of the
\* store's.
LEMMA Kept ==
  ASSUME UNCHANGED <<valid, sector, data, platter, mine, suspect>>
  PROVE  UNCHANGED Store!vars
<1>1. Contents' = Contents
  BY Zenon DEF Contents
<1>2. User' = User
  BY Zenon DEF User
<1> QED
  BY <1>1, <1>2, Zenon DEF Store!vars

\* bget() takes the sector, and may drop the copy of a suspect one.
LEMMA TakeRefines ==
  ASSUME BioInv, BioInv', NEW p \in Process, bget_hit(p) \/ bget_miss(p)
  PROVE  Store!Next
<1> DEFINE s == want[p]
<1>1. PICK b \in Buf :
        /\ b \notin busy /\ mine' = [mine EXCEPT ![p] = b]
        /\ \/ sector[b] = s /\ UNCHANGED <<sector, valid>>
           \/ /\ ~Cached(s) /\ sector' = [sector EXCEPT ![b] = s]
              /\ valid' = valid \ {b}
  BY Zenon DEF bget_hit, bget_miss, Finds, Recycles, Takes, BioInv, Types
<1>2. pc[p] = "bget" /\ UNCHANGED <<data, platter, suspect>>
  BY Zenon DEF bget_hit, bget_miss, At, ideVars
<1>3. mine[p] = NoOne /\ s \in Sector /\ \A q \in Process : mine[q] # b
  <2>1. \A q \in Process : mine[q] # b
    BY <1>1, BioAssumption DEF BioInv, OneBufferPerSector
  <2> QED
    BY <1>2, <2>1, Zenon DEF BioInv, HasBuffer
<1> HIDE DEF s
<1>4. /\ sector \in [Buf -> Sector \cup {NoOne}] /\ mine \in [Process -> Buf \cup {NoOne}]
      /\ valid \subseteq Buf /\ sector'[b] = s /\ mine'[p] = b /\ b # NoOne
      /\ \A x \in Buf \ {b} : sector'[x] = sector[x]
      /\ \A q \in Process \ {p} : mine'[q] = mine[q]
  BY <1>1, BioAssumption DEF BioInv, Types
<1>5. User' = [User EXCEPT ![s] = p] /\ User[s] = NoOne
  <2>1. User'[s] = p
    BY <1>3, <1>4, UserBecomes, Zenon
  <2>2. User[s] = NoOne
    <3>1. ASSUME NEW q \in Process, mine[q] # NoOne PROVE sector[mine[q]] # s
      BY <1>1, <1>3, <1>4, <3>1, BioAssumption DEF Cached, BioInv, OneBufferPerSector
    <3> QED
      BY <1>3, <3>1, UserIs, Zenon
  <2>3. ASSUME NEW r \in Sector \ {s} PROVE User'[r] = User[r]
    <3>1. ASSUME NEW q \in Process, mine[q] # NoOne, sector[mine[q]] = r
          PROVE  User'[r] = User[r]
      <4>1. q # p /\ mine'[q] = mine[q] /\ sector'[mine[q]] = sector[mine[q]]
        BY <1>3, <1>4, <3>1
      <4> QED
        BY <3>1, <4>1, UserIs, UserBecomes
    <3>2. ASSUME \A q \in Process : mine[q] # NoOne => sector[mine[q]] # r
          PROVE  User'[r] = User[r]
      <4>1. \A q \in Process : mine'[q] # NoOne => sector'[mine'[q]] # r
        BY <1>3, <1>4, <3>2
      <4> QED
        BY <3>2, <4>1, UserIs, UserBecomes
    <3> QED
      BY <3>1, <3>2, Zenon
  <2>4. User = [r \in Sector |-> User[r]] /\ User' = [r \in Sector |-> User'[r]]
    BY Zenon DEF User
  <2> QED
    BY <1>3, <2>1, <2>2, <2>3, <2>4, Zenon
<1>6. ASSUME NEW r \in Sector, b \notin valid \/ sector[b] # r \/ UNCHANGED <<sector, valid>>
      PROVE  Contents'[r] = Contents[r]
  <2>1. \A x \in Buf : x \in valid' /\ sector'[x] = r <=> x \in valid /\ sector[x] = r
    BY <1>1, <1>4, <1>6, Zenon
  <2>2. CASE \E x \in valid : sector[x] = r
    BY <1>2, <1>4, <2>1, <2>2, ContentsAre, ContentsBecome
  <2>3. CASE \A x \in valid : sector[x] # r
    <3>1. \A x \in valid' : sector'[x] # r
      BY <2>1, <2>3, Zenon DEF BioInv, Types
    <3> QED
      BY <1>2, <2>3, <3>1, ContentsAre, ContentsBecome, Zenon
  <2> QED
    BY <2>2, <2>3, Zenon
<1>0. /\ Contents = [r \in Sector |-> Contents[r]]
      /\ Contents' = [r \in Sector |-> Contents'[r]]
  BY Zenon DEF Contents
<1>7. CASE Contents' = Contents
  <2>1. Store!Take(p, s)
    BY <1>2, <1>5, <1>7, Zenon DEF Store!Take
  <2> QED
    BY <1>3, <2>1, Zenon DEF Store!Next
<1>8. CASE Contents' # Contents
  <2>1. b \in valid /\ ~Cached(s) /\ sector[b] \in Sector
    <3>1. PICK r \in Sector : Contents'[r] # Contents[r]
      BY <1>8, <1>0, Zenon
    <3> QED
      BY <1>1, <1>6, <3>1, Zenon
  <2> DEFINE r == sector[b]
  <2>2. b \notin dirty /\ \A q \in Process : mine[q] # b
    BY <1>1, <1>3, BioAssumption DEF BioInv, Queued
  <2>3. r \in suspect \/ data[b] = platter[r]
    BY <2>1, <2>2, Zenon DEF BioInv, Coherent
  <2>4. r # s
    BY <2>1, Zenon DEF Cached
  <2>5. Contents[r] = data[b]
    BY <2>1, ContentsAre, Zenon
  <2>6. Contents'[r] = platter[r] /\ Contents'[r] \in Data
    <3>1. \A x \in valid' : sector'[x] # r
      BY <1>1, <1>4, <2>1, <2>4, BioAssumption DEF BioInv, OneBufferPerSector
    <3> QED
      BY <1>2, <2>1, <3>1, ContentsBecome, Zenon
  <2>7. \A t \in Sector \ {r} : Contents'[t] = Contents[t]
    BY <1>6, Zenon
  <2>8. r \in suspect
    <3>1. SUFFICES ASSUME data[b] = platter[r] PROVE FALSE
      BY <2>3, Zenon
    <3>2. \A t \in Sector : Contents'[t] = Contents[t]
      BY <2>5, <2>6, <2>7, <3>1, Zenon
    <3> QED
      BY <1>8, <1>0, <3>2, Zenon
  <2>9. User[r] = NoOne
    <3>1. ASSUME NEW q \in Process, mine[q] # NoOne PROVE sector[mine[q]] # r
      BY <1>3, <1>4, <2>1, <3>1, BioAssumption DEF BioInv, OneBufferPerSector
    <3> QED
      BY <2>1, <3>1, UserIs, Zenon
  <2>10. Contents' = [Contents EXCEPT ![r] = platter[r]]
    BY <1>0, <2>1, <2>6, <2>7, Zenon
  <2>11. Store!Drop(p, r, s)
    BY <1>2, <1>5, <2>6, <2>8, <2>9, <2>10, Zenon DEF Store!Drop
  <2> QED
    BY <1>3, <2>1, <2>11, Zenon DEF Store!Next
<1> QED
  BY <1>7, <1>8, Zenon

\* The user of a buffer changes the contents of its sector.
LEMMA ModifyRefines ==
  ASSUME BioInv, BioInv', NEW p \in Process, NEW v \in Data, modify(p, v)
  PROVE  Store!Next
<1> DEFINE b == mine[p]
           s == sector[b]
<1>1. /\ pc[p] = "use" /\ data' = [data EXCEPT ![b] = v]
      /\ UNCHANGED <<valid, sector, platter, mine, suspect>>
  BY Zenon DEF modify, At, ideVars
<1>2. /\ b \in Buf /\ b # NoOne /\ s \in Sector /\ b \in valid
      /\ data \in [Buf -> Data] /\ valid \subseteq Buf
  BY <1>1, Buffers, BioAssumption, Zenon DEF BioInv, HasBuffer, Types
<1> HIDE DEF b, s
<1>3. b = mine[p] /\ s = sector[b]
  BY Zenon DEF b, s
<1>4. User' = User /\ User[s] = p
  <2>1. User' = User
    BY <1>1, Zenon DEF User
  <2> QED
    BY <1>2, <1>3, <2>1, UserIs, Zenon
<1>5. Contents'[s] = v
  BY <1>1, <1>2, <1>3, ContentsBecome, Zenon
<1>6. ASSUME NEW r \in Sector \ {s} PROVE Contents'[r] = Contents[r]
  <2>1. \A x \in valid : sector[x] = r => data'[x] = data[x]
    BY <1>1, <1>2, <1>3, Zenon
  <2>2. CASE \E x \in valid : sector[x] = r
    BY <1>1, <2>1, <2>2, ContentsAre, ContentsBecome
  <2>3. CASE \A x \in valid : sector[x] # r
    BY <1>1, <2>3, ContentsAre, ContentsBecome, Zenon
  <2> QED
    BY <2>2, <2>3, Zenon
<1>7. /\ Contents = [r \in Sector |-> Contents[r]]
      /\ Contents' = [r \in Sector |-> Contents'[r]]
  BY Zenon DEF Contents
<1>8. Contents' = [Contents EXCEPT ![s] = v]
  BY <1>2, <1>5, <1>6, <1>7, Zenon
<1>9. Store!Change(p, s)
  BY <1>1, <1>4, <1>8, Zenon DEF Store!Change
<1> QED
  BY <1>2, <1>9, Zenon DEF Store!Next

\* brelse() gives the sector up.
LEMMA ReleaseRefines ==
  ASSUME BioInv, BioInv', NEW p \in Process, brelse(p)
  PROVE  Store!Next
<1> DEFINE s == sector[mine[p]]
<1>1. /\ pc[p] = "use" /\ mine' = [mine EXCEPT ![p] = NoOne]
      /\ UNCHANGED <<valid, sector, data, platter, suspect>>
  BY Zenon DEF brelse, At, ideVars
<1>2. mine[p] \in Buf /\ mine[p] # NoOne /\ s \in Sector
  BY <1>1, Buffers, BioAssumption, Zenon
<1>3. Contents' = Contents
  BY <1>1, Zenon DEF Contents
<1>4. User[s] = p
  BY <1>2, UserIs, Zenon
<1>5. /\ mine'[p] = NoOne /\ \A q \in Process \ {p} : mine'[q] = mine[q]
      /\ \A q \in Process \ {p} : mine[q] # NoOne => sector[mine[q]] # s
  BY <1>1, <1>2, BioAssumption, SMTT(30) DEF BioInv, Types, OneBufferPerSector
<1> HIDE DEF s
<1>6. User'[s] = NoOne
  BY <1>1, <1>2, <1>5, UserBecomes
<1>7. ASSUME NEW r \in Sector \ {s} PROVE User'[r] = User[r]
  <2>1. CASE \E q \in Process : mine[q] # NoOne /\ sector[mine[q]] = r
    BY <1>1, <1>5, <1>7, <2>1, UserIs, UserBecomes DEF s
  <2>2. CASE \A q \in Process : mine[q] # NoOne => sector[mine[q]] # r
    BY <1>1, <1>5, <2>2, UserIs, UserBecomes
  <2> QED
    BY <2>1, <2>2, Zenon
<1>8. User = [r \in Sector |-> User[r]] /\ User' = [r \in Sector |-> User'[r]]
  BY Zenon DEF User
<1>9. User' = [User EXCEPT ![s] = NoOne]
  BY <1>2, <1>6, <1>7, <1>8, Zenon
<1>10. Store!Give(p, s)
  BY <1>1, <1>3, <1>4, <1>9, Zenon DEF Store!Give
<1> QED
  BY <1>2, <1>10, Zenon DEF Store!Next

\* A write that succeeds makes the contents of its sector sure, a request that
\* fails makes them doubtful, and a read changes nothing.
LEMMA InterruptRefines ==
  ASSUME BioInv, BioInv', ideintr
  PROVE  [Store!Next]_(Store!vars)
<1> DEFINE b == idequeue[1]
           s == sector[b]
<1>1. /\ b \in Buf /\ s \in Sector
      /\ \E p \in Process : pc[p] = "iderw" /\ mine[p] = b
      /\ b \in dirty <=> b \in valid
      /\ valid' = valid \cup {b} /\ UNCHANGED <<sector, mine>>
      /\ data' \in [Buf -> Data] /\ \A x \in Buf \ {b} : data'[x] = data[x]
      /\ \/ /\ b \in dirty /\ platter' = [platter EXCEPT ![s] = data[b]]
            /\ suspect' = suspect \ {s} /\ data' = data
         \/ b \notin dirty /\ UNCHANGED <<platter, suspect>> /\ data'[b] = platter[s]
         \/ suspect' = suspect \cup {s} /\ UNCHANGED <<platter, data>>
  BY Interrupt, Zenon
<1>2. User' = User
  BY <1>1, Zenon DEF User
<1>3. s = sector[b] /\ valid \subseteq Buf /\ platter \in [Sector -> Data]
  BY Zenon DEF BioInv, Types
<1>4. User[s] # NoOne
  BY <1>1, UserIs, BioAssumption
<1> HIDE DEF b, s
<1>5. ASSUME NEW r \in Sector \ {s} PROVE Contents'[r] = Contents[r]
  <2>1. platter'[r] = platter[r]
    BY <1>1, <1>3, Zenon
  <2>2. \A x \in valid : sector[x] = r => data'[x] = data[x] /\ x \in valid'
    BY <1>1, <1>3, Zenon
  <2>3. CASE \E x \in valid : sector[x] = r
    BY <1>1, <2>2, <2>3, ContentsAre, ContentsBecome
  <2>4. CASE \A x \in valid : sector[x] # r
    <3>1. \A x \in valid' : sector'[x] # r
      BY <1>1, <1>3, <2>4, Zenon
    <3> QED
      BY <2>1, <2>4, <3>1, ContentsAre, ContentsBecome, Zenon
  <2> QED
    BY <2>3, <2>4, Zenon
<1>6. /\ Contents = [r \in Sector |-> Contents[r]]
      /\ Contents' = [r \in Sector |-> Contents'[r]]
  BY Zenon DEF Contents
<1>7. Contents'[s] = data'[b] /\ Contents'[s] \in Data
  BY <1>1, <1>3, ContentsBecome
<1>8. CASE suspect' = suspect \cup {s}
  <2>1. Contents' = [Contents EXCEPT ![s] = data'[b]]
    BY <1>1, <1>5, <1>6, <1>7, Zenon
  <2>2. Store!Fail(s)
    BY <1>2, <1>7, <1>8, <2>1, Zenon DEF Store!Fail
  <2> QED
    BY <1>1, <2>2, Zenon DEF Store!Next
<1>9. CASE b \in dirty /\ suspect' = suspect \ {s} /\ data' = data
  <2>1. Contents[s] = data[b]
    BY <1>1, <1>3, <1>9, ContentsAre, Zenon
  <2>2. Contents' = Contents
    BY <1>5, <1>6, <1>7, <1>9, <2>1, Zenon
  <2>3. Store!Recover(s)
    BY <1>2, <1>4, <1>9, <2>2, Zenon DEF Store!Recover
  <2> QED
    BY <1>1, <2>3, Zenon DEF Store!Next
<1>10. CASE b \notin dirty /\ UNCHANGED <<platter, suspect>> /\ data'[b] = platter[s]
  <2>1. \A x \in valid : sector[x] # s
    BY <1>1, <1>3, <1>10, BioAssumption DEF BioInv, OneBufferPerSector
  <2>2. Contents[s] = platter[s]
    BY <1>1, <2>1, ContentsAre, Zenon
  <2>3. Contents' = Contents
    BY <1>5, <1>6, <1>7, <1>10, <2>2, Zenon
  <2> QED
    BY <1>2, <1>10, <2>3, ZenonT(30) DEF Store!vars
<1> QED
  BY <1>1, <1>8, <1>9, <1>10, Zenon

\* ImplementsStore for any instance: what bread(), bwrite() and brelse() do to
\* the buffers, the queue and the drive is what a SectorStore does, in spite of
\* the cache's recycling of buffers and of requests that the drive fails.
THEOREM CacheRefinesStore == Spec => ImplementsStore
<1>1. Init => Store!Init
  <2> SUFFICES ASSUME Init PROVE Store!Init
    BY Zenon
  <2>1. BioInv
    BY InitHolds, Zenon
  <2>2. User = [s \in Sector |-> NoOne]
    BY Zenon DEF Init, User
  <2>3. Contents \in [Sector -> Data]
    <3>1. Contents = [s \in Sector |-> Contents[s]]
      BY Zenon DEF Contents
    <3>2. \A s \in Sector : Contents[s] \in Data
      BY <2>1, ContentsAre, Zenon
    <3> QED
      BY <3>1, <3>2, Zenon
  <2> QED
    BY <2>2, <2>3, Zenon DEF Store!Init, Init
<1>2. BioInv /\ BioInv' /\ [Next]_vars => [Store!Next]_(Store!vars)
  <2> SUFFICES ASSUME BioInv, BioInv', [Next]_vars PROVE [Store!Next]_(Store!vars)
    BY Zenon
  <2>1. CASE UNCHANGED vars
    BY <2>1, Kept, Zenon DEF vars, bufVars, ideVars, procVars
  <2>2. CASE ideintr
    BY <2>2, InterruptRefines, Zenon
  <2>3. ASSUME NEW p \in Process, bget_hit(p) \/ bget_miss(p) PROVE Store!Next
    BY <2>3, TakeRefines, Zenon
  <2>4. ASSUME NEW p \in Process, NEW v \in Data, modify(p, v) PROVE Store!Next
    BY <2>4, ModifyRefines, Zenon
  <2>5. ASSUME NEW p \in Process, brelse(p) PROVE Store!Next
    BY <2>5, ReleaseRefines, Zenon
  <2>6. ASSUME NEW p \in Process,
               \/ \E s \in Sector : bread(p, s)
               \/ bget_wait(p) \/ bget_panic(p) \/ bread_valid(p) \/ iderw_wakes(p)
               \/ bread_disk(p) \/ bwrite(p)
        PROVE  UNCHANGED Store!vars
    <3>1. UNCHANGED <<valid, sector, data, platter, mine, suspect>>
      BY <2>6, Zenon DEF bread, bget_wait, bget_panic, bread_valid, iderw_wakes, bread_disk, bwrite,
                  bufVars, ideVars
    <3> QED
      BY <3>1, Kept, Zenon
  <2> QED
    BY <2>1, <2>2, <2>3, <2>4, <2>5, <2>6, Zenon DEF Next, Step
<1> QED
  BY <1>1, <1>2, BioInvariant, PTL DEF Spec, ImplementsStore, Store!Spec

-----------------------------------------------------------------------------
\* 8 inodes and 4096 bits fit in a sector.
LEMMA Fits == IPB = 8 /\ BPB = 4096
BY SMT DEF IPB, BPB, BSIZE, dinode, NDIRECT

\* Division by the inodes of a sector is monotonic and has its remainder.
LEMMA Div8 ==
  ASSUME NEW a \in Nat, NEW b \in Nat
  PROVE  /\ a \div 8 \in Nat /\ a % 8 \in 0..7 /\ a = 8 * (a \div 8) + (a % 8)
         /\ a <= b => a \div 8 <= b \div 8
BY SMT, ZenonT(30)

\* The same for the bits of a sector.
LEMMA Div4096 ==
  ASSUME NEW a \in Nat, NEW b \in Nat
  PROVE  /\ a \div 4096 \in Nat /\ a % 4096 \in 0..4095 /\ a = 4096 * (a \div 4096) + (a % 4096)
         /\ a <= b => a \div 4096 <= b \div 4096
BY SMT

\* For every size of the disk and every number of inodes, the superblock, the
\* sectors of the inodes, those of the bitmap and the blocks that mkfs leaves
\* for data are apart: no update of one by fs.c overwrites another.
THEOREM RegionsApart ==
  ASSUME NEW ninodes \in Nat, NEW size \in Nat,
         NEW i \in 0..ninodes, NEW b \in 0..size
  PROVE  /\ Superblock < IBLOCK(i)
         /\ IBLOCK(i) < BBLOCK(b, ninodes)
         /\ BBLOCK(b, ninodes) < usedblocks(ninodes, size)
<1>1. i \in Nat /\ b \in Nat /\ i <= ninodes /\ b <= size
  OBVIOUS
<1>2. /\ i \div 8 \in Nat /\ ninodes \div 8 \in Nat /\ i \div 8 <= ninodes \div 8
  BY <1>1, Div8, ZenonT(30)
<1>3. /\ b \div 4096 \in Nat /\ size \div 4096 \in Nat /\ b \div 4096 <= size \div 4096
  BY <1>1, Div4096
<1>4. usedblocks(ninodes, size) = (ninodes \div 8) + 3 + (size \div 4096) + 1
  BY <1>2, <1>3, Fits DEF usedblocks, bitblocks
<1> QED
  BY <1>2, <1>3, <1>4, Fits DEF Superblock, IBLOCK, BBLOCK

\* Two inodes never share their place in a sector, nor two blocks their bit:
\* iupdate(), balloc() and bfree() change what belongs to one of them only.
THEOREM PlacesApart ==
  ASSUME NEW ninodes \in Nat, NEW i \in Nat, NEW j \in Nat
  PROVE  /\ IBLOCK(i) = IBLOCK(j) /\ ISLOT(i) = ISLOT(j) => i = j
         /\ BBLOCK(i, ninodes) = BBLOCK(j, ninodes) /\ BBIT(i) = BBIT(j) => i = j
<1>1. ASSUME IBLOCK(i) = IBLOCK(j), ISLOT(i) = ISLOT(j) PROVE i = j
  <2>1. i \div 8 = j \div 8 /\ i % 8 = j % 8
    BY <1>1, Fits, Div8, SMTT(30) DEF IBLOCK, ISLOT
  <2> QED
    BY <2>1, Div8
<1>2. ASSUME BBLOCK(i, ninodes) = BBLOCK(j, ninodes), BBIT(i) = BBIT(j) PROVE i = j
  <2>1. i \div 4096 = j \div 4096 /\ i % 4096 = j % 4096
    BY <1>2, Fits, Div8, Div4096 DEF BBLOCK, BBIT
  <2> QED
    BY <2>1, Div4096, SMTT(30)
<1> QED
  BY <1>1, <1>2, Zenon

\* mkfs and the kernel agree: an inode is where mkfs wrote it, and the one
\* sector of bits that mkfs writes has those of all the blocks it has used,
\* which balloc() of mkfs asserts to be fewer than 512*8.
THEOREM MkfsAgrees ==
  ASSUME NEW ninodes \in Nat, NEW i \in Nat,
         NEW used \in Nat, used < 512 * 8, NEW b \in 0..used
  PROVE  /\ i2b(i) = IBLOCK(i)
         /\ BBLOCK(b, ninodes) = bitsector(ninodes)
<1>1. b \div 4096 = 0
  BY SMT
<1>2. ninodes \div 8 \in Nat
  BY Div8, Zenon
<1> QED
  BY <1>1, <1>2, Fits DEF i2b, IBLOCK, BBLOCK, bitsector

\* The disk that mkfs makes has room for what it says: nblocks + usedblocks is
\* size, as mkfs asserts.
THEOREM DiskFits == 995 + usedblocks(200, 1024) = 1024
<1>1. 200 \div 8 = 25 /\ 1024 \div 4096 = 0
  BY SMT
<1> QED
  BY <1>1, Fits DEF usedblocks, bitblocks

=============================================================================
