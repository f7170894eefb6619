--------------------------------- MODULE Fs ---------------------------------
(***************************************************************************)
(* kernel/fs.c.  The functions are operators on a record K: the disk (the  *)
(* inodes dinode, the bitmap used, block) and the inode cache inode, whose *)
(* entries have the copy d of an inode on disk.                            *)
(*                                                                         *)
(* A block is BSIZE cells.  A cell is a directory entry <<name, inum>>, an *)
(* address <<b>> in an indirect block, a unit of data, or zero: <<>>.      *)
(* Block 0, which is never used, stands for the address 0.                 *)
(***************************************************************************)
EXTENDS Integers, Sequences, SequencesExt, FiniteSets, FiniteSetsExt

CONSTANTS
  NINODES,    \* sb.ninodes
  NBLOCKS,    \* bits of the bitmap that are not those of the inodes and the bitmap
  BSIZE,      \* cells of a block
  NDIRECT,
  NINODE      \* entries of icache

Inum == 1..NINODES
Block == 1..NBLOCKS
Slot == 1..NINODE
NINDIRECT == BSIZE
MAXFILE == NDIRECT + NINDIRECT

ASSUME FsAssumption ==
  {NINODES, NBLOCKS, BSIZE, NDIRECT, NINODE} \subseteq Nat \ {0}

-----------------------------------------------------------------------------
Zero == [i \in 0..BSIZE - 1 |-> <<>>]
NoAddrs == [i \in 0..NDIRECT |-> 0]
FreeInode == [type |-> "free", nlink |-> 0, size |-> 0, addrs |-> NoAddrs]

Panic(K, why) == IF K.panic = "" THEN [K EXCEPT !.panic = why] ELSE K

(***************************************************************************)
(* Blocks.  balloc() takes the first free block and leaves its contents;   *)
(* bfree() has zeroed it.  The block taken is FirstFree(K).  balloc()      *)
(* tries every bit of a sector of the bitmap, up to NBLOCKS, before it     *)
(* panics: it does not compare a bit with the size of the disk.            *)
(***************************************************************************)
FirstFree(K) ==
  IF Block \subseteq K.used THEN 0 ELSE Min(Block \ K.used)

balloc(K) ==
  IF Block \subseteq K.used THEN Panic(K, "balloc: out of blocks")
                            ELSE [K EXCEPT !.used = @ \cup {FirstFree(K)}]

\* The block keeps its contents.
bfree_NoZero(K, B) == [K EXCEPT !.used = @ \ B]

bfree(K, B) ==
  IF B \subseteq K.used
    THEN [K EXCEPT !.used = @ \ B,
                   !.block = [b \in DOMAIN @ |-> IF b \in B THEN Zero ELSE @[b]]]
    ELSE Panic(K, "freeing free block")

(***************************************************************************)
(* Inodes and their cache.                                                 *)
(***************************************************************************)
iupdate(K, s) == [K EXCEPT !.dinode[K.inode[s].inum] = K.inode[s].d]

\* The first entry that is not in use, without a look at the rest.
SlotFor_FirstEmpty(K, i) ==
  LET ok == {s \in Slot : K.inode[s].ref = 0 \/ K.inode[s].inum = i}
  IN IF ok # {} THEN Min(ok) ELSE 0

\* The entry that iget() finds or uses for inode i; 0 if there is none.
SlotFor(K, i) ==
  LET has == {s \in Slot : K.inode[s].ref > 0 /\ K.inode[s].inum = i}
      empty == {s \in Slot : K.inode[s].ref = 0}
  IN IF has # {} THEN Min(has) ELSE IF empty # {} THEN Min(empty) ELSE 0

iget(K, i) ==
  LET s == SlotFor(K, i) IN
  IF s = 0 THEN Panic(K, "iget: no inodes")
  ELSE IF K.inode[s].ref > 0 THEN [K EXCEPT !.inode[s].ref = @ + 1]
  ELSE [K EXCEPT !.inode[s] =
          [@ EXCEPT !.inum = i, !.ref = 1, !.busy = FALSE, !.valid = FALSE]]

idup(K, s) == [K EXCEPT !.inode[s].ref = @ + 1]

ilock(K, s) ==
  LET d == IF K.inode[s].valid THEN K.inode[s].d ELSE K.dinode[K.inode[s].inum]
      L == [K EXCEPT !.inode[s] = [@ EXCEPT !.busy = TRUE, !.valid = TRUE, !.d = d]]
  IN IF K.inode[s].ref < 1 THEN Panic(K, "ilock")
     ELSE IF d.type = "free" THEN Panic(L, "ilock: no type") ELSE L

iunlock(K, s) ==
  IF K.inode[s].busy /\ K.inode[s].ref > 0 THEN [K EXCEPT !.inode[s].busy = FALSE]
                                           ELSE Panic(K, "iunlock")

(***************************************************************************)
(* Contents.  bmap() allocates what is missing on the way to block bn, and *)
(* Addr is where the block is then.  It does so for readers too, who do    *)
(* not write the inode back.                                               *)
(***************************************************************************)
ToBlock(c) == IF c = <<>> THEN 0 ELSE c[1]

bmap_direct(K, s, n) ==
  IF K.inode[s].d.addrs[n] # 0 THEN K
  ELSE [balloc(K) EXCEPT !.inode[s].d.addrs[n] = FirstFree(K)]

bmap_indirect(K, s, n) ==
  LET b == K.inode[s].d.addrs[NDIRECT] IN
  IF K.block[b][n] # <<>> THEN K
  ELSE [balloc(K) EXCEPT !.block[b][n] = <<FirstFree(K)>>]

bmap(K, s, bn) ==
  IF bn < NDIRECT THEN bmap_direct(K, s, bn)
  ELSE IF bn < MAXFILE
    THEN bmap_indirect(bmap_direct(K, s, NDIRECT), s, bn - NDIRECT)
  ELSE Panic(K, "bmap: out of range")

Addr(K, d, bn) ==
  IF bn < NDIRECT THEN d.addrs[bn]
                  ELSE ToBlock(K.block[d.addrs[NDIRECT]][bn - NDIRECT])

Cell(K, d, off) == K.block[Addr(K, d, off \div BSIZE)][off % BSIZE]

\* The blocks of inode d: its contents, and with the indirect block.
DataBlocks(K, d) ==
  {d.addrs[i] : i \in 0..NDIRECT - 1}
    \cup {ToBlock(K.block[d.addrs[NDIRECT]][j]) : j \in 0..NINDIRECT - 1}

Blocks(K, d) == (DataBlocks(K, d) \cup {d.addrs[NDIRECT]}) \ {0}

itrunc(K, s) ==
  LET F == bfree(K, Blocks(K, K.inode[s].d))
  IN iupdate([F EXCEPT !.inode[s].d.addrs = NoAddrs, !.inode[s].d.size = 0], s)

\* bmap() of the blocks from number a on, up to number b.
Visit(K, s, a, b) ==
  FoldLeft(LAMBDA J, i : bmap(J, s, i), K, [i \in 1..b - a + 1 |-> a + i - 1])

\* How much readi() reads; what it has read, and the kernel then.
readi_count(K, s, off, n) ==
  LET d == K.inode[s].d IN
  IF d.type = "dev" \/ off > d.size THEN 0 ELSE IF off + n > d.size THEN d.size - off ELSE n

readi_data(K, s, off, n) ==
  [i \in 1..readi_count(K, s, off, n) |-> Cell(K, K.inode[s].d, off + i - 1)]

readi(K, s, off, n) ==
  LET m == readi_count(K, s, off, n)
  IN IF m = 0 THEN K ELSE Visit(K, s, off \div BSIZE, (off + m - 1) \div BSIZE)

\* How much writei() writes; -1 is an error.
writei_count(K, s, off, n) ==
  IF K.inode[s].d.type = "dev" THEN n
  ELSE IF off > K.inode[s].d.size THEN -1
  ELSE IF off + n > MAXFILE * BSIZE THEN MAXFILE * BSIZE - off ELSE n

Store(K, s, off, c) ==
  LET M == bmap(K, s, off \div BSIZE)
  IN [M EXCEPT !.block[Addr(M, M.inode[s].d, off \div BSIZE)][off % BSIZE] = c]

writei(K, s, off, n, c) ==
  LET m == writei_count(K, s, off, n)
      W == FoldLeft(LAMBDA J, i : Store(J, s, off + i, c), K, [i \in 1..m |-> i - 1])
  IN IF K.inode[s].d.type = "dev" \/ m <= 0 THEN K
     ELSE IF off + m > W.inode[s].d.size
       THEN iupdate([W EXCEPT !.inode[s].d.size = off + m], s)
     ELSE W

(***************************************************************************)
(* Directories.  dirlookup() looks at whole blocks, past the size too, up  *)
(* to the one that has the name.                                           *)
(***************************************************************************)
Entries(K, d) ==
  {o \in 0..MAXFILE * BSIZE - 1 : o - (o % BSIZE) < d.size /\ Cell(K, d, o) # <<>>}

Named(K, s, name) ==
  {o \in Entries(K, K.inode[s].d) : Cell(K, K.inode[s].d, o)[1] = name}

\* dirlookup() of a name that is not there.
LookAll(K, s) == Visit(K, s, 0, (K.inode[s].d.size + BSIZE - 1) \div BSIZE - 1)

\* The number of the inode, 0 if the name is not there.
dirlookup_inum(K, s, name) ==
  LET L == LookAll(K, s)
      at == Named(L, s, name)
  IN IF at = {} THEN 0 ELSE Cell(L, L.inode[s].d, Min(at))[2]

dirlookup(K, s, name) ==
  LET at == Named(LookAll(K, s), s, name)
  IN IF at = {} THEN LookAll(K, s) ELSE Visit(K, s, 0, Min(at) \div BSIZE)

\* The name is not there.
dirlink(K, s, name, i) ==
  LET L == LookAll(K, s)
      d == L.inode[s].d
      empty == {o \in 0..d.size - 1 : Cell(L, d, o) = <<>>}
      off == IF empty = {} THEN d.size ELSE Min(empty)
  IN IF writei_count(L, s, off, 1) # 1 THEN Panic(L, "dirlink")
     ELSE writei(L, s, off, 1, <<name, i>>)

\* The entries that isdirempty() reads: up to one that is in use.
Used(K, s) == {o \in 2..K.inode[s].d.size - 1 : Cell(K, K.inode[s].d, o) # <<>>}

isdirempty_ret(K, s) == Used(LookAll(K, s), s) = {}

isdirempty(K, s) ==
  LET used == Used(LookAll(K, s), s)
      end == IF used = {} THEN K.inode[s].d.size ELSE Min(used) + 1
  IN IF end <= 2 THEN K ELSE Visit(K, s, 2 \div BSIZE, (end - 1) \div BSIZE)

=============================================================================
