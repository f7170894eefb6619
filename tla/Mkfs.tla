-------------------------------- MODULE Mkfs --------------------------------
(***************************************************************************)
(* tools/mkfs.c: the image of a directory of files and directories.  The   *)
(* functions are operators on a record M like K of Fs, with the next inode *)
(* and the next block to use.  The superblock, the inodes and the bitmap   *)
(* have no block numbers; where mkfs and the kernel look for them is in    *)
(* Layout.                                                                 *)
(***************************************************************************)
EXTENDS Fs

mkfs == [dinode |-> [i \in Inum |-> FreeInode], used |-> {},
         block |-> [b \in 0..NBLOCKS |-> Zero], freeblock |-> 1, freeinode |-> 1]

ialloc(M, type) ==
  [M EXCEPT !.dinode[M.freeinode] = [FreeInode EXCEPT !.type = type, !.nlink = 1],
            !.freeinode = @ + 1]

\* The block for offset off of inode i is there.
mapped(M, i, off) ==
  LET fbn == off \div BSIZE
      a == IF fbn < NDIRECT THEN fbn ELSE NDIRECT
      D == IF M.dinode[i].addrs[a] # 0 THEN M
           ELSE [M EXCEPT !.dinode[i].addrs[a] = M.freeblock, !.freeblock = @ + 1]
      b == D.dinode[i].addrs[NDIRECT]
  IN IF fbn < NDIRECT \/ D.block[b][fbn - NDIRECT] # <<>> THEN D
     ELSE [D EXCEPT !.block[b][fbn - NDIRECT] = <<D.freeblock>>, !.freeblock = @ + 1]

iappend(M, i, cells) ==
  LET append(A, c) ==
        LET off == A.dinode[i].size
            B == mapped(A, i, off)
        IN [B EXCEPT !.block[Addr(B, B.dinode[i], off \div BSIZE)][off % BSIZE] = c,
                     !.dinode[i].size = off + 1]
  IN FoldLeft(append, M, cells)

\* A file of the host becomes the next inode.
add_file(M, data) == iappend(ialloc(M, "file"), M.freeinode, data)

\* So does a directory, with its entries; its size is made one of whole blocks.
RECURSIVE add_dir(_, _, _, _)
add_dir(M, dir, parent, entries) ==
  LET add(B, e) ==
        iappend(IF e.type = "dir" THEN add_dir(ialloc(B, "dir"), B.freeinode, dir, e.entries)
                                  ELSE add_file(B, e.data),
                dir, <<<<e.name, B.freeinode>>>>)
      A == FoldLeft(add, iappend(M, dir, <<<<".", dir>>, <<"..", parent>>>>), entries)
  IN [A EXCEPT !.dinode[dir].size = ((@ \div BSIZE) + 1) * BSIZE]

balloc_used(M) == [M EXCEPT !.used = 1..M.freeblock - 1]

image(entries) == balloc_used(add_dir(ialloc(mkfs, "dir"), 1, 1, entries))

=============================================================================
