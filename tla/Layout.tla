------------------------------- MODULE Layout -------------------------------
(***************************************************************************)
(* Where the superblock, the inodes and the bitmap are on the disk:        *)
(* include/fs.h, by which the kernel finds them, against tools/mkfs.c,     *)
(* which puts them there.  Sizes are in bytes.                             *)
(***************************************************************************)
EXTENDS Integers

BSIZE == 512
NDIRECT == 12
dinode == 4 * 2 + 4 + (NDIRECT + 1) * 4
IPB == BSIZE \div dinode
BPB == BSIZE * 8

\* The sectors in which the kernel looks for inode i and for the bit of block b.
Superblock == 1
IBLOCK(i) == (i \div IPB) + 2
BBLOCK(b, ninodes) == (b \div BPB) + (ninodes \div IPB) + 3

\* The place within the sector.
ISLOT(i) == i % IPB
BBIT(b) == b % BPB

\* mkfs: the sector of inode inum, that of the bitmap, and the first block
\* that is left for data.
i2b(inum) == (inum \div IPB) + 2
bitsector(ninodes) == (ninodes \div IPB) + 3
bitblocks(size) == (size \div (512 * 8)) + 1
usedblocks(ninodes, size) == (ninodes \div IPB) + 3 + bitblocks(size)

=============================================================================
