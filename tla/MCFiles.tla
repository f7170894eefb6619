------------------------------ MODULE MCFiles ------------------------------
(* An instance of Files for TLC. *)
EXTENDS Files, TLC

CONSTANTS p1, p2

TwoProcs == {p1, p2}

Path(op, path) == [op |-> op, path |-> path, writes |-> FALSE]
Rw(op, path) == [op |-> op, path |-> path, writes |-> TRUE]
Link(old, new) == [op |-> "link", path |-> old, new |-> new]
OnFd(op, fd) == [op |-> op, fd |-> fd, n |-> 2]

TwoPrograms ==
  p1 :> {Rw("create", <<"d", "x">>), Path("unlink", <<"d", "x">>),
         Path("chdir", <<"d">>), OnFd("write", 0), OnFd("close", 0),
         OnFd("read", 0)}
  @@
  p2 :> {Path("mkdir", <<"d", "x">>), Path("unlink", <<"/", "d">>), Path("unlink", <<"d", ".">>),
         Link(<<"x">>, <<"d", "x">>),
         Path("mknod", <<"z">>), OnFd("write", 1), OnFd("dup", 0), OnFd("fstat", 0),
         Path("unlink", <<"x">>), Path("open", <<"d", "x">>), [op |-> "exit"]}

\* The kernel with inode i of the image M locked in slot 1.
Loaded(M, i) ==
  ilock(iget([Booted EXCEPT !.dinode = M.dinode, !.used = M.used, !.block = M.block], i), 1)

\* What mkfs writes the kernel reads: the inode in slot s of K is a directory
\* with the entries, each found under its name, with the contents of a file up
\* to its end; and the blocks in the bitmap are those of the inodes.
RECURSIVE Has(_, _, _, _)
Has(K, s, parent, entries) ==
  /\ dirlookup_inum(K, s, ".") = K.inode[s].inum /\ dirlookup_inum(K, s, "..") = parent
  /\ \A k \in 1..Len(entries) :
       LET e == entries[k]
           L == ilock(iget(K, dirlookup_inum(K, s, e.name)), s + 1)
       IN IF e.type = "dir" THEN Has(L, s + 1, K.inode[s].inum, e.entries)
                            ELSE readi_data(L, s + 1, 0, MAXFILE * BSIZE) = e.data

Reads(entries) ==
  LET M == Host!image(entries)
      K == Loaded(M, 1)
  IN /\ Has(K, 1, 1, entries)
     /\ UNION {Blocks(K, M.dinode[i]) : i \in Inum} = M.used
     /\ FirstFree(K) = M.freeblock

\* The blocks of a file of n cells.
Need(n) == LET b == (n + BSIZE - 1) \div BSIZE IN IF b > NDIRECT THEN b + 1 ELSE b

F(name, n) == [type |-> "file", name |-> name, data |-> [k \in 1..n |-> <<k>>]]
D(name, entries) == [type |-> "dir", name |-> name, entries |-> entries]

ASSUME MkfsIsRead ==
  \A n, m \in 0..MAXFILE * BSIZE :
    /\ Need(n) + Need(3) < NBLOCKS => Reads(<<F("x", n)>>)
    /\ Need(n) + Need(m) + Need(5) < NBLOCKS => Reads(<<F("x", n), F("y", m), F("z", 0)>>)
    /\ Need(n) + Need(m) + Need(3) + Need(4) < NBLOCKS =>
         /\ Reads(<<F("x", n), D("d", <<F("x", m)>>)>>)
         /\ Reads(<<D("d", <<D("e", <<>>)>>), F("x", m)>>)

\* Where mkfs has left out the last block of a directory, a lookup allocates it,
\* and the inode on disk does not list it.
ASSUME LookupAllocates ==
  LET K == Loaded(Host!image(<<D("d", <<>>)>>), 2)
      L == dirlookup(K, 1, "x")
  IN ~Whole(K, K.inode[1].d) /\ Whole(L, L.inode[1].d)
     /\ L.used # K.used /\ L.dinode = K.dinode

=============================================================================
