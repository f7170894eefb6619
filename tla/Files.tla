------------------------------- MODULE Files -------------------------------
(***************************************************************************)
(* The system calls on files (kernel/sysfile.c, kernel/file.c) by          *)
(* processes that share the file system of Fs.                             *)
(*                                                                         *)
(* A step of a process is what its call does from one lock of an inode, or *)
(* one section of icache.lock, to the next.  The blocks touched in between *)
(* belong to inodes the process has locked; the bitmap and the inodes on   *)
(* disk change one buffer at a time, which is one step of Bio.  To sleep   *)
(* in ilock() is not to be enabled.  fr[p] is the call that p is in: pc,   *)
(* the entries of the cache it refers to, ip and kept (0 for none), the    *)
(* rest of the path, and todo, the iunlock()s and iput()s to come before   *)
(* pc.  A path is a sequence of names, and begins with "/" or not.         *)
(***************************************************************************)
EXTENDS Fs

CONSTANTS
  Process,
  Calls,      \* the calls each process makes
  MaxCalls,   \* bound: calls of a process
  NFILE, NOFILE

VARIABLES
  fs,
  ftable,     \* f->ref, f->ip (0: FD_NONE), f->off, f->writable
  ofile, cwd,
  fr, made,   \* made counts the calls
  stray       \* history: inodes named in a directory that has no name itself

vars == <<fs, ftable, ofile, cwd, fr, made, stray>>

File == 1..NFILE
Fd == 0..NOFILE - 1

-----------------------------------------------------------------------------
(***************************************************************************)
(* The image of a directory with one empty file, in which init has made    *)
(* the directory /d.  Every process has the root as its directory and,     *)
(* from a fork, file 1 open on /x as descriptor 0.                         *)
(***************************************************************************)
Idle == [pc |-> "user", call |-> [op |-> "none"], ip |-> 0, kept |-> 0,
         rest |-> <<>>, todo |-> <<>>]

NoFile == [ref |-> 0, ip |-> 0, off |-> 0, writable |-> FALSE]

Host == INSTANCE Mkfs

Booted ==
  LET M == Host!image(<<[type |-> "file", name |-> "x", data |-> <<>>]>>)
  IN [dinode |-> M.dinode, used |-> M.used, block |-> M.block, panic |-> "",
      inode |-> [s \in Slot |-> [inum |-> 0, ref |-> 0, busy |-> FALSE, valid |-> FALSE,
                                 d |-> FreeInode]]]

\* Slot 1 is the root, 2 is /x, 3 was /d.
Image ==
  LET R == ilock(iget(ilock(iget(Booted, 1), 1), 2), 2)
      D == [R EXCEPT !.dinode[3] = [FreeInode EXCEPT !.type = "dir", !.nlink = 1],
                     !.inode[1].d.nlink = @ + 1]
      E == dirlink(dirlink(ilock(iget(D, 3), 3), 3, ".", 3), 3, "..", 1)
      L == iupdate(dirlink(E, 1, "d", 3), 1)
  IN [L EXCEPT !.inode[1] = [@ EXCEPT !.busy = FALSE, !.ref = Cardinality(Process)],
               !.inode[2].busy = FALSE, !.inode[3] = Booted.inode[3]]

\* Every place below the size of an inode has a block.  mkfs makes the size of
\* a directory one block too large when its entries fill their blocks
\* (tools/mkfs.c:191), and then a lookup allocates that block.
Whole(K, d) == \A n \in 0..MAXFILE - 1 : n * BSIZE < d.size => Addr(K, d, n) # 0

ASSUME ImageIsWhole == \A i \in Inum : Whole(Image, Image.dinode[i])

Init ==
  /\ fs = Image
  /\ ftable = [f \in File |-> IF f = 1 THEN [ref |-> Cardinality(Process), ip |-> 2,
                                            off |-> 0, writable |-> TRUE] ELSE NoFile]
  /\ ofile = [p \in Process |-> [d \in Fd |-> IF d = 0 THEN 1 ELSE 0]]
  /\ cwd = [p \in Process |-> 1]
  /\ fr = [p \in Process |-> Idle]
  /\ made = [p \in Process |-> 0]
  /\ stray = {}

-----------------------------------------------------------------------------
At(p, l) == fs.panic = "" /\ fr[p].pc = l /\ fr[p].todo = <<>>

CanLock(s) == ~fs.inode[s].busy

\* The step of p ends with the file system K, the frame f and, where that is
\* next to do, an iunlock().
Step(p, K, f) ==
  LET t == f.todo
      unlocks == t # <<>> /\ Head(t)[1] = "unlock"
  IN /\ fs' = IF unlocks THEN iunlock(K, Head(t)[2]) ELSE K
     /\ fr' = [fr EXCEPT ![p] = IF unlocks THEN [f EXCEPT !.todo = Tail(t)] ELSE f]

Unlock(s) == <<<<"unlock", s>>>>
Put(s) == <<<<"put", s>>>>
iunlockput(s) == Unlock(s) \o Put(s)

\* The call returns after todo.
Return(todo) == [Idle EXCEPT !.todo = todo]

filesKept == UNCHANGED <<ftable, ofile, cwd>>
onlyFs == UNCHANGED <<ftable, ofile, cwd, made, stray>>

(***************************************************************************)
(* iput().  The last reference to an inode without links frees it, without *)
(* icache.lock, in three steps.                                            *)
(***************************************************************************)
Todo(p, what) == fs.panic = "" /\ fr[p].todo # <<>> /\ Head(fr[p].todo)[1] = what

Next1(p, what, s) ==
  [fr[p] EXCEPT !.todo = IF what = "" THEN Tail(@) ELSE <<<<what, s>>>> \o Tail(@)]

LastUse(ip) == ip.ref = 1 /\ ip.valid /\ ip.d.nlink = 0

iput(p) ==
  /\ Todo(p, "put")
  /\ LET s == Head(fr[p].todo)[2]
         ip == fs.inode[s]
     IN IF ~LastUse(ip) THEN Step(p, [fs EXCEPT !.inode[s].ref = @ - 1], Next1(p, "", s))
        ELSE IF ip.busy THEN Step(p, Panic(fs, "iput busy"), fr[p])
        ELSE Step(p, [fs EXCEPT !.inode[s].busy = TRUE], Next1(p, "free", s))
  /\ onlyFs

iput_free(p) ==
  /\ Todo(p, "free")
  /\ LET s == Head(fr[p].todo)[2]
         K == itrunc(fs, s)
     IN Step(p, iupdate([K EXCEPT !.inode[s].d.type = "free"], s), Next1(p, "drop", s))
  /\ onlyFs

\* The flags survive the reference.
iput_drop_KeepsValid(p) ==
  /\ Todo(p, "drop")
  /\ LET s == Head(fr[p].todo)[2]
     IN Step(p, [fs EXCEPT !.inode[s] = [@ EXCEPT !.busy = FALSE, !.ref = @ - 1]],
             Next1(p, "", s))
  /\ onlyFs

iput_drop(p) ==
  /\ Todo(p, "drop")
  /\ LET s == Head(fr[p].todo)[2]
     IN Step(p, [fs EXCEPT !.inode[s] =
                   [@ EXCEPT !.busy = FALSE, !.valid = FALSE, !.ref = @ - 1]],
             Next1(p, "", s))
  /\ onlyFs

(***************************************************************************)
(* namex(): from the root or the current directory, one element of the     *)
(* path at a time.  The call goes on with the inode, or its parent, in ip. *)
(***************************************************************************)
FromRoot(path) == path # <<>> /\ Head(path) = "/"

\* namei() or nameiparent() begins, on K; the call keeps another inode.
namex_start(p, K, c, path, kept) ==
  LET s == IF FromRoot(path) THEN SlotFor(K, 1) ELSE cwd[p]
  IN Step(p, IF FromRoot(path) THEN iget(K, 1) ELSE idup(K, s),
          [Idle EXCEPT !.pc = "namex", !.call = c, !.ip = s, !.kept = kept,
                       !.rest = IF FromRoot(path) THEN Tail(path) ELSE path])

WantsParent(f) ==
  f.call.op \in {"create", "mkdir", "mknod", "unlink"} \/ f.kept # 0

Goal(f) == IF f.kept # 0 THEN "link_dir" ELSE f.call.op

\* A path that leads nowhere: sys_link() still has to take back its link.
NotFound(f, todo) ==
  IF f.kept = 0 THEN Return(todo)
  ELSE [f EXCEPT !.pc = "link_bad", !.ip = f.kept, !.kept = 0, !.todo = todo]

namex_end(p) ==
  /\ At(p, "namex") /\ fr[p].rest = <<>>
  /\ Step(p, fs, IF WantsParent(fr[p]) THEN NotFound(fr[p], Put(fr[p].ip))
                 ELSE [fr[p] EXCEPT !.pc = Goal(fr[p])])
  /\ onlyFs

StopsEarly(f) == WantsParent(f) /\ Len(f.rest) = 1

\* With ip locked as K, the inode that the next element names; 0 if none.
NextInode(K, f) ==
  IF K.inode[f.ip].d.type # "dir" THEN 0 ELSE dirlookup_inum(K, f.ip, Head(f.rest))

Looked(K, f) ==
  IF K.inode[f.ip].d.type # "dir" THEN K ELSE dirlookup(K, f.ip, Head(f.rest))

namex(p) ==
  LET f == fr[p]
      K == ilock(fs, f.ip)
      i == NextInode(K, f)
      L == Looked(K, f)
  IN
  /\ At(p, "namex") /\ f.rest # <<>> /\ CanLock(f.ip)
  /\ \/ /\ StopsEarly(f) /\ K.inode[f.ip].d.type = "dir"
        /\ Step(p, K, [f EXCEPT !.pc = Goal(f), !.todo = Unlock(f.ip)])
     \/ /\ StopsEarly(f) => K.inode[f.ip].d.type # "dir"
        /\ i = 0
        /\ Step(p, L, NotFound(f, iunlockput(f.ip)))
     \/ /\ ~StopsEarly(f) /\ i # 0
        /\ Step(p, iget(L, i), [f EXCEPT !.ip = SlotFor(L, i), !.rest = Tail(@),
                                         !.todo = iunlockput(f.ip)])
  /\ onlyFs

-----------------------------------------------------------------------------
(***************************************************************************)
(* create(), and the calls that use it.                                    *)
(***************************************************************************)
LastName(p) == Last(fr[p].call.path)

\* No directory has an entry for directory s.
Nameless(K, s) ==
  LET i == K.inode[s].inum
      dirs == {j \in Inum \ {i} : K.dinode[j].type = "dir"}
  IN /\ i # 1
     /\ \A j \in dirs, o \in 2..MAXFILE * BSIZE - 1 :
          o \in Entries(K, K.dinode[j]) => Cell(K, K.dinode[j], o)[2] # i

GivesName(K, s, i) == stray' = IF Nameless(K, s) THEN stray \cup {i} ELSE stray

\* filealloc() and fdalloc(), with ip locked in K; the iunlock() is next.
OpenFile(p, K, s) ==
  LET f == {g \in File : ftable[g].ref = 0}
      fd == {d \in Fd : ofile[p][d] = 0}
  IN IF f = {} \/ fd = {}
     THEN Step(p, K, Return(iunlockput(s))) /\ UNCHANGED <<ftable, ofile>>
     ELSE /\ Step(p, K, Return(Unlock(s)))
          /\ ftable' = [ftable EXCEPT ![Min(f)] = [ref |-> 1, ip |-> s, off |-> 0,
                                                   writable |-> fr[p].call.writes]]
          /\ ofile' = [ofile EXCEPT ![p][Min(fd)] = Min(f)]

Creates == {"create", "mkdir", "mknod"}
TypeFor(op) == CASE op = "create" -> "file" [] op = "mkdir" -> "dir" [] OTHER -> "dev"

\* The directory stays locked.
create_exists_Holds(p) ==
  LET f == fr[p]
      K == ilock(fs, f.ip)
      i == dirlookup_inum(K, f.ip, LastName(p))
      L == dirlookup(K, f.ip, LastName(p))
  IN
  /\ \E op \in Creates : At(p, op)
  /\ CanLock(f.ip) /\ i # 0
  /\ Step(p, iget(L, i), [f EXCEPT !.pc = "create_found", !.ip = SlotFor(L, i),
                                   !.todo = Put(f.ip)])
  /\ onlyFs

create_exists(p) ==
  LET f == fr[p]
      K == ilock(fs, f.ip)
      i == dirlookup_inum(K, f.ip, LastName(p))
      L == dirlookup(K, f.ip, LastName(p))
  IN
  /\ \E op \in Creates : At(p, op)
  /\ CanLock(f.ip) /\ i # 0
  /\ Step(p, iget(L, i), [f EXCEPT !.pc = "create_found", !.ip = SlotFor(L, i),
                                   !.todo = iunlockput(f.ip)])
  /\ onlyFs

create_found(p) ==
  LET f == fr[p]
      K == ilock(fs, f.ip)
  IN
  /\ At(p, "create_found") /\ CanLock(f.ip)
  /\ IF f.call.op = "create" /\ K.inode[f.ip].d.type = "file"
       THEN OpenFile(p, K, f.ip)
       ELSE Step(p, K, Return(iunlockput(f.ip))) /\ UNCHANGED <<ftable, ofile>>
  /\ UNCHANGED <<cwd, made, stray>>

\* ialloc() looks at one inode after the other, so any free one may be it.
ialloc(K, i, type) == iget([K EXCEPT !.dinode[i] = [FreeInode EXCEPT !.type = type]], i)

create(p) ==
  LET f == fr[p]
      K == ilock(fs, f.ip)
      L == dirlookup(K, f.ip, LastName(p))
      unused == {i \in Inum : L.dinode[i].type = "free"}
  IN
  /\ \E op \in Creates : At(p, op)
  /\ CanLock(f.ip) /\ dirlookup_inum(K, f.ip, LastName(p)) = 0
  /\ \/ unused = {} /\ Step(p, Panic(L, "ialloc: no inodes"), f)
     \/ \E i \in unused :
          Step(p, ialloc(L, i, TypeFor(f.call.op)),
               [f EXCEPT !.pc = "create_new", !.ip = SlotFor(L, i), !.kept = f.ip])
  /\ onlyFs

SetLinks(K, s, n) == iupdate([K EXCEPT !.inode[s].d.nlink = n], s)

Dots(K, dp, ip) ==
  LET A == SetLinks(K, dp, K.inode[dp].d.nlink + 1)
  IN dirlink(dirlink(A, ip, ".", A.inode[ip].inum), ip, "..", A.inode[dp].inum)

create_new(p) ==
  LET f == fr[p]
      N == SetLinks(ilock(fs, f.ip), f.ip, 1)
      D == IF f.call.op = "mkdir" THEN Dots(N, f.kept, f.ip) ELSE N
      K == dirlink(D, f.kept, LastName(p), D.inode[f.ip].inum)
  IN
  /\ At(p, "create_new") /\ CanLock(f.ip)
  /\ GivesName(fs, f.kept, fs.inode[f.ip].inum)
  /\ Step(p, K, IF f.call.op # "create" THEN Return(iunlockput(f.kept) \o iunlockput(f.ip))
                ELSE [f EXCEPT !.pc = "created", !.kept = 0, !.todo = iunlockput(f.kept)])
  /\ filesKept /\ UNCHANGED made

open_created(p) ==
  /\ At(p, "created")
  /\ OpenFile(p, fs, fr[p].ip)
  /\ UNCHANGED <<cwd, made, stray>>

open(p) ==
  LET f == fr[p]
      K == ilock(fs, f.ip)
  IN
  /\ At(p, "open") /\ CanLock(f.ip)
  /\ IF K.inode[f.ip].d.type = "dir" /\ f.call.writes
       THEN Step(p, K, Return(iunlockput(f.ip))) /\ UNCHANGED <<ftable, ofile>>
       ELSE OpenFile(p, K, f.ip)
  /\ UNCHANGED <<cwd, made, stray>>

chdir(p) ==
  LET f == fr[p]
      K == ilock(fs, f.ip)
  IN
  /\ At(p, "chdir") /\ CanLock(f.ip)
  /\ IF K.inode[f.ip].d.type = "dir"
       THEN /\ Step(p, K, Return(Unlock(f.ip) \o Put(cwd[p])))
            /\ cwd' = [cwd EXCEPT ![p] = f.ip]
       ELSE Step(p, K, Return(iunlockput(f.ip))) /\ UNCHANGED cwd
  /\ UNCHANGED <<ftable, ofile, made, stray>>

(***************************************************************************)
(* sys_link(): the count of links goes up before the name is there.        *)
(***************************************************************************)
link(p) ==
  LET f == fr[p]
      K == ilock(fs, f.ip)
      d == K.inode[f.ip].d
  IN
  /\ At(p, "link") /\ CanLock(f.ip)
  /\ IF d.type = "dir" THEN Step(p, K, Return(iunlockput(f.ip)))
     ELSE Step(p, SetLinks(K, f.ip, d.nlink + 1),
               [f EXCEPT !.pc = "link_parent", !.kept = f.ip, !.ip = 0, !.todo = Unlock(f.ip)])
  /\ onlyFs

link_parent(p) ==
  /\ At(p, "link_parent")
  /\ namex_start(p, fs, [fr[p].call EXCEPT !.path = fr[p].call.new], fr[p].call.new, fr[p].kept)
  /\ onlyFs

link_dir(p) ==
  LET f == fr[p]
      K == ilock(fs, f.ip)
      i == dirlookup_inum(K, f.ip, LastName(p))
      L == dirlookup(K, f.ip, LastName(p))
      n == K.inode[f.kept].inum
  IN
  /\ At(p, "link_dir") /\ CanLock(f.ip)
  /\ \/ /\ i = 0
        /\ Step(p, dirlink(K, f.ip, LastName(p), n), Return(iunlockput(f.ip) \o Put(f.kept)))
        /\ GivesName(K, f.ip, n)
     \/ /\ i # 0
        /\ Step(p, iget(L, i), NotFound(f, Put(SlotFor(L, i)) \o iunlockput(f.ip)))
        /\ UNCHANGED stray
  /\ filesKept /\ UNCHANGED made

link_bad(p) ==
  LET f == fr[p]
      K == ilock(fs, f.ip)
  IN
  /\ At(p, "link_bad") /\ CanLock(f.ip)
  /\ Step(p, SetLinks(K, f.ip, K.inode[f.ip].d.nlink - 1), Return(iunlockput(f.ip)))
  /\ onlyFs

(***************************************************************************)
(* sys_unlink(): the directory stays locked until its entry is gone.       *)
(***************************************************************************)
unlink(p) ==
  LET f == fr[p]
      K == ilock(fs, f.ip)
      i == dirlookup_inum(K, f.ip, LastName(p))
      L == dirlookup(K, f.ip, LastName(p))
  IN
  /\ At(p, "unlink") /\ CanLock(f.ip)
  /\ \/ /\ LastName(p) \in {".", ".."}
        /\ Step(p, K, Return(iunlockput(f.ip)))
     \/ /\ LastName(p) \notin {".", ".."} /\ i = 0
        /\ Step(p, L, Return(iunlockput(f.ip)))
     \/ /\ LastName(p) \notin {".", ".."} /\ i # 0
        /\ Step(p, iget(L, i),
                [f EXCEPT !.pc = "unlink_entry", !.ip = SlotFor(L, i), !.kept = f.ip])
  /\ onlyFs

Erased(K, dp, name) ==
  writei(K, dp, Min(Named(K, dp, name)), 1, <<>>)

\* With ip locked as K, the kernel after the look for entries in it.
Checked(K, s) == IF K.inode[s].d.type = "dir" THEN isdirempty(K, s) ELSE K

\* The link of ".." stays.
unlink_entry_Keeps(p) ==
  LET f == fr[p]
      K == ilock(fs, f.ip)
  IN
  /\ At(p, "unlink_entry") /\ CanLock(f.ip)
  /\ IF K.inode[f.ip].d.type = "dir" /\ ~isdirempty_ret(K, f.ip)
       THEN Step(p, K, Return(iunlockput(f.ip) \o iunlockput(f.kept)))
       ELSE Step(p, Erased(K, f.kept, LastName(p)),
               [f EXCEPT !.pc = "unlink_link", !.kept = 0, !.todo = iunlockput(f.kept)])
  /\ onlyFs

unlink_entry(p) ==
  LET f == fr[p]
      K == ilock(fs, f.ip)
      d == K.inode[f.ip].d
      C == Checked(K, f.ip)
      E == Erased(C, f.kept, LastName(p))
  IN
  /\ At(p, "unlink_entry") /\ CanLock(f.ip)
  /\ IF d.nlink < 1 THEN Step(p, Panic(K, "unlink: nlink < 1"), f)
     ELSE IF d.type = "dir" /\ ~isdirempty_ret(K, f.ip)
       THEN Step(p, C, Return(iunlockput(f.ip) \o iunlockput(f.kept)))
     ELSE Step(p, IF d.type = "dir" THEN SetLinks(E, f.kept, E.inode[f.kept].d.nlink - 1)
                                    ELSE E,
               [f EXCEPT !.pc = "unlink_link", !.kept = 0, !.todo = iunlockput(f.kept)])
  /\ onlyFs

unlink_link(p) ==
  LET s == fr[p].ip IN
  /\ At(p, "unlink_link")
  /\ Step(p, SetLinks(fs, s, fs.inode[s].d.nlink - 1), Return(iunlockput(s)))
  /\ onlyFs

(***************************************************************************)
(* Calls with a descriptor.  f->off moves while the inode is locked.       *)
(***************************************************************************)
FileOf(p) == ofile[p][fr[p].call.fd]

\* argfd() fails, or the file is not open for writing.
bad_fd(p) ==
  /\ \E op \in {"read", "write", "fstat", "dup", "close"} : At(p, op)
  /\ \/ FileOf(p) = 0
     \/ FileOf(p) # 0 /\ fr[p].call.op = "write" /\ ~ftable[FileOf(p)].writable
  /\ Step(p, fs, Return(<<>>))
  /\ onlyFs

Moved(f, n) == ftable' = [ftable EXCEPT ![f].off = IF n > 0 THEN @ + n ELSE @]

fileread(p) ==
  LET f == FileOf(p)
      s == ftable[f].ip
      K == ilock(fs, s)
  IN
  /\ At(p, "read") /\ f # 0 /\ CanLock(s)
  /\ Step(p, readi(K, s, ftable[f].off, fr[p].call.n), Return(Unlock(s)))
  /\ Moved(f, readi_count(K, s, ftable[f].off, fr[p].call.n))
  /\ UNCHANGED <<ofile, cwd, made, stray>>

filewrite(p) ==
  LET f == FileOf(p)
      s == ftable[f].ip
      K == ilock(fs, s)
      n == fr[p].call.n
  IN
  /\ At(p, "write") /\ f # 0 /\ ftable[f].writable /\ CanLock(s)
  /\ Step(p, writei(K, s, ftable[f].off, n, <<p>>), Return(Unlock(s)))
  /\ Moved(f, writei_count(K, s, ftable[f].off, n))
  /\ UNCHANGED <<ofile, cwd, made, stray>>

filestat(p) ==
  LET s == ftable[FileOf(p)].ip IN
  /\ At(p, "fstat") /\ FileOf(p) # 0 /\ CanLock(s)
  /\ Step(p, ilock(fs, s), Return(Unlock(s)))
  /\ onlyFs

dup(p) ==
  LET f == FileOf(p)
      fd == {d \in Fd : ofile[p][d] = 0}
  IN
  /\ At(p, "dup") /\ f # 0
  /\ IF fd = {} THEN UNCHANGED <<ftable, ofile>>
     ELSE /\ ofile' = [ofile EXCEPT ![p][Min(fd)] = f]
          /\ ftable' = [ftable EXCEPT ![f].ref = @ + 1]
  /\ Step(p, fs, Return(<<>>))
  /\ UNCHANGED <<cwd, made, stray>>

\* fileclose() of descriptor fd; then the process goes on at g.
fileclose(p, fd, g) ==
  LET f == ofile[p][fd] IN
  /\ ofile' = [ofile EXCEPT ![p][fd] = 0]
  /\ IF ftable[f].ref > 1
       THEN ftable' = [ftable EXCEPT ![f].ref = @ - 1] /\ Step(p, fs, g)
       ELSE ftable' = [ftable EXCEPT ![f] = NoFile]
            /\ Step(p, fs, [g EXCEPT !.todo = Put(ftable[f].ip)])

close(p) ==
  /\ At(p, "close") /\ FileOf(p) # 0
  /\ fileclose(p, fr[p].call.fd, Return(<<>>))
  /\ UNCHANGED <<cwd, made, stray>>

\* exit() closes the files, one after the other, and leaves the directory.
exit_file(p) ==
  /\ At(p, "exit")
  /\ \E fd \in Fd : /\ ofile[p][fd] # 0
                    /\ \A e \in Fd : e < fd => ofile[p][e] = 0
                    /\ fileclose(p, fd, fr[p])
  /\ UNCHANGED <<cwd, made, stray>>

exit(p) ==
  /\ At(p, "exit")
  /\ \A fd \in Fd : ofile[p][fd] = 0
  /\ Step(p, fs, [Idle EXCEPT !.pc = "zombie", !.todo = Put(cwd[p])])
  /\ cwd' = [cwd EXCEPT ![p] = 0]
  /\ UNCHANGED <<ftable, ofile, made, stray>>

-----------------------------------------------------------------------------
call(p, c) ==
  /\ At(p, "user") /\ made[p] < MaxCalls
  /\ made' = [made EXCEPT ![p] = @ + 1]
  /\ IF "path" \in DOMAIN c THEN namex_start(p, fs, c, c.path, 0)
                            ELSE Step(p, fs, [Idle EXCEPT !.pc = c.op, !.call = c])
  /\ filesKept /\ UNCHANGED stray

InCall(p) ==
  \/ iput(p) \/ iput_free(p) \/ iput_drop(p)
  \/ namex(p) \/ namex_end(p)
  \/ create_exists(p) \/ create_found(p) \/ create(p) \/ create_new(p) \/ open_created(p)
  \/ open(p) \/ chdir(p)
  \/ link(p) \/ link_parent(p) \/ link_dir(p) \/ link_bad(p)
  \/ unlink(p) \/ unlink_entry(p) \/ unlink_link(p)
  \/ bad_fd(p) \/ fileread(p) \/ filewrite(p) \/ filestat(p) \/ dup(p) \/ close(p)
  \/ exit_file(p) \/ exit(p)

Next == \E p \in Process : InCall(p) \/ \E c \in Calls[p] : call(p, c)

Spec == Init /\ [][Next]_vars

-----------------------------------------------------------------------------
InCache == {s \in Slot : fs.inode[s].ref > 0}

\* What the system takes inode i to be: the copy in the cache, or the disk's.
Known(i) ==
  LET c == {s \in InCache : fs.inode[s].inum = i /\ fs.inode[s].valid}
  IN IF c = {} THEN fs.dinode[i] ELSE fs.inode[Min(c)].d

Refs(s) ==
  Cardinality({p \in Process : cwd[p] = s})
    + Cardinality({f \in File : ftable[f].ref > 0 /\ ftable[f].ip = s})
    + Cardinality({p \in Process : fr[p].ip = s})
    + Cardinality({p \in Process : fr[p].kept = s})
    + Cardinality({<<p, k>> \in Process \X (1..4) :
          /\ k \in DOMAIN fr[p].todo
          /\ fr[p].todo[k][2] = s /\ fr[p].todo[k][1] # "unlock"})

\* "ip->ref counts the number of pointer references to this cached inode"
\* (fs.c:111), and f->ref the descriptors; an inode is in the cache once; what
\* is not locked is as on disk.
RefsCounted ==
  /\ \A s \in Slot : fs.inode[s].ref = Refs(s)
  /\ \A f \in File :
       ftable[f].ref = Cardinality({<<p, d>> \in Process \X Fd : ofile[p][d] = f})
  /\ \A s, t \in InCache : fs.inode[s].inum = fs.inode[t].inum => s = t
  /\ \A s \in InCache : fs.inode[s].valid /\ ~fs.inode[s].busy =>
       fs.inode[s].d = fs.dinode[fs.inode[s].inum]

AllKnown == [i \in Inum |-> Known(i)]

\* The entries of directories other than "." and "..": where, and of which inode.
NamesIn(known) ==
  UNION {{<<j, o, Cell(fs, known[j], o)[2]>> : o \in Entries(fs, known[j]) \ {0, 1}} :
           j \in {i \in Inum : known[i].type = "dir"}}

Quiet == \A p \in Process : fr[p].pc \in {"user", "zombie"} /\ fr[p].todo = <<>>

\* No inode has fewer links than names and directories below it, so none is
\* freed while it has a name; between calls the count is exact, but for inodes
\* that create() or link() named in a directory that was removed meanwhile.
LinksCounted ==
  LET known == AllKnown
      names == NamesIn(known)
  IN fs.panic = "" =>
     \A i \in Inum :
       LET links == (IF i = 1 THEN 1 ELSE 0)
                      + Cardinality({n \in names : n[3] = i})
                      + Cardinality({n \in names : n[1] = i /\ known[n[3]].type = "dir"})
       IN /\ known[i].nlink >= links
          /\ known[i].type = "free" => links = 0
          /\ Quiet /\ i \notin stray => known[i].nlink = links

\* A block that is in use has one owner, a free one is zero (balloc() does not
\* zero it) and a file has a block for every place below its size.  So it is
\* when the image is whole: then no reader makes bmap() allocate, and what
\* writers make it allocate they write back.
BlocksOwned ==
  LET known == AllKnown
      inUse == {i \in Inum : known[i].type # "free"}
      owned == [i \in inUse |-> Blocks(fs, known[i])]
  IN fs.panic = "" =>
     /\ fs.used = UNION {owned[i] : i \in inUse}
     /\ Cardinality(fs.used) = MapThenSumSet(LAMBDA i : Cardinality(owned[i]), inUse)
     /\ \A b \in Block \ fs.used : fs.block[b] = Zero
     /\ \A i \in inUse : Whole(fs, known[i])

\* No panic(), but for a disk or table that is full.  No call goes through "..",
\* which in a removed directory may name one that is gone: ilock() panics.
NoPanic ==
  fs.panic \in {"", "balloc: out of blocks", "ialloc: no inodes", "iget: no inodes"}

InCalls == {p \in Process : fr[p].pc \notin {"user", "zombie"} \/ fr[p].todo # <<>>}

\* The places where a process may sleep in ilock(), and for which inode.
WaitsFor(p) ==
  IF fr[p].todo # <<>> \/ (fr[p].pc = "namex" /\ fr[p].rest = <<>>) THEN {} ELSE
  CASE fr[p].pc \in {"link_parent", "created", "unlink_link", "dup", "close", "exit"} -> {}
    [] fr[p].pc \in {"read", "write", "fstat"} ->
         {ftable[f].ip : f \in {FileOf(p)} \ {0}}
    [] OTHER -> {fr[p].ip}

\* Of the processes that are in a call one can go on: unlink() and create(),
\* which lock an inode while they hold its directory, wait for no one who waits
\* for them, nor for themselves with ".", and no early return keeps a lock.
NoDeadlock ==
  fs.panic = "" /\ InCalls # {} => \E p \in InCalls : \A s \in WaitsFor(p) : CanLock(s)

=============================================================================
