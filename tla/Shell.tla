------------------------------- MODULE Shell -------------------------------
(***************************************************************************)
(* The shell at work (user/sh.c): main() and the processes in runcmd(),    *)
(* with their descriptors, and init, which starts a shell when there is    *)
(* none (user/init.c).  A step is a system call, or several on the         *)
(* caller's own descriptors.  The kernel calls are what the code uses of   *)
(* them: descriptors are the lowest that are free, fork() copies them,     *)
(* exit() closes them; init reaps at once.  A program is over when it      *)
(* likes, but one that reads a pipe goes on until its end.                 *)
(***************************************************************************)
EXTENDS ShParse, FiniteSets, FiniteSetsExt

CONSTANTS
  NPROC,        \* bound: processes
  NOFILE,
  Commands,     \* what the user may mean
  BadLines,     \* lines that are no command
  MaxLines      \* bound: lines typed

ASSUME ShellAssumption == NPROC > 2 /\ NOFILE > 4

VARIABLES
  pr,           \* processes
  meant,        \* history: the command of the line typed last
  typed,
  failed        \* history: a fork() has failed

vars == <<pr, meant, typed, failed>>

initproc == 0
Main == 1
Pid == 2..NPROC
Fd == 0..NOFILE - 1
Closed == <<"closed">>
Tty == <<"tty">>
NoCmd == [type |-> "NONE"]

Dead == [pc |-> "unused", parent |-> initproc, cmd |-> NoCmd, fd |-> [d \in Fd |-> Closed], p |-> <<>>]

Init ==
  /\ pr = [q \in Pid \cup {Main} |-> Dead]
  /\ meant = NoCmd /\ typed = 0 /\ failed = FALSE

-----------------------------------------------------------------------------
At(q, l) == pr[q].pc = l
Runs(q, type) == At(q, "runcmd") /\ pr[q].cmd.type = type

Children(q) == {c \in Pid : pr[c].parent = q /\ ~At(c, "unused")}
Unused == {c \in Pid : At(c, "unused")}
LowestFd(fd) == Min({d \in Fd : fd[d] = Closed})

close(fd, d) == [fd EXCEPT ![d] = Closed]
dup(fd, d) == [fd EXCEPT ![LowestFd(fd)] = fd[d]]

Holds(q, f) == \E d \in Fd : pr[q].fd[d] = f

\* q exits with its children going to init, which waits for them.
Exited(P, q) ==
  [c \in DOMAIN P |->
     CASE c = q -> IF P[q].parent = initproc THEN Dead ELSE [Dead EXCEPT !.pc = "zombie", !.parent = P[q].parent]
       [] P[c].parent = q -> IF P[c].pc = "zombie" THEN Dead ELSE [P[c] EXCEPT !.parent = initproc]
       [] OTHER -> P[c]]

exit(q) == pr' = Exited(pr, q)

\* fork1(): the child goes on at pc with cmd, the parent at next.
Forked(q, c, cmd, pc, next) ==
  [pr EXCEPT ![c] = [pr[q] EXCEPT !.parent = q, !.cmd = cmd, !.pc = pc], ![q].pc = next]

fork1(q, cmd, pc, next) ==
  \/ /\ Unused # {}
     /\ \E c \in Unused : /\ \A u \in Unused : c <= u
                          /\ pr' = Forked(q, c, cmd, pc, next)
     /\ UNCHANGED failed
  \/ exit(q) /\ failed' = TRUE

\* wait() returns for any child.  Here the caller always has one.
wait(q, cmd, next) ==
  \E c \in Children(q) :
    At(c, "zombie") /\ pr' = [pr EXCEPT ![q].cmd = cmd, ![q].pc = next, ![c] = Dead]

(***************************************************************************)
(* init: its descriptors are the console, which open() and two dup() give. *)
(* fork() and the exec() of sh do not fail here.                           *)
(***************************************************************************)
InitFd ==
  LET fd == [Dead.fd EXCEPT ![LowestFd(Dead.fd)] = Tty] IN dup(dup(fd, 0), 0)

init_fork ==
  /\ At(Main, "unused")
  /\ pr' = [pr EXCEPT ![Main] = [Dead EXCEPT !.fd = InitFd, !.pc = "open"]]
  /\ UNCHANGED <<meant, typed, failed>>

(***************************************************************************)
(* main()                                                                  *)
(***************************************************************************)
\* It opens the console until descriptors 0, 1 and 2 are open.
main_open ==
  /\ At(Main, "open")
  /\ pr' = [pr EXCEPT ![Main].fd = [d \in Fd |-> IF d < 3 /\ @[d] = Closed THEN Tty ELSE @[d]],
                      ![Main].pc = "getcmd"]
  /\ UNCHANGED <<meant, typed, failed>>

\* The same command is not typed twice in a row.
getcmd ==
  /\ At(Main, "getcmd") /\ typed < MaxLines
  /\ typed' = typed + 1
  /\ \/ \E c \in Commands \ {meant} : meant' = c /\ pr' = [pr EXCEPT ![Main].cmd = parsecmd(Line(c)), ![Main].pc = "fork"]
     \/ \E l \in BadLines : meant' = NoCmd /\ pr' = [pr EXCEPT ![Main].cmd = parsecmd(l), ![Main].pc = "fork"]
  /\ UNCHANGED failed

main_eof ==
  /\ At(Main, "getcmd") /\ typed = MaxLines
  /\ exit(Main)
  /\ UNCHANGED <<meant, typed, failed>>

main_fork ==
  /\ At(Main, "fork")
  /\ fork1(Main, pr[Main].cmd, "runcmd", "wait")
  /\ UNCHANGED <<meant, typed>>

main_wait ==
  /\ At(Main, "wait") /\ wait(Main, NoCmd, "getcmd")
  /\ UNCHANGED <<meant, typed, failed>>

(***************************************************************************)
(* runcmd()                                                                *)
(***************************************************************************)
\* No command, or one that cannot be run.
run_none(q) ==
  /\ Runs(q, "SYNTAX") \/ Runs(q, "EXEC")
  /\ exit(q)
  /\ UNCHANGED <<meant, typed, failed>>

run_exec(q) ==
  /\ Runs(q, "EXEC") /\ pr[q].cmd.argv # <<>>
  /\ pr' = [pr EXCEPT ![q].pc = "program"]
  /\ UNCHANGED <<meant, typed, failed>>

\* The program reads on while there is a writer.
program_end(q) ==
  LET in == pr[q].fd[0] IN
  /\ At(q, "program")
  /\ in[1] = "read" => ~\E c \in Pid : Holds(c, <<"write", in[2]>>)
  /\ exit(q)
  /\ UNCHANGED <<meant, typed, failed>>

\* The file is opened first.
run_redir_OpenFirst(q) ==
  LET c == pr[q].cmd
      fd == pr[q].fd
  IN
  /\ Runs(q, "REDIR")
  /\ \/ pr' = [pr EXCEPT ![q].fd = close([fd EXCEPT ![LowestFd(fd)] = <<"file", c.file>>], c.fd), ![q].cmd = c.cmd]
     \/ exit(q)
  /\ UNCHANGED <<meant, typed, failed>>

run_redir(q) ==
  LET c == pr[q].cmd
      fd == close(pr[q].fd, c.fd)
  IN
  /\ Runs(q, "REDIR")
  /\ \/ pr' = [pr EXCEPT ![q].fd = [fd EXCEPT ![LowestFd(fd)] = <<"file", c.file>>], ![q].cmd = c.cmd]
     \/ exit(q)
  /\ UNCHANGED <<meant, typed, failed>>

run_list(q) ==
  /\ Runs(q, "LIST")
  /\ fork1(q, pr[q].cmd.left, "runcmd", "list_wait")
  /\ UNCHANGED <<meant, typed>>

\* The right side does not wait.
list_wait_Not(q) ==
  /\ At(q, "list_wait")
  /\ pr' = [pr EXCEPT ![q].cmd = pr[q].cmd.right, ![q].pc = "runcmd"]
  /\ UNCHANGED <<meant, typed, failed>>

list_wait(q) ==
  /\ At(q, "list_wait") /\ wait(q, pr[q].cmd.right, "runcmd")
  /\ UNCHANGED <<meant, typed, failed>>

NewPipe == Min({k \in 1..Cardinality(Pid) : \A c \in Pid : ~Holds(c, <<"read", k>>) /\ ~Holds(c, <<"write", k>>)})

\* The descriptors and fd[2] after pipe(fd).
pipe(fd) ==
  LET d0 == LowestFd(fd)
      fd1 == [fd EXCEPT ![d0] = <<"read", NewPipe>>]
      d1 == LowestFd(fd1)
  IN [fd |-> [fd1 EXCEPT ![d1] = <<"write", NewPipe>>], p |-> <<d0, d1>>]

\* pipe() may fail.
run_pipe(q) ==
  LET r == pipe(pr[q].fd) IN
  /\ Runs(q, "PIPE")
  /\ \/ exit(q)
     \/ pr' = [pr EXCEPT ![q] = [@ EXCEPT !.fd = r.fd, !.p = r.p, !.pc = "pipe_left"]]
  /\ UNCHANGED <<meant, typed, failed>>

pipe_left(q) ==
  /\ At(q, "pipe_left")
  /\ fork1(q, pr[q].cmd.left, "left", "pipe_right")
  /\ UNCHANGED <<meant, typed>>

pipe_right(q) ==
  /\ At(q, "pipe_right")
  /\ fork1(q, pr[q].cmd.right, "right", "pipe_close")
  /\ UNCHANGED <<meant, typed>>

\* The child puts its end of the pipe in place of descriptor d.
pipe_child(q, pc, d, end) ==
  LET p == pr[q].p
      fd == dup(close(pr[q].fd, d), p[end])
  IN
  /\ At(q, pc)
  /\ pr' = [pr EXCEPT ![q] = [@ EXCEPT !.fd = close(close(fd, p[1]), p[2]), !.p = <<>>, !.pc = "runcmd"]]
  /\ UNCHANGED <<meant, typed, failed>>

\* The parent keeps the write end.
pipe_close_Keeps(q) ==
  /\ At(q, "pipe_close")
  /\ pr' = [pr EXCEPT ![q] = [@ EXCEPT !.fd = close(@, pr[q].p[1]), !.pc = "pipe_wait"]]
  /\ UNCHANGED <<meant, typed, failed>>

pipe_close(q) ==
  /\ At(q, "pipe_close")
  /\ pr' = [pr EXCEPT ![q] = [@ EXCEPT !.fd = close(close(@, pr[q].p[1]), pr[q].p[2]), !.p = <<>>, !.pc = "pipe_wait"]]
  /\ UNCHANGED <<meant, typed, failed>>

pipe_wait(q) ==
  /\ \/ At(q, "pipe_wait") /\ wait(q, NoCmd, "pipe_wait2")
     \/ At(q, "pipe_wait2") /\ wait(q, NoCmd, "exit")
  /\ UNCHANGED <<meant, typed, failed>>

run_back(q) ==
  /\ Runs(q, "BACK")
  /\ fork1(q, pr[q].cmd.cmd, "runcmd", "exit")
  /\ UNCHANGED <<meant, typed>>

run_end(q) ==
  /\ At(q, "exit") /\ exit(q)
  /\ UNCHANGED <<meant, typed, failed>>

Step(q) ==
  \/ run_none(q) \/ run_exec(q) \/ program_end(q) \/ run_redir(q) \/ run_list(q) \/ list_wait(q)
  \/ run_pipe(q) \/ pipe_left(q) \/ pipe_right(q) \/ pipe_close(q) \/ pipe_wait(q)
  \/ pipe_child(q, "left", 1, 2) \/ pipe_child(q, "right", 0, 1)
  \/ run_back(q) \/ run_end(q)

MainStep == init_fork \/ main_open \/ main_eof \/ main_fork \/ main_wait

Next == getcmd \/ MainStep \/ \E q \in Pid : Step(q)

\* Every process goes on, and every program that can end does.
Spec == Init /\ [][Next]_vars /\ WF_vars(MainStep) /\ \A q \in Pid : WF_vars(Step(q))

-----------------------------------------------------------------------------
(***************************************************************************)
(* What a command means.  A program is known by its first word, which no   *)
(* other program of the commands has.                                      *)
(***************************************************************************)
RECURSIVE Ends(_, _, _, _), Foreground(_), Lists(_)

\* The programs of cmd with their input and output; a pipe is known by its
\* place in the command.
Ends(cmd, place, in, out) ==
  CASE cmd.type = "EXEC" -> {[word |-> cmd.argv[1], in |-> in, out |-> out]}
    [] cmd.type = "REDIR" /\ cmd.fd = 0 -> Ends(cmd.cmd, place, <<"file", cmd.file>>, out)
    [] cmd.type = "REDIR" /\ cmd.fd = 1 -> Ends(cmd.cmd, place, in, <<"file", cmd.file>>)
    [] cmd.type = "PIPE" -> Ends(cmd.left, Append(place, 1), in, <<"pipe", place>>)
                              \cup Ends(cmd.right, Append(place, 2), <<"pipe", place>>, out)
    [] cmd.type = "LIST" -> Ends(cmd.left, Append(place, 1), in, out)
                              \cup Ends(cmd.right, Append(place, 2), in, out)
    [] cmd.type = "BACK" -> Ends(cmd.cmd, place, in, out)
    [] OTHER -> {}

Meaning == Ends(meant, <<>>, Tty, Tty)
Words(cmd) == {e.word : e \in Ends(cmd, <<>>, Tty, Tty)}

\* The programs that are waited for.
Foreground(cmd) ==
  CASE cmd.type \in {"PIPE", "LIST"} -> Foreground(cmd.left) \cup Foreground(cmd.right)
    [] cmd.type = "REDIR" -> Foreground(cmd.cmd)
    [] cmd.type = "EXEC" -> Words(cmd)
    [] OTHER -> {}

\* The commands with a ; between them.
Lists(cmd) ==
  CASE cmd.type = "LIST" -> {<<cmd.left, cmd.right>>} \cup Lists(cmd.left) \cup Lists(cmd.right)
    [] cmd.type = "PIPE" -> Lists(cmd.left) \cup Lists(cmd.right)
    [] cmd.type \in {"REDIR", "BACK"} -> Lists(cmd.cmd)
    [] OTHER -> {}

Programs == {q \in Pid : At(q, "program")}
Word(q) == pr[q].cmd.argv[1]

\* What q runs or has still to start.
Pending(q) ==
  CASE pr[q].pc \in {"list_wait", "pipe_right"} -> Words(pr[q].cmd.right)
    [] pr[q].pc \in {"pipe_close", "exit"} -> {}
    [] OTHER -> Words(pr[q].cmd)

Ended(words) == \A q \in Pid : Pending(q) \cap words = {}

\* A program of the line has the input and the output that the line says,
\* those on the two sides of a | have one pipe, and no program has any other
\* descriptor: not even of the pipes next to it.
Wired ==
  LET M == Meaning
      fits(x, f, end) == IF x[1] = "pipe" THEN f[1] = end ELSE f = x
      of(q) == CHOOSE e \in M : e.word = Word(q)
      mine == {q \in Programs : \E e \in M : e.word = Word(q)}
  IN
  /\ \A q \in mine : /\ fits(of(q).in, pr[q].fd[0], "read")
                      /\ fits(of(q).out, pr[q].fd[1], "write")
                      /\ pr[q].fd[2] = Tty
                      /\ \A d \in Fd : d > 2 => pr[q].fd[d] = Closed
  /\ \A q, c \in mine : of(q).out[1] = "pipe" /\ of(c).in[1] = "pipe" =>
       (of(q).out = of(c).in <=> pr[q].fd[1][2] = pr[c].fd[0][2])

\* Unless a fork() failed, what is after a ; starts, and the prompt comes
\* back, when all that comes before it and is not in the background has ended.
Sequenced ==
  failed \/
  /\ \A lr \in Lists(meant) : \A q \in Programs :
       Word(q) \in Words(lr[2]) => Ended(Foreground(lr[1]))
  /\ At(Main, "getcmd") => Ended(Foreground(meant))

\* The prompt comes back after every line, from a new shell if fork() failed:
\* no program waits for the end of a pipe that a process which waits for it has
\* open.
PromptReturns == []<>At(Main, "getcmd")

=============================================================================
