------------------------------ MODULE ShParse ------------------------------
(***************************************************************************)
(* The parser of the shell (user/sh.c).  A line is a sequence of the       *)
(* tokens that gettoken() finds; a parse function gets what is left of it  *)
(* and returns the command and what is left then.                          *)
(***************************************************************************)
EXTENDS Naturals, Sequences, SequencesExt

CONSTANT MAXARGS

Redirect == {"<", ">", ">>"}
Symbol == Redirect \cup {"|", "&", ";", "(", ")"}

execcmd(argv) == [type |-> "EXEC", argv |-> argv]
redircmd(sub, r) == [type |-> "REDIR", cmd |-> sub, file |-> r.file, fd |-> r.fd]
pipecmd(left, right) == [type |-> "PIPE", left |-> left, right |-> right]
listcmd(left, right) == [type |-> "LIST", left |-> left, right |-> right]
backcmd(sub) == [type |-> "BACK", cmd |-> sub]

\* panic(): the process that parses exits.
panic == [cmd |-> [type |-> "SYNTAX"], s |-> <<>>]
Bad(r) == r = panic

peek(s, toks) == s # <<>> /\ Head(s) \in toks

\* The kind of the first token: a symbol, "a" for a word, "" at the end.
gettoken(s) == IF s = <<>> THEN "" ELSE IF Head(s) \in Symbol THEN Head(s) ELSE "a"

-----------------------------------------------------------------------------
RECURSIVE parseline(_), parsepipe(_), parseredirs(_, _), arguments(_, _, _)

\* The redirections at the beginning of s, after those in rs.
parseredirs(rs, s) ==
  IF ~peek(s, Redirect) THEN [redirs |-> rs, s |-> s, ok |-> TRUE]
  ELSE IF gettoken(Tail(s)) # "a" THEN [redirs |-> rs, s |-> s, ok |-> FALSE]
  ELSE parseredirs(Append(rs, [file |-> s[2], fd |-> IF Head(s) = "<" THEN 0 ELSE 1]),
                   Tail(Tail(s)))

\* Each redirection is put around the command that there is.
Redirected(cmd, r) ==
  IF r.ok THEN [cmd |-> FoldLeft(redircmd, cmd, r.redirs), s |-> r.s] ELSE panic

parseblock(s) ==
  LET r == parseline(Tail(s)) IN
  IF Bad(r) \/ ~peek(r.s, {")"}) THEN panic
  ELSE Redirected(r.cmd, parseredirs(<<>>, Tail(r.s)))

\* The loop of parseexec(): words, each with the redirections after it.
arguments(argv, rs, s) ==
  LET r == parseredirs(rs, s) IN
  IF ~r.ok \/ gettoken(r.s) \in {"|", ")", "&", ";", ""} THEN Redirected(execcmd(argv), r)
  ELSE IF gettoken(r.s) # "a" \/ Len(argv) + 1 >= MAXARGS THEN panic
  ELSE arguments(Append(argv, Head(r.s)), r.redirs, Tail(r.s))

parseexec(s) == IF peek(s, {"("}) THEN parseblock(s) ELSE arguments(<<>>, <<>>, s)

parsepipe(s) ==
  LET r == parseexec(s)
      right == parsepipe(Tail(r.s))
  IN IF Bad(r) \/ ~peek(r.s, {"|"}) THEN r
     ELSE IF Bad(right) THEN panic
     ELSE [cmd |-> pipecmd(r.cmd, right.cmd), s |-> right.s]

\* The & after a command.
RECURSIVE background(_)
background(r) ==
  IF Bad(r) \/ ~peek(r.s, {"&"}) THEN r
  ELSE background([cmd |-> backcmd(r.cmd), s |-> Tail(r.s)])

parseline(s) ==
  LET r == background(parsepipe(s))
      right == parseline(Tail(r.s))
  IN IF Bad(r) \/ ~peek(r.s, {";"}) THEN r
     ELSE IF Bad(right) THEN panic
     ELSE [cmd |-> listcmd(r.cmd, right.cmd), s |-> right.s]

parsecmd(s) ==
  LET r == parseline(s) IN IF r.s # <<>> THEN panic.cmd ELSE r.cmd

-----------------------------------------------------------------------------
(***************************************************************************)
(* A line that means cmd, in the grammar                                   *)
(*   line ::= pipe {&} [; line]     pipe ::= exec [| pipe]                 *)
(*   exec ::= words and redirections  or  ( line ) redirections            *)
(***************************************************************************)
RECURSIVE Line(_), Back(_), Pipe(_), Exec(_)

Parens(cmd) == <<"(">> \o Line(cmd) \o <<")">>

Exec(cmd) ==
  CASE cmd.type = "EXEC" -> cmd.argv
    [] cmd.type = "REDIR" -> Exec(cmd.cmd) \o <<IF cmd.fd = 0 THEN "<" ELSE ">", cmd.file>>
    [] OTHER -> Parens(cmd)

Pipe(cmd) ==
  IF cmd.type = "PIPE" THEN Exec(cmd.left) \o <<"|">> \o Pipe(cmd.right) ELSE Exec(cmd)

Back(cmd) == IF cmd.type = "BACK" THEN Back(cmd.cmd) \o <<"&">> ELSE Pipe(cmd)

Line(cmd) ==
  IF cmd.type = "LIST" THEN Back(cmd.left) \o <<";">> \o Line(cmd.right) ELSE Back(cmd)

=============================================================================
