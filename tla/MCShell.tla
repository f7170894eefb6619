------------------------------ MODULE MCShell ------------------------------
(* An instance of Shell for TLC. *)
EXTENDS Shell

X(w) == execcmd(<<w>>)
From(c, f) == redircmd(c, [file |-> f, fd |-> 0])
To(c, f) == redircmd(c, [file |-> f, fd |-> 1])

\* a | b > x | c
\* d & ; e | f
\* (g ; h) < y
\* (i | j) > z ; k
FourCommands ==
  {pipecmd(X("a"), pipecmd(To(X("b"), "x"), X("c"))),
   listcmd(backcmd(X("d")), pipecmd(X("e"), X("f"))),
   From(listcmd(X("g"), X("h")), "y"),
   listcmd(To(pipecmd(X("i"), X("j")), "z"), X("k"))}

Bad2 == {<<"a", "|", "(", "b">>}

\* The parser finds the command that a line means, for all the commands
\* with at most two constructors around their words.
Around(S) ==
  S \cup {backcmd(c) : c \in S}
    \cup UNION {{From(c, "x"), To(c, "x")} : c \in S}
    \cup UNION {{pipecmd(c, d), listcmd(c, d)} : c \in S, d \in S}

ASSUME ParserInverts ==
  \A c \in Around(Around({X("a"), execcmd(<<"b", "c">>), execcmd(<<>>)})) : parsecmd(Line(c)) = c

=============================================================================
