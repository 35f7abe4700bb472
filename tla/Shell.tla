-------------------------------- MODULE Shell --------------------------------
(***************************************************************************)
(* The shell (sh.c): the recursive-descent parser, and runcmd() with the   *)
(* processes, pipes and descriptors that it sets up.                       *)
(*                                                                         *)
(* A line is a sequence of tokens, words from a small set; >> is parsed    *)
(* and run as > is.  A program that is run quits, or reads its input to    *)
(* the end, or writes more than a pipe holds.  fork(), exit(), wait() and  *)
(* the descriptors are those that Proc, Fs and Pipe model, at the level of *)
(* their callers.                                                          *)
(*                                                                         *)
(* An operator named like the one after it, with a suffix, is that         *)
(* operator with a plausible mistake; the properties are tested on them.   *)
(***************************************************************************)
EXTENDS Integers, Sequences, FiniteSets, SequencesExt

CONSTANTS
    Words, MAXARGS,
    Procs,      \* slots of the process table for the shell and its descendants
    Sh, Init_,  \* the shell, and init, which is not one of them
    NOFILE,
    Lines       \* for each line typed, the choices: a sequence of sets of lines

ASSUME ShellAssumption ==
    /\ Procs \subseteq Nat /\ Sh \in Procs /\ Init_ \notin Procs
    /\ MAXARGS \in Nat \ {0} /\ NOFILE \in Nat /\ NOFILE >= 5

Redirects == {"<", ">"}
Symbols == {"|", ";", "&", "(", ")"} \cup Redirects

-----------------------------------------------------------------------------
(* Commands *)

execcmd(argv) == [type |-> "EXEC", argv |-> argv]
redircmd(cmd, rd) == [type |-> "REDIR", cmd |-> cmd, file |-> rd.file, fd |-> rd.fd]
pipecmd(left, right) == [type |-> "PIPE", left |-> left, right |-> right]
listcmd(left, right) == [type |-> "LIST", left |-> left, right |-> right]
backcmd(cmd) == [type |-> "BACK", cmd |-> cmd]

Redirected(cmd, rds) == FoldLeft(redircmd, cmd, rds)
Redirection(tok, file) == [file |-> file, fd |-> IF tok = "<" THEN 0 ELSE 1]

-----------------------------------------------------------------------------
(* The parser: each function gets the line s, its place i in it, and the    *)
(* results p of the functions that it calls; it returns the command and the *)
(* place after it, or it panics.                                            *)

gettoken(s, i) == IF i <= Len(s) THEN s[i] ELSE "end"
peek(s, i, toks) == gettoken(s, i) \in toks
Parsed(cmd, i) == [cmd |-> cmd, i |-> i, panic |-> FALSE]
Panic == [cmd |-> <<>>, i |-> 0, panic |-> TRUE]

\* The redirections at i.
parseredirs(s, p, i) ==
    LET r == p["redirs", i + 2]
    IN  IF ~peek(s, i, Redirects) THEN Parsed(<<>>, i)
        ELSE IF gettoken(s, i + 1) \notin Words THEN Panic
        ELSE [r EXCEPT !.cmd = <<Redirection(s[i], s[i + 1])>> \o @]

parseblock(s, p, i) ==
    LET l == p["line", i + 1]
        r == p["redirs", l.i + 1]
    IN  IF l.panic \/ ~peek(s, l.i, {")"}) \/ r.panic THEN Panic
        ELSE Parsed(Redirected(l.cmd, r.cmd), r.i)

\* The loop of parseexec(): words, each with the redirections after it.
parseargs(s, p, i) ==
    LET r == p["redirs", i + 1]
        a == p["args", r.i]
    IN  IF peek(s, i, {"|", ")", "&", ";", "end"}) THEN Parsed([argv |-> <<>>, rds |-> <<>>], i)
        ELSE IF s[i] \notin Words \/ r.panic \/ a.panic THEN Panic
        ELSE Parsed([argv |-> <<s[i]>> \o a.cmd.argv, rds |-> r.cmd \o a.cmd.rds], a.i)

TooManyOff(argc) == argc > MAXARGS
TooMany(argc) == argc >= MAXARGS
parseexec(s, p, i) ==
    LET r == p["redirs", i]
        a == p["args", r.i]
    IN  IF peek(s, i, {"("}) THEN parseblock(s, p, i)
        ELSE IF r.panic \/ a.panic \/ TooMany(Len(a.cmd.argv)) THEN Panic
        ELSE Parsed(Redirected(execcmd(a.cmd.argv), r.cmd \o a.cmd.rds), a.i)

parsepipe(s, p, i) ==
    LET l == p["exec", i]
        r == p["pipe", l.i + 1]
    IN  IF l.panic \/ ~peek(s, l.i, {"|"}) THEN l
        ELSE IF r.panic THEN Panic
        ELSE Parsed(pipecmd(l.cmd, r.cmd), r.i)

\* The & loop of parseline().
Backs(s, l) ==
    LET n == CHOOSE n \in 0 .. Len(s) : ~peek(s, l.i + n, {"&"}) /\ \A m \in 0 .. n - 1 : peek(s, l.i + m, {"&"})
    IN  Parsed(FoldLeft(LAMBDA c, m : backcmd(c), l.cmd, [m \in 1 .. n |-> m]), l.i + n)

parseline(s, p, i) ==
    LET l == p["pipe", i]
        b == Backs(s, l)
        r == p["line", b.i + 1]
    IN  IF l.panic THEN Panic
        ELSE IF ~peek(s, b.i, {";"}) THEN b
        ELSE IF r.panic THEN Panic
        ELSE Parsed(listcmd(b.cmd, r.cmd), r.i)

Leftovers(s, i) == i <= Len(s)
parsecmd(s) ==
    LET p[f \in {"redirs", "args", "exec", "pipe", "line"}, i \in 1 .. Len(s) + 1] ==
            CASE f = "redirs" -> parseredirs(s, p, i)
              [] f = "args" -> parseargs(s, p, i)
              [] f = "exec" -> parseexec(s, p, i)
              [] f = "pipe" -> parsepipe(s, p, i)
              [] f = "line" -> parseline(s, p, i)
        l == p["line", 1]
    IN  IF ~l.panic /\ Leftovers(s, l.i) THEN Panic ELSE l

-----------------------------------------------------------------------------
(* Descriptors *)

NoFile == [k |-> "none", n |-> 0, w |-> FALSE]
Console == [k |-> "console", n |-> 0, w |-> FALSE]
File(name) == [k |-> name, n |-> 0, w |-> FALSE]
PipeEnd(n, w) == [k |-> "pipe", n |-> n, w |-> w]

Fds == 0 .. NOFILE - 1
FreeFds(of) == {fd \in Fds : of[fd] = NoFile}
fdalloc(of) == CHOOSE fd \in FreeFds(of) : \A d \in FreeFds(of) : fd <= d

close(of, fd) == [of EXCEPT ![fd] = NoFile]
open(of, f) == [of EXCEPT ![fdalloc(of)] = f]
dup(of, fd) == open(of, of[fd])

-----------------------------------------------------------------------------
(* Processes *)

VARIABLES
    pr,        \* processes
    line,      \* the line in the shell's buffer
    nlines,    \* lines read
    failed     \* a fork or a pipe has failed

vars == <<pr, line, nlines, failed>>

\* A process is at pc in runcmd(cmd), or runs a program; of are its open files.
\* Of the semantics, not of the code: in and out are what its input and output
\* should be, and bg says that a & started it or an ancestor.
NoProc == [pc |-> "none", par |-> Init_, cmd |-> execcmd(<<>>), of |-> [fd \in Fds |-> NoFile],
           p |-> <<0, 0>>, in |-> Console, out |-> Console, bg |-> FALSE]

Init ==
    /\ pr = [p \in Procs |-> IF p # Sh THEN NoProc
                             ELSE [NoProc EXCEPT !.pc = "getcmd",
                                                 !.of = [fd \in Fds |-> IF fd < 3 THEN Console ELSE NoFile]]]
    /\ line = <<>> /\ nlines = 0 /\ failed = FALSE

Children(p) == {c \in Procs : pr[c].pc # "none" /\ pr[c].par = p}
FreeProcs == {p \in Procs : pr[p].pc = "none"}
Child == CHOOSE p \in FreeProcs : \A q \in FreeProcs : p <= q

\* exit(): the files are closed, init gets the children and reaps them.
Exited(P, p) ==
    [q \in Procs |->
        IF q = p
        THEN IF P[p].par = Init_ THEN NoProc
             ELSE [NoProc EXCEPT !.pc = "zombie", !.par = P[p].par, !.bg = P[p].bg]
        ELSE IF P[q].pc = "none" \/ P[q].par # p THEN P[q]
        ELSE IF P[q].pc = "zombie" THEN NoProc
        ELSE [P[q] EXCEPT !.par = Init_]]

\* fork1(): the parent becomes P, the child C, or the parent panics.
fork1(p, P, C) ==
    IF FreeProcs = {}
    THEN pr' = Exited(pr, p) /\ failed' = TRUE
    ELSE pr' = [pr EXCEPT ![p] = P, ![Child] = [C EXCEPT !.par = p]] /\ UNCHANGED failed

\* wait(): a child has exited, and the process becomes P.  The shell waits for
\* a child that it has: without one, wait() would fail, and this be stuck.
waitNot(p, P) == pr' = [pr EXCEPT ![p] = P]
wait(p, P) ==
    \E c \in Children(p) :
        /\ pr[c].pc = "zombie"
        /\ pr' = [pr EXCEPT ![c] = NoProc, ![p] = P]

At(p, pc) == pr[p].pc = pc
Runs(p, type) == At(p, "runcmd") /\ pr[p].cmd.type = type
Run(P, cmd) == [P EXCEPT !.pc = "runcmd", !.cmd = cmd]
exits(p) == pr' = Exited(pr, p) /\ UNCHANGED <<line, nlines, failed>>

-----------------------------------------------------------------------------
(* main() *)

\* A line that starts with cd changes the shell's directory, in the shell.
getcmd(p) ==
    /\ At(p, "getcmd") /\ nlines < Len(Lines)
    /\ nlines' = nlines + 1
    /\ \E i \in DOMAIN Lines[nlines + 1] : line' \in Lines[nlines + 1][i]
    /\ pr' = [pr EXCEPT ![p].pc = IF line' = <<"cd">> THEN "getcmd" ELSE "fork"]
    /\ UNCHANGED failed

\* The end of the input, after the last line.
endOfInput(p) == At(p, "getcmd") /\ nlines = Len(Lines) /\ exits(p)

mainfork(p) ==
    /\ At(p, "fork")
    /\ fork1(p, [pr[p] EXCEPT !.pc = "mainwait"], [pr[p] EXCEPT !.pc = "parsecmd"])
    /\ UNCHANGED <<line, nlines>>

mainwait(p) ==
    /\ At(p, "mainwait")
    /\ wait(p, [pr[p] EXCEPT !.pc = "getcmd"])
    /\ UNCHANGED <<line, nlines, failed>>

parses(p) ==
    /\ At(p, "parsecmd")
    /\ LET r == parsecmd(line)
       IN  IF r.panic THEN exits(p)
           ELSE pr' = [pr EXCEPT ![p] = Run(@, r.cmd)] /\ UNCHANGED <<line, nlines, failed>>

-----------------------------------------------------------------------------
(* runcmd() *)

Programs == {"quits", "reads", "writes"}

\* exec() of a command that exists, or not: then it quits.
execs(p) ==
    /\ Runs(p, "EXEC")
    /\ \/ pr[p].cmd.argv = <<>> /\ exits(p)
       \/ /\ pr[p].cmd.argv # <<>>
          /\ \E prog \in Programs : pr' = [pr EXCEPT ![p].pc = prog]
          /\ UNCHANGED <<line, nlines, failed>>

redir(p) ==
    LET c == pr[p].cmd
        f == File(c.file)
        P == [Run(pr[p], c.cmd) EXCEPT !.of = open(close(pr[p].of, c.fd), f)]
    IN  /\ Runs(p, "REDIR")
        /\ \/ exits(p)          \* open() fails
           \/ /\ pr' = [pr EXCEPT ![p] = IF c.fd = 0 THEN [P EXCEPT !.in = f] ELSE [P EXCEPT !.out = f]]
              /\ UNCHANGED <<line, nlines, failed>>

list(p) ==
    /\ Runs(p, "LIST")
    /\ fork1(p, [pr[p] EXCEPT !.pc = "listwait"], Run(pr[p], pr[p].cmd.left))
    /\ UNCHANGED <<line, nlines>>
listwait(p) ==
    /\ At(p, "listwait")
    /\ wait(p, Run(pr[p], pr[p].cmd.right))
    /\ UNCHANGED <<line, nlines, failed>>

back(p) ==
    /\ Runs(p, "BACK")
    /\ fork1(p, [pr[p] EXCEPT !.pc = "exit"], [Run(pr[p], pr[p].cmd.cmd) EXCEPT !.bg = TRUE])
    /\ UNCHANGED <<line, nlines>>

\* pipe(p): no file or no page is left, or two descriptors of a new pipe.
FreePipe == CHOOSE n \in 1 .. 2 * Cardinality(Procs) :
                \A q \in Procs : \A fd \in Fds : pr[q].of[fd].k = "pipe" => pr[q].of[fd].n # n
pipe(p) ==
    LET of == pr[p].of
        r == fdalloc(of)
        w == fdalloc(open(of, PipeEnd(FreePipe, FALSE)))
    IN  /\ Runs(p, "PIPE")
        /\ \/ pr' = Exited(pr, p) /\ failed' = TRUE
           \/ /\ pr' = [pr EXCEPT ![p].pc = "left", ![p].p = <<r, w>>,
                                  ![p].of = [of EXCEPT ![r] = PipeEnd(FreePipe, FALSE),
                                                       ![w] = PipeEnd(FreePipe, TRUE)]]
              /\ UNCHANGED failed
        /\ UNCHANGED <<line, nlines>>

\* The descriptors of a child whose descriptor fd becomes an end of the pipe.
closesRead(of, p) == close(of, p[1])
closes(of, p) == close(close(of, p[1]), p[2])
wiresLeak(of, p, fd) == close(dup(close(of, fd), p[fd + 1]), p[1])
wires(of, p, fd) == closes(dup(close(of, fd), p[fd + 1]), p)

pipeleft(p) ==
    LET P == pr[p]
    IN  /\ At(p, "left")
        /\ fork1(p, [P EXCEPT !.pc = "pright"],
                 [Run(P, P.cmd.left) EXCEPT !.of = wires(P.of, P.p, 1), !.out = P.of[P.p[2]]])
        /\ UNCHANGED <<line, nlines>>
piperight(p) ==
    LET P == pr[p]
    IN  /\ At(p, "pright")
        /\ fork1(p, [P EXCEPT !.pc = "pclose"],
                 [Run(P, P.cmd.right) EXCEPT !.of = wires(P.of, P.p, 0), !.in = P.of[P.p[1]]])
        /\ UNCHANGED <<line, nlines>>
pipeclose(p) ==
    /\ At(p, "pclose")
    /\ pr' = [pr EXCEPT ![p].pc = "wait1", ![p].of = closes(@, pr[p].p)]
    /\ UNCHANGED <<line, nlines, failed>>
pipewait(p) ==
    /\ \/ At(p, "wait1") /\ wait(p, [pr[p] EXCEPT !.pc = "wait2"])
       \/ At(p, "wait2") /\ wait(p, [pr[p] EXCEPT !.pc = "exit"])
    /\ UNCHANGED <<line, nlines, failed>>

runcmdexit(p) == At(p, "exit") /\ exits(p)

-----------------------------------------------------------------------------
(* Programs *)

Holds(p, f) == \E fd \in Fds : pr[p].of[fd] = f

\* Reading ends when nobody has the write end; writing more than the pipe holds
\* goes on while somebody reads, and ends when nobody has the read end.
Ends(p) ==
    LET in == pr[p].of[0]
        out == pr[p].of[1]
        other == PipeEnd(out.n, FALSE)
    IN  CASE At(p, "quits") -> TRUE
          [] At(p, "reads") -> in.k = "pipe" => \A q \in Procs : ~Holds(q, PipeEnd(in.n, TRUE))
          [] At(p, "writes") -> out.k = "pipe" =>
                \/ \A q \in Procs : ~Holds(q, other)
                \/ \E q \in Procs : At(q, "reads") /\ pr[q].of[0] = other
program(p) == pr[p].pc \in Programs /\ Ends(p) /\ exits(p)

Step(p) ==
    \/ mainfork(p) \/ mainwait(p) \/ parses(p) \/ execs(p) \/ redir(p)
    \/ list(p) \/ listwait(p) \/ back(p)
    \/ pipe(p) \/ pipeleft(p) \/ piperight(p) \/ pipeclose(p) \/ pipewait(p)
    \/ runcmdexit(p) \/ program(p)

Next == \E p \in Procs : getcmd(p) \/ endOfInput(p) \/ Step(p)

Spec == Init /\ [][Next]_vars

-----------------------------------------------------------------------------
(* The grammar, as the commands that a sequence of tokens stands for *)

\* The redirections of s in order, and the words that are not files of one.
IsFile(s, i) == i > 1 /\ s[i - 1] \in Redirects
RedirsIn(s) == LET is == SetToSortSeq({i \in DOMAIN s : s[i] \in Redirects}, <)
               IN  [n \in DOMAIN is |-> Redirection(s[is[n]], s[is[n] + 1])]
ArgsIn(s) == LET is == SetToSortSeq({i \in DOMAIN s : s[i] \in Words /\ ~IsFile(s, i)}, <)
             IN  [n \in DOMAIN is |-> s[is[n]]]
IsSimple(s) ==
    /\ \A i \in DOMAIN s : s[i] \in Words \cup Redirects
    /\ \A i \in DOMAIN s : s[i] \in Redirects => i < Len(s) /\ s[i + 1] \in Words

\* A line is a job, or job ; line.  A job is a pipeline and any number of &.
\* A pipeline is a command, or command | pipeline.  A command is words and
\* redirections, or ( line ) and redirections.
LinesOf(s) ==
    LET Places(tok, i, j) == {k \in i .. j : s[k] = tok}
        After(k, j) == SubSeq(s, k + 1, j)
        cmds(g, i, j) ==
            LET t == SubSeq(s, i, j)
            IN  IF IsSimple(t)
                THEN {Redirected(execcmd(a), RedirsIn(t)) : a \in {a \in {ArgsIn(t)} : Len(a) < MAXARGS}}
                ELSE UNION {{Redirected(c, RedirsIn(After(k, j))) : c \in g["line", i + 1, k - 1]} :
                    k \in {k \in Places(")", i, j) : /\ s[i] = "(" /\ IsSimple(After(k, j))
                                                 /\ ArgsIn(After(k, j)) = <<>>}}
        g[x \in {"cmd", "pipe", "job", "line"}, i \in 1 .. Len(s) + 1, j \in 0 .. Len(s)] ==
            CASE x = "cmd" -> cmds(g, i, j)
              [] x = "pipe" -> g["cmd", i, j] \cup
                   UNION {{pipecmd(l, r) : l \in g["cmd", i, k - 1], r \in g["pipe", k + 1, j]} :
                          k \in Places("|", i, j)}
              [] x = "job" -> g["pipe", i, j] \cup
                   {backcmd(c) : c \in UNION {g["job", i, k - 1] : k \in {k \in Places("&", i, j) : k = j}}}
              [] x = "line" -> g["job", i, j] \cup
                   UNION {{listcmd(l, r) : l \in g["job", i, k - 1], r \in g["line", k + 1, j]} :
                          k \in Places(";", i, j)}
    IN  g["line", 1, Len(s)]

-----------------------------------------------------------------------------
(* Properties *)

Pcs == {"none", "zombie", "getcmd", "fork", "mainwait", "parsecmd", "runcmd", "listwait",
        "left", "pright", "pclose", "wait1", "wait2", "exit"} \cup Programs

\* The processes and their descriptors have their types, and the parent of a
\* process is a process that has not exited.
TypeOK ==
    /\ \A p \in Procs :
         /\ pr[p].pc \in Pcs
         /\ pr[p].par \in {Init_} \cup {q \in Procs : pr[q].pc \notin {"none", "zombie"}}
         /\ \A fd \in Fds : pr[p].of[fd].k \in Words \cup {"none", "console", "pipe"}
    /\ line \in Seq(Words \cup Symbols \cup {"cd"}) /\ nlines \in 0 .. Len(Lines)

\* parsecmd() accepts the lines of the grammar and no others, and returns the
\* one command that the grammar gives: every word, file and operator is where
\* it belongs.
ParsesGrammar ==
    \A p \in Procs : At(p, "parsecmd") =>
        LET r == parsecmd(line)
        IN  LinesOf(line) = IF r.panic THEN {} ELSE {r.cmd}

\* When runcmd() has closed, opened and duplicated descriptors, a program has
\* the input and output that the command says, the console for its errors,
\* and no other descriptor; the descriptors and processes have their types.
DescriptorsWired ==
    /\ TypeOK
    /\ \A p \in Procs : pr[p].pc \in Programs =>
         pr[p].of = [fd \in Fds |-> CASE fd = 0 -> pr[p].in [] fd = 1 -> pr[p].out
                                      [] fd = 2 -> Console [] OTHER -> NoFile]

\* The shell reads the next line when all that the last one started is gone,
\* but for what & started; nothing else outlives it unless fork1() or pipe()
\* failed.  A command starts when those before it are done.
ForegroundDone ==
    /\ \A p \in Procs : pr[p].pc \in {"getcmd", "runcmd"} \cup Programs => Children(p) = {}
    /\ At(Sh, "getcmd") /\ ~failed => \A p \in Procs \ {Sh} : pr[p].pc = "none" \/ pr[p].bg

\* Step(p) is enabled.
Going(p) ==
    /\ pr[p].pc \notin {"none", "zombie", "getcmd"}
    /\ pr[p].pc \in {"mainwait", "listwait", "wait1", "wait2"} =>
         \E c \in Children(p) : At(c, "zombie")
    /\ pr[p].pc \in Programs => Ends(p)

\* While a process is left, some process can go on: no pipeline waits for an end
\* of a pipe that its own processes keep open, and no wait() for a process
\* that waits for it.  Every step takes a process further in a finite command,
\* so every line ends.
NeverStuck == (\E p \in Procs : pr[p].pc \notin {"none", "getcmd"}) => \E p \in Procs : Going(p)
=============================================================================
