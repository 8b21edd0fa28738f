--------------------------------- MODULE Sh ---------------------------------
(***************************************************************************)
(* The shell, user/sh.c: its parser, what the processes it forks do to     *)
(* their descriptors, and user/init.c, which starts it again.  Of the      *)
(* kernel there is what the calls say: the lowest free descriptor or       *)
(* process slot is taken, a pipe is at its end when nobody can write to    *)
(* it, and orphans become children of init.                                *)
(***************************************************************************)
EXTENDS Integers, Sequences, FiniteSets, FiniteSetsExt, SequencesExt

CONSTANTS NPROC, NOFILE, MAXARGS,
          Sessions,   \* sequences of lines that may be typed
          Tails,      \* texts that may follow a short line
          MaxFail     \* how many calls of fork(), pipe(), open(), exec() may fail,
                      \* other than main()'s open("console")

Proc == 1 .. NPROC
init == 1
Fd == 0 .. NOFILE - 1

ASSUME ShAssumption ==
  /\ NPROC \in Nat /\ NPROC >= 2 /\ NOFILE \in Nat /\ NOFILE >= 6
  /\ MAXARGS \in Nat \ {0} /\ MaxFail \in Nat

-----------------------------------------------------------------------------
(* The parser.  Each function returns the command and what is left of the  *)
(* line s, or that it panicked.                                            *)

From(s, k) == SubSeq(s, k, Len(s))
execcmd(argc) == [type |-> "EXEC", argc |-> argc]
redircmd(c, op) == [type |-> "REDIR", cmd |-> c, file |-> op, fd |-> IF op = "<" THEN 0 ELSE 1]
pipecmd(l, r) == [type |-> "PIPE", left |-> l, right |-> r]
listcmd(l, r) == [type |-> "LIST", left |-> l, right |-> r]
backcmd(c) == [type |-> "BACK", cmd |-> c]
Nil == [type |-> "none"]

\* A character is one of symbols, "x" (part of a word) or " ".
symbols == {"<", "|", ">", "&", ";", "(", ")"}
Skip(s) == LET W == {k \in DOMAIN s : s[k] # " "} IN IF W = {} THEN <<>> ELSE From(s, Min(W))
peek(s, toks) == Skip(s) # <<>> /\ Head(Skip(s)) \in toks

\* The next token: "" at the end, "+" for >>, "a" for a word
WordEnd(t) == LET E == {k \in DOMAIN t : t[k] # "x"} IN IF E = {} THEN Len(t) ELSE Min(E) - 1
Got(tok, t, k) == [tok |-> tok, rest |-> Skip(From(t, k + 1))]
Token(t) ==
  IF t = <<>> THEN Got("", t, 0)
  ELSE IF Len(t) > 1 /\ t[1] = ">" /\ t[2] = ">" THEN Got("+", t, 2)
  ELSE IF t[1] \in symbols THEN Got(t[1], t, 1)
  ELSE Got("a", t, WordEnd(t))
gettoken(s) == Token(Skip(s))
Rest(s) == gettoken(s).rest

Parsed(c, s) == [ok |-> TRUE, cmd |-> c, rest |-> s]
Panic == [ok |-> FALSE, cmd |-> Nil, rest |-> <<>>]

RECURSIVE parseline(_), parsepipe(_), parseredirs(_, _), parseargs(_, _, _), backs(_, _)

\* After the token op, < or >: the file it goes to
RedirTo(c, op) ==
  IF gettoken(op.rest).tok = "a" THEN parseredirs(redircmd(c, op.tok), Rest(op.rest))
  ELSE Panic                                           \* missing file for redirection
parseredirs(c, s) == IF peek(s, {"<", ">"}) THEN RedirTo(c, gettoken(s)) ELSE Parsed(c, s)

\* The arguments, with the redirections among them: ops are those met so far,
\* which are around the same struct execcmd.
Wrap(argc, ops) == FoldLeft(redircmd, execcmd(argc), ops)
Argument(argc, ops, t) ==
  IF t.tok # "a" \/ argc + 1 >= MAXARGS THEN Panic     \* syntax, too many args
  ELSE parseargs(argc + 1, ops, t.rest)
ArgRedir(argc, ops, op) ==
  IF gettoken(op.rest).tok = "a" THEN parseargs(argc, Append(ops, op.tok), Rest(op.rest)) ELSE Panic
parseargs(argc, ops, s) ==
  IF peek(s, {"<", ">"}) THEN ArgRedir(argc, ops, gettoken(s))
  ELSE IF peek(s, {"|", ")", "&", ";"}) \/ Skip(s) = <<>> THEN Parsed(Wrap(argc, ops), s)
  ELSE Argument(argc, ops, gettoken(s))

MutantBlockEnd(r) ==              \* no redirections after a block
  IF r.ok /\ peek(r.rest, {")"}) THEN Parsed(r.cmd, Rest(r.rest)) ELSE Panic

BlockEnd(r) ==
  IF r.ok /\ peek(r.rest, {")"}) THEN parseredirs(r.cmd, Rest(r.rest)) ELSE Panic
parseblock(s) == BlockEnd(parseline(Rest(s)))

parseexec(s) == IF peek(s, {"("}) THEN parseblock(s) ELSE parseargs(0, <<>>, s)

\* l, and then the rest r that was parsed, if it was
Join(mk(_, _), l, r) == IF r.ok THEN Parsed(mk(l.cmd, r.cmd), r.rest) ELSE Panic

PipeEnd(l) ==
  IF l.ok /\ peek(l.rest, {"|"}) THEN Join(pipecmd, l, parsepipe(Rest(l.rest))) ELSE l
parsepipe(s) == PipeEnd(parseexec(s))

backs(c, s) == IF peek(s, {"&"}) THEN backs(backcmd(c), Rest(s)) ELSE Parsed(c, s)

ListEnd(l) == IF peek(l.rest, {";"}) THEN Join(listcmd, l, parseline(Rest(l.rest))) ELSE l
LineEnd(p) == IF p.ok THEN ListEnd(backs(p.cmd, p.rest)) ELSE Panic
parseline(s) == LineEnd(parsepipe(s))

\* Nothing may be left over.
Whole(r) == IF r.ok /\ Skip(r.rest) = <<>> THEN r ELSE Panic
parsecmd(s) == Whole(parseline(s))

-----------------------------------------------------------------------------
(* The grammar, without an order of parsing: the tokens of a line, and all *)
(* commands that a sequence of tokens is a phrase for                      *)

\* A character that goes on with the token before it adds nothing.
Tokens(s) ==
  FoldLeftDomain(LAMBDA ts, k :
    CASE s[k] = " " -> ts
      [] s[k] = "x" -> IF k > 1 /\ s[k - 1] = "x" THEN ts ELSE Append(ts, "a")
      [] s[k] = ">" /\ k > 1 /\ s[k - 1] = ">" /\ Last(ts) = ">" -> Append(Front(ts), "+")
      [] OTHER -> Append(ts, s[k]), <<>>, s)

Upto(s, k) == SubSeq(s, 1, k)
At(s, t) == {k \in DOMAIN s : s[k] = t}

\* Words and redirections; redirections alone
RECURSIVE Simple(_, _, _), Redirected(_, _), LineTrees(_), BackTrees(_), PipeTrees(_)
Redir(s) == Len(s) >= 2 /\ s[1] \in {"<", ">", "+"} /\ s[2] = "a"
Simple(n, ops, s) ==
  CASE s = <<>> -> IF n < MAXARGS THEN {Wrap(n, ops)} ELSE {}
    [] Redir(s) -> Simple(n, Append(ops, s[1]), From(s, 3))
    [] s # <<>> /\ s[1] = "a" -> Simple(n + 1, ops, From(s, 2))
    [] OTHER -> {}
Redirected(C, s) ==
  IF s = <<>> THEN C
  ELSE IF Redir(s) THEN Redirected({redircmd(c, s[1]) : c \in C}, From(s, 3)) ELSE {}

ExecTrees(s) ==
  Simple(0, <<>>, s)
    \cup (IF s # <<>> /\ s[1] = "("
          THEN UNION {Redirected(LineTrees(SubSeq(s, 2, k - 1)), From(s, k + 1)) : k \in At(s, ")")}
          ELSE {})
PipeTrees(s) ==
  ExecTrees(s) \cup
  UNION {{pipecmd(l, r) : l \in ExecTrees(Upto(s, k - 1)), r \in PipeTrees(From(s, k + 1))} : k \in At(s, "|")}
BackTrees(s) ==
  PipeTrees(s) \cup (IF s # <<>> /\ Last(s) = "&" THEN {backcmd(c) : c \in BackTrees(Front(s))} ELSE {})
LineTrees(s) ==
  BackTrees(s) \cup
  UNION {{listcmd(l, r) : l \in BackTrees(Upto(s, k - 1)), r \in LineTrees(From(s, k + 1))} : k \in At(s, ";")}

-----------------------------------------------------------------------------
VARIABLES
  state,        \* "unused", "init", "sh", "run" (a copy of sh in runcmd()),
                \* "prog" (exec()ed), "zombie"
  pc, parent,
  ofile,        \* descriptors
  cmd, p01,     \* runcmd()'s cmd; p[0] and p[1]
  input, line,  \* lines to come, and the one in main()'s buf
  tree,         \* parsecmd(line), which the child of main() will compute
  pid,          \* init's pid: the shell it started
  fails,        \* calls that have failed
  halted,       \* the kernel panicked: init exiting
  want, bg,     \* for the properties: what descriptors 0 and 1 should be of the
                \* command a process runs; whether it descends from a & command
  bare          \* and whether a shell has started with fewer than three descriptors
vars == <<state, pc, parent, ofile, cmd, p01, input, line, tree, pid, fails, halted, want, bg, bare>>
env == <<input, line, tree, pid, halted, bare>>

\* What a descriptor refers to: kind is "none", "console", "file", or the end
\* "r" or "w" of pipe id.
Obj(k, id) == [kind |-> k, id |-> id]
Closed == Obj("none", 0)
Console == Obj("console", 0)
FileNo == [op \in {"<", ">", "+"} |-> CASE op = "<" -> 0 [] op = ">" -> 1 [] op = "+" -> 2]
File(op) == Obj("file", FileNo[op])

Open(t) == {d \in Fd : t[d] # Closed}
close(t, d) == [t EXCEPT ![d] = Closed]
open(t, o) == [t EXCEPT ![Min(Fd \ Open(t))] = o]
dup(t, d) == open(t, t[d])

Held(o) == \E p \in Proc, d \in Fd : ofile[p][d] = o
FreePipe == Min({k \in 1 .. NPROC : ~Held(Obj("r", k)) /\ ~Held(Obj("w", k))})

Is(p, s, l) == ~halted /\ state[p] = s /\ pc[p] = l
Goto(p, l) == pc' = [pc EXCEPT ![p] = l]
MayFail == fails < MaxFail /\ fails' = fails + 1

exit(p) ==
  /\ state' = [state EXCEPT ![p] = "zombie"] /\ Goto(p, "none")
  /\ ofile' = [ofile EXCEPT ![p] = [d \in Fd |-> Closed]]
  /\ parent' = [q \in Proc |-> IF parent[q] = p THEN init ELSE parent[q]]
  /\ cmd' = [cmd EXCEPT ![p] = Nil] /\ p01' = [p01 EXCEPT ![p] = <<0, 0>>]
  /\ want' = [want EXCEPT ![p] = <<Closed, Closed>>]

FreeSlots == {x \in Proc : state[x] = "unused"}

\* A copy of p that starts at l with command c; p goes on at next.
fork(p, next, s, l, c, w, b) ==
  LET q == Min(FreeSlots) IN
  /\ FreeSlots # {}
  /\ state' = [state EXCEPT ![q] = s] /\ pc' = [pc EXCEPT ![p] = next, ![q] = l]
  /\ parent' = [parent EXCEPT ![q] = p] /\ ofile' = [ofile EXCEPT ![q] = ofile[p]]
  /\ cmd' = [cmd EXCEPT ![q] = c] /\ p01' = [p01 EXCEPT ![q] = p01[p]]
  /\ want' = [want EXCEPT ![q] = w] /\ bg' = [bg EXCEPT ![q] = b]
  /\ UNCHANGED fails

\* fork1(): panic("fork") when there is no slot or no memory
NoFork == IF FreeSlots = {} THEN fails' = fails + 1 ELSE MayFail
fork1(p, next, l, c, w, b) ==
  /\ fork(p, next, "run", l, c, w, b) \/ (NoFork /\ exit(p) /\ UNCHANGED bg)
  /\ UNCHANGED env

\* wait(0)
Reaped(p, q, l) ==
  /\ state[q] = "zombie" /\ parent[q] = p
  /\ state' = [state EXCEPT ![q] = "unused"] /\ parent' = [parent EXCEPT ![q] = 0]
  /\ bg' = [bg EXCEPT ![q] = FALSE] /\ Goto(p, l)
  /\ UNCHANGED <<ofile, p01, env, fails, want>>
wait(p, l) == (\E q \in Proc : Reaped(p, q, l)) /\ UNCHANGED cmd

-----------------------------------------------------------------------------
(* runcmd(): a process that runs cmd goes from "runcmd" on.                *)

Runs(p, type) == Is(p, "run", "runcmd") /\ cmd[p].type = type

\* parsecmd() in the child that main() forked
parse(p) ==
  /\ Is(p, "run", "parse")
  /\ IF tree.ok
     THEN /\ cmd' = [cmd EXCEPT ![p] = tree.cmd] /\ Goto(p, "runcmd")
          /\ UNCHANGED <<state, parent, ofile, p01, want>>
     ELSE exit(p)
  /\ UNCHANGED <<env, fails, bg>>

EXEC(p) ==
  /\ Runs(p, "EXEC")
  /\ \/ cmd[p].argc = 0 /\ exit(p) /\ UNCHANGED fails
     \/ cmd[p].argc > 0 /\ MayFail /\ exit(p)
     \/ /\ cmd[p].argc > 0
        /\ state' = [state EXCEPT ![p] = "prog"] /\ Goto(p, "main")
        /\ cmd' = [cmd EXCEPT ![p] = Nil] /\ p01' = [p01 EXCEPT ![p] = <<0, 0>>]
        /\ UNCHANGED <<parent, ofile, fails, want>>
  /\ UNCHANGED <<env, bg>>

\* close(), and open(), which takes the lowest descriptor
REDIR(p) ==
  LET c == cmd[p] IN
  /\ Runs(p, "REDIR")
  /\ \/ MayFail /\ exit(p)
     \/ /\ ofile' = [ofile EXCEPT ![p] = open(close(@, c.fd), File(c.file))]
        /\ cmd' = [cmd EXCEPT ![p] = c.cmd]
        /\ want' = [want EXCEPT ![p][c.fd + 1] = File(c.file)]
        /\ UNCHANGED <<state, pc, parent, p01, fails>>
  /\ UNCHANGED <<env, bg>>

LIST(p) == Runs(p, "LIST") /\ fork1(p, "list_wait", "runcmd", cmd[p].left, want[p], bg[p])
LIST_wait(p) ==
  /\ Is(p, "run", "list_wait") /\ \E q \in Proc : Reaped(p, q, "runcmd")
  /\ cmd' = [cmd EXCEPT ![p] = @.right]

PIPE(p) ==
  LET k == FreePipe  r == Min(Fd \ Open(ofile[p]))  w == Min(Fd \ (Open(ofile[p]) \cup {r})) IN
  /\ Runs(p, "PIPE")
  /\ \/ MayFail /\ exit(p)
     \/ /\ ofile' = [ofile EXCEPT ![p][r] = Obj("r", k), ![p][w] = Obj("w", k)]
        /\ p01' = [p01 EXCEPT ![p] = <<r, w>>] /\ Goto(p, "pipe_left")
        /\ UNCHANGED <<state, parent, cmd, fails, want>>
  /\ UNCHANGED <<env, bg>>

PIPE_left(p) ==
  /\ Is(p, "run", "pipe_left")
  /\ fork1(p, "pipe_right", "left", cmd[p].left, <<want[p][1], ofile[p][p01[p][2]]>>, bg[p])
PIPE_right(p) ==
  /\ Is(p, "run", "pipe_right")
  /\ fork1(p, "pipe_close", "right", cmd[p].right, <<ofile[p][p01[p][1]], want[p][2]>>, bg[p])

CloseBoth(t, e) == close(close(t, e[1]), e[2])

MutantPIPE_child(p) ==            \* the right child keeps the end it could write to
  /\ ~halted /\ state[p] = "run" /\ pc[p] \in {"left", "right"}
  /\ LET t == ofile[p]  e == p01[p] IN
     ofile' = [ofile EXCEPT ![p] = IF pc[p] = "left" THEN CloseBoth(dup(close(t, 1), e[2]), e)
                                   ELSE close(dup(close(t, 0), e[1]), e[1])]
  /\ Goto(p, "runcmd") /\ UNCHANGED <<state, parent, cmd, p01, fails, env, want, bg>>

\* The children: close(), dup(), close(), close()
PIPE_child(p) ==
  /\ ~halted /\ state[p] = "run" /\ pc[p] \in {"left", "right"}
  /\ LET t == ofile[p]  e == p01[p] IN
     ofile' = [ofile EXCEPT ![p] = IF pc[p] = "left" THEN CloseBoth(dup(close(t, 1), e[2]), e)
                                   ELSE CloseBoth(dup(close(t, 0), e[1]), e)]
  /\ Goto(p, "runcmd") /\ UNCHANGED <<state, parent, cmd, p01, fails, env, want, bg>>

MutantPIPE_close(p) ==            \* the end that can be written to stays open
  /\ Is(p, "run", "pipe_close") /\ Goto(p, "pipe_wait1")
  /\ ofile' = [ofile EXCEPT ![p] = close(@, p01[p][1])]
  /\ UNCHANGED <<state, parent, cmd, p01, fails, env, want, bg>>

PIPE_close(p) ==
  /\ Is(p, "run", "pipe_close") /\ Goto(p, "pipe_wait1")
  /\ ofile' = [ofile EXCEPT ![p] = CloseBoth(@, p01[p])]
  /\ UNCHANGED <<state, parent, cmd, p01, fails, env, want, bg>>

\* One wait(0) for two children
MutantPIPE_wait1(p) == Is(p, "run", "pipe_wait1") /\ wait(p, "exit")

PIPE_wait1(p) == Is(p, "run", "pipe_wait1") /\ wait(p, "pipe_wait2")
PIPE_wait2(p) == Is(p, "run", "pipe_wait2") /\ wait(p, "exit")

BACK(p) == Runs(p, "BACK") /\ fork1(p, "exit", "runcmd", cmd[p].cmd, want[p], TRUE)

run_exit(p) == Is(p, "run", "exit") /\ exit(p) /\ UNCHANGED <<fails, env, bg>>

\* A program may exit at any time.
prog_stop(p) == Is(p, "prog", "main") /\ exit(p) /\ UNCHANGED <<fails, env, bg>>

\* It has to when it is at the end of descriptor 0, or nobody reads what it writes.
prog_exit(p) ==
  LET i == ofile[p][0]  o == ofile[p][1] IN
  /\ Is(p, "prog", "main")
  /\ \/ i.kind # "r" \/ ~Held(Obj("w", i.id))
     \/ o.kind = "w" /\ ~Held(Obj("r", o.id))
  /\ exit(p) /\ UNCHANGED <<fails, env, bg>>

-----------------------------------------------------------------------------
(* main() of sh.c and of init.c                                            *)

\* Until descriptor 3, which is closed again, or until open() fails
sh_open(p) ==
  LET d == Min(Fd \ Open(ofile[p])) IN
  /\ Is(p, "sh", "open")
  /\ \/ d < 3 /\ ofile' = [ofile EXCEPT ![p] = open(@, Console)] /\ UNCHANGED <<pc, bare>>
     \/ Goto(p, "getcmd") /\ bare' = (bare \/ d < 3) /\ UNCHANGED ofile
  /\ UNCHANGED <<state, parent, cmd, p01, input, line, tree, pid, halted, fails, want, bg>>

\* read() of descriptor 0, which fails when that is closed
sh_getcmd(p) ==
  /\ Is(p, "sh", "getcmd") /\ input # <<>> /\ ofile[p][0] # Closed
  /\ line' = Head(input) /\ tree' = parsecmd(line') /\ input' = Tail(input)
  /\ IF line' = <<"cd">> THEN UNCHANGED pc ELSE Goto(p, "fork")
  /\ UNCHANGED <<state, parent, ofile, cmd, p01, pid, fails, halted, want, bg, bare>>
sh_eof(p) ==
  /\ Is(p, "sh", "getcmd") /\ (input = <<>> \/ ofile[p][0] = Closed)
  /\ exit(p) /\ UNCHANGED <<fails, env, bg>>

sh_fork(p) ==
  /\ Is(p, "sh", "fork")
  /\ fork1(p, "wait", "parse", Nil, <<Console, Console>>, FALSE)
sh_wait(p) == Is(p, "sh", "wait") /\ wait(p, "getcmd")

\* The console is there, or open() and mknod() fail and nothing is open.
init_open ==
  /\ Is(init, "init", "open") /\ Goto(init, "fork")
  /\ \/ ofile' = [ofile EXCEPT ![init] = dup(dup(open(@, Console), 0), 0)] /\ UNCHANGED fails
     \/ MayFail /\ UNCHANGED ofile
  /\ UNCHANGED <<state, parent, cmd, p01, env, want, bg>>

init_fork ==
  /\ Is(init, "init", "fork") /\ fork(init, "wait", "sh", "exec", Nil, <<Closed, Closed>>, FALSE)
  /\ pid' = Min(FreeSlots) /\ UNCHANGED <<input, line, tree, halted, bare>>
init_exit ==
  /\ Is(init, "init", "fork") /\ NoFork /\ halted' = TRUE
  /\ UNCHANGED <<state, pc, parent, ofile, cmd, p01, input, line, tree, pid, want, bg, bare>>

sh_exec(p) ==
  /\ Is(p, "sh", "exec")
  /\ \/ MayFail /\ exit(p)
     \/ Goto(p, "open") /\ UNCHANGED <<state, parent, ofile, cmd, p01, fails, want>>
  /\ UNCHANGED <<env, bg>>

\* The shell exited, or an orphan did.
init_wait ==
  /\ Is(init, "init", "wait")
  /\ \E q \in Proc : Reaped(init, q, IF q = pid THEN "fork" ELSE "wait")
  /\ UNCHANGED cmd

-----------------------------------------------------------------------------
Init ==
  /\ state = [p \in Proc |-> IF p = init THEN "init" ELSE "unused"]
  /\ pc = [p \in Proc |-> IF p = init THEN "open" ELSE "none"] /\ parent = [p \in Proc |-> 0]
  /\ ofile = [p \in Proc |-> [d \in Fd |-> Closed]] /\ cmd = [p \in Proc |-> Nil]
  /\ p01 = [p \in Proc |-> <<0, 0>>] /\ input \in Sessions /\ line = <<>> /\ tree = Panic /\ pid = 0
  /\ fails = 0 /\ halted = FALSE
  /\ want = [p \in Proc |-> <<Closed, Closed>>] /\ bg = [p \in Proc |-> FALSE]
  /\ bare = FALSE

runcmd(p) ==
  \/ parse(p) \/ EXEC(p) \/ REDIR(p) \/ LIST(p) \/ LIST_wait(p) \/ BACK(p)
  \/ PIPE(p) \/ PIPE_left(p) \/ PIPE_right(p) \/ PIPE_child(p)
  \/ PIPE_close(p) \/ PIPE_wait1(p) \/ PIPE_wait2(p) \/ run_exit(p)
sh(p) == sh_exec(p) \/ sh_open(p) \/ sh_fork(p) \/ sh_wait(p)
Init1 == init_open \/ init_fork \/ init_exit \/ init_wait

Next ==
  \/ Init1
  \/ \E p \in Proc : runcmd(p) \/ sh(p) \/ sh_getcmd(p) \/ sh_eof(p) \/ prog_stop(p) \/ prog_exit(p)

\* The scheduler runs every process (module Sched), and a program whose input
\* has ended exits.  Nobody has to type a line.
Spec ==
  /\ Init /\ [][Next]_vars
  /\ WF_vars(Init1)
  /\ \A p \in Proc : WF_vars(runcmd(p)) /\ WF_vars(sh(p)) /\ WF_vars(prog_exit(p))

-----------------------------------------------------------------------------
\* parsecmd() accepts exactly the lines of the grammar, and makes of each the
\* only command that it is a phrase for: said of the line just read, and if it
\* is short of those that go on after it with any of Tails.
Agrees(s) == LineTrees(Tokens(s)) = LET r == parsecmd(s) IN IF r.ok THEN {r.cmd} ELSE {}
ParseAgrees == fails = 0 /\ (\E p \in Proc : Is(p, "sh", "fork")) =>
  Agrees(line) /\ (Len(line) <= 2 => \A t \in Tails : Agrees(line \o t))

\* A program has its descriptors 0, 1 and 2, what its command says is behind
\* them, and no others: the close() and dup() of REDIR and PIPE count on the
\* lowest descriptor being free, whatever init could open, as long as the shell
\* itself could open the console.
Plumbing ==
  ~bare => \A p \in Proc : state[p] = "prog" =>
    /\ Open(ofile[p]) = {0, 1, 2} /\ ofile[p][2] = Console
    /\ ofile[p][0] = want[p][1] /\ ofile[p][1] = want[p][2]

\* When the prompt is printed, and no call has failed, of the lines before
\* only what was started with & may still be there: every wait(0) has got the
\* child it is meant for.
ForegroundDone ==
  fails = 0 => \A p \in Proc : Is(p, "sh", "getcmd") =>
    \A q \in Proc : state[q] \in {"unused", "init", "sh"} \/ bg[q]

\* The prompt returns: no line, and no failure of fork(), pipe(), open() or
\* exec() while it runs, leaves a pipe open that keeps its reader, and so the
\* shell, waiting.
PromptReturns ==
  \A p \in Proc : (state[p] = "sh" /\ pc[p] = "wait") ~> (halted \/ state[p] # "sh" \/ pc[p] = "getcmd")
=============================================================================
