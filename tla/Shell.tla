-------------------------------- MODULE Shell --------------------------------
(***************************************************************************)
(* user/sh.c: the parser with its lexer, on every short line of            *)
(* characters, and runcmd(), on the commands they make of it.  "a" is a    *)
(* character of a word, "_" is whitespace.  panic(), which ends the        *)
(* process that reads the line, is Syntax.                                 *)
(***************************************************************************)
EXTENDS Integers, Sequences, FiniteSets

CONSTANTS Lines,      \* the lines that are typed, sequences of characters
          MAXARGS,
          NFD         \* descriptors of a process, NOFILE in the code

VARIABLES line,       \* the line, as typed
          buf,        \* the buffer that holds it, with NULs
          lex,        \* what gettoken() finds from each character on
          parsed,     \* what parsecmd() makes of it
          executed    \* the processes that runcmd() makes of that

shellVars == <<line, buf, lex, parsed, executed>>

NULCHAR == "0"
symbols == {"<", "|", ">", "&", ";", "(", ")"}

(***************************************************************************)
(* The lexer.  The NUL at the end of the line stops every loop.            *)
(***************************************************************************)
RECURSIVE Skip(_), WordEnd(_)
Skip(s) == IF buf[s] = "_" THEN Skip(s + 1) ELSE s
WordEnd(s) == IF buf[s] \in symbols \cup {"_", NULCHAR} THEN s ELSE WordEnd(s + 1)

(* A token, its first character, the one after it, and *ps thereafter. *)
Token(tok, q, eq) == [tok |-> tok, q |-> q, eq |-> eq, next |-> Skip(eq)]

gettoken(s) ==
  LET q == Skip(s)
  IN IF buf[q] = NULCHAR THEN Token(NULCHAR, q, q)
     ELSE IF buf[q] = ">" /\ buf[q + 1] = ">" THEN Token("+", q, q + 2)
     ELSE IF buf[q] \in symbols THEN Token(buf[q], q, q + 1)
     ELSE Token("a", q, WordEnd(q))

(* The buffer stays as it is until the line is parsed, so gettoken() is    *)
(* applied to all of it at once.  peek() looks at the character.           *)
Past(s) == lex[s].next
peek(s, S) == buf[lex[s].q] \in S

(***************************************************************************)
(* Parsing.  A parser starts at character s and yields the command and the *)
(* character after it.  A word is known by its ends, q and eq.             *)
(***************************************************************************)
Syntax == [cmd |-> [type |-> "none"], s |-> 0]
Ok(cmd, s) == [cmd |-> cmd, s |-> s]
Failed(r) == r.s = 0
Word(t) == [q |-> t.q, eq |-> t.eq]

execcmd(argv) == [type |-> "EXEC", argv |-> argv]
redircmd(cmd, file, mode, fd) == [type |-> "REDIR", cmd |-> cmd, file |-> file, mode |-> mode, fd |-> fd]
pipecmd(left, right) == [type |-> "PIPE", left |-> left, right |-> right]
listcmd(left, right) == [type |-> "LIST", left |-> left, right |-> right]
backcmd(cmd) == [type |-> "BACK", cmd |-> cmd]

RECURSIVE parseline(_), parsepipe(_), parseexec(_), parseargs(_, _, _), parseredirs(_, _), Backs(_, _)

(* One redirection of the command cmd. *)
Redirected(cmd, tok, file) ==
  CASE tok = "<" -> redircmd(cmd, file, {"O_RDONLY"}, 0)
    [] tok = ">" -> redircmd(cmd, file, {"O_WRONLY", "O_CREATE", "O_TRUNC"}, 1)
    [] tok = "+" -> redircmd(cmd, file, {"O_WRONLY", "O_CREATE"}, 1)

parseredirs(cmd, s) ==
  IF ~peek(s, {"<", ">"}) THEN Ok(cmd, s)
  ELSE LET file == lex[Past(s)]
       IN IF file.tok # "a" THEN Syntax
          ELSE parseredirs(Redirected(cmd, lex[s].tok, Word(file)), Past(Past(s)))

(* The execcmd is filled while redirections are put around it: in ret, argv *)
(* is empty until the command is complete.                                  *)
RECURSIVE Fill(_, _)
Fill(ret, argv) == IF ret.type = "EXEC" THEN execcmd(argv) ELSE [ret EXCEPT !.cmd = Fill(@, argv)]

parseargs(ret, argv, s) ==
  LET t == lex[s]
      r == parseredirs(ret, Past(s))
  IN IF peek(s, {"|", ")", "&", ";"}) \/ t.tok = NULCHAR THEN Ok(Fill(ret, argv), s)
     ELSE IF t.tok # "a" \/ Len(argv) + 1 >= MAXARGS THEN Syntax
     ELSE IF Failed(r) THEN Syntax ELSE parseargs(r.cmd, Append(argv, Word(t)), r.s)

parseblock(s) ==
  LET r == parseline(Past(s))
  IN IF Failed(r) \/ ~peek(r.s, {")"}) THEN Syntax ELSE parseredirs(r.cmd, Past(r.s))

parseexec(s) ==
  IF peek(s, {"("}) THEN parseblock(s)
  ELSE LET r == parseredirs(execcmd(<<>>), s)
       IN IF Failed(r) THEN Syntax ELSE parseargs(r.cmd, <<>>, r.s)

(* Mutant: the rest of the pipeline is parsed as a line. *)
PipeRest_Line(s) == parseline(s)

PipeRest(s) == parsepipe(s)

parsepipe(s) ==
  LET r == parseexec(s)
  IN IF Failed(r) \/ ~peek(r.s, {"|"}) THEN r
     ELSE LET right == PipeRest(Past(r.s))
          IN IF Failed(right) THEN Syntax ELSE Ok(pipecmd(r.cmd, right.cmd), right.s)

Backs(cmd, s) == IF peek(s, {"&"}) THEN Backs(backcmd(cmd), Past(s)) ELSE Ok(cmd, s)

parseline(s) ==
  LET p == parsepipe(s)
      r == IF Failed(p) THEN p ELSE Backs(p.cmd, p.s)
  IN IF Failed(r) \/ ~peek(r.s, {";"}) THEN r
     ELSE LET right == parseline(Past(r.s))
          IN IF Failed(right) THEN Syntax ELSE Ok(listcmd(r.cmd, right.cmd), right.s)

(* The characters that nulterminate() overwrites. *)
RECURSIVE nulterminate(_)
nulterminate(cmd) ==
  CASE cmd.type = "EXEC" -> {cmd.argv[i].eq : i \in DOMAIN cmd.argv}
    [] cmd.type = "REDIR" -> nulterminate(cmd.cmd) \cup {cmd.file.eq}
    [] cmd.type \in {"PIPE", "LIST"} -> nulterminate(cmd.left) \cup nulterminate(cmd.right)
    [] cmd.type = "BACK" -> nulterminate(cmd.cmd)
    [] OTHER -> {}

(* Characters that are left over are an error. *)
parsecmd ==
  LET r == parseline(1)
  IN IF Failed(r) \/ lex[r.s].q <= Len(line) THEN Syntax.cmd ELSE r.cmd

(***************************************************************************)
(* runcmd.  A process is a table of descriptors; it makes others and ends  *)
(* in exec(), wait() or exit().  Every open(), pipe() and fork() succeeds. *)
(***************************************************************************)
NoFd == [kind |-> "none", id |-> <<>>]
Console == [kind |-> "console", id |-> <<>>]
File(w) == [kind |-> "file", id |-> w]
ReadEnd(n) == [kind |-> "read", id |-> <<n>>]
WriteEnd(n) == [kind |-> "write", id |-> <<n>>]

close(fds, fd) == [fds EXCEPT ![fd] = NoFd]
Lowest(fds) == CHOOSE fd \in DOMAIN fds : fds[fd] = NoFd /\ \A k \in 0..fd - 1 : fds[k] # NoFd
open(fds, f) == [fds EXCEPT ![Lowest(fds)] = f]
dup(fds, fd) == open(fds, fds[fd])

(* The string at q: its first character, and the NUL that ends it. *)
RECURSIVE NulAfter(_)
NulAfter(s) == IF buf[s] = NULCHAR THEN s ELSE NulAfter(s + 1)
StringAt(q) == <<q, NulAfter(q)>>

(* A process that waits for its children. *)
Waits(fds) == [does |-> <<>>, fds |-> fds]

(* Mutant: the child keeps the end of the pipe it does not use. *)
PipeChild_Keeps(fds, p0, p1, std, end) == close(dup(close(fds, std), end), end)

(* A child of a pipeline: end becomes its descriptor std. *)
PipeChild(fds, p0, p1, std, end) == close(close(dup(close(fds, std), end), p0), p1)

RECURSIVE runcmd(_, _, _)

(* The two children of a pipe and the process that made it; n numbers it. *)
runpipe(cmd, n, p0, p1, fds) ==
  runcmd(cmd.left, PipeChild(fds, p0, p1, 1, p1), 2 * n)
    \cup runcmd(cmd.right, PipeChild(fds, p0, p1, 0, p0), 2 * n + 1)
    \cup {Waits(close(close(fds, p0), p1))}

runcmd(cmd, fds, n) ==
  CASE cmd.type = "EXEC" ->
         IF cmd.argv = <<>> THEN {}
         ELSE {[does |-> [i \in DOMAIN cmd.argv |-> StringAt(cmd.argv[i].q)], fds |-> fds]}
    [] cmd.type = "REDIR" -> runcmd(cmd.cmd, open(close(fds, cmd.fd), File(StringAt(cmd.file.q))), n)
    [] cmd.type = "LIST" ->
         {Waits(fds)} \cup runcmd(cmd.left, fds, 2 * n) \cup runcmd(cmd.right, fds, 2 * n + 1)
    [] cmd.type = "BACK" -> runcmd(cmd.cmd, fds, n)
    [] cmd.type = "PIPE" ->
         LET p0 == Lowest(fds)
             p1 == Lowest(open(fds, ReadEnd(n)))
         IN runpipe(cmd, n, p0, p1, open(open(fds, ReadEnd(n)), WriteEnd(n)))

(* main() sees to it that 0, 1 and 2 are open. *)
Stdio == [fd \in 0..NFD - 1 |-> IF fd <= 2 THEN Console ELSE NoFd]

(***************************************************************************)
(* A line is parsed and run by a child of the shell.                       *)
(***************************************************************************)
ShellInit ==
  /\ line \in Lines
  /\ buf = Append(line, NULCHAR)
  /\ lex = [s \in DOMAIN buf |-> gettoken(s)]
  /\ parsed = [type |-> "unread"]
  /\ executed = {}

Parse ==
  /\ parsed.type = "unread"
  /\ parsed' = parsecmd
  /\ buf' = [i \in DOMAIN buf |-> IF i \in nulterminate(parsed') THEN NULCHAR ELSE buf[i]]
  /\ UNCHANGED <<line, lex, executed>>

Execute ==
  /\ parsed.type \notin {"unread", "none"} /\ executed = {}
  /\ executed' = runcmd(parsed, Stdio, 1)
  /\ UNCHANGED <<line, buf, lex, parsed>>

ShellNext == Parse \/ Execute

(***************************************************************************)
(* What a line means.  Its tokens T: maximal words, and of a run of ">"    *)
(* every two, from the left.                                               *)
(***************************************************************************)
Arrows(i) == Cardinality({j \in 1..i - 1 : \A k \in j..i - 1 : line[k] = ">"})
Starts == {i \in DOMAIN line :
             /\ line[i] # "_"
             /\ line[i] = "a" => i = 1 \/ line[i - 1] # "a"
             /\ line[i] = ">" => Arrows(i) % 2 = 0}
Until(i) == CHOOSE j \in i + 1..Len(line) + 1 :
              /\ \A k \in i + 1..j - 1 : k \notin Starts /\ line[k] # "_"
              /\ j = Len(line) + 1 \/ j \in Starts \/ line[j] = "_"
InOrder(S) == [i \in 1..Cardinality(S) |-> CHOOSE k \in S : Cardinality({j \in S : j < k}) = i - 1]
Tokens == LET at == InOrder(Starts)
          IN [i \in DOMAIN at |->
                [tok |-> IF line[at[i]] = ">" /\ Until(at[i]) = at[i] + 2 THEN "+" ELSE line[at[i]],
                 q |-> at[i], eq |-> Until(at[i])]]

(* By the operators outside of parentheses, the tokens lo..hi are split at *)
(* the first ";", a part that ends in "&" runs in the background, and the  *)
(* rest is split at "|".                                                   *)
None == Syntax.cmd
Depth(T, lo, k) == Cardinality({j \in lo..k : T[j].tok = "("}) - Cardinality({j \in lo..k : T[j].tok = ")"})
Splits(T, lo, hi, op) == {k \in lo..hi : T[k].tok = op /\ Depth(T, lo, k) = 0}
First(S) == CHOOSE k \in S : \A j \in S : k <= j
IsRedir(T, k) == T[k].tok \in {"<", ">", "+"}

RECURSIVE Line(_, _, _), Back(_, _, _), Pipeline(_, _, _), Wrap(_, _, _, _)

(* cmd with the redirections of lo..hi around it, the first one innermost. *)
Wrap(T, cmd, lo, hi) ==
  LET R == {k \in lo..hi : IsRedir(T, k)}
  IN IF R = {} THEN cmd
     ELSE LET k == CHOOSE k \in R : \A j \in R : j <= k
          IN Redirected(Wrap(T, cmd, lo, k - 1), T[k].tok, Word(T[k + 1]))

WordsOf(T, lo, hi) == {k \in lo..hi : T[k].tok = "a" /\ (k = lo \/ ~IsRedir(T, k - 1))}

(* Only words and complete redirections. *)
WellFormed(T, lo, hi) ==
  \A k \in lo..hi : T[k].tok = "a" \/ (IsRedir(T, k) /\ k < hi /\ T[k + 1].tok = "a")

Arguments(T, S) == [i \in 1..Cardinality(S) |-> Word(T[InOrder(S)[i]])]

Simple(T, lo, hi) ==
  LET ends == {k \in lo..hi : T[k].tok = ")" /\ Depth(T, lo, k) = 0}
      end == First(ends)
      inner == Line(T, lo + 1, end - 1)
  IN IF lo <= hi /\ T[lo].tok = "("
     THEN IF ends = {} THEN None
          ELSE IF inner = None \/ ~WellFormed(T, end + 1, hi) \/ WordsOf(T, end + 1, hi) # {} THEN None
          ELSE Wrap(T, inner, end + 1, hi)
     ELSE IF ~WellFormed(T, lo, hi) \/ Cardinality(WordsOf(T, lo, hi)) >= MAXARGS THEN None
          ELSE Wrap(T, execcmd(Arguments(T, WordsOf(T, lo, hi))), lo, hi)

Pipeline(T, lo, hi) ==
  LET S == Splits(T, lo, hi, "|")
      k == First(S)
      left == Simple(T, lo, k - 1)
      right == Pipeline(T, k + 1, hi)
  IN IF S = {} THEN Simple(T, lo, hi)
     ELSE IF left = None \/ right = None THEN None ELSE pipecmd(left, right)

Back(T, lo, hi) ==
  IF lo <= hi /\ T[hi].tok = "&"
  THEN IF Back(T, lo, hi - 1) = None THEN None ELSE backcmd(Back(T, lo, hi - 1))
  ELSE Pipeline(T, lo, hi)

Line(T, lo, hi) ==
  LET S == Splits(T, lo, hi, ";")
      k == First(S)
      left == Back(T, lo, k - 1)
      right == Line(T, k + 1, hi)
  IN IF S = {} THEN Back(T, lo, hi)
     ELSE IF left = None \/ right = None THEN None ELSE listcmd(left, right)

(* Standard input and output of the commands of cmd, given the shell's, by *)
(* the words of the line.                                                  *)
Typed(w) == <<w.q, w.eq>>
RECURSIVE Wiring(_, _, _, _)
Wiring(cmd, in, out, n) ==
  CASE cmd.type = "EXEC" ->
         IF cmd.argv = <<>> THEN {}
         ELSE {[does |-> [i \in DOMAIN cmd.argv |-> Typed(cmd.argv[i])], in |-> in, out |-> out]}
    [] cmd.type = "REDIR" -> IF cmd.fd = 0 THEN Wiring(cmd.cmd, File(Typed(cmd.file)), out, n)
                             ELSE Wiring(cmd.cmd, in, File(Typed(cmd.file)), n)
    [] cmd.type = "BACK" -> Wiring(cmd.cmd, in, out, n)
    [] cmd.type = "LIST" -> Wiring(cmd.left, in, out, 2 * n) \cup Wiring(cmd.right, in, out, 2 * n + 1)
    [] cmd.type = "PIPE" -> Wiring(cmd.left, in, WriteEnd(n), 2 * n) \cup Wiring(cmd.right, ReadEnd(n), out, 2 * n + 1)

(***************************************************************************)
(* Properties.                                                             *)
(***************************************************************************)
(* parsecmd, a recursive descent without backtracking over a lexer that    *)
(* looks one character ahead, accepts exactly the lines that the split at  *)
(* operators gives a meaning, and gives them that meaning.                 *)
ParsesByPrecedence ==
  parsed.type # "unread" => LET T == Tokens IN parsed = Line(T, 1, Len(T))

(* runcmd: each command is executed with the words of the line, which      *)
(* nulterminate() cut out of one buffer, with the standard input and       *)
(* output that the line says, and with no other descriptor of a pipe; nor  *)
(* has a shell that waits one, but as its own standard input or output.    *)
(* So the readers of a pipe see its end once its writers are gone.         *)
PipelineIsWired ==
  executed # {} =>
    /\ {[does |-> e.does, in |-> e.fds[0], out |-> e.fds[1]] : e \in {e \in executed : e.does # <<>>}}
         = Wiring(parsed, Console, Console, 1)
    /\ \A e \in executed : \A fd \in 3..NFD - 1 : e.fds[fd] = NoFd
=============================================================================
