------------------------------- MODULE Filters -------------------------------
(***************************************************************************)
(* The filters of the user programs: grep with its matcher (user/grep.c),  *)
(* wc (user/wc.c) and cat (user/cat.c).  Each reads its input in whatever  *)
(* pieces read() hands out, which from a pipe or the console are not lines *)
(* or words.  The input holds no NUL.  "n" stands for a newline and "_"    *)
(* for a blank.                                                            *)
(***************************************************************************)
EXTENDS Integers, Sequences, FiniteSets, SequencesExt

CONSTANTS BUF,     \* size of the buffer
          Jobs     \* program, pattern and input: [run, re, input]

VARIABLES task, state

filterVars == <<task, state>>

From(s, i) == SubSeq(s, i, Len(s))

(***************************************************************************)
(* The matcher.                                                            *)
(***************************************************************************)
RECURSIVE matchhere(_, _), matchstar(_, _, _), matchfrom(_, _)

Starred(re) == Len(re) > 1 /\ re[2] = "*"

matchhere(re, text) ==
  IF re = <<>> THEN TRUE
  ELSE IF Starred(re) THEN matchstar(re[1], From(re, 3), text)
  ELSE IF re = <<"$">> THEN text = <<>>
  ELSE text # <<>> /\ re[1] \in {".", text[1]} /\ matchhere(Tail(re), Tail(text))

(* A * matches zero or more instances. *)
matchstar(c, re, text) ==
  \/ matchhere(re, text)
  \/ text # <<>> /\ c \in {".", text[1]} /\ matchstar(c, re, Tail(text))

matchfrom(re, text) == matchhere(re, text) \/ (text # <<>> /\ matchfrom(re, Tail(text)))

match(re, text) ==
  IF re # <<>> /\ re[1] = "^" THEN matchhere(Tail(re), text) ELSE matchfrom(re, text)

(***************************************************************************)
(* grep: the complete lines of the buffer are matched, the rest is moved   *)
(* to its start and completed by the next read.                            *)
(***************************************************************************)
Newlines(s) == {i \in DOMAIN s : s[i] = "n"}

RECURSIVE Scan(_, _, _)
Scan(re, p, out) ==
  IF Newlines(p) = {} THEN [left |-> p, out |-> out]
  ELSE LET q == Min(Newlines(p))
       IN Scan(re, From(p, q + 1), IF match(re, SubSeq(p, 1, q - 1)) THEN out \o SubSeq(p, 1, q) ELSE out)

(* Mutant: what is left of the buffer is dropped before the next read. *)
Kept_None(left) == <<>>

Kept(left) == left

grepStep(s, got) ==
  LET r == Scan(task.re, s.buf \o got, s.out)
  IN [s EXCEPT !.buf = Kept(r.left), !.out = r.out]

(***************************************************************************)
(* wc: lines, words and characters; inword lives across reads.             *)
(***************************************************************************)
Blank == {"n", "_"}

wcByte(s, c) ==
  [s EXCEPT !.c = @ + 1,
            !.l = IF c = "n" THEN @ + 1 ELSE @,
            !.w = IF c \notin Blank /\ ~s.inword THEN @ + 1 ELSE @,
            !.inword = c \notin Blank]

wcStep(s, got) == FoldLeft(wcByte, s, got)

catStep(s, got) == [s EXCEPT !.out = @ \o got]

(***************************************************************************)
(* The loop of each program around read().                                 *)
(***************************************************************************)
Begin(input) == [rest |-> input, buf |-> <<>>, out |-> <<>>, l |-> 0, w |-> 0, c |-> 0,
                 inword |-> FALSE, done |-> FALSE, broken |-> FALSE]

FiltersInit == \E j \in Jobs : task = j /\ state = Begin(j.input)

(* The room that read() is given. *)
Space == IF task.run = "grep" THEN BUF - Len(state.buf) - 1 ELSE BUF

(* read() gives any number of bytes, at least one while there are some. *)
Portions(run) ==
  IF task.run # run \/ state.done THEN {}
  ELSE {SubSeq(state.rest, 1, n) : n \in 1..Min({Space, Len(state.rest)})}

After(got) == [state EXCEPT !.rest = From(@, Len(got) + 1)]

grep == UNCHANGED task /\ \E got \in Portions("grep") : state' = grepStep(After(got), got)
wc == UNCHANGED task /\ \E got \in Portions("wc") : state' = wcStep(After(got), got)
cat == UNCHANGED task /\ \E got \in Portions("cat") : state' = catStep(After(got), got)

(* read() returns 0: no input, or no room to put it. *)
Ends ==
  /\ ~state.done /\ (Space = 0 \/ state.rest = <<>>)
  /\ state' = [state EXCEPT !.done = TRUE]
  /\ UNCHANGED task

(* read() fails: wc and cat exit, grep takes it for the end. *)
ReadFails ==
  /\ ~state.done
  /\ state' = [state EXCEPT !.done = TRUE, !.broken = TRUE]
  /\ UNCHANGED task

(* write() writes less than cat asked for, which then exits. *)
WriteFails ==
  /\ \E got \in Portions("cat") : \E n \in 0..Len(got) - 1 :
       state' = [catStep(state, SubSeq(got, 1, n)) EXCEPT !.done = TRUE, !.broken = TRUE]
  /\ UNCHANGED task

FiltersNext == grep \/ wc \/ cat \/ Ends \/ ReadFails \/ WriteFails

(***************************************************************************)
(* What the programs are for.                                              *)
(***************************************************************************)

(* A pattern as a sequence of items. *)
RECURSIVE Items(_)
Items(re) ==
  IF re = <<>> THEN <<>>
  ELSE IF Starred(re) THEN <<[kind |-> "star", c |-> re[1]]>> \o Items(From(re, 3))
  ELSE IF re = <<"$">> THEN <<[kind |-> "end", c |-> "$"]>>
  ELSE <<[kind |-> "one", c |-> re[1]]>> \o Items(Tail(re))

(* The item stands for the characters i + 1..j of the text. *)
Denotes(item, text, i, j) ==
  /\ i <= j
  /\ item.kind = "one" => j = i + 1
  /\ item.kind = "end" => i = Len(text)
  /\ \A k \in i + 1..j : item.c \in {".", text[k]}

(* The text can be cut into pieces that the items stand for. *)
Matches(re, text) ==
  LET anchored == re # <<>> /\ re[1] = "^"
      items == Items(IF anchored THEN Tail(re) ELSE re)
  IN \E cut \in [0..Len(items) -> 0..Len(text)] :
       /\ anchored => cut[0] = 0
       /\ \A k \in DOMAIN items : Denotes(items[k], text, cut[k - 1], cut[k])

(* The lines that match, up to the first that is too long for the buffer. *)
RECURSIVE Selected(_, _)
Selected(re, input) ==
  IF Newlines(input) = {} \/ Min(Newlines(input)) > BUF - 1 THEN <<>>
  ELSE LET q == Min(Newlines(input))
       IN (IF Matches(re, SubSeq(input, 1, q - 1)) THEN SubSeq(input, 1, q) ELSE <<>>)
          \o Selected(re, From(input, q + 1))

Words(s) == {i \in DOMAIN s : s[i] \notin Blank /\ (i = 1 \/ s[i - 1] \in Blank)}

(* However read() cuts up the input, grep writes exactly the complete      *)
(* lines that its pattern describes, wc counts what the whole input holds  *)
(* and cat copies it: nothing carried from one read to the next (the start *)
(* of a line in buf, inword) is lost or used twice.  After an error what   *)
(* was written is a beginning of that.                                     *)
FiltersIgnorePieces ==
  state.done =>
    CASE task.run = "grep" -> IF state.broken THEN IsPrefix(state.out, Selected(task.re, task.input))
                              ELSE state.out = Selected(task.re, task.input)
      [] task.run = "wc" -> \/ state.broken
                            \/ /\ state.l = Cardinality(Newlines(task.input))
                               /\ state.w = Cardinality(Words(task.input))
                               /\ state.c = Len(task.input)
      [] task.run = "cat" -> IF state.broken THEN IsPrefix(state.out, task.input) ELSE state.out = task.input
=============================================================================
