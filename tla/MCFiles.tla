------------------------------- MODULE MCFiles -------------------------------
(* Files, the memory of processes and the sequential programs for TLC,     *)
(* side by side: they share no state, so a behaviour is about one of them  *)
(* and leaves the others as they start.  Only the programs may end.        *)
EXTENDS FileTable, FileData, Memory, Shell, Umalloc, Bytes, Filters, TLC

VARIABLE part

(* Every pattern on one line; lines, words and blanks in every order. *)
Strings(S, n) == UNION {[1..k -> S] : k \in 0..n}
MCJobs ==
  [run : {"grep"}, re : Strings({"a", ".", "*", "$", "^"}, 4),
   input : {t \o <<"n">> : t \in Strings({"a", "b"}, 2)}]
  \cup [run : {"grep"}, re : Strings({"a", ".", "*", "$", "^"}, 3),
        input : {t \o <<"n">> : t \in [1..3 -> {"a", "b"}]}]
  \cup [run : {"grep"}, re : {<<"a">>, <<"^", "a", "$">>}, input : Strings({"a", "b", "n"}, 5)]
  \cup [run : {"wc", "cat"}, re : {<<>>}, input : Strings({"a", "_", "n"}, 4)]

(* All short lines, and longer ones: of the operators that nest, of blocks *)
(* in a pipeline or a list, and of redirections.                           *)
MCLines ==
  Strings({"a", "_", "<", ">", "|", "&", ";", "(", ")"}, 4)
  \cup Strings({"a", "|", ";", "(", ")"}, 5) \cup Strings({"a", "_", ">", "|"}, 5)
  \cup {t \o <<"(">> \o s \o <<")">> \o u :
          t \in {<<>>, <<"a", "|">>, <<"a", ";">>}, s \in Strings({"a", "|", ";"}, 3), u \in Strings({"a", "|", ">"}, 2)}

DataIdle == \A f \in Files : ip[f] = Min(Inums)
ShellIdle == line = <<>> /\ buf = <<>> /\ lex = <<>> /\ parsed = [type |-> "unread"] /\ executed = {}
BytesIdle == job = [f |-> "none"] /\ answer = <<>>
FiltersIdle == task = [run |-> "none"] /\ state = [done |-> FALSE]

Init ==
  /\ TableInit /\ DataInit /\ MemoryInit /\ UmallocInit
  /\ \/ part = "data" /\ ShellIdle /\ BytesIdle /\ FiltersIdle
     \/ /\ DataIdle
        /\ \/ part \in {"table", "memory", "heap"} /\ ShellIdle /\ BytesIdle /\ FiltersIdle
           \/ part = "shell" /\ ShellInit /\ BytesIdle /\ FiltersIdle
           \/ part = "bytes" /\ ShellIdle /\ BytesInit /\ FiltersIdle
           \/ part = "filters" /\ ShellIdle /\ BytesIdle /\ FiltersInit

fileVars == <<tablevars, datavars>>
programVars == <<shellVars, heapVars, bytesVars, filterVars>>

Next ==
  /\ UNCHANGED part
  /\ \/ part = "table" /\ TableNext /\ UNCHANGED <<datavars, memVars, programVars>>
     \/ part = "data" /\ DataNext /\ UNCHANGED <<tablevars, memVars, programVars>>
     \/ part = "memory" /\ MemoryNext /\ UNCHANGED <<fileVars, programVars>>
     \/ part = "shell" /\ ShellNext /\ UNCHANGED <<fileVars, memVars, heapVars, bytesVars, filterVars>>
     \/ part = "heap" /\ UmallocNext /\ UNCHANGED <<fileVars, memVars, shellVars, bytesVars, filterVars>>
     \/ part = "bytes" /\ BytesNext /\ UNCHANGED <<fileVars, memVars, shellVars, heapVars, filterVars>>
     \/ part = "filters" /\ FiltersNext /\ UNCHANGED <<fileVars, memVars, shellVars, heapVars, bytesVars>>
     \/ part \in {"shell", "bytes", "filters"} /\ UNCHANGED <<fileVars, memVars, programVars>>

ProcSymmetry == Permutations(Procs)
Spec == Init /\ [][Next]_<<fileVars, memVars, programVars, part>>
=============================================================================
