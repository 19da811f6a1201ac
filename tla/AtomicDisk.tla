----------------------------- MODULE AtomicDisk -----------------------------
(***************************************************************************)
(* What the log promises to the file system: the writes of overlapping     *)
(* file system calls reach the disk all together, at a moment when no call *)
(* is in progress, or not at all.                                          *)
(***************************************************************************)
CONSTANTS
  Ops,        \* processes that make file system calls
  Blocks,     \* block numbers of the file system, the log area excepted
  Vals        \* contents of a block

VARIABLES
  mem,        \* what the running kernel reads
  dur,        \* what is found after a crash at this moment
  active      \* processes inside a file system call

vars == <<mem, dur, active>>

Init ==
  /\ mem \in [Blocks -> Vals]
  /\ dur = mem
  /\ active = {}

Begin(p) ==
  /\ p \notin active
  /\ active' = active \cup {p}
  /\ UNCHANGED <<mem, dur>>

Write(p, b, v) ==
  /\ p \in active
  /\ mem' = [mem EXCEPT ![b] = v]
  /\ UNCHANGED <<dur, active>>

End(p) ==
  /\ p \in active
  /\ active' = active \ {p}
  /\ UNCHANGED <<mem, dur>>

Commit ==
  /\ active = {}
  /\ dur' = mem
  /\ UNCHANGED <<mem, active>>

Crash ==
  /\ mem' = dur
  /\ active' = {}
  /\ UNCHANGED dur

Next ==
  \/ Commit \/ Crash
  \/ \E p \in Ops :
       Begin(p) \/ End(p) \/ \E b \in Blocks, v \in Vals : Write(p, b, v)

Spec == Init /\ [][Next]_vars
=============================================================================
