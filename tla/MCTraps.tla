------------------------------- MODULE MCTraps -------------------------------
(* Traps and the accounting of time for TLC, side by side: a behaviour is  *)
(* about one of the two.  The accounting stops at its bounds, traps must   *)
(* never stop.                                                             *)
EXTENDS Trap, Accounting, TLC

VARIABLE part

TrapsOrTimesInit ==
  /\ TrapInit /\ Init
  /\ part = "times" \/ (part = "traps" /\ policy = "PBS")

TrapsOrTimesNext ==
  \/ part = "traps" /\ TrapNext /\ UNCHANGED <<vars, part>>
  \/ part = "times" /\ Next /\ UNCHANGED <<trapVars, part>>
  \/ part = "times" /\ UNCHANGED <<trapVars, vars, part>>

TrapsOrTimes == TrapsOrTimesInit /\ [][TrapsOrTimesNext]_<<trapVars, vars, part>>

ThreadSymmetry == Permutations(Threads)
=============================================================================
