-------------------------------- MODULE MCLog --------------------------------
(* The log for TLC, in two parts: blocks with contents, written by a few    *)
(* processes; and all processes competing for room in the log, where what   *)
(* the blocks hold does not matter.  A process that takes no part stays in  *)
(* user mode, where no action of it is fair.                                *)
EXTENDS Log

CONSTANTS Few,   \* processes of the first part
          Zero   \* the only contents in the second

ASSUME MCLogAssumption == Few \subseteq Ops /\ Zero \in Vals

VARIABLE part

MCInit ==
  /\ Init
  /\ part \in {"contents", "room"}
  /\ part = "room" => disk = [b \in Blocks |-> Zero] /\ dlog = [i \in Slots |-> Zero]

MCNext ==
  /\ Next
  /\ UNCHANGED part
  /\ part = "contents" => \A p \in Ops \ Few : pc'[p] = "user"
  /\ part = "room" => \A b \in Blocks : cache'[b] \in {NotCached, Zero}

MCSpec == MCInit /\ [][MCNext]_<<vars, part>> /\ Fairness
=============================================================================
