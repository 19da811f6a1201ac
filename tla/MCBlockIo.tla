------------------------------ MODULE MCBlockIo ------------------------------
EXTENDS BlockIo, TLC

(* Processes, blocks and buffers are interchangeable. *)
IoSymmetry == Permutations(Procs) \cup Permutations(Blocks) \cup Permutations(Bufs)
=============================================================================
