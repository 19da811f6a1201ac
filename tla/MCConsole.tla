------------------------------ MODULE MCConsole ------------------------------
EXTENDS Console

(* One instance of much typing and one of much printing. *)
MCBudgets == {[keys |-> 4, reads |-> 2, writes |-> 0], [keys |-> 1, reads |-> 0, writes |-> 1]}
=============================================================================
