----------------------------- MODULE ByteStream -----------------------------
(***************************************************************************)
(* What a pipe promises: bytes come out in the order in which they went    *)
(* in, none twice, at most Capacity are in flight, and none goes in once   *)
(* either end is closed for good.                                          *)
(***************************************************************************)
EXTENDS Naturals, Sequences

CONSTANTS Bytes, Capacity

VARIABLES q, ropen, wopen

vars == <<q, ropen, wopen>>

Init == q = <<>> /\ ropen = TRUE /\ wopen = TRUE

Put ==
  /\ ropen /\ wopen
  /\ Len(q) < Capacity
  /\ \E v \in Bytes : q' = Append(q, v)
  /\ UNCHANGED <<ropen, wopen>>

Get ==
  /\ ropen
  /\ q # <<>>
  /\ q' = Tail(q)
  /\ UNCHANGED <<ropen, wopen>>

CloseRead == ropen /\ ropen' = FALSE /\ UNCHANGED <<q, wopen>>

CloseWrite == wopen /\ wopen' = FALSE /\ UNCHANGED <<q, ropen>>

Next == Put \/ Get \/ CloseRead \/ CloseWrite

Spec == Init /\ [][Next]_vars
=============================================================================
