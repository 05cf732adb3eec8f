------------------------------ MODULE MCSource ------------------------------
(***************************************************************************)
(* A source of three bytes with slices two deep, read through a window of  *)
(* two bytes and a cache of two: read-ahead is cut by storage, by range    *)
(* and by each budget, and the counters reach their limits.                *)
(***************************************************************************)
EXTENDS Source

MCGarbage == 99
MCLimits ==
    {[requests |-> 0, total |-> 0, single |-> 0],
     [requests |-> 2, total |-> 0, single |-> 2],
     [requests |-> 0, total |-> 3, single |-> 0]}
=============================================================================
