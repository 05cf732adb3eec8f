--------------------------- MODULE MCStoreCommit ---------------------------
(* Edits of up to two operations on stores of up to two entries: targets   *)
(* reach entries added by the same edit, entries out of range, tombstones  *)
(* of an earlier commit and values of malformed shape.                     *)
EXTENDS StoreCommit, TLC

MCSymmetry == Permutations(Key) \cup Permutations(Value \ {Malformed})
=============================================================================
