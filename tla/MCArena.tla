------------------------------ MODULE MCArena ------------------------------
(* The arena on three heap addresses, with references up to 3: an append   *)
(* overflows, growth doubles and then takes exactly what is needed.        *)
EXTENDS Arena, TLC

CONSTANTS x, y

MCChunks == {<<>>, <<x>>, <<y, x>>, <<x, x, y, y>>}
MCSymmetry == Permutations(Block)
=============================================================================
