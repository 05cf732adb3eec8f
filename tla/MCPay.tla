------------------------------- MODULE MCPay -------------------------------
(***************************************************************************)
(* A file whose first six bytes are GIF sub-blocks; one to three blocks of *)
(* each kind, in any order, parts missing, repeated, empty, of another     *)
(* stream or beyond the end of the file, against small buffers and limits. *)
(***************************************************************************)
EXTENDS Pay

MCFile == <<2, 11, 12, 1, 13, 0>>

Plain == [stream |-> "a", chunking |-> "NONE", compression |-> "NONE", group |-> 0,
          count |-> 0, index |-> 0, off |-> 0, size |-> 0, lOff |-> 0, lSize |-> 0]

Ranges == {[off |-> 1, size |-> 2], [off |-> 4, size |-> 1], [off |-> 5, size |-> 2]}
At(b, r) == [b EXCEPT !.off = r.off, !.size = r.size]

PartBlocks ==
    {At([Plain EXCEPT !.chunking = "SEQ", !.count = c, !.index = x], r) :
        c \in 2 .. 3, x \in 0 .. 2, r \in Ranges}
    \cup {At([Plain EXCEPT !.chunking = "SEQ", !.group = 1, !.count = 2], r) : r \in Ranges}

PlacedBlocks ==
    {At([Plain EXCEPT !.chunking = "XMP_EXT", !.group = g, !.lOff = o, !.lSize = s], r) :
        g \in 1 .. 2, o \in {0, 1, 2}, s \in {2, 3}, r \in Ranges}

Sole ==
    {At([Plain EXCEPT !.count = c], r) : c \in 0 .. 1, r \in Ranges}
    \cup {[Plain EXCEPT !.chunking = "GIF_SUB", !.off = o, !.size = n, !.count = c] :
            o \in {0, 3}, n \in 0 .. 6, c \in {0, 2}}
    \cup {At([Plain EXCEPT !.chunking = "SEQ"], r) : r \in Ranges}

Packed ==
    {[Plain EXCEPT !.compression = z, !.size = n, !.count = c] :
        z \in {"DEFLATE", "BROTLI"}, n \in {4, 7}, c \in {0, 2}}

Answer(bs, cap, scratch, max) ==
    [blocks |-> bs, seed |-> 1, cap |-> cap, scratchCap |-> scratch, maxParts |-> 2,
     maxOut |-> max, decompress |-> TRUE, buffer |-> TRUE, holds |-> 0, ends |-> "end"]

Triples ==          \* three parts of two streams, in every order
    LET Part(x, r) == At([Plain EXCEPT !.chunking = "SEQ", !.group = 1, !.count = 3, !.index = x], r)
        Placed(o, r) == At([Plain EXCEPT !.chunking = "XMP_EXT", !.lOff = o, !.lSize = 5], r)
    IN TupleOf({Part(x, r) : x \in 0 .. 2, r \in {[off |-> 1, size |-> 2], [off |-> 4, size |-> 1]}}, 3)
       \cup TupleOf({Placed(o, r) : o \in {0, 1, 2, 3, 4},
                                   r \in {[off |-> 1, size |-> 2], [off |-> 4, size |-> 1],
                                          [off |-> 4, size |-> 0]}}, 3)

MCCalls ==
    {[Answer(bs, cap, 3, max) EXCEPT !.maxParts = 3] : bs \in Triples, cap \in {4, 7}, max \in {4, 7}}
    \cup
    {[Answer(bs, 3, 3, 7) EXCEPT !.seed = s] : bs \in TupleOf(Sole, 1), s \in {0, 2}}
    \cup
    {Answer(bs, cap, scratch, max) :
        bs \in TupleOf(PartBlocks, 2) \cup TupleOf(PlacedBlocks, 2) \cup TupleOf(Sole, 1),
        cap \in {0, 3}, scratch \in {1, 2}, max \in {2, 7}}
    \cup
    {[Answer(bs, cap, 1, max) EXCEPT !.decompress = d, !.buffer = b, !.holds = n, !.ends = e] :
        bs \in TupleOf(Packed, 1), cap \in {0, 2, 4}, max \in {2, 3, 7}, d \in BOOLEAN,
        b \in BOOLEAN, n \in 0 .. 4, e \in {"end", "error", "cut", "no memory"}}
=============================================================================
