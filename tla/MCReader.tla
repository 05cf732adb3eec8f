------------------------------ MODULE MCReader ------------------------------
(***************************************************************************)
(* Files of every way a read can go: too short, unknown, a TIFF with an    *)
(* embedded packet, an OpenEXR, a RAW with native fields, boxes, a text,   *)
(* and containers of blocks of each kind, whole, in parts and compressed.  *)
(***************************************************************************)
EXTENDS Reader

NoBlocks(format, scanned) ==
    [format |-> format, scan |-> scanned, blocks |-> <<>>, embedded |-> <<>>]
Holding(format, found) == [NoBlocks(format, "OK") EXCEPT !.blocks = found]

Whole1(d) == [decoder |-> d, direct |-> FALSE, skip |-> FALSE]
InPlace == [Whole1("exif") EXCEPT !.direct = TRUE]
LaterPart(d) == [Whole1(d) EXCEPT !.skip = TRUE]

MCFiles ==
    {NoBlocks("TINY", "MALFORMED"), NoBlocks("UNKNOWN", "UNSUPPORTED"),
     NoBlocks("EXR", "UNSUPPORTED"), NoBlocks("RAW", "UNSUPPORTED"),
     NoBlocks("SIDECAR", "UNSUPPORTED"), NoBlocks("JPEG", "MALFORMED")}
    \cup {[Holding("TIFF", <<InPlace>>) EXCEPT !.embedded = <<"xmp", "irb">>],
          Holding("HEIF", <<InPlace, Whole1("xmp")>>),
          Holding("JPEG", <<Whole1("xmp"), LaterPart("xmp")>>),
          Holding("JPEG", <<Whole1("exif"), Whole1("none")>>),
          Holding("RAW", <<InPlace>>),
          Holding("PNG", <<Whole1("text"), InPlace>>),
          Holding("GIF", <<Whole1("comment"), Whole1("xmp")>>)}
=============================================================================
