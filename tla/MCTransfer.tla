----------------------------- MODULE MCTransfer -----------------------------
(***************************************************************************)
(* Stores with up to two IPTC lifecycles at once; an ICC profile comes     *)
(* with the image-dependent tag, IPTC as EXIF tag with a live EXIF tag.    *)
(***************************************************************************)
EXTENDS Transfer, Naturals

MCSources ==
    {s \in Store :
        /\ Cardinality(s.iptc) <= 2
        /\ s.raw => s.exif = "live"
        /\ s.icc = s.dep}

(* What the code does not look at is left at one value.                    *)
MCOptions ==
    {o \in Option :
        /\ o.existing => o.format = "DNG"
        /\ o.strip => o.writeback = "SIDECAR_ONLY"
        /\ o.exif \/ o.iptc}
=============================================================================
