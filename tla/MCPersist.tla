----------------------------- MODULE MCPersist -----------------------------
(***************************************************************************)
(* An image and a sidecar name: the output, the base of the sidecar, or    *)
(* both, may be either, so that one call may write the same file twice.    *)
(***************************************************************************)
EXTENDS Persist

MCPath == {"image", "image.xmp"}
MCSidecarOf == [p \in MCPath |-> "image.xmp"]
=============================================================================
