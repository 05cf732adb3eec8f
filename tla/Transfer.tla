------------------------------ MODULE Transfer ------------------------------
(***************************************************************************)
(* Moving metadata from a source store into an image file, in three calls: *)
(* omc_transfer_prepare reads intents off the source, omc_transfer_compile *)
(* turns them into routes, omc_transfer_execute builds edited file and XMP *)
(* sidecar in private arenas and publishes both or none                    *)
(* (src/src/edit/omc_transfer.c).  The store is borrowed: the client may   *)
(* edit it between the calls.  Contents are abstract: one EXIF tag of the  *)
(* Exif IFD that may be removed, the IPTC datasets by their lifecycle, an  *)
(* opaque Photoshop IPTC resource, an ICC profile.                         *)
(***************************************************************************)
EXTENDS FiniteSets

CONSTANTS
    Sources,    \* the stores transferred from
    Options     \* the options prepare is called with

Lifecycle == {"live", "edited", "removed"}      \* clean, dirty, dirty and deleted
Store ==
    [exif : {"none"} \cup Lifecycle,
     raw  : BOOLEAN,    \* with it, IPTC as EXIF tag 33723
     iptc : SUBSET Lifecycle,
     irb  : BOOLEAN,    \* clean Photoshop resource 0x0404
     icc  : BOOLEAN,
     dep  : BOOLEAN]    \* a tag that describes the source image, not the target
Option ==
    [format : {"JPEG", "PNG", "TIFF", "DNG", "JXL", "OTHER"},
     existing : BOOLEAN,        \* a DNG target mode that needs a file
     writeback : {"EMBEDDED_ONLY", "SIDECAR_ONLY", "EMBEDDED_AND_SIDECAR"},
     strip : BOOLEAN,           \* embedded XMP goes from a sidecar-only target
     exif : BOOLEAN, iptc : BOOLEAN,    \* include_exif, include_iptc
     merge : BOOLEAN]           \* existing XMP is to be merged in

ASSUME SourcesAreStores == Sources \subseteq Store
ASSUME OptionsAreOptions == Options \subseteq Option /\ Options # {}

VARIABLES
    source,     \* the source store
    plan,       \* the bundle, then the executor compiled from it
    file,       \* execute was given a target file
    view,       \* the store execute works on: source or a copy of it
    copied,     \* it is a copy
    work,       \* the private output arenas
    res,        \* omc_transfer_res of the call
    status,     \* the call's own answer
    out,        \* what the caller's arenas hold
    pc

vars == <<source, plan, file, view, copied, work, res, status, out, pc>>

TiffFamily == {"TIFF", "DNG"}
Embeddable(format) == format # "OTHER"
CarriesIptc(format) == format \in {"JPEG", "TIFF", "DNG"}
Scaffolds(o) == o.format = "DNG" /\ ~o.existing

(* An edited file, by what became of its EXIF tag and its IPTC carrier.    *)
Edited == [exif : {"kept", "merged", "removed"},
           iptc : {"kept", "copied", "rebuilt", "opaque", "removed"}]
Untouched == [exif |-> "kept", iptc |-> "kept"]
NoFile == [exif |-> "none", iptc |-> "none"]
Empty == [edited |-> NoFile, sidecar |-> FALSE]

NoIntent == [merge |-> FALSE, removal |-> FALSE]
NoPlan == [status |-> "UNSUPPORTED", opts |-> CHOOSE o \in Options : TRUE, intent |-> NoIntent,
           removeIptc |-> FALSE, embedded |-> "NONE", sidecar |-> FALSE]
NoRes == [status |-> "UNSUPPORTED", edited |-> FALSE, sidecar |-> FALSE]

Init ==
    /\ source \in Sources
    /\ plan = NoPlan /\ file = FALSE
    /\ view = source /\ copied = FALSE
    /\ work = Empty /\ res = NoRes /\ status = "OK"
    /\ out = "previous"
    /\ pc = "idle"

-----------------------------------------------------------------------------
(* Any live dataset wins over deletion; only dirty deletion counts.        *)
DeriveIptcRemoval(s, o) ==
    /\ o.iptc /\ CarriesIptc(o.format)
    /\ s.iptc = {"removed"}

(* omc_native_edit_intent_collect, for TIFF and DNG only.                  *)
CollectIntent(s, o) ==
    IF o.format \in TiffFamily /\ o.exif
    THEN [merge |-> s.exif \in {"edited", "removed"}, removal |-> s.exif = "removed"]
    ELSE NoIntent
IntentPresent(intent) == intent.merge \/ intent.removal

NeedsEmbedded(o) == o.writeback # "SIDECAR_ONLY" \/ o.strip

Prepare(o, given) ==
    /\ pc = "idle"
    /\ plan' =
          [opts       |-> o,
           intent     |-> CollectIntent(source, o),
           removeIptc |-> DeriveIptcRemoval(source, o),
           status     |-> IF \/ o.format = "DNG" /\ o.existing /\ ~given
                             \/ NeedsEmbedded(o) /\ ~Embeddable(o.format)
                          THEN "UNSUPPORTED" ELSE "OK",
           embedded   |-> CASE o.writeback # "SIDECAR_ONLY" -> "REWRITE"
                            [] o.writeback = "SIDECAR_ONLY" /\ o.strip -> "STRIP"
                            [] OTHER -> "NONE",
           sidecar    |-> o.writeback # "EMBEDDED_ONLY"]
    /\ pc' = "prepared"
    /\ UNCHANGED <<source, file, view, copied, work, res, status, out>>

(* An unsupported bundle compiles to an executor without routes.           *)
Compile ==
    /\ pc = "prepared"
    /\ plan' = IF plan.status = "OK" THEN plan
               ELSE [plan EXCEPT !.embedded = "NONE", !.sidecar = FALSE]
    /\ pc' = "compiled"
    /\ UNCHANGED <<source, file, view, copied, work, res, status, out>>

(* The client commits edits to the store it lent, of EXIF or of IPTC.      *)
(* Compile does not look at the store: before or after it is the same.     *)
EditSource(s) ==
    /\ pc = "compiled"
    /\ s # source
    /\ \/ s.iptc = source.iptc
       \/ s.exif = source.exif /\ s.raw = source.raw
    /\ <<s.irb, s.icc, s.dep>> = <<source.irb, source.icc, source.dep>>
    /\ source' = s /\ view' = s
    /\ UNCHANGED <<plan, file, copied, work, res, status, out, pc>>

-----------------------------------------------------------------------------
(* omc_transfer_execute returns: outputs change hands only when call and   *)
(* transfer both went well.                                                *)
Publishes(answer, r) == answer = "OK" /\ r.status = "OK"

Finish(answer, r) ==
    /\ status' = answer
    /\ IF Publishes(answer, r)
       THEN res' = r /\ out' = "this"
       ELSE res' = [r EXCEPT !.edited = FALSE, !.sidecar = FALSE] /\ out' = out
    /\ pc' = "returned"
    /\ UNCHANGED <<source, plan, file, view, copied, work>>

Go(next) == pc' = next /\ UNCHANGED <<source, plan, file, status, out>>

(* Memory may run out at every step of it.                                 *)
NoMemory == Finish("NO_MEMORY", res)
Fails(transfer) == Finish("OK", [res EXCEPT !.status = transfer])

RecheckNothing == TRUE          \* mutant: the source is not looked at again
RemovalIsCurrent == plan.removeIptc = DeriveIptcRemoval(source, plan.opts)

(* The checks of omc_transfer_execute before anything is built; a stale    *)
(* removal leaves even the result alone.                                   *)
NeedsTarget(given) ==
    /\ ~given
    /\ \/ plan.intent.removal
       \/ plan.removeIptc /\ Scaffolds(plan.opts)
       \/ plan.opts.format = "DNG" /\ plan.opts.existing

Execute(given) ==
    /\ pc = "compiled"
    /\ file' = given
    /\ \/ /\ ~RemovalIsCurrent
          /\ status' = "INVALID_ARGUMENT" /\ pc' = "returned"
          /\ UNCHANGED <<source, plan, view, copied, work, res, out>>
       \/ /\ RemovalIsCurrent
          /\ plan.status # "OK" \/ NeedsTarget(given)
          /\ status' = "OK" /\ res' = NoRes /\ pc' = "returned"
          /\ UNCHANGED <<source, plan, view, copied, work, out>>
       \/ /\ RemovalIsCurrent
          /\ plan.status = "OK" /\ ~NeedsTarget(given)
          /\ res' = NoRes /\ pc' = "merge"
          /\ UNCHANGED <<source, plan, view, copied, work, status, out>>

-----------------------------------------------------------------------------
(* What is left of a store when its live entries are copied: flags stay,   *)
(* tombstones go.                                                          *)
LiveEntries(s) ==
    LET t == [s EXCEPT !.iptc = @ \ {"removed"}]
    IN  IF t.exif = "removed" THEN [t EXCEPT !.exif = "none"] ELSE t

(* omc_transfer_merge_existing_xmp_store.                                  *)
MergeExisting ==
    /\ pc = "merge"
    /\ IF plan.opts.merge
       THEN \/ /\ view' = LiveEntries(view) /\ copied' = TRUE
               /\ Go("target") /\ UNCHANGED <<work, res>>
            \/ NoMemory
       ELSE Go("target") /\ UNCHANGED <<view, copied, work, res>>

(* omc_transfer_make_target_safe_store.                                    *)
MakeTargetSafe ==
    /\ pc = "target"
    /\ IF view.dep
       THEN \/ /\ view' = [LiveEntries(view) EXCEPT !.dep = FALSE] /\ copied' = TRUE
               /\ Go("apply") /\ UNCHANGED <<work, res>>
            \/ NoMemory
       ELSE Go("apply") /\ UNCHANGED <<view, copied, work, res>>

HasExif ==
    plan.opts.exif /\ (view.exif \in {"live", "edited"} \/ IntentPresent(plan.intent))
HasIptc ==
    /\ plan.opts.iptc /\ CarriesIptc(plan.opts.format)
    /\ view.iptc \ {"removed"} # {} \/ view.irb \/ plan.removeIptc

-----------------------------------------------------------------------------
DumpGoesOn ==                   \* mutant: overlays follow although there is no edited file
    /\ work' = [edited |-> NoFile, sidecar |-> TRUE]
    /\ res' = [status |-> "OK", edited |-> FALSE, sidecar |-> TRUE]
    /\ Go("exif") /\ UNCHANGED <<view, copied>>

(* omc_xmp_dump_sidecar_req alone: the result has no edited file.          *)
Dump ==
    \/ /\ work' = [edited |-> NoFile, sidecar |-> TRUE]
       /\ res' = [status |-> "OK", edited |-> FALSE, sidecar |-> TRUE]
       /\ Go("publish") /\ UNCHANGED <<view, copied>>
    \/ Fails("LIMIT")
    \/ NoMemory

(* omc_xmp_apply: the embedded packet is written or stripped, then the     *)
(* sidecar dumped if it is requested.                                      *)
ApplyXmpUnchecked(sidecar) ==       \* mutant: the status of the dump is not looked at
    \/ \E dumped \in BOOLEAN :
          /\ work' = [edited |-> Untouched, sidecar |-> sidecar /\ dumped]
          /\ res' = [status |-> "OK", edited |-> TRUE, sidecar |-> sidecar /\ dumped]
          /\ Go("exif") /\ UNCHANGED <<view, copied>>
    \/ Fails("MALFORMED")
    \/ NoMemory
ApplyXmp(sidecar) ==
    \/ /\ work' = [edited |-> Untouched, sidecar |-> sidecar]
       /\ res' = [status |-> "OK", edited |-> TRUE, sidecar |-> sidecar]
       /\ Go("exif") /\ UNCHANGED <<view, copied>>
    \/ Fails("MALFORMED")
    \/ sidecar /\ Fails("LIMIT")
    \/ NoMemory

(* Without a file only a fresh DNG can be embedded into.                   *)
ApplyEmbedded ==
    /\ pc = "apply" /\ plan.embedded # "NONE"
    /\ IF file \/ (Scaffolds(plan.opts) /\ plan.opts.writeback # "SIDECAR_ONLY")
       THEN ApplyXmp(plan.sidecar)
       ELSE Finish("INVALID_ARGUMENT", res)

SkipsFile == plan.opts.format = "PNG" /\ ~HasExif /\ ~view.icc

ApplySidecar ==
    /\ pc = "apply" /\ plan.embedded = "NONE"
    /\ \/ /\ Embeddable(plan.opts.format) /\ ~file
          /\ IF Scaffolds(plan.opts) THEN Dump ELSE Finish("INVALID_ARGUMENT", res)
       \/ Embeddable(plan.opts.format) /\ file /\ SkipsFile /\ Dump
       \/ Embeddable(plan.opts.format) /\ file /\ ~SkipsFile /\ ApplyXmp(TRUE)
       \/ /\ ~Embeddable(plan.opts.format)
          /\ IF HasExif THEN Fails("UNSUPPORTED") ELSE Dump

-----------------------------------------------------------------------------
(* An overlay rewrites the edited file, or ends the transfer.              *)
Overlay(edited, next) ==
    \/ /\ work' = [work EXCEPT !.edited = edited]
       /\ Go(next) /\ UNCHANGED <<view, copied, res>>
    \/ Fails("MALFORMED")
    \/ NoMemory
Pass(next) == Go(next) /\ UNCHANGED <<view, copied, work, res>>

(* omc_exif_overlay_tiff_edit refuses to remove a tag it is to write.      *)
ContradictsNothing == FALSE     \* mutant: removal and value are not compared
Contradicts == plan.intent.removal /\ view.exif \in {"live", "edited"}

ExifResult ==
    [exif |-> CASE plan.intent.removal -> "removed"
                [] ~plan.intent.removal /\ view.exif \in {"live", "edited"} -> "merged"
                [] OTHER -> "kept",
     iptc |-> IF view.raw /\ plan.opts.format \in TiffFamily
                 /\ view.exif \in {"live", "edited"} THEN "copied"
              ELSE work.edited.iptc]

OverlayExif ==
    /\ pc = "exif"
    /\ \/ HasExif /\ Contradicts /\ Fails("MALFORMED")
       \/ HasExif /\ ~Contradicts /\ Overlay(ExifResult, "icc")
       \/ ~HasExif /\ Pass("icc")

OverlayIcc ==
    /\ pc = "icc"
    /\ IF view.icc /\ plan.opts.format # "JXL"
       THEN Overlay(work.edited, "iptc") ELSE Pass("iptc")

(* omc_transfer_build_iptc_iim: dirty datasets suppress the opaque bytes.  *)
IptcDirtyIgnored(s) == FALSE        \* mutant: opaque bytes always win
IptcDirty(s) == s.iptc \cap {"edited", "removed"} # {}

IptcResult ==
    CASE plan.removeIptc -> "removed"
      [] ~plan.removeIptc /\ view.irb /\ ~IptcDirty(view) -> "opaque"
      [] ~plan.removeIptc /\ ~(view.irb /\ ~IptcDirty(view)) /\ view.iptc \ {"removed"} # {} -> "rebuilt"
      [] OTHER -> work.edited.iptc

OverlayIptc ==
    /\ pc = "iptc"
    /\ IF HasIptc THEN Overlay([work.edited EXCEPT !.iptc = IptcResult], "publish")
       ELSE Pass("publish")

Publish == pc = "publish" /\ Finish("OK", res)

(* The client reads the answer and starts over.                            *)
Forget ==
    /\ pc = "returned"
    /\ plan' = NoPlan /\ file' = FALSE /\ view' = source /\ copied' = FALSE
    /\ work' = Empty /\ res' = NoRes /\ status' = "OK" /\ out' = "previous"
    /\ pc' = "idle"
    /\ UNCHANGED source

Next ==
    \/ \E o \in Options, given \in BOOLEAN : Prepare(o, given)
    \/ Compile
    \/ \E s \in Sources : EditSource(s)
    \/ \E given \in BOOLEAN : Execute(given)
    \/ MergeExisting
    \/ MakeTargetSafe
    \/ ApplyEmbedded
    \/ ApplySidecar
    \/ OverlayExif
    \/ OverlayIcc
    \/ OverlayIptc
    \/ Publish
    \/ Forget

Spec == Init /\ [][Next]_vars

-----------------------------------------------------------------------------
Status == {"OK", "UNSUPPORTED", "MALFORMED", "LIMIT"}

(* Every variable has its type.                                            *)
TypeOK ==
    /\ source \in Sources /\ view \in Store
    /\ plan \in [status : Status, opts : Options, intent : [merge : BOOLEAN, removal : BOOLEAN],
                 removeIptc : BOOLEAN, embedded : {"NONE", "REWRITE", "STRIP"}, sidecar : BOOLEAN]
    /\ file \in BOOLEAN /\ copied \in BOOLEAN
    /\ work \in [edited : Edited \cup {NoFile}, sidecar : BOOLEAN]
    /\ res \in [status : Status, edited : BOOLEAN, sidecar : BOOLEAN]
    /\ status \in {"OK", "NO_MEMORY", "INVALID_ARGUMENT"}
    /\ out \in {"previous", "this"}
    /\ pc \in {"idle", "prepared", "compiled", "merge", "target", "apply", "exif", "icc", "iptc",
               "publish", "returned"}

Succeeded == pc = "returned" /\ out = "this"

(* The result of an executed transfer is one omc_transfer_persist may be   *)
(* given: what it says of its outputs is what the arenas hold, a transfer  *)
(* that went well has the sidecar if one was asked for and the edited file *)
(* unless only a sidecar was, and one that failed has no edited file and   *)
(* left the caller's arenas alone.                                         *)
ResultFitsPersist ==
    pc = "returned" =>
        IF status = "OK" /\ res.status = "OK"
        THEN /\ out = "this"
             /\ res.edited <=> work.edited # NoFile
             /\ res.sidecar <=> work.sidecar
             /\ plan.opts.writeback # "EMBEDDED_ONLY" => res.sidecar
             /\ plan.opts.writeback # "SIDECAR_ONLY" => res.edited
        ELSE out = "previous" /\ ~res.edited

(* The IPTC carrier of a finished file is removed exactly if, at execution *)
(* and not just when the transfer was prepared, the source had datasets    *)
(* deleted and none alive; a copy of the carrier that came in with the     *)
(* EXIF tags, and opaque Photoshop bytes, do not bring it back.            *)
IptcRemovalFollowsSource ==
    Succeeded /\ work.edited # NoFile =>
        (work.edited.iptc = "removed" <=> DeriveIptcRemoval(source, plan.opts))

(* A removal of an EXIF tag that prepare found is carried out in every     *)
(* finished TIFF or DNG, although the copies of the store execute works on *)
(* have lost the tombstone; it never takes a value that the source has     *)
(* again.                                                                  *)
ExifRemovalIsCarriedOut ==
    Succeeded /\ work.edited # NoFile =>
        /\ plan.intent.removal => work.edited.exif = "removed"
        /\ work.edited.exif = "removed" => source.exif \notin {"live", "edited"}

(* Opaque Photoshop IPTC bytes never stand in for datasets of which one    *)
(* was deleted: they still hold it.                                        *)
DeletionSuppressesOpaque ==
    Succeeded /\ "removed" \in source.iptc => work.edited.iptc # "opaque"

(* The same where execute works on the source itself.                      *)
DeletionSuppressesOpaqueUncopied == ~copied => DeletionSuppressesOpaque
=============================================================================
