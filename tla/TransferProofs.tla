--------------------------- MODULE TransferProofs ---------------------------
(* Proofs about a transfer, for all stores, options and edits of the       *)
(* source between the calls.                                               *)
EXTENDS Transfer, TLAPS

Pcs == {"idle", "prepared", "compiled", "merge", "target", "apply", "exif", "icc", "iptc",
        "publish", "returned"}
Working == {"merge", "target", "apply", "exif", "icc", "iptc", "publish"}
Plans == [status : Status, opts : Options, intent : [merge : BOOLEAN, removal : BOOLEAN],
          removeIptc : BOOLEAN, embedded : {"NONE", "REWRITE", "STRIP"}, sidecar : BOOLEAN]
Results == [status : Status, edited : BOOLEAN, sidecar : BOOLEAN]
Works == [edited : Edited \cup {NoFile}, sidecar : BOOLEAN]

HasValue(s) == s.exif \in {"live", "edited"}
Writeback == plan.opts.writeback

(* What prepare read off the source, and execute has checked again.        *)
PlanInv ==
    /\ plan.intent.removal => plan.opts.exif
    /\ plan.removeIptc => plan.opts.iptc /\ CarriesIptc(plan.opts.format)
    /\ plan.status = "OK" =>
          /\ plan.sidecar <=> Writeback # "EMBEDDED_ONLY"
          /\ plan.embedded = "NONE" => Writeback = "SIDECAR_ONLY"
    /\ pc \in Working => plan.status = "OK" /\ RemovalIsCurrent

(* The store execute works on has lost tombstones but no value.            *)
ViewInv ==
    /\ ~copied => view = source
    /\ HasValue(view) <=> HasValue(source)

(* The result says what the private arenas hold.                           *)
Built ==
    /\ res.status = "OK"
    /\ res.edited <=> work.edited # NoFile
    /\ res.sidecar <=> work.sidecar
    /\ Writeback # "EMBEDDED_ONLY" => res.sidecar
    /\ Writeback # "SIDECAR_ONLY" => res.edited

ExifDone ==
    work.edited # NoFile =>
        /\ plan.intent.removal => work.edited.exif = "removed"
        /\ work.edited.exif = "removed" => ~HasValue(source)

IptcDone ==
    work.edited # NoFile =>
        /\ work.edited.iptc = "removed" <=> DeriveIptcRemoval(source, plan.opts)
        /\ ~copied /\ "removed" \in source.iptc => work.edited.iptc # "opaque"

(* What each overlay finds, and leaves to the next.                        *)
StageInv ==
    /\ pc \in {"idle", "prepared", "compiled"} => res = NoRes /\ ~copied
    /\ pc # "returned" => out = "previous"
    /\ pc \in {"exif", "icc", "iptc", "publish"} => Built
    /\ pc \in {"exif", "icc", "iptc"} =>
          work.edited # NoFile /\ work.edited.iptc \in {"kept", "copied"}
    /\ pc = "exif" => work.edited.exif = "kept"
    /\ pc \in {"icc", "iptc", "publish"} => ExifDone
    /\ pc = "publish" => IptcDone

ReturnedInv ==
    pc = "returned" =>
        IF status = "OK" /\ res.status = "OK"
        THEN /\ out = "this"
             /\ Built /\ ExifDone /\ IptcDone
        ELSE out = "previous" /\ ~res.edited

IInv == TypeOK /\ PlanInv /\ ViewInv /\ StageInv /\ ReturnedInv

-----------------------------------------------------------------------------
LEMMA NoPlanType == NoPlan \in Plans
  <1>1. (CHOOSE o \in Options : TRUE) \in Options
    BY OptionsAreOptions
  <1>2. QED
    BY <1>1 DEF NoPlan, Plans, Status, NoIntent

LEMMA Types ==
    TypeOK <=>
        /\ source \in Sources /\ view \in Store
        /\ plan \in Plans
        /\ file \in BOOLEAN /\ copied \in BOOLEAN
        /\ work \in Works /\ res \in Results
        /\ status \in {"OK", "NO_MEMORY", "INVALID_ARGUMENT"}
        /\ out \in {"previous", "this"}
        /\ pc \in Pcs
  BY DEF TypeOK, Plans, Works, Results, Pcs

(* Copying the live entries of a store loses no value.                     *)
LEMMA LiveEntriesType ==
    ASSUME NEW s \in Store
    PROVE  LiveEntries(s) \in Store /\ (HasValue(LiveEntries(s)) <=> HasValue(s))
  <1> DEFINE t == [s EXCEPT !.iptc = @ \ {"removed"}]
  <1>1. s.iptc \ {"removed"} \in SUBSET Lifecycle
    BY DEF Store
  <1>2. t \in Store /\ t.exif = s.exif
    BY <1>1 DEF Store
  <1> HIDE DEF t
  <1>3. [t EXCEPT !.exif = "none"] \in Store /\ [t EXCEPT !.exif = "none"].exif = "none"
    BY <1>2 DEF Store
  <1>4. LiveEntries(s) = IF t.exif = "removed" THEN [t EXCEPT !.exif = "none"] ELSE t
    BY DEF LiveEntries, t
  <1>5. QED
    BY <1>2, <1>3, <1>4 DEF HasValue

LEMMA InitialState == Init => IInv
  <1>1. SUFFICES ASSUME Init PROVE IInv
    OBVIOUS
  <1>2. TypeOK
    BY <1>1, NoPlanType, SourcesAreStores, Types
    DEF Init, Works, Results, Pcs, NoRes, Empty, Status
  <1>3. PlanInv /\ ViewInv /\ StageInv /\ ReturnedInv
    BY <1>1 DEF Init, PlanInv, ViewInv, StageInv, ReturnedInv, NoPlan, NoIntent, Working
  <1>4. QED
    BY <1>2, <1>3 DEF IInv

-----------------------------------------------------------------------------
(* The calls before execute builds anything.                               *)
LEMMA PrepareStep ==
    ASSUME IInv, NEW o \in Options, NEW given \in BOOLEAN, Prepare(o, given)
    PROVE  IInv'
  <1>1. CollectIntent(source, o) \in [merge : BOOLEAN, removal : BOOLEAN]
        /\ (CollectIntent(source, o).removal => o.exif)
    BY DEF CollectIntent, NoIntent
  <1>2. DeriveIptcRemoval(source, o) \in BOOLEAN
        /\ (DeriveIptcRemoval(source, o) => o.iptc /\ CarriesIptc(o.format))
    BY OptionsAreOptions DEF DeriveIptcRemoval, Option, CarriesIptc
  <1>3. /\ plan'.opts = o
        /\ plan'.intent = CollectIntent(source, o)
        /\ plan'.removeIptc = DeriveIptcRemoval(source, o)
        /\ plan'.status \in {"UNSUPPORTED", "OK"}
        /\ plan'.embedded \in {"NONE", "REWRITE", "STRIP"}
        /\ plan'.embedded = "NONE" => o.writeback = "SIDECAR_ONLY"
        /\ plan'.sidecar = (o.writeback # "EMBEDDED_ONLY")
    BY OptionsAreOptions DEF Prepare, Option
  <1>4. plan' \in Plans
    BY <1>1, <1>2, <1>3 DEF Prepare, Plans, Status
  <1>5. TypeOK'
    BY <1>4, Types DEF IInv, Prepare, TypeOK, Plans
  <1>6. PlanInv'
    BY <1>1, <1>2, <1>3 DEF IInv, PlanInv, Prepare, Working, Writeback
  <1>7. ViewInv' /\ StageInv' /\ ReturnedInv'
    BY DEF IInv, ViewInv, StageInv, ReturnedInv, Prepare, HasValue
  <1>8. QED
    BY <1>5, <1>6, <1>7 DEF IInv

LEMMA CompileStep ==
    ASSUME IInv, Compile
    PROVE  IInv'
  <1>1. plan \in Plans
    BY Types DEF IInv
  <1>2. /\ plan' \in Plans
        /\ plan'.opts = plan.opts /\ plan'.intent = plan.intent
        /\ plan'.removeIptc = plan.removeIptc /\ plan'.status = plan.status
        /\ plan.status = "OK" => plan' = plan
    <2>1. CASE plan.status = "OK"
      BY <1>1, <2>1 DEF Compile
    <2>2. CASE plan.status # "OK"
      <3>1. plan' = [status |-> plan.status, opts |-> plan.opts, intent |-> plan.intent,
                     removeIptc |-> plan.removeIptc, embedded |-> "NONE", sidecar |-> FALSE]
        BY <1>1, <2>2 DEF Compile, Plans
      <3>2. QED
        BY <1>1, <2>2, <3>1 DEF Plans
    <2>3. QED
      BY <2>1, <2>2
  <1>3. TypeOK'
    BY <1>2, Types DEF IInv, Compile, TypeOK, Plans
  <1>4. PlanInv'
    BY <1>2 DEF IInv, PlanInv, Compile, Working, Writeback
  <1>5. ViewInv' /\ StageInv' /\ ReturnedInv'
    BY DEF IInv, ViewInv, StageInv, ReturnedInv, Compile, HasValue
  <1>6. QED
    BY <1>3, <1>4, <1>5 DEF IInv

LEMMA EditSourceStep ==
    ASSUME IInv, NEW s \in Sources, EditSource(s)
    PROVE  IInv'
  <1>1. pc = "compiled" /\ pc' = pc /\ ~copied /\ res = NoRes /\ source' = s /\ view' = s
        /\ UNCHANGED <<plan, file, copied, work, res, status, out>>
    BY DEF EditSource, IInv, StageInv
  <1>2. TypeOK'
    BY <1>1, SourcesAreStores, Types DEF IInv, TypeOK, Plans
  <1>3. PlanInv' /\ ViewInv' /\ StageInv' /\ ReturnedInv'
    BY <1>1 DEF IInv, PlanInv, ViewInv, StageInv, ReturnedInv, Working, Writeback
  <1>4. QED
    BY <1>2, <1>3 DEF IInv

LEMMA ExecuteStep ==
    ASSUME IInv, NEW given \in BOOLEAN, Execute(given)
    PROVE  IInv'
  <1>1. pc = "compiled" /\ res = NoRes /\ res' = NoRes /\ ~copied /\ file' = given
        /\ UNCHANGED <<source, plan, view, copied, work, out>>
        /\ \/ pc' = "returned" /\ status' \in {"OK", "INVALID_ARGUMENT"}
           \/ pc' = "merge" /\ status' = status /\ plan.status = "OK" /\ RemovalIsCurrent
    BY DEF Execute, IInv, StageInv
  <1>2. NoRes \in Results
    BY DEF NoRes, Results, Status
  <1>3. TypeOK'
    BY <1>1, <1>2, Types DEF IInv, TypeOK, Results
  <1>4. PlanInv'
    BY <1>1 DEF IInv, PlanInv, Working, Writeback, RemovalIsCurrent
  <1>5. ViewInv' /\ StageInv' /\ ReturnedInv'
    BY <1>1 DEF IInv, ViewInv, StageInv, ReturnedInv, HasValue, NoRes
  <1>6. QED
    BY <1>3, <1>4, <1>5 DEF IInv

-----------------------------------------------------------------------------
(* A transfer that ends early publishes nothing.                           *)
LEMMA EndsEarly ==
    ASSUME IInv, pc \in Working,
           NEW answer \in {"OK", "NO_MEMORY", "INVALID_ARGUMENT"}, NEW r \in Results,
           ~Publishes(answer, r), Finish(answer, r)
    PROVE  IInv'
  <1>1. /\ status' = answer /\ pc' = "returned" /\ out' = out
        /\ res' = [r EXCEPT !.edited = FALSE, !.sidecar = FALSE]
        /\ UNCHANGED <<source, plan, file, view, copied, work>>
    BY DEF Finish
  <1>2. res' = [status |-> r.status, edited |-> FALSE, sidecar |-> FALSE]
    BY <1>1 DEF Results
  <1>3. res' \in Results
    BY <1>2 DEF Results
  <1>4. out = "previous"
    BY DEF IInv, StageInv, Working
  <1>5. TypeOK'
    BY <1>1, <1>3, Types DEF IInv, TypeOK, Results
  <1>6. PlanInv' /\ ViewInv' /\ StageInv'
    BY <1>1, <1>4 DEF IInv, PlanInv, ViewInv, StageInv, Working, Writeback, HasValue
  <1>7. ReturnedInv'
    BY <1>1, <1>2, <1>4 DEF ReturnedInv, Publishes
  <1>8. QED
    BY <1>5, <1>6, <1>7 DEF IInv

LEMMA FailsStep ==
    ASSUME IInv, pc \in Working, NEW transfer \in {"UNSUPPORTED", "MALFORMED", "LIMIT"},
           Fails(transfer)
    PROVE  IInv'
  <1>1. [res EXCEPT !.status = transfer] \in Results
    BY Types DEF IInv, Results, Status
  <1>2. [res EXCEPT !.status = transfer].status = transfer
    BY Types DEF IInv, Results
  <1>3. QED
    BY <1>1, <1>2, EndsEarly DEF Fails, Publishes

LEMMA NoMemoryStep ==
    ASSUME IInv, pc \in Working, NoMemory
    PROVE  IInv'
  <1>1. res \in Results
    BY Types DEF IInv
  <1>2. QED
    BY <1>1, EndsEarly DEF NoMemory, Publishes

LEMMA RefusedStep ==
    ASSUME IInv, pc \in Working, Finish("INVALID_ARGUMENT", res)
    PROVE  IInv'
  <1>1. res \in Results
    BY Types DEF IInv
  <1>2. QED
    BY <1>1, EndsEarly DEF Publishes

-----------------------------------------------------------------------------
(* The steps that make a copy of the store.                                *)
LEMMA ViewStep ==
    ASSUME IInv, pc \in {"merge", "target"}, NEW next \in {"target", "apply"},
           NEW v \in Store, HasValue(v) <=> HasValue(view),
           view' = v, copied' \in BOOLEAN, copied' \/ (view' = view /\ copied' = copied),
           Go(next), UNCHANGED <<work, res>>
    PROVE  IInv'
  <1>1. pc' = next /\ UNCHANGED <<source, plan, file, status, out, work, res>>
    BY DEF Go
  <1>2. TypeOK'
    BY <1>1, Types DEF IInv, TypeOK, Pcs
  <1>3. PlanInv'
    BY <1>1 DEF IInv, PlanInv, Working, Writeback, RemovalIsCurrent
  <1>4. ViewInv'
    BY <1>1 DEF IInv, ViewInv, HasValue
  <1>5. StageInv' /\ ReturnedInv'
    BY <1>1 DEF IInv, StageInv, ReturnedInv
  <1>6. QED
    BY <1>2, <1>3, <1>4, <1>5 DEF IInv

LEMMA MergeExistingStep ==
    ASSUME IInv, MergeExisting
    PROVE  IInv'
  <1>1. view \in Store /\ copied \in BOOLEAN /\ pc = "merge" /\ pc \in Working
    BY Types DEF IInv, MergeExisting, Working
  <1>2. CASE NoMemory
    BY <1>1, <1>2, NoMemoryStep
  <1>3. CASE view' = LiveEntries(view) /\ copied' = TRUE /\ Go("target") /\ UNCHANGED <<work, res>>
    BY <1>1, <1>3, LiveEntriesType, ViewStep
  <1>4. CASE Go("target") /\ UNCHANGED <<view, copied, work, res>>
    BY <1>1, <1>4, ViewStep
  <1>5. QED
    BY <1>2, <1>3, <1>4 DEF MergeExisting

LEMMA MakeTargetSafeStep ==
    ASSUME IInv, MakeTargetSafe
    PROVE  IInv'
  <1>1. view \in Store /\ copied \in BOOLEAN /\ pc = "target" /\ pc \in Working
    BY Types DEF IInv, MakeTargetSafe, Working
  <1>2. CASE NoMemory
    BY <1>1, <1>2, NoMemoryStep
  <1>3. CASE /\ view' = [LiveEntries(view) EXCEPT !.dep = FALSE] /\ copied' = TRUE
             /\ Go("apply") /\ UNCHANGED <<work, res>>
    <2>1. [LiveEntries(view) EXCEPT !.dep = FALSE] \in Store
      BY <1>1, LiveEntriesType DEF Store
    <2>2. HasValue([LiveEntries(view) EXCEPT !.dep = FALSE]) <=> HasValue(view)
      BY <1>1, LiveEntriesType DEF Store, HasValue
    <2>3. QED
      BY <1>1, <1>3, <2>1, <2>2, ViewStep
  <1>4. CASE Go("apply") /\ UNCHANGED <<view, copied, work, res>>
    BY <1>1, <1>4, ViewStep
  <1>5. QED
    BY <1>2, <1>3, <1>4 DEF MakeTargetSafe

-----------------------------------------------------------------------------
(* The packet is applied, or a sidecar alone dumped.                       *)
LEMMA ApplyXmpStep ==
    ASSUME IInv, pc = "apply", NEW sidecar \in BOOLEAN, ApplyXmp(sidecar),
           Writeback # "EMBEDDED_ONLY" => sidecar
    PROVE  IInv'
  <1>1. pc \in Working
    BY DEF Working
  <1>2. CASE /\ work' = [edited |-> Untouched, sidecar |-> sidecar]
             /\ res' = [status |-> "OK", edited |-> TRUE, sidecar |-> sidecar]
             /\ Go("exif") /\ UNCHANGED <<view, copied>>
    <2>1. pc' = "exif" /\ UNCHANGED <<source, plan, file, status, out, view, copied>>
      BY <1>2 DEF Go
    <2>2. work'.edited = Untouched /\ work'.sidecar = sidecar /\ work' \in Works
      BY <1>2 DEF Works, Edited, Untouched
    <2>3. res'.status = "OK" /\ res'.edited /\ res'.sidecar = sidecar /\ res' \in Results
      BY <1>2 DEF Results, Status
    <2>4. TypeOK'
      BY <2>1, <2>2, <2>3, Types DEF IInv, TypeOK, Works, Results
    <2>5. PlanInv' /\ ViewInv'
      BY <1>1, <2>1 DEF IInv, PlanInv, ViewInv, Working, Writeback, HasValue, RemovalIsCurrent
    <2>6. StageInv'
      BY <2>1, <2>2, <2>3 DEF IInv, StageInv, Built, Writeback, Untouched, NoFile
    <2>7. QED
      BY <2>1, <2>4, <2>5, <2>6 DEF IInv, ReturnedInv
  <1>3. CASE Fails("MALFORMED") \/ Fails("LIMIT") \/ NoMemory
    BY <1>1, <1>3, FailsStep, NoMemoryStep
  <1>4. QED
    BY <1>2, <1>3 DEF ApplyXmp

LEMMA DumpStep ==
    ASSUME IInv, pc = "apply", Writeback = "SIDECAR_ONLY", Dump
    PROVE  IInv'
  <1>1. pc \in Working
    BY DEF Working
  <1>2. CASE /\ work' = [edited |-> NoFile, sidecar |-> TRUE]
             /\ res' = [status |-> "OK", edited |-> FALSE, sidecar |-> TRUE]
             /\ Go("publish") /\ UNCHANGED <<view, copied>>
    <2>1. pc' = "publish" /\ UNCHANGED <<source, plan, file, status, out, view, copied>>
      BY <1>2 DEF Go
    <2>2. work'.edited = NoFile /\ work'.sidecar /\ work' \in Works
      BY <1>2 DEF Works
    <2>3. res'.status = "OK" /\ ~res'.edited /\ res'.sidecar /\ res' \in Results
      BY <1>2 DEF Results, Status
    <2>4. TypeOK'
      BY <2>1, <2>2, <2>3, Types DEF IInv, TypeOK, Works, Results
    <2>5. PlanInv' /\ ViewInv'
      BY <1>1, <2>1 DEF IInv, PlanInv, ViewInv, Working, Writeback, HasValue, RemovalIsCurrent
    <2>6. StageInv'
      BY <2>1, <2>2, <2>3 DEF IInv, StageInv, Built, ExifDone, IptcDone, Writeback
    <2>7. QED
      BY <2>1, <2>4, <2>5, <2>6 DEF IInv, ReturnedInv
  <1>3. CASE Fails("LIMIT") \/ NoMemory
    BY <1>1, <1>3, FailsStep, NoMemoryStep
  <1>4. QED
    BY <1>2, <1>3 DEF Dump

LEMMA ApplyStep ==
    ASSUME IInv, ApplyEmbedded \/ ApplySidecar
    PROVE  IInv'
  <1>1. /\ pc = "apply" /\ pc \in Working
        /\ plan \in Plans /\ plan.sidecar \in BOOLEAN
        /\ plan.sidecar <=> Writeback # "EMBEDDED_ONLY"
        /\ plan.embedded = "NONE" => Writeback = "SIDECAR_ONLY"
    BY Types DEF IInv, PlanInv, ApplyEmbedded, ApplySidecar, Working, Plans
  <1>2. CASE Finish("INVALID_ARGUMENT", res)
    BY <1>1, <1>2, RefusedStep
  <1>3. CASE ApplyXmp(plan.sidecar)
    BY <1>1, <1>3, ApplyXmpStep
  <1>4. CASE ApplyXmp(TRUE)
    BY <1>1, <1>4, ApplyXmpStep
  <1>5. CASE plan.embedded = "NONE" /\ Dump
    BY <1>1, <1>5, DumpStep
  <1>6. CASE Fails("UNSUPPORTED")
    BY <1>1, <1>6, FailsStep
  <1>7. QED
    BY <1>2, <1>3, <1>4, <1>5, <1>6 DEF ApplyEmbedded, ApplySidecar

-----------------------------------------------------------------------------
(* The overlays: each carries on with what it rewrote, or ends the         *)
(* transfer.                                                               *)
LEMMA ExifResultType ==
    ASSUME IInv, pc = "exif"
    PROVE  /\ ExifResult \in Edited
           /\ ExifResult.iptc \in {"kept", "copied"}
           /\ ExifResult.exif = "removed" <=> plan.intent.removal
  <1>1. work.edited.iptc \in {"kept", "copied"}
    BY DEF IInv, StageInv
  <1>2. CASE plan.intent.removal
    BY <1>1, <1>2 DEF ExifResult, Edited
  <1>3. CASE ~plan.intent.removal /\ view.exif \in {"live", "edited"}
    BY <1>1, <1>3 DEF ExifResult, Edited
  <1>4. CASE ~plan.intent.removal /\ view.exif \notin {"live", "edited"}
    BY <1>1, <1>4 DEF ExifResult, Edited
  <1>5. QED
    BY <1>2, <1>3, <1>4

(* What holds after an overlay, given what it made of the file.            *)
LEMMA OverlaidStep ==
    ASSUME IInv, pc \in {"exif", "icc", "iptc"}, NEW edited \in Edited,
           NEW next \in {"icc", "iptc", "publish"},
           work' = [work EXCEPT !.edited = edited],
           Go(next), UNCHANGED <<view, copied, res>>,
           ExifDone',
           next # "publish" => edited.iptc \in {"kept", "copied"},
           next = "publish" => IptcDone'
    PROVE  IInv'
  <1>1. pc' = next /\ UNCHANGED <<source, plan, file, status, out, view, copied, res>>
    BY DEF Go
  <1>2. work \in Works
    BY Types DEF IInv
  <1>3. work'.edited = edited /\ work'.sidecar = work.sidecar /\ work' \in Works
    BY <1>2 DEF Works
  <1>4. edited # NoFile /\ work.edited # NoFile
    BY DEF IInv, StageInv, Edited, NoFile
  <1>5. TypeOK'
    BY <1>1, <1>3, Types DEF IInv, TypeOK, Works
  <1>6. PlanInv' /\ ViewInv'
    BY <1>1 DEF IInv, PlanInv, ViewInv, Working, Writeback, HasValue, RemovalIsCurrent
  <1>7. Built'
    BY <1>1, <1>3, <1>4 DEF IInv, StageInv, Built, Writeback
  <1>8. StageInv'
    BY <1>1, <1>3, <1>4, <1>7 DEF IInv, StageInv
  <1>9. QED
    BY <1>1, <1>5, <1>6, <1>8 DEF IInv, ReturnedInv

LEMMA PassedStep ==
    ASSUME IInv, pc \in {"exif", "icc", "iptc"}, NEW next \in {"icc", "iptc", "publish"},
           Pass(next), ExifDone, next = "publish" => IptcDone
    PROVE  IInv'
  <1>1. pc' = next /\ UNCHANGED <<source, plan, file, status, out, view, copied, work, res>>
    BY DEF Pass, Go
  <1>2. TypeOK'
    BY <1>1, Types DEF IInv, TypeOK
  <1>3. PlanInv' /\ ViewInv'
    BY <1>1 DEF IInv, PlanInv, ViewInv, Working, Writeback, HasValue, RemovalIsCurrent
  <1>4. StageInv'
    BY <1>1 DEF IInv, StageInv, Built, ExifDone, IptcDone, Writeback, HasValue
  <1>5. QED
    BY <1>1, <1>2, <1>3, <1>4 DEF IInv, ReturnedInv

LEMMA OverlayExifStep ==
    ASSUME IInv, OverlayExif
    PROVE  IInv'
  <1>1. pc = "exif" /\ pc \in Working /\ work \in Works
    BY Types DEF OverlayExif, Working, IInv
  <1>2. work.edited.exif = "kept" /\ ViewInv /\ PlanInv
    BY <1>1 DEF IInv, StageInv
  <1>3. CASE Fails("MALFORMED") \/ NoMemory
    BY <1>1, <1>3, FailsStep, NoMemoryStep
  <1>4. CASE /\ HasExif /\ ~Contradicts /\ Go("icc") /\ UNCHANGED <<view, copied, res>>
             /\ work' = [work EXCEPT !.edited = ExifResult]
    <2>1. work'.edited = ExifResult /\ UNCHANGED <<plan, source>>
      BY <1>1, <1>4 DEF Works, Go
    <2>2. plan.intent.removal => ~HasValue(source)
      BY <1>2, <1>4 DEF Contradicts, ViewInv, HasValue
    <2>3. ExifDone'
      BY <1>1, <2>1, <2>2, ExifResultType DEF ExifDone, HasValue
    <2>4. QED
      BY <1>1, <1>4, <2>3, ExifResultType, OverlaidStep
  <1>5. CASE ~HasExif /\ Pass("icc")
    <2>1. ~plan.intent.removal
      BY <1>2, <1>5 DEF HasExif, PlanInv, IntentPresent
    <2>2. ExifDone
      BY <1>2, <2>1 DEF ExifDone
    <2>3. QED
      BY <1>1, <1>5, <2>2, PassedStep
  <1>6. QED
    BY <1>3, <1>4, <1>5 DEF OverlayExif, Overlay

LEMMA OverlayIccStep ==
    ASSUME IInv, OverlayIcc
    PROVE  IInv'
  <1>1. pc = "icc" /\ pc \in Working /\ work \in Works
    BY Types DEF OverlayIcc, Working, IInv
  <1>2. ExifDone /\ work.edited # NoFile /\ work.edited.iptc \in {"kept", "copied"}
    BY <1>1 DEF IInv, StageInv
  <1>3. CASE Fails("MALFORMED") \/ NoMemory
    BY <1>1, <1>3, FailsStep, NoMemoryStep
  <1>4. CASE /\ Go("iptc") /\ UNCHANGED <<view, copied, res>>
             /\ work' = [work EXCEPT !.edited = work.edited]
    <2>1. work'.edited = work.edited /\ UNCHANGED <<plan, source>> /\ work.edited \in Edited
      BY <1>1, <1>2, <1>4 DEF Works, Go
    <2>2. ExifDone'
      BY <1>2, <2>1 DEF ExifDone, HasValue
    <2>3. QED
      BY <1>1, <1>2, <1>4, <2>1, <2>2, OverlaidStep
  <1>5. CASE Pass("iptc")
    BY <1>1, <1>2, <1>5, PassedStep
  <1>6. QED
    BY <1>3, <1>4, <1>5 DEF OverlayIcc, Overlay

LEMMA OverlayIptcStep ==
    ASSUME IInv, OverlayIptc
    PROVE  IInv'
  <1>1. pc = "iptc" /\ pc \in Working /\ work \in Works
    BY Types DEF OverlayIptc, Working, IInv
  <1>2. ExifDone /\ work.edited \in Edited /\ work.edited.iptc \in {"kept", "copied"}
        /\ ViewInv /\ PlanInv /\ plan.removeIptc = DeriveIptcRemoval(source, plan.opts)
    BY <1>1 DEF IInv, StageInv, PlanInv, RemovalIsCurrent, Works
  <1>3. CASE Fails("MALFORMED") \/ NoMemory
    BY <1>1, <1>3, FailsStep, NoMemoryStep
  <1>4. CASE /\ HasIptc /\ Go("publish") /\ UNCHANGED <<view, copied, res>>
             /\ work' = [work EXCEPT !.edited = [work.edited EXCEPT !.iptc = IptcResult]]
    <2>1. /\ IptcResult \in {"kept", "copied", "rebuilt", "opaque", "removed"}
          /\ IptcResult = "removed" <=> plan.removeIptc
          /\ IptcResult = "opaque" => ~IptcDirty(view)
      <3>1. CASE plan.removeIptc
        BY <3>1 DEF IptcResult
      <3>2. CASE ~plan.removeIptc /\ view.irb /\ ~IptcDirty(view)
        BY <3>2 DEF IptcResult
      <3>3. CASE ~plan.removeIptc /\ ~(view.irb /\ ~IptcDirty(view)) /\ view.iptc \ {"removed"} # {}
        BY <3>3 DEF IptcResult
      <3>4. CASE ~plan.removeIptc /\ ~(view.irb /\ ~IptcDirty(view)) /\ view.iptc \ {"removed"} = {}
        BY <1>2, <3>4 DEF IptcResult
      <3>5. QED
        BY <3>1, <3>2, <3>3, <3>4
    <2> DEFINE edited == [work.edited EXCEPT !.iptc = IptcResult]
    <2>2. edited \in Edited /\ edited.iptc = IptcResult /\ edited.exif = work.edited.exif
      BY <1>2, <2>1 DEF Edited
    <2> HIDE DEF edited
    <2>3. work'.edited = edited /\ UNCHANGED <<plan, source, view, copied>>
      BY <1>1, <1>4 DEF Works, Go, edited
    <2>4. work.edited # NoFile
      BY <1>2 DEF Edited, NoFile
    <2>5. ExifDone'
      BY <1>2, <2>2, <2>3, <2>4 DEF ExifDone, HasValue
    <2>6. ~copied => ("removed" \in source.iptc => IptcDirty(view))
      BY <1>2 DEF ViewInv, IptcDirty
    <2>7. IptcDone'
      BY <1>2, <2>1, <2>2, <2>3, <2>6 DEF IptcDone, DeriveIptcRemoval
    <2>8. work' = [work EXCEPT !.edited = edited]
      BY <1>4 DEF edited
    <2>9. QED
      BY <1>1, <1>4, <2>2, <2>5, <2>7, <2>8, OverlaidStep
  <1>5. CASE ~HasIptc /\ Pass("publish")
    <2>1. ~DeriveIptcRemoval(source, plan.opts)
      BY <1>2, <1>5 DEF HasIptc, PlanInv
    <2>2. IptcDone
      BY <1>2, <2>1 DEF IptcDone
    <2>3. QED
      BY <1>1, <1>2, <1>5, <2>2, PassedStep
  <1>6. QED
    BY <1>3, <1>4, <1>5 DEF OverlayIptc, Overlay

-----------------------------------------------------------------------------
(* Publishing, and starting over.                                          *)
LEMMA PublishStep ==
    ASSUME IInv, Publish
    PROVE  IInv'
  <1>1. pc = "publish" /\ Built /\ ExifDone /\ IptcDone
    BY DEF Publish, IInv, StageInv
  <1>2. /\ pc' = "returned" /\ status' = "OK" /\ res' = res /\ out' = "this"
        /\ UNCHANGED <<source, plan, file, view, copied, work>>
    BY <1>1 DEF Publish, Finish, Publishes, Built
  <1>3. TypeOK'
    BY <1>2, Types DEF IInv, TypeOK
  <1>4. PlanInv' /\ ViewInv' /\ StageInv'
    BY <1>2 DEF IInv, PlanInv, ViewInv, StageInv, Working, Writeback, HasValue
  <1>5. ReturnedInv'
    BY <1>1, <1>2 DEF ReturnedInv, Built, ExifDone, IptcDone, Writeback, HasValue
  <1>6. QED
    BY <1>3, <1>4, <1>5 DEF IInv

LEMMA ForgetStep ==
    ASSUME IInv, Forget
    PROVE  IInv'
  <1>1. /\ plan' = NoPlan /\ file' = FALSE /\ view' = source /\ source' = source /\ copied' = FALSE
        /\ work' = Empty /\ res' = NoRes /\ status' = "OK" /\ out' = "previous" /\ pc' = "idle"
    BY DEF Forget
  <1>2. TypeOK'
    BY <1>1, NoPlanType, SourcesAreStores, Types
    DEF IInv, TypeOK, Plans, Works, Results, Pcs, NoRes, Empty, Status
  <1>3. PlanInv' /\ ViewInv' /\ StageInv' /\ ReturnedInv'
    BY <1>1 DEF PlanInv, ViewInv, StageInv, ReturnedInv, NoPlan, NoIntent, Working
  <1>4. QED
    BY <1>2, <1>3 DEF IInv

LEMMA StutterStep ==
    ASSUME IInv, UNCHANGED vars
    PROVE  IInv'
  <1>1. TypeOK'
    BY DEF IInv, TypeOK, vars
  <1>2. PlanInv' /\ ViewInv' /\ StageInv' /\ ReturnedInv'
    BY DEF IInv, PlanInv, ViewInv, StageInv, ReturnedInv, Built, ExifDone, IptcDone, Writeback,
           HasValue, RemovalIsCurrent, vars
  <1>3. QED
    BY <1>1, <1>2 DEF IInv

(* The inductive invariant of a transfer: what prepare decided, how the    *)
(* store worked on differs from the source, and what each stage leaves to  *)
(* the next.                                                               *)
THEOREM TransferInvariant == Spec => []IInv
  <1>1. Init => IInv
    BY InitialState
  <1>2. IInv /\ [Next]_vars => IInv'
    BY PrepareStep, CompileStep, EditSourceStep, ExecuteStep, MergeExistingStep,
       MakeTargetSafeStep, ApplyStep, OverlayExifStep, OverlayIccStep, OverlayIptcStep,
       PublishStep, ForgetStep, StutterStep
    DEF Next
  <1>3. QED
    BY <1>1, <1>2, PTL DEF Spec

(* Type correctness of the three calls.                                    *)
THEOREM TransferTypes == Spec => []TypeOK
  <1>1. IInv => TypeOK
    BY DEF IInv
  <1>2. QED
    BY <1>1, TransferInvariant, PTL

(* The result of any executed transfer is one omc_transfer_persist may be  *)
(* given, whichever of the fallible steps ended it.                        *)
THEOREM TransferFitsPersist == Spec => []ResultFitsPersist
  <1>1. IInv => ResultFitsPersist
    BY DEF IInv, ReturnedInv, ResultFitsPersist, Built, Writeback
  <1>2. QED
    BY <1>1, TransferInvariant, PTL

(* The IPTC carrier goes if and only if the source's datasets are gone     *)
(* when execute runs, for every store and every edit after prepare.        *)
THEOREM TransferIptcRemoval == Spec => []IptcRemovalFollowsSource
  <1>1. IInv => IptcRemovalFollowsSource
    BY DEF IInv, ReturnedInv, IptcRemovalFollowsSource, Succeeded, IptcDone
  <1>2. QED
    BY <1>1, TransferInvariant, PTL

(* A removal of an EXIF tag reaches the file and takes no value with it.   *)
THEOREM TransferExifRemoval == Spec => []ExifRemovalIsCarriedOut
  <1>1. IInv => ExifRemovalIsCarriedOut
    BY DEF IInv, ReturnedInv, ExifRemovalIsCarriedOut, Succeeded, ExifDone, HasValue
  <1>2. QED
    BY <1>1, TransferInvariant, PTL

(* Where execute works on the source itself, a deleted dataset suppresses  *)
(* the opaque bytes that still hold it.                                    *)
THEOREM TransferOpaqueUncopied == Spec => []DeletionSuppressesOpaqueUncopied
  <1>1. NoFile.iptc # "opaque"
    BY DEF NoFile
  <1>2. IInv => DeletionSuppressesOpaqueUncopied
    BY <1>1 DEF IInv, ReturnedInv, DeletionSuppressesOpaqueUncopied, DeletionSuppressesOpaque,
                Succeeded, IptcDone
  <1>3. QED
    BY <1>2, TransferInvariant, PTL
=============================================================================
