------------------------------- MODULE Reader -------------------------------
(***************************************************************************)
(* Reading an image into a store: omc_read_source                          *)
(* (src/src/read/omc_read_source.c) over omc_read_run and                  *)
(* omc_read_tiff_source (src/src/read/omc_read.c).  The file is scanned    *)
(* into blocks, the blocks are stored, assembled and decoded one by one,   *)
(* and each decoder's outcome is merged into the result.  Memory is        *)
(* decoded into the caller's store; what a callback delivers is decoded    *)
(* into a copy, which takes the store's place only if nothing was lost.    *)
(* Decoders are external here: each may answer anything it can answer.     *)
(***************************************************************************)
EXTENDS Naturals, Sequences, SequencesExt

CONSTANTS
    Files,      \* what may be read: [format, scan, blocks, embedded]
    BlockCaps   \* room the caller may give for scanned blocks

ASSUME CapsAreNaturals == BlockCaps \subseteq Nat

(* A store is a count of blocks and, of each entry, which one it is from.  *)
NoBlock == 0
Old == [blocks |-> 1, entries |-> <<1, NoBlock>>]

Decoder == {"bmff", "exif", "icc", "iptc", "irb", "jumbf", "xmp", "exr"}
Losses == {"LIMIT", "NOMEM"}

(* What a scan finds: blocks for the decoders of blocks.  A text has none, *)
(* a TIFF is one block; its entries may hold packets for other decoders.   *)
Scanned ==
    [decoder : (Decoder \ {"bmff", "exr"}) \cup {"text", "comment", "none"},
     direct : BOOLEAN, skip : BOOLEAN]
ASSUME FilesAssumption ==
    \A f \in Files :
        /\ f.scan \in {"OK", "UNSUPPORTED", "MALFORMED"}
        /\ f.blocks \in Seq(Scanned) /\ f.embedded \in Seq({"xmp", "icc", "iptc", "irb"})
        /\ f.format = "SIDECAR" => f.blocks = <<>>
        /\ f.format = "TIFF" =>
              Len(f.blocks) <= 1 /\ \A k \in DOMAIN f.blocks : f.blocks[k].decoder = "exif"

VARIABLES
    file, inMemory, cap,        \* the call: its file, its kind, room for blocks
    store, candidate,           \* the caller's store and the copy
    scan,                       \* res.scan: [status, written]
    res,                        \* the status of each decoder, and of "pay"
    status,                     \* res.status: what the reader reports
    scratchShort,               \* value_scratch_needed is not 0
    io,                         \* no read of the callback has failed
    i,                          \* the block being decoded
    embedded,                   \* decoders the entries of a TIFF still call for
    outcomes,                   \* history: <<decoder, status>> of every call made
    pc

call == <<file, inMemory, cap>>
readVars == <<call, store, candidate, scan, res, status, scratchShort, io, i, embedded,
          outcomes, pc>>

(* omc_read_init_res.                                                      *)
FreshRes == [d \in Decoder \cup {"pay"} |-> IF d = "exr" THEN "UNSUPPORTED" ELSE "OK"]

ReadInit ==
    /\ file \in Files /\ inMemory \in BOOLEAN /\ cap \in BlockCaps
    /\ store = Old /\ candidate = Old
    /\ scan = [status |-> "OK", written |-> 0]
    /\ res = FreshRes /\ status = "OK" /\ scratchShort = FALSE /\ io = TRUE
    /\ i = 1 /\ embedded = <<>> /\ outcomes = {} /\ pc = "begin"

-----------------------------------------------------------------------------
(* Merging.                                                                *)
Rank == [OK |-> 0, TRUNCATED |-> 1, UNSUPPORTED |-> 2, MALFORMED |-> 3, LIMIT |-> 4,
         NOMEM |-> 4]

Latest(old, new) == IF new = "OK" THEN old ELSE new   \* mutant: the latest failure wins

(* omc_read_merge_*: the worse status stays, the earlier of equals.        *)
Worse(old, new) == IF Rank[new] > Rank[old] THEN new ELSE old

MergeInto(d, s) == [res EXCEPT ![d] = Worse(@, s)]

Answers(d) ==
    Losses \cup {"OK", "UNSUPPORTED", "MALFORMED"}
    \cup (IF d \in {"exif", "xmp", "pay"} THEN {"TRUNCATED"} ELSE {})

(* The store that is decoded into.                                         *)
Target == IF inMemory THEN store ELSE candidate
Into(s) == IF inMemory THEN store' = s /\ UNCHANGED candidate
           ELSE candidate' = s /\ UNCHANGED store
Added(s, n, block) == [s EXCEPT !.entries = @ \o [k \in 1..n |-> block]]
NewBlock(s) == [s EXCEPT !.blocks = @ + 1]
LastBlock == Target.blocks

-----------------------------------------------------------------------------
(* Arguments, signature and copy.                                          *)
Refused(s) ==
    /\ status' = s /\ pc' = "done"
    /\ UNCHANGED <<call, store, candidate, scan, res, scratchShort, io, i, embedded,
                   outcomes>>

Refuse ==
    /\ pc = "begin"
    /\ \/ \E s \in {"INVALID_ARGUMENT", "IO"} : Refused(s)
       \/ ~inMemory /\ file.format = "TINY" /\ Refused("MALFORMED")
       \/ ~inMemory /\ file.format = "UNKNOWN" /\ Refused("UNSUPPORTED")
       \/ ~inMemory /\ file.format \notin {"TINY", "UNKNOWN"} /\ Refused("LIMIT")

TiffPath == ~inMemory /\ file.format = "TIFF"

Begin ==
    /\ pc = "begin"
    /\ inMemory \/ file.format \notin {"TINY", "UNKNOWN"}
    /\ candidate' = store
    /\ pc' = IF ~inMemory /\ file.format = "EXR" THEN "tail" ELSE "scan"
    /\ UNCHANGED <<call, store, scan, res, status, scratchShort, io, i, embedded, outcomes>>

(* Any read of the callback may be refused or fail; the state keeps the    *)
(* error, and whatever is still called sees its reads fail.                *)
ReadFails ==
    /\ ~inMemory /\ io /\ pc \notin {"begin", "done"}
    /\ io' = FALSE
    /\ UNCHANGED <<call, store, candidate, scan, res, status, scratchShort, i, embedded,
                   outcomes, pc>>

(* omc_scan_sink_emit: more blocks than there is room for are counted only.*)
Scan ==
    /\ pc = "scan"
    /\ scan' = [written |-> IF Len(file.blocks) < cap THEN Len(file.blocks) ELSE cap,
                status |-> IF ~io THEN "MALFORMED"
                           ELSE IF file.scan = "OK" /\ Len(file.blocks) > cap
                           THEN "TRUNCATED" ELSE file.scan]
    /\ pc' = IF TiffPath THEN "block" ELSE "boxes"
    /\ UNCHANGED <<call, store, candidate, res, status, scratchShort, io, i, embedded,
                   outcomes>>

Call(d, s) == outcomes' = outcomes \cup {<<d, s>>}

(* The item tables of BMFF files, which other files lack; a text has not   *)
(* even a box.  UNSUPPORTED is not merged.                                 *)
DecodeBoxes ==
    /\ pc = "boxes" /\ pc' = "native"
    /\ IF ~inMemory /\ file.format \notin {"HEIF", "SIDECAR"}
       THEN UNCHANGED <<store, candidate, res, outcomes>>
       ELSE \E s \in Answers("bmff"), n \in 0..1 :
              /\ file.format # "HEIF" => n = 0
              /\ file.format = "SIDECAR" => s = "OK"
              /\ Into(Added(Target, n, NoBlock))
              /\ res' = IF s = "UNSUPPORTED" THEN res ELSE MergeInto("bmff", s)
              /\ IF s = "UNSUPPORTED" THEN UNCHANGED outcomes ELSE Call("bmff", s)
    /\ UNCHANGED <<call, scan, status, scratchShort, io, i, embedded>>

(* The native fields of RAF and X3F; they make up for a scan that found    *)
(* no container.                                                           *)
DecodeNative ==
    /\ pc = "native" /\ pc' = "block"
    /\ IF file.format # "RAW"
       THEN UNCHANGED <<store, candidate, scan, res, outcomes, scratchShort>>
       ELSE \E s \in Answers("exif"), n \in 0..1, short \in BOOLEAN :
              /\ s = "UNSUPPORTED" => n = 0
              /\ Into(Added(Target, n, NoBlock))
              /\ res' = IF s = "UNSUPPORTED" THEN res ELSE MergeInto("exif", s)
              /\ IF s = "UNSUPPORTED" THEN UNCHANGED outcomes ELSE Call("exif", s)
              /\ scan' = IF n > 0 /\ scan.status = "UNSUPPORTED"
                         THEN [scan EXCEPT !.status = "OK"] ELSE scan
              /\ scratchShort' = (short /\ ~inMemory)
    /\ UNCHANGED <<call, status, io, i, embedded>>

-----------------------------------------------------------------------------
(* The blocks, in the order they were found.                               *)
Block == file.blocks[i]
AtBlock == i <= scan.written

NextBlock == i' = i + 1 /\ pc' = "block"

(* A part of a payload is decoded with the first part; a Canon block only  *)
(* if maker notes are wanted.                                              *)
StoreBlock ==
    /\ pc = "block" /\ AtBlock
    /\ Into(NewBlock(Target))
    /\ IF Block.skip THEN NextBlock
       ELSE pc' = (IF Block.direct THEN "decode" ELSE "assemble") /\ UNCHANGED i
    /\ UNCHANGED <<call, scan, res, status, scratchShort, io, embedded, outcomes>>

Unstored == IF TiffPath THEN {"exif"} ELSE {"exif", "icc", "iptc", "irb", "jumbf", "xmp"}

StoreBlockFails ==
    /\ pc = "block" /\ AtBlock
    /\ res' = [d \in DOMAIN res |-> IF d \in Unstored THEN "NOMEM" ELSE res[d]]
    /\ Call("exif", "NOMEM")
    /\ pc' = IF TiffPath THEN "classify" ELSE "tail"
    /\ UNCHANGED <<call, store, candidate, scan, status, scratchShort, io, i, embedded>>

(* omc_read_block_view: a loss is kept from being outranked.  Maker notes  *)
(* and compressed metadata of unknown kind are assembled and left.         *)
Assemble ==
    /\ pc = "assemble"
    /\ \E s \in Answers("pay") :
          /\ res' = MergeInto("pay", s)
          /\ Call("pay", s)
          /\ status' = IF ~inMemory /\ s \in Losses \cup {"TRUNCATED"} THEN "LIMIT" ELSE status
          /\ IF s = "OK" /\ Block.decoder # "none" THEN pc' = "decode" /\ UNCHANGED i
             ELSE NextBlock
    /\ UNCHANGED <<call, store, candidate, scan, scratchShort, io, embedded>>

(* A TIFF that is the whole file is the only one whose embedded XMP, ICC,  *)
(* IPTC and Photoshop entries are decoded in turn.  A block that a scan    *)
(* found lies in the file: the check before the decoder is entered with a  *)
(* callback source, which would assign MALFORMED over what was merged so   *)
(* far (omc_read.c 1617), never fails.                                     *)
WholeTiff == file.format = "TIFF"

DecodeBlock ==
    /\ pc = "decode" /\ Block.decoder \in Decoder
    /\ \E s \in Answers(Block.decoder), n \in 0..1, short \in BOOLEAN :
          /\ Into(Added(Target, n, LastBlock))
          /\ res' = IF TiffPath THEN [res EXCEPT !.exif = s] ELSE MergeInto(Block.decoder, s)
          /\ Call(Block.decoder, s)
          /\ scratchShort' = (scratchShort \/ (short /\ Block.direct /\ ~inMemory))
          /\ embedded' = IF WholeTiff /\ s \in {"OK", "TRUNCATED"} THEN file.embedded ELSE <<>>
    /\ pc' = "embedded"
    /\ UNCHANGED <<call, scan, status, io, i>>

DecodeEmbedded ==
    /\ pc = "embedded"
    /\ IF embedded = <<>>
       THEN NextBlock /\ UNCHANGED <<store, candidate, res, embedded, outcomes>>
       ELSE \E s \in Answers(Head(embedded)), n \in 0..1 :
              /\ Into(Added(Target, n, LastBlock))
              /\ res' = MergeInto(Head(embedded), s)
              /\ Call(Head(embedded), s)
              /\ embedded' = Tail(embedded)
              /\ UNCHANGED <<i, pc>>
    /\ UNCHANGED <<call, scan, status, scratchShort, io>>

(* Comments and PNG texts become entries if there is room, and no failure  *)
(* is reported if there is not.  The chunk of a text must fit the scratch. *)
EmitText ==
    /\ pc = "decode" /\ Block.decoder \in {"comment", "text"}
    /\ \/ /\ \E n \in 0..1 : /\ Into(Added(Target, n, LastBlock))
                             /\ Call("text", IF n = 0 THEN "NOMEM" ELSE "OK")
          /\ UNCHANGED <<status, scratchShort>>
       \/ /\ ~inMemory /\ Block.decoder = "text"
          /\ status' = "LIMIT" /\ scratchShort' = TRUE
          /\ UNCHANGED <<store, candidate, outcomes>>
    /\ NextBlock
    /\ UNCHANGED <<call, scan, res, io, embedded>>

-----------------------------------------------------------------------------
(* After the blocks: text in memory that looks like XMP, then OpenEXR.     *)
AfterBlocks == pc = "block" /\ ~AtBlock

FinishTiff ==
    /\ AfterBlocks /\ TiffPath /\ pc' = "classify"
    /\ UNCHANGED <<call, store, candidate, scan, res, status, scratchShort, io, i, embedded,
                   outcomes>>

LooksLikeXmp == inMemory /\ scan.written = 0 /\ file.format = "SIDECAR"

DecodeLooseXmp ==
    /\ AfterBlocks /\ ~TiffPath /\ pc' = "tail"
    /\ IF ~LooksLikeXmp
       THEN UNCHANGED <<store, candidate, res, outcomes>>
       ELSE \/ /\ \E s \in Answers("xmp"), n \in 0..1 :
                     /\ Into(Added(NewBlock(Target), n, Target.blocks + 1))
                     /\ res' = MergeInto("xmp", s)
                     /\ Call("xmp", s)
            \/ /\ res' = [res EXCEPT !.xmp = "NOMEM"] /\ Call("xmp", "NOMEM")
               /\ UNCHANGED <<store, candidate>>
    /\ UNCHANGED <<call, scan, status, scratchShort, io, i, embedded>>

DecodeExr ==
    /\ pc = "tail" /\ pc' = "sidecar"
    /\ IF ~inMemory /\ file.format # "EXR"
       THEN UNCHANGED <<store, candidate, scan, res, scratchShort, outcomes>>
       ELSE \E s \in (IF file.format = "EXR" THEN Answers("exr") ELSE {"UNSUPPORTED"}),
               n \in 0..1, short \in BOOLEAN :
              /\ s = "UNSUPPORTED" => n = 0 /\ ~short
              /\ Into(Added(Target, n, NoBlock))
              /\ res' = [res EXCEPT !.exr = s]
              /\ Call("exr", s)
              /\ scratchShort' = (short /\ ~inMemory)
              /\ scan' = IF ~inMemory /\ s \in {"UNSUPPORTED", "MALFORMED"}
                         THEN [scan EXCEPT !.status = s] ELSE scan
    /\ UNCHANGED <<call, status, io, i, embedded>>

(* A callback whose text is no container: the packet is read as a whole    *)
(* and decoded from memory, with a result of its own; a text that is no    *)
(* packet gets no block.                                                   *)
ReadsSidecar ==
    ~inMemory /\ io /\ file.format = "SIDECAR" /\ scan.status = "UNSUPPORTED"

DecodeSidecar ==
    /\ pc = "sidecar" /\ pc' = "classify"
    /\ \/ /\ UNCHANGED <<candidate, scan, res, status, scratchShort, outcomes>>
       \/ /\ ReadsSidecar
          /\ status' = "LIMIT" /\ scratchShort' \in BOOLEAN
          /\ UNCHANGED <<candidate, scan, res, outcomes>>
       \/ /\ ReadsSidecar
          /\ \E s \in Answers("xmp"), n \in 0..1, stored \in BOOLEAN :
                /\ ~stored => s \in {"OK", "NOMEM"} /\ n = 0
                /\ candidate' = IF stored THEN Added(NewBlock(candidate), n, candidate.blocks + 1)
                                ELSE candidate
                /\ res' = [FreshRes EXCEPT !.xmp = s]
                /\ Call("xmp", s)
                /\ scan' = IF s = "OK" /\ stored THEN [scan EXCEPT !.status = "OK"] ELSE scan
                /\ status' = IF s = "MALFORMED" THEN s ELSE status
          /\ UNCHANGED scratchShort
    /\ UNCHANGED <<call, store, io, i, embedded>>

-----------------------------------------------------------------------------
(* The verdict, and the exchange of the stores.                            *)
Verdict ==
    IF inMemory THEN "OK"
    ELSE IF ~io THEN "IO"
    ELSE IF \/ status = "LIMIT" \/ scratchShort
            \/ \E d \in DOMAIN res : res[d] \in Losses
            \/ res.pay = "TRUNCATED" THEN "LIMIT"
    ELSE IF scan.status \in {"UNSUPPORTED", "MALFORMED"} THEN scan.status
    ELSE status

PublishedUnlessIo(s) == s # "IO"     \* mutant: only a failed read leaves the store alone
Published(s) == s = "OK"

Publish ==
    /\ pc = "classify" /\ pc' = "done"
    /\ status' = Verdict
    /\ store' = IF ~inMemory /\ Published(Verdict) THEN candidate ELSE store
    /\ UNCHANGED <<call, candidate, scan, res, scratchShort, io, i, embedded, outcomes>>

ReadNext ==
    \/ Refuse \/ Begin \/ ReadFails \/ Scan \/ DecodeBoxes \/ DecodeNative
    \/ StoreBlock \/ StoreBlockFails \/ Assemble \/ DecodeBlock \/ DecodeEmbedded
    \/ EmitText \/ FinishTiff \/ DecodeLooseXmp \/ DecodeExr \/ DecodeSidecar \/ Publish

ReadSpec == ReadInit /\ [][ReadNext]_readVars

-----------------------------------------------------------------------------
Done == pc = "done"

(* However a read ends, what the store held keeps its place and its ids,   *)
(* and what was added names blocks that were added with it.  A callback    *)
(* that is not reported read to its end leaves the store as it was.        *)
StoreKept ==
    /\ store.blocks >= Old.blocks
    /\ IsPrefix(Old.entries, store.entries)
    /\ \A k \in (Len(Old.entries) + 1) .. Len(store.entries) :
          store.entries[k] \in {NoBlock} \cup (Old.blocks + 1) .. store.blocks
    /\ ~inMemory /\ ~(Done /\ status = "OK") => store = Old

(* No failure of a decoder is forgotten: its status is at least as bad as  *)
(* the worst of its answers, whatever came after.  So no store takes the   *)
(* old one's place once a decoder or the assembly of a payload ran out of  *)
(* room or memory, or a read failed.                                       *)
FailuresAreReported ==
    Done =>
        /\ \A o \in outcomes : o[1] # "text" => Rank[res[o[1]]] >= Rank[o[2]]
        /\ ~inMemory /\ status = "OK" =>
              /\ io /\ ~scratchShort
              /\ \A o \in outcomes :
                    o[1] # "text" => o[2] \notin Losses /\ o # <<"pay", "TRUNCATED">>

(* "Callback I/O, capacity and allocation failure leaves the store         *)
(* unchanged" (src/src/omc/omc_read_source.h:58): a store that is          *)
(* published holds all the blocks of the scan, all the directories and all *)
(* the texts.                                                              *)
CapacityFailureKeepsStore ==
    Done /\ ~inMemory /\ status = "OK" =>
        /\ scan.status # "TRUNCATED"
        /\ \A o \in outcomes : o \notin {<<"exif", "TRUNCATED">>, <<"text", "NOMEM">>}
=============================================================================
