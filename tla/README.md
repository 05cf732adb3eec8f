# OpenMeta-c in TLA+

OpenMeta-c is a C89 library that reads metadata out of image files into a
*store*, edits stores, translates between metadata families and transfers a
store into another image file. It has no threads and starts none; what makes
it hard is memory that moves under borrowed pointers, calls that may fail at
every allocation and must then have done nothing, host callbacks that do not
keep their contract, a store the client may change between two calls of one
operation, and files that other processes change.

Every definition that models code is listed in `PROJECT.json` under `map` with
the lines it translates.

## The system

| Component | State it keeps | Operations | Hard behaviour | Correct when |
|---|---|---|---|---|
| Arena (`base/omc_arena.c`) | block, size, capacity, retired blocks | reserve, append, view, view_mut, reset, fini | growth moves the bytes while views and append sources point into the old block; malloc fails between two allocations; 32-bit references | it is an append-only log: references and views stay valid until reset; no leak, no double free |
| Store (`core/omc_store.c`, `omc_val.c`) | blocks, entries, an arena | add block/entry, reserve, copies | ids are positions; capacity limits | ids never change but by compaction |
| Edit (`core/omc_edit.c`) | recorded operations, an arena | add, set value, tombstone, mark dirty, commit, compact | half-built candidate on failure; operations that name entries added by the same edit | commit is all or nothing and does, per entry, what the operations say |
| Source and input (`base/omc_source.c`, `read/omc_input.c`) | budgets spent, first failure, window, input cache | exact read, view, input read, slice | callbacks that fall short or fail; read-ahead; two caches | every byte answered is the source's; budgets hold over all reads; the first failure is final |
| Source reader (`read/omc_read_source.c`, `omc_read.c`) | candidate store, one status per decoder | read from memory, read from a callback | failure of one of nine decoders at any block, merged with what comes later | callback sources publish on success only; no failure is outranked; old ids stay |
| Payload extraction (`read/omc_pay.c`) | needed/written counters | extract, inflate, brotli | output limits, chunks out of order | counters agree with the status |
| EXIF decoder (`read/omc_exif.c`) | queue of directories, visited offsets, counts | one decode per block | directories are a graph, with cycles; maker notes hold graphs of their own | it ends, within arrays and budgets, having decoded all that is reachable or saying that it has not |
| Scan and other decoders (`read/*.c`) | cursors, budgets | one scan per file, one decode per block | nesting depth, layout | see "What is not modelled" |
| Native edit intent (`edit/omc_native_edit.c`) | lists of removals | collect, validate | made at one time and used at another | see transfer |
| Transfer (`edit/omc_transfer.c`) | bundle, executor, private arenas, result | prepare, compile, execute; payload and package batches | source store edited between the calls; copies that lose tombstones; six fallible steps in order | outputs whole or untouched; deletions reach the file |
| Persist (`edit/omc_transfer_persist.c`) | result, message arena | persist | short writes, other processes, crashes | what is reported is on disk; files not to be touched are kept |
| Translation (`edit/omc_translation*.c`) | one edit, counts, datasets taken over | translate XMP to native, XMP to IPTC, IPTC to XMP, dates, GPS, EXIF text | conflicts with what is there, deletions that stand for intent, text of another character set, failure after some groups, two calls that undo each other by different rules of order | all groups or none, exactly what the sources say, nothing to do the second time, and the way back restores |
| Metadata patch (`edit/omc_metadata_patch.c`) | plan, instances, slots | prepare, create instance, apply, replay | batch validated then applied; aliasing | a batch applies as a whole |
| Writers (`edit/omc_exif_*.c`, `omc_xmp_*.c`, `omc_bmff_rewrite.c`, ...) | none | rewrite bytes | layout | out of scope but for their outcomes |

How they interact: a store, an edit and every output own an arena; `commit`
clones values from the arenas of base and edit into the candidate's. Decoders
read through inputs over a source and fill a store. Translation records an edit
and commits it. Transfer borrows a store across three calls and clones it where
it merges XMP or filters entries; persist takes the transfer's result and
arenas. All interaction is by calls and borrowed pointers, so the interleavings
are those of a client's calls, of failures inside them, of other processes on
the file system and of the host's callback.

## Modules

| Module | What it is |
|---|---|
| `ArenaLog` | abstract: an append-only log with references and lent ranges |
| `Arena` | the arena with heap blocks, growth and retirement; `ImplementsLog` maps it to `ArenaLog` |
| `StoreLedger` | abstract: what `omc_edit.h` promises of commit and compact, per entry |
| `StoreCommit` | edit, commit and compaction, one step per allocation, entry and operation; `ImplementsLedger` maps it to `StoreLedger` |
| `StoreProofs` | the invariants of `StoreCommit` and of `Arena`, their refinements and the action property proved |
| `Source` | exact reads, the view window, inputs and slices over one budgeted state |
| `Persist` | `omc_transfer_persist`, one step per file-system call |
| `Transfer` | prepare, compile, and execute as its fallible steps |
| `PersistProofs`, `TransferProofs` | the invariants of these two proved |
| `MetadataPatch` | plans, instances, and apply, one step per update checked and written |
| `IfdWalk` | the EXIF decoder's walk over directories, with child walks of maker notes |
| `IfdWalkProofs` | its safety invariants proved |
| `Reader` | reading a file into a store, one step per scan, block, decoder call and verdict; the scan and the decoders are outcomes |
| `ReadProofs` | the properties of `Source` and of `Reader` proved |
| `Translation` | `omc_translate_xmp`, one step per group; what its commit does is `StoreLedger`'s |
| `IptcExchange` | `Translation` and the three calls between XMP and IPTC beside it, and a client that goes back with the result |
| `ExifTranslation` | `IptcExchange` and the calls from XMP to GPS and to EXIF texts beside it |
| `TranslationLemmas` | what operations do to a store, and that the plans of EXIF texts and GPS keep what they promise, proved |
| `TranslationProofs` | the same of the calls between XMP and IPTC and of `omc_translate_xmp`, and the inductive invariant of all ten calls, proved |
| `Pay` | extraction of a payload from the blocks of its stream, one step per part, sub-block or library call |
| `PayloadProofs` | the invariants of `MetadataPatch` and of `Pay` proved, over common lemmas about payloads that are joined from pieces |
| `MC*` | the constants of the model-checking runs |

### State and actions against the code

*Arena.* `data`, `size`, `capacity`, `retired` are the struct's fields; `heap`
holds the content of every block malloc returned and free did not take, with
`Junk` for bytes nobody wrote, so that use of freed or unwritten memory is
visible. `views` are the pointers clients borrowed since the last reset.
`ArenaAppend` reads its source after growth, as the `memcpy` does, and the
source may be one of these views. Every malloc may fail and may return any free
block. `Patch` is a write through `omc_arena_view_mut`; its guard, that no lent
range is touched, is what the callers do.

*StoreCommit.* `Record` stands for the four recording calls (none checks its
target), `Fill` for a decoder filling a store, `Adopt` for the client that goes
on with the result. `StartCommit` to `OpsApplied` are the phases of
`omc_edit_build` and `omc_edit_commit`; every allocation may fail. Values are
whole or of malformed shape (what `omc_value_shape_valid` rejects).

*Source.* Byte *i* of the source is the number *i*, so a byte at the wrong
place is visible; a failed read leaves `Garbage` in its destination. The
callback reports any code with any count up to one more than asked, or an
unknown code. `ExactRead`, `ReadView`, `InputRead` share the state as the
decoders do; `Slice` and `Unslice` are a nested decoder starting and returning.
The caller of `ExactRead` and `ReadView` uses the range of the whole source;
ranges inside it are exercised through slices.

*Persist.* One action per call on the file system and per message, which may
find no memory. `Interfere` is another process changing a file by name;
`Crash` may come between any two steps. `hidden` paths can be written and not
read, which the existence check takes for absent. `Calls` are the combinations
of transfer results and options a program can make, those of failed transfers
with an earlier transfer's sidecar bytes included; options the code does not
look at in a combination are left at one value.

*Transfer.* The store is abstracted to one removable EXIF tag, the IPTC
datasets by lifecycle (clean, dirty, deleted), an opaque Photoshop IPTC
resource, an ICC profile, and one tag that describes the source image;
`EditSource` is the client committing edits to the store it lent, between
compile and execute (compile does not read the store). `Execute` to `Publish`
are the phases of `omc_transfer_execute` and its `_impl`; `view` is the store
they work on, the source or a copy that `LiveEntries` has stripped of its
tombstones. Container rewriters are atomic: they deliver an edited file, a
transfer status or `NO_MEMORY`.

*MetadataPatch.* A payload is a sequence of cells: those the serialisers write
around a value, and its characters, one of which XMP escapes by two. `Prepare`
binds each request by the code's search (`ExifOffset`, `XmpOffset`); `places`
remembers where the serialiser really put the entry. The EXIF payload may be
lost, as the status of the serialiser's second pass is not looked at.
`CheckUpdate` and `WriteUpdate` are the two loops of apply; an update that has
not been checked is not chosen yet. The text of an update may lie in the
instance's own payload. Handles are numbers, a plan id and an index, and any
number may be presented.

*IfdWalk.* A file is a graph: offsets, each with a directory's entries and the
link to the next one; a directory may lie outside the file, or its count in it
and its entries not. `tasks`, `visited`, `next` and `res` are the decoder's
queue, its array of visited offsets with their kinds (used for callback sources
only: in memory nothing is remembered and only budgets end a cycle), the
indexes it gives out and its result. `EnterDirectory` is `omc_exif_process_ifd`
up to its loop, `PlainEntry`, `PointerEntry` and `NoteEntry` the loop's body (the targets of a
pointer are queued one at a time, `PushTarget`, until one is refused,
`TargetsQueued`),
`LeaveDirectory` the link that ends it. A maker note with directories is walked
by a child context, with its own queue; `outer` is the parent that waits, and
`LeaveChild` what it takes over. A read of the source may fail at any step
(`SourceFails`), memory for names and values may run out at any entry
(`NoRoom`). `walk` is a history.

*Reader.* One read, of memory into the client's store itself (`omc_read_simple`) or
through a callback into a candidate. The scan's answer is the file's list of
blocks up to the room for them; the assembly of a payload and each decoder
answer with any status they can have and any entries, few or none. The merges
of statuses, the order of decoders, the paths of TIFF, OpenEXR and text files,
and the verdict are the code's. `outcomes` is a history of every answer.
`ReadFails` may come at any step: the source keeps its error and what runs
later fails. The decoders' own behaviour is `IfdWalk`'s and `Pay`'s, their
reads `Source`'s.

*Translation.* `Mapping` lists the 22 groups in the order of their bits. A value
is a tuple: a text, or the parts of a date after parsing; what cannot be parsed is
a set of strings. `Found` to `Inspected` are the search for sources and their
inspection within the budget of texts, `Reconcile` the comparison with native
entries under the three conflict policies and the operations it records,
deletion intents included, `Charset` the marker of IPTC's character set.
`Commit` takes the store from `StoreLedger`'s `Edited`, `Adopt` makes the same
call again on the result. Any allocation may fail. Options the call rejects at
once are left out.

*IptcExchange.* Extends `Translation` by the calls that plan everything before
they record anything. `ToIptc`, `ToXmp` and `ToXmpDates` are their planning:
`Collected`, `Compared`, `Declared` and so on are their loops, each a sequence
of verdicts in the order the code comes to them, of which the first that is not
OK ends the call. `Commit`, `AllocFails` and `Adopt` are shared with
`Translation` (`Shared`); the dates call copies the store and applies its two
actions itself, which comes to the same for whole values. A key carries its
block, since text is marked, ordered and paired by block. `TurnBack` is a client
that makes the opposite call on the result; `trip` remembers what it started
from. Budgets of text are counted in texts; `LIMIT` stands for the calls'
separate limit statuses; damaged flags and wrong kinds of value are unparsable
text, and an allocation that fails does so before or after planning, as nothing can be seen
of planning in between. Urgency as a number is left out.

*ExifTranslation.* Extends `IptcExchange` by the five GPS calls (`ToGps`) and the
call for EXIF texts (`ToExifText`), which plan before they record anything too.
`GpsGroups` is their tables. `omc_translate_xmp_gps` and the other four
(`gg_translate`, `gg_apply`) are two implementations of one plan: where they
differ, in when texts are measured, in which versions are known and in when the version
goes, the definitions ask for `opts.api`. `GpsRemoved`, `GpsRest`, `VersionGoes`
and `VersionChanges` are the version all members share. Texts: `TextsScanned` is
the scan, `Weighed` and `Crossed` the checks against the version that will
hold, `Encoded` what a comment becomes under it. A value is the word it is read as:
native values in another byte order, reduced or padded are the same word.

*Pay.* One call of `omc_pay_ext_input`; `Begin` is all it decides before bytes
move (`ExtStatus` and `SeqStatus` are its two ways of sorting and checking
parts), `CopyPart`, `GifStep` and `Inflate` are the bodies of its loops, and any
read may fail. What the decompression library returns is nondeterministic: any
number of bytes up to the room given, the end of the stream with the last byte
or only on a later call. `Payload` says without steps what the blocks describe.

## Runs

| Run | Bounds | What it shows |
|---|---|---|
| `arena` | 3 heap addresses, references to 3, sizes to 4, 4 byte strings, 1 view | `OwnsItsBlocks`, `BytesInUseWritten`, `ViewsStayReadable`, and the refinement `ImplementsLog`: results and bytes are the log's, whatever malloc does |
| `store_commit` | 2 keys, 2 good values and a malformed one, 2 entries, 2 operations | `CandidateKeepsIds`, `OutWellFormed`, `IdsAreStable`, and the refinement `ImplementsLedger`: failures change nothing, success does what the per-entry contract says |
| `source` | 3 bytes, window 2, cache 2, three budgets, slices two deep | `BudgetsHold`, `AnswersAreTrue`, `CachesAreTrue`, `FailureIsFinal`, `ReadAheadIsFree` |
| `persist` | an image and a sidecar name, one change by others per call, every option | `ReportsMatchDisk`, `KeepsUnlessTold`, `OldSidecarOutlivesOldImage` |
| `transfer` | every store with up to two IPTC lifecycles, six formats, every option | `ResultFitsPersist`, `IptcRemovalFollowsSource`, `ExifRemovalIsCarriedOut`, `DeletionSuppressesOpaqueUncopied` |
| `transfer_opaque` | as `transfer` | `DeletionSuppressesOpaque` is **violated**, see below |
| `metadata_patch` | 2 EXIF tags, 2 XMP properties of which one name begins with the other's, 3 stores, 2 plans, batches of 2, every handle | `BatchIsWhole`, `ForeignHandlesRefused`, `UnmistakableIsBound`: a value that occurs once in the payload is bound where its entry was serialised |
| `pay` | a file of 6 bytes; 1 to 3 blocks of every kind in every order, some empty, capacities 0 to 7, limits 2 to 7, streams of up to 4 bytes | `AnswerIsPayload`, `LimitHolds` |
| `ifd_walk` | every graph of two directories of at most one entry, and 28 larger ones; a queue of 3, memory and callback sources, tight and loose budgets | `OkMeansClosed`: success means that all that is reachable was decoded; `DirectoriesAreDistinct`; `WalkEnds`: every walk comes to its end |
| `reader` | 13 files of every format, room for 0 to 2 blocks, memory and callback | `StoreKept`, `FailuresAreReported` |
| `reader_capacity` | as `reader` | `CapacityFailureKeepsStore` is **violated**, see below |
| `translation` | some 110 000 calls: every way a source was edited against every state of its destinations; IPTC in two blocks, in none and in one that is not there, markers absent, right, wrong and double; GPS members beside versions absent, known, unknown and double; EXIF texts and comments in every encoding under old and new versions; three conflict policies, four maxima made tight in turn, and the calls that go back | `TranslatedOrNone`, `RepeatChangesNothing`, `ReturnRestores`: going back restores what was carried over |

Why the bounds are enough. Three heap addresses hold a current and two retired
blocks, so the arena grows twice under one view; with references up to 3 and a
chunk of 4 cells the overflow happens, with the last doubling past `MaxSize`
the exact growth. Two operations on two entries make an operation name an entry
added before it, one added after it and one out of range, and a second commit
meets the tombstones of the first. A window shorter than the source and the
read-ahead makes every clamp bind; three requests and four bytes reach the
counters' widths. One foreign change per call is enough to hit each window
between a check and its use. Two IPTC lifecycles at once are what the
decisions on IPTC tell apart (any live, any dirty, any deleted). Two updates in
a batch are the least that overlap, repeat a handle, or borrow bytes the other
writes; two plans the least that have foreign handles. One instance is enough:
instances share nothing once copied. Three parts leave a gap, overlap, repeat
and permute; capacities and limits lie below, at and above the sizes of the
payloads, and a stream of exactly the limit is among them. Two directories that
name each other and themselves in every way make every cycle of length one and
two; the larger files add what two cannot: shared nodes under three kinds of
pointer, lists longer than the queue, visited sets that fill up, broken
directories and values, cycles inside a maker note. Two blocks that a scan finds
are the least of which one may not fit, and of which the second may outrank or
hide what the first did. One or two groups speak in each store of `translation`;
groups meet only through the entries they share, the limits, and the marker, and
the stores have groups that share sources (two dates from one property), keys
(none do) and the marker (title and creators). Two creators in order and out of
order, over one block and two, are the least whose order a way back can lose.
GPS groups meet through the version: one that is written beside one that is
deleted, with and without members of a third kind, are all the ways it can come
and go; a title, a comment and a version are all that EXIF texts can disagree about. One
dataset that no group knows (2:7) stands for all a new marker must not speak of.

Each property is also checked against a plausible bug in the code it speaks
of: the operators marked `mutant` stand next to the definition they replace, and
`PROJECT.json` says which property finds which.

Deadlock is not checked: the library stops between calls, with bounds of the
model reached (`MaxOps`, `MaxViews`, counters at their width) or nothing left
that a client wants.

Fairness. `IfdWalk` assumes weak fairness of its next-state relation as a whole:
the decoder is a loop in one thread, which the caller has entered and which
waits for nothing, so while a step is possible one is taken; no action is
favoured over another. That is enough for `WalkEnds`, since every cycle of the
graph is cut by the visited set or a budget. Without the budgets, or with
directories below Exif not counted, it fails. No other module assumes fairness
or states liveness: each of their calls is a fixed number of bounded loops and
the client owes no further call.

## The disagreements found

### Opaque IPTC comes back

`authoring.md` 565-567 and a comment in `omc_transfer_build_iptc_iim` say that
any dirty native IPTC entry, deletion included, suppresses clean opaque
Photoshop bytes (resource 0x0404). The function looks for dirty entries in the
store execute works on. When existing XMP is merged, or a target-dependent tag
filtered, that is a copy without deleted entries: with one dataset deleted and
another clean and alive, no dirty entry is left, the opaque bytes win, and the
deleted dataset is written into the target. Run `transfer_opaque` shows the
steps. A C program that runs prepare, compile and execute on such a store and a
minimal JPEG writes the remaining dataset without a merge and the opaque bytes
with one. Removal of the whole carrier is not affected: it is decided on the
source at prepare and checked again at execute (`IptcRemovalFollowsSource`).

### A capacity failure replaces the store

`omc_read_source.h` 58 says that callback I/O, capacity and allocation failure
leaves the store unchanged, and `positional_input.md` 49-51 says the same of the
candidate store. The verdict (`omc_read_source.c` 146-169) looks at what ran
out of memory or over a limit and at truncated payloads, not at a truncated scan or
a truncated list of directories, and texts that find no room are dropped without
a status (`omc_read.c` 1890, 1906). Run `reader_capacity` shows the steps. A C
program that reads a PNG with two text chunks through a callback with room for
one block, or for none, or a TIFF of two directories with room for one, gets status
OK and the partial store in place of the old one. What holds is `FailuresAreReported`.

### What the properties leave out

Narrower than one might expect, and stated so in the properties: persisting a
failed transfer with `write_output = 0` writes the sidecar bytes it is given if
the failed transfer's dump had gone well (`KeepsUnlessTold` speaks of failed
transfers with `write_output = 1`); a file that exists but cannot be read counts as
absent (`KeepsUnlessTold` excludes hidden paths); an output path that is itself
the name of the sidecar is overwritten by it (`ReportsMatchDisk` excludes it); a client
that gives two plans one id gets handles of the one accepted for the other, and
the default id is 1 (`ForeignHandlesRefused` compares numbers, as the code
does).

A slot of a metadata patch is found by searching the payload for the bytes of a
value. With two tags of equal value the request for the second is bound to the
first: a C program with Orientation and ResolutionUnit both 6 applies 3 and 2
to them and has Orientation 2 and ResolutionUnit 6 in the payload. The
repository lists exact binding of repeated values as open (`authoring.md`
387-388), so this is a limit and no disagreement; `UnmistakableIsBound` is what
holds, and `BatchIsWhole` speaks of slots wherever they are.

Seen on the way and too small for a run of their own: a malformed standalone XMP text
sets the status MALFORMED (`omc_read_source.c` 142) and the verdict then says
UNSUPPORTED (168); the translation of a result may answer LIMIT where the first call did not, if the natives it only has to compare exceed `max_operations`
(`AgainChangesNothing`, which `RepeatChangesNothing` rests on, allows it). Between XMP and IPTC, `ReturnRestores` allows
what the two directions decide by different rules: over several blocks repeated
values may come back in another order (natives are compared by order and id, read
back by block, order and id); text marked in one block is not marked in another,
and coming back from there is refused; so is a date whose time went to another
block. A deleted time without a date is refused on the way back as incomplete, and
`Z` comes back as `+00:00`, which is a conflict under `FAIL`. `omc_translate_xmp`
counts an edited deletion beside a value added later as two sources (ambiguous),
where the other calls look at live values only. A failing `omc_translate_xmp_iptc`
reports the groups it had compared, and so do the GPS calls; the others report
nothing. With `PRESERVE`, EXIF texts are encoded for the version the source asks for even
where the native version is kept (`VersionKept`, which `TextsStand` leaves out); a native text of the wrong wire type gets a new
value and keeps its type, and so is written again by every call.

An edit recorded before a compaction addresses other entries after it, since
compaction renumbers them (`omc_edit.c` 573); the code documents no check and makes
none, and no property speaks of it.

### An EXIF version moves away from its texts

This disagreement and the next have no run of their own; `TranslatedOrNone` leaves
them out by name, `VersionCrossed` and `VersionDropped`, and without these names TLC
finds it violated.

`authoring.md` 400-402 says that EXIF 3 comments are UTF-8 and those of older
versions UTF-16, and that titles need 0300. `omc_translate_xmp_exif_text` keeps to
this for every text it writes, unless it preserves the version. But it takes a native comment for unchanged in
either encoding (`omc_translation_exif_text.c` 359-370, 644-647), and the guard
against a version that crosses 0300 (670-677) looks neither at comments XMP speaks
of, nor at titles, nor at anything if the store had no valid version. A C program
gets status OK, with `REPLACE`, for each of three:

- native 0232, a UTF-16 comment, and XMP that says the same comment and 0300: the
  result has 0300 over the UTF-16 comment;
- native 0300, a title, and XMP that says 0232: the result has the title under 0232;
- no native version, a UTF-16 comment, and XMP that says 0300 alone: the result has
  0300 over the UTF-16 comment.

Outside `VersionCrossed` and `VersionKept` the rule holds: if all texts agreed with their
version before (`TextsAgree`), they do after, those the call did not write included.

### A GPS version is lost

When one call of navigation, destination, quality or text deletes the last GPS
members there were and writes others, `gg_apply`
(`omc_translation_gps_groups.c` 1154) marks `GPSVersionID` for removal, since no
*old* member remains, and adds none, since there was one: the result has GPS
members without a version. `authoring.md` says that the "implementation injects
GPSVersionID `2.3.0.0` for every active group" (354-355) and that "version cleanup
is structural, after the last non-version member disappears" (365-366).
`omc_translate_xmp_gps` asks for `need_version` at this place
(`omc_translation_gps.c` 677) and keeps it. A C program with a version, a native
GPSHPositioningError, its deletion in XMP and an edited GPSDOP gets status OK and
no live version. The same call on that result adds one, and that alone
(`PutsVersionBack`) `RepeatChangesNothing` allows it to do.

## Proofs

All theorems hold for every value of the constants, under assumptions named in
the module that declares them:

| Module | Assumptions |
|---|---|
| `Arena` | `BlockAssumption`, `CellAssumption`, `SizeAssumption`: the null pointer is no block, junk is no byte, limits are naturals and references not wider than sizes |
| `StoreCommit` | `ValueAssumption`, `BoundAssumption`: malformed values are values, bounds are naturals |
| `Source` | `SizesAreNaturals`, `LimitsAreBudgets`, `GarbageIsNoByte` |
| `Persist` | `PathAssumption`, `ForeignAssumption`: paths are not the absent one, what others write is nothing this program writes |
| `Transfer` | `SourcesAreStores`, `OptionsAreOptions` |
| `IfdWalk` | `OffsetAssumption`, `CapAssumption`, `JobsAssumption`, `FilesAssumption`: offsets and caps are naturals, files are finite graphs over the offsets |
| `Reader` | `CapsAreNaturals`, `FilesAssumption` |
| `MetadataPatch` | `TagAssumption`, `FrameAssumption`: the serialiser has an order of tags without repeats and writes something before every value; `WorkerAssumption`, `PlanAssumption`, `LimitAssumption`: some instance, plan ids from 1, fewer requests than a plan's span of handles; `DataAssumption`: stores, requests and values of their types |
| `Translation` | `SourcesAssumption`, `DatasetsAssumption`, `PaddingIsNoText`: the datasets the groups know are datasets; stores are sequences of whole entries, with natural numbers for blocks and wire types; the NULs that comparing two EXIF values strips from their ends are neither the UTF-8 marker nor a text beyond ASCII |
| `IptcExchange` | `ExchangedDatasetsAssumption`, `NoBlockIsNatural`: so are those of the exchange; the id that stands for no block is a number |
| `ExifTranslation` | `SpellingAssumption`, `VersionsAssumption`, `OptionsAssumption`: none of the GPS digits and versions is padding, and a height (0 or 1) has one spelling; the absent version is no version, and those from 0300 on are neither padding nor unparsable; a call selects groups that it has |
| `Pay` | `FileAssumption`, `ScratchAssumption`, `CallsAssumption`: a file of bytes not longer than `MaxU64`, room for a byte to inflate, calls of their type |

*StoreProofs: Arena.* `ArenaInv` is the conjunction of `ArenaTypes`, `OwnsItsBlocks`,
`BytesInUseWritten` and `ViewsStayReadable`; none is inductive alone. A view
stays readable across growth because its block is on the retired list and
retired blocks are not freed before reset (ownership), and its bytes agree
with the current block's because growth copied them (bytes in use). The proof
has one lemma per operation and a case for each way an append goes. From
`ArenaInv`, `ArenaImplementsLog` proves the refinement: initial states map to
initial states and every step to a step of the log, a growing append of a
borrowed view being the case that needs `ViewsStayReadable`.

*StoreProofs: StoreCommit.* `IInv` adds to the invariants the loop bounds (how far the
copy has got) and that no candidate holds a malformed value at any moment;
`OutWellFormed` and `CandidateKeepsIds` follow step by step, and
`CommitIdsAreStable`, the action property, from the candidate's invariant at
the publishing step. The refinement `CommitImplementsLedger` needs `Link` beside
`IInv`: while a commit applies its operations, entry `i` of the candidate is
`EditedBy(done, i)`, the ledger's `Edited` restricted to the operations applied so
far; while a compaction copies, live entry `i` stands at its rank among the live
ones. An operation adds one to what `Reaching` sees of the entries it names and
nothing to the others (`ReachingNext`); an added entry has an id no operation before it
could reach (`JustAdded`), because additions are told apart by how many precede
them (`AddsInOrder`).

*ReadProofs: Source.* `IInv`: counters within the budgets, the window and the cache of
every input on the stack true to the source, the last answer true, and slices
nested in each other and in the source. The last part is what makes the rest
inductive: a cached byte is addressed relative to a slice, and only because the slice
lies in the source does it name a byte. `GoodRead` says what an exact read
delivers for any answer of the callback; every reader is proved from it.
`FailureIsFinal` and `ReadAheadIsFree` follow step by step from `IInv`.

*PersistProofs.* `Progress` says what each place in the call has already done,
`ChangesInv` what files the call has changed and which of these are still its
own (a change by another process drops the path), `AnswersInv` what the result
may say. `ReportsMatchDisk`, `KeepsUnlessTold` and `OldSidecarOutlivesOldImage`
follow at every place at once, so before and after a crash.

*TransferProofs.* `PlanInv` ties the plan to what prepare read and execute
checked again, `ViewInv` the store execute works on to the source (a copy has lost
tombstones and no live value), `StageInv` what each overlay finds and leaves,
`ReturnedInv` what is published. That a client edits the source in between
disturbs only what `PlanInv` does not rely on, which is the argument for
`IptcRemovalFollowsSource` and `ExifRemovalIsCarriedOut`.

*IfdWalkProofs.* The walk under way and the parent that waits for it are two
*frames* with one invariant: `Typed`; `Indexed` (an index is given once, over what
is decoded and what is queued); `Remembers` (the visited set against the
history); `Closed` (whatever a decoded directory points to is decoded or queued,
of the current one up to the entry reached). `Closed` holds only while nothing was
refused, and every refusal lowers the status, so `OkMeansClosed` follows when the
queue is empty. `DirectoriesAreDistinct` comes from `Indexed`.

*ReadProofs: Reader.* `StoreInv`: the stores only grow, the block in hand is one the
scan added, and a callback read decodes into the candidate alone; `StoreKept`
follows. `ReportInv`: for every answer in the history the status kept for
its decoder ranks no lower. Where the code sets a status and does not merge it
(OpenEXR as the last decoder, TIFF's one block, the sidecar after outcomes that
were all OK) the invariant says why nothing is lost (`SetOnce`, `CutShort`,
`Sound`), and `FailuresAreReported` follows.

*PayloadProofs: MetadataPatch.* `IInv` is `StatesInv` (every slot of a plan and of its
instances is denied or lies in its payload with the width it was given; ids are
those of the history; an instance has the payloads of its plan's lengths) and
`CallInv` (what a call has checked and what it has written). `WholeBatches`
compares the payloads under way with `PatchedTo`, the first updates of the batch
applied to `before`: each write keeps every later update's bytes what they were
when it was checked, because `Aliases` refused any value that shares bytes with the
payload, and that is where the proof breaks if the test is dropped.
`ForeignRefused` is that ids of plans are never used twice. `Unmistakable` needs the
serialiser: places ascend in the order of entries (`PlacesAscend`), so among the
places of the values that equal the one looked for, the one of rank `occurrence` is
its own (`NthOfImage`), and where all matches are such places the search finds
it. Lengths of payloads are sums over sequences of any length; they are reasoned
about by induction, from the least counterexample (`LeastNatural`, which follows
from `NatLessThanWellFounded`).

*PayloadProofs: Pay.* `AnswerIsPayload` compares what the loops did with `Payload`,
which knows nothing of loops or sorts, so most of the proof is about what the
blocks describe. `Describes(c, parts)` says that the payload of a call is the bytes of
these parts one after the other, or nothing if one lies outside the file, and
`Verdict` that a list of parts and a status are right: `OK` only with a list
that describes the payload, a refusal only with a reason. `NumberedVerdict` and
`PlacedVerdict` prove it of the code's two sorts and checks for any number of
parts. The first rests on numbers from 0 being their own ranks; the second on
`CoversIsContiguous` and `ContiguousCovers`: parts hold each byte once, with no
stray empty part, exactly if each, as sorted, begins where those before it end,
which is what the code looks at. For sub-blocks, `SubBlocksAt` unfolds the
recursion once, and `SubBlocksType` is an induction from the end of the file.
`PayInv` then has a part per phase (`Begun`, `Copying`, `Splitting`,
`Inflating`) over `Extracted`, which ties the count, the status and the untouched
rest of the buffer to what was reached, and the two properties themselves, since a
call that returned takes no step. Its lemmas are one per action; `Refusal` and
`Answer` are the two ways a call can end.

*TranslationLemmas.* `StoreLedger`'s `Edited` says of each entry what a commit leaves of it.
`CommitIsRun` shows that this is `Run`: the operations executed one by one, each on
the store the ones before it left, for operations that name entries that are
there (`OkOps`). Everything else is reasoned about in this form. `Does(p, f, ...)`
says that the operations `p` of one field make its values stand, in order and
where they belong, put a deletion on record if the call is to, and leave every
other key alone, *whatever* was done before under other keys; `OperationsDo` proves it of
what `Operations` records. `FlatDoes` joins any number of fields under keys that differ
(`DoesAll`), since what one keeps the next finds (`Keeps`). With the plans of the
calls, from the searches for sources and natives to the verdicts in the order the code comes to them,
follow `TextsGood` and `GpsGood`: a plan whose verdicts are good leaves a store
in which `TextsStand`, or `GpsStands`, holds. For texts, `VersionReads` says that the version
in the new store is the one the call planned for, `ModernBefore` the same of the old store;
texts that were written agree with it because they were weighed against it, the
others because nothing crossed beside them (`TextsStillAgree`). The version all GPS
members share is where most of the work is: it goes only with the last member, is added
with the first, and stands otherwise, but for the disagreement above
(`VersionDropped`).

*TranslationProofs.* `PairsGood`, `FilledGood` and `WrittenGood` are the same
of the calls between IPTC and XMP. `omc_translate_xmp` records while it goes, so
there the invariant is over the groups passed by: `XmpDone(ops, D, owned, utf8)` says that what
was recorded makes every group of `D` stand, touches the keys of `D` only,
takes over datasets of these keys only, and has remembered a text that needs the
marker if there was one. A group's keys are its own
(`MappingApart`), which is why the next group finds its natives as they were
in the source (`GroupKeeps`); `CharsetKeeps` is the marker after the last group. `TranslateInv`
is the inductive invariant of all ten calls: until the commit, no result and
`XmpDone`; at the commit, operations whose result is good; after it, a good result or none. It is
inductive across `Adopt` and `TurnBack` as what is committed is again a well-formed store.
`TranslationsAreWhole` follows: `TranslatedOrNone` for every store, words, limits and
options, and for every allocation that fails.

Only model-checked: `RepeatChangesNothing` and `ReturnRestores`, which compare
two calls: they need that a call finds in its own result, or that the opposite
call finds in it, what the first one planned, that is the plans' searches over
the store that the operations make, and not only what stands in it; and
the liveness of `IfdWalk` (`WalkEnds`), which is out of the prover's reach. What
decompression returns and what the parsers of dates and texts accept is data of the
models and neither checked nor proved.

## What is not modelled

The byte layouts of containers and serialisers and the tables of tags; the
scanner but for its answer; BMFF, JUMBF, OpenEXR and the small decoders but for
their answers; package and payload batches; validation: see
`PROJECT.json` `components` for the reason of each. Most of the library's lines
are of these kinds, tables and layouts of some forty formats, and have no state that
outlives a loop. Two
pieces of code write an arena's fields past its interface
(`omc_irb.c` 345-372, `omc_translation_iptc_dates_to_xmp.c` 600-620) and are
outside `Arena`. In `Transfer`, IFD0 and GPS removals and the clearing of whole
directories behave as the one tag does and are left out, and so is the merge of
JPEG fields by `omc_exif_write_merge`.

## Plan

In this order:

1. A proof of `RepeatChangesNothing`: the searches of each plan over `Run(source, ops)`.
2. `Package`: payload and package batches over `ArenaLog`.
3. The depth and entry budgets of nested boxes in BMFF and JUMBF.
