------------------------------ MODULE Persist ------------------------------
(***************************************************************************)
(* omc_transfer_persist (src/src/edit/omc_transfer_persist.c): the outputs *)
(* of a transfer go to files.  The image is written first, then the XMP    *)
(* sidecar next to it, or an old sidecar is removed.  Files are opened,    *)
(* truncated, written and removed one after the other, every step of it    *)
(* may fail, and other processes change the same files in between.         *)
(***************************************************************************)
EXTENDS Naturals, FiniteSets

CONSTANTS
    Path,           \* the file names in play
    Base,           \* those a caller names as base of the sidecar
    NoPath,         \* a path option that was not set, or is empty
    SidecarOf,      \* the sidecar derived from a base path
    MaxForeign      \* bound of the model: changes by others during one call

ASSUME PathAssumption ==
    NoPath \notin Path /\ Base \subseteq Path /\ SidecarOf \in [Path -> Path]
ASSUME ForeignAssumption == MaxForeign \in Nat

VARIABLES
    disk,       \* what each path holds
    hidden,     \* paths this process may write but not open for reading
    given,      \* transfer result and options of the call
    res,        \* omc_transfer_persist_res
    pc,         \* where the call is
    before,     \* history: the disk when the call began
    foreign     \* history: the paths others changed since then

vars == <<disk, hidden, given, res, pc, before, foreign>>

Content == {"absent", "theirs", "partial", "edited", "xmp", "stale"}
Status == {"OK", "UNSUPPORTED"}

(* transfer: status of the transfer.  A failed one has no edited bytes and *)
(* may still say that its sidecar dump went well; the caller then passes   *)
(* the sidecar bytes of an earlier transfer.                               *)
Given ==
    [transfer : Status, edited : BOOLEAN, sidecar : {"bytes", "empty", "failed", "stale"},
     writeback : {"EMBEDDED_ONLY", "SIDECAR_ONLY", "EMBEDDED_AND_SIDECAR"},
     scaffold : BOOLEAN,            \* DNG, minimal fresh scaffold
     output : Path \cup {NoPath}, base : Base \cup {NoPath},
     write : BOOLEAN, overwrite : BOOLEAN, overwriteSidecar : BOOLEAN,
     strip : BOOLEAN, remove : BOOLEAN]

Requested(g) == g.writeback # "EMBEDDED_ONLY"

(* Transfers that succeeded have every output they were asked for.  What   *)
(* the code does not look at is left at one value.                         *)
Calls ==
    {g \in Given :
        /\ g.transfer = "OK" => g.sidecar \in {"bytes", "empty"}
        /\ g.transfer # "OK" => ~g.edited /\ g.sidecar \in {"failed", "stale"}
        /\ g.writeback # "SIDECAR_ONLY" /\ g.transfer = "OK" => g.edited
        /\ IF Requested(g) THEN ~g.strip
           ELSE g.sidecar \in {"empty", "failed"} /\ ~g.overwriteSidecar
        /\ ~g.strip => g.remove
        /\ g.overwrite => g.write
        /\ g.scaffold => ~g.write /\ g.writeback = "SIDECAR_ONLY"}

Unanswered == [status |-> "UNSUPPORTED", output |-> "UNSUPPORTED",
               sidecar |-> "UNSUPPORTED", cleanup |-> "UNSUPPORTED", removed |-> FALSE]

CleanupRequested(g) == g.writeback = "EMBEDDED_ONLY" /\ g.strip
SidecarPath(g) == SidecarOf[IF g.base # NoPath THEN g.base ELSE g.output]
AllowsMissingOutput(g) ==
    g.scaffold /\ g.writeback = "SIDECAR_ONLY" /\ ~g.write /\ g.base # NoPath

(* omc_transfer_path_exists: can the file be opened for reading.           *)
Visible(p) == disk[p] # "absent" /\ p \notin hidden

NoCall ==
    [transfer |-> "OK", edited |-> TRUE, sidecar |-> "empty", writeback |-> "EMBEDDED_ONLY",
     scaffold |-> FALSE, output |-> NoPath, base |-> NoPath, write |-> TRUE,
     overwrite |-> FALSE, overwriteSidecar |-> FALSE, strip |-> FALSE, remove |-> TRUE]

Ended == pc \in {"returned", "no memory", "killed"}

Init ==
    /\ disk \in [Path -> {"absent", "theirs"}]
    /\ hidden = {} \/ \E p \in Path : hidden = {p}
    /\ given = NoCall
    /\ res = Unanswered
    /\ pc = "idle"
    /\ before = disk /\ foreign = {}

-----------------------------------------------------------------------------
(* Another process creates, replaces or removes a file, by name.           *)
Interfere(p, content) ==
    /\ pc # "idle" /\ ~Ended /\ Cardinality(foreign) < MaxForeign
    /\ disk[p] # content
    /\ disk' = [disk EXCEPT ![p] = content]
    /\ foreign' = foreign \cup {p}
    /\ UNCHANGED <<hidden, given, res, pc, before>>

(* Every answer comes with a message in the caller's arena, and without    *)
(* memory for it the call ends there.                                      *)
Tell(next) == pc' \in {next, "no memory"}

Keep == UNCHANGED <<disk, hidden, given, before, foreign>>

Refuse ==
    /\ res' = Unanswered
    /\ Tell("returned")
    /\ Keep

Begin(g) ==
    /\ pc = "idle"
    /\ given' = g
    /\ res' = Unanswered
    /\ before' = disk /\ foreign' = {}
    /\ IF g.output = NoPath /\ ~AllowsMissingOutput(g)
       THEN Tell("returned")
       ELSE Tell("output")
    /\ UNCHANGED <<disk, hidden>>

-----------------------------------------------------------------------------
PrewrittenOutput ==
    /\ pc = "output" /\ ~given.write
    /\ res' = [res EXCEPT !.output = "OK"]
    /\ Tell("sidecar")
    /\ Keep

MayWriteBlind == given.edited       \* mutant: an existing file is not looked for
MayWriteOutput == given.edited /\ (given.overwrite \/ ~Visible(given.output))

CheckOutput ==
    /\ pc = "output" /\ given.write
    /\ IF MayWriteOutput
       THEN pc' = "open output" /\ Keep /\ UNCHANGED res
       ELSE Refuse

(* fopen(path, "wb"): a file that can be opened is emptied at once.        *)
Truncate(p) ==
    /\ disk' = [disk EXCEPT ![p] = "partial"]
    /\ UNCHANGED <<hidden, given, res, before, foreign>>

OpenOutput ==
    /\ pc = "open output"
    /\ \/ Truncate(given.output) /\ pc' = "write output"
       \/ Refuse

(* The bytes reach the file that was opened, unless its name now belongs   *)
(* to another one.                                                         *)
Filled(p, content) == [disk EXCEPT ![p] = IF @ = "partial" THEN content ELSE @]

WriteFailsSilently ==               \* mutant: a short write is taken for a success
    res' = [res EXCEPT !.output = "OK"] /\ pc' = "sidecar" /\ Keep
WriteFailsGoesOn ==                 \* mutant: a failed write does not end the call
    pc' = "sidecar" /\ Keep /\ UNCHANGED res
WriteFails == Refuse

WriteOutput ==
    /\ pc = "write output"
    /\ \/ /\ disk' = Filled(given.output, "edited")
          /\ res' = [res EXCEPT !.output = "OK"]
          /\ pc' = "sidecar"
          /\ UNCHANGED <<hidden, given, before, foreign>>
       \/ WriteFails

-----------------------------------------------------------------------------
AnswerSidecar(status) ==
    /\ res' = [res EXCEPT !.sidecar = status]
    /\ Tell("cleanup")
    /\ Keep

UnavailableUnconverted == given.sidecar     \* mutant: the dump's own status is answered
Unavailable == given.transfer

(* A requested sidecar always has a base: an output path or, without one,  *)
(* the base that allowed it to be missing.                                 *)
CheckSidecar ==
    /\ pc = "sidecar"
    /\ \/ /\ ~Requested(given)
          /\ pc' = "cleanup" /\ Keep /\ UNCHANGED res
       \/ /\ Requested(given)
          /\ pc' = "no memory" /\ Keep /\ UNCHANGED res
       \/ Requested(given) /\ given.sidecar = "failed" /\ AnswerSidecar(Unavailable)
       \/ Requested(given) /\ given.sidecar = "empty" /\ AnswerSidecar("OK")
       \/ /\ Requested(given) /\ given.sidecar \in {"bytes", "stale"}
          /\ IF ~given.overwriteSidecar /\ Visible(SidecarPath(given))
             THEN AnswerSidecar("UNSUPPORTED")
             ELSE pc' = "open sidecar" /\ Keep /\ UNCHANGED res

OpenSidecar ==
    /\ pc = "open sidecar"
    /\ \/ Truncate(SidecarPath(given)) /\ pc' = "write sidecar"
       \/ AnswerSidecar("UNSUPPORTED")

WriteSidecar ==
    /\ pc = "write sidecar"
    /\ \/ /\ disk' = Filled(SidecarPath(given), IF given.sidecar = "stale" THEN "stale" ELSE "xmp")
          /\ res' = [res EXCEPT !.sidecar = "OK"]
          /\ pc' = "cleanup"
          /\ UNCHANGED <<hidden, given, before, foreign>>
       \/ AnswerSidecar("UNSUPPORTED")

-----------------------------------------------------------------------------
AnswerCleanup(status) ==
    /\ res' = [res EXCEPT !.cleanup = status]
    /\ Tell("finish")
    /\ Keep

CheckCleanup ==
    /\ pc = "cleanup"
    /\ \/ /\ ~CleanupRequested(given)
          /\ pc' = "finish" /\ Keep /\ UNCHANGED res
       \/ /\ CleanupRequested(given)
          /\ pc' = "no memory" /\ Keep /\ UNCHANGED res
       \/ /\ CleanupRequested(given)
          /\ IF given.remove /\ Visible(SidecarPath(given))
             THEN res' = [res EXCEPT !.cleanup = "OK"] /\ Tell("remove") /\ Keep
             ELSE AnswerCleanup("OK")

RemoveSidecar ==
    /\ pc = "remove"
    /\ \/ /\ disk[SidecarPath(given)] # "absent"
          /\ disk' = [disk EXCEPT ![SidecarPath(given)] = "absent"]
          /\ res' = [res EXCEPT !.cleanup = "OK", !.removed = TRUE]
          /\ Tell("finish")
          /\ UNCHANGED <<hidden, given, before, foreign>>
       \/ AnswerCleanup("UNSUPPORTED")

Failures(r) ==
    (IF Requested(given) THEN {r.sidecar} ELSE {})
    \cup (IF CleanupRequested(given) THEN {r.cleanup} ELSE {})

Finish ==
    /\ pc = "finish"
    /\ res' = [res EXCEPT !.status = IF Failures(res) \subseteq {"OK"} THEN "OK" ELSE "UNSUPPORTED"]
    /\ IF res'.status = "OK" THEN Tell("returned") ELSE pc' = "returned"
    /\ Keep

(* The process is killed; the files stay as they are.                      *)
Crash ==
    /\ pc # "idle" /\ ~Ended
    /\ pc' = "killed"
    /\ Keep /\ UNCHANGED res

(* The caller has read the answer, or a new process starts.                *)
Forget ==
    /\ Ended
    /\ given' = NoCall /\ res' = Unanswered /\ pc' = "idle"
    /\ before' = disk /\ foreign' = {}
    /\ UNCHANGED <<disk, hidden>>

Next ==
    \/ \E g \in Calls : Begin(g)
    \/ \E p \in Path, content \in {"absent", "theirs"} : Interfere(p, content)
    \/ PrewrittenOutput
    \/ CheckOutput
    \/ OpenOutput
    \/ WriteOutput
    \/ CheckSidecar
    \/ OpenSidecar
    \/ WriteSidecar
    \/ CheckCleanup
    \/ RemoveSidecar
    \/ Finish
    \/ Crash
    \/ Forget

Spec == Init /\ [][Next]_vars

-----------------------------------------------------------------------------
(* Every variable has its type.                                            *)
TypeOK ==
    /\ disk \in [Path -> Content] /\ before \in [Path -> Content]
    /\ hidden \subseteq Path /\ foreign \subseteq Path
    /\ given \in Given
    /\ res \in [status : Status, output : Status, sidecar : Status, cleanup : Status,
               removed : BOOLEAN]
    /\ pc \in {"idle", "output", "open output", "write output", "sidecar", "open sidecar",
              "write sidecar", "cleanup", "remove", "finish", "returned", "no memory", "killed"}

(* What a returned call says of the files is so, as far as no one else     *)
(* changed them: also when it ran out of memory half way, and unless the   *)
(* output itself has the name of the sidecar.                              *)
ReportsMatchDisk ==
    (pc \in {"returned", "no memory"} /\ res.output = "OK") =>
        /\ (given.write /\ given.output \notin foreign /\ given.output # SidecarPath(given)) =>
               disk[given.output] = "edited"
        /\ SidecarPath(given) \notin foreign =>
              /\ (res.sidecar = "OK" /\ given.sidecar = "bytes") => disk[SidecarPath(given)] = "xmp"
              /\ res.removed => disk[SidecarPath(given)] = "absent"
              /\ (/\ res.status = "OK" /\ CleanupRequested(given) /\ given.remove
                  /\ SidecarPath(given) \notin hidden) => disk[SidecarPath(given)] = "absent"
        /\ (res.status = "OK" /\ Requested(given)) => res.sidecar = "OK"

(* A file that was there, readable, when the call began and that the       *)
(* caller did not allow to be overwritten or removed stays as it is; and   *)
(* after a failed transfer every file does, although the caller passes the *)
(* bytes of an earlier one along, if the output was asked for.             *)
KeepsUnlessTold ==
    /\ \A p \in Path \ (hidden \cup foreign) :
        (before[p] # "absent" /\ disk[p] # before[p]) =>
            \/ p = given.output /\ given.write /\ given.overwrite
            \/ p = SidecarPath(given) /\ Requested(given) /\ given.overwriteSidecar
            \/ p = SidecarPath(given) /\ CleanupRequested(given) /\ given.remove
    /\ (given.transfer # "OK" /\ given.write) =>
        \A p \in Path \ foreign : disk[p] = before[p]

(* At no moment, not even when the process is killed, is the old sidecar   *)
(* gone or overwritten while the new image is not completely written: a    *)
(* call that fails on the image leaves the sidecar alone.                  *)
OldSidecarOutlivesOldImage ==
    (given.write /\ given.output # NoPath) =>
        LET side == SidecarPath(given)
        IN  (side \notin foreign \cup {given.output} /\ disk[side] # before[side]) =>
               /\ res.output = "OK"
               /\ given.output \notin foreign => disk[given.output] = "edited"
=============================================================================
