------------------------------ MODULE IfdWalk ------------------------------
(***************************************************************************)
(* The walk of the EXIF decoder over the directories of a TIFF stream      *)
(* (omc_exif_run and omc_exif_process_ifd, src/src/read/omc_exif.c).       *)
(* Directories point to each other by offset, so what a file holds is a    *)
(* graph, with cycles and shared nodes if its writer likes.  The decoder   *)
(* keeps a queue of directories to visit.  Reading a callback source it    *)
(* remembers the offsets it has visited and as what; reading memory it     *)
(* remembers nothing, and only its budgets end a cycle.  A maker note may  *)
(* hold directories of its own: a child walk decodes them while its parent *)
(* waits.                                                                  *)
(***************************************************************************)
EXTENDS Naturals, Sequences, FiniteSets, SequencesExt

CONSTANTS
    Offset,     \* places a pointer may name; 0 means no directory
    Files,      \* what may be decoded: [header, first, dir, note]
    Jobs,       \* how the decoder may be called
    TaskCap,    \* OMC_EXIF_TASK_CAP: room of the queue and of the visited set
    NestedMax   \* bound of the model: entries a vendor's table adds at once

ASSUME OffsetAssumption == Offset \subseteq Nat \ {0}
ASSUME CapAssumption == TaskCap \in Nat \ {0} /\ NestedMax \in Nat
ASSUME JobsAssumption ==
    Jobs \subseteq [source : BOOLEAN, single : BOOLEAN, measure : BOOLEAN, notes : BOOLEAN,
                    showPointers : BOOLEAN, maxIfds : Nat, maxEntries : Nat, maxTotal : Nat,
                    ifdCap : Nat, longest : Nat]

(* An entry that points has targets, one but for SUB; it is unreadable if  *)
(* its value lies outside the file and mistyped if it is no pointer.  Of a *)
(* directory the file holds all, the count of its entries only, or none.   *)
Pointer == {"EXIF", "GPS", "INTEROP"}
Kind == {"IFD", "SUB"} \cup Pointer
NoDirectory == [next |-> 0, entries |-> <<>>, holds |-> "none"]

Entries == [tag : Pointer \cup {"SUB", "PLAIN", "NOTE"},
            form : {"good", "mistyped", "unreadable"}, to : Seq(Offset \cup {0})]
Directories == [next : Offset \cup {0}, entries : Seq(Entries), holds : {"all", "count", "none"}]
IsGraph(f) ==
    /\ f.header \in {"good", "MALFORMED", "UNSUPPORTED"} /\ f.first \in Offset \cup {0}
    /\ \A o \in DOMAIN f.dir : f.dir[o] \in Directories

ASSUME FilesAssumption == \A f \in Files : IsGraph(f) /\ IsGraph(f.note)

VARIABLES
    job,        \* the options of the call; they do not change
    file,       \* what is decoded: the stream, or a maker note in it
    mode,       \* how: [source, follow, single]
    tasks,      \* queue of [kind, index, offset]
    visited,    \* offset -> the kinds it was visited as (source only)
    cur,        \* the directory decoded, the entry and the target reached
    next,       \* [ifd, sub]: the indexes given to directories so far
    res,        \* omc_exif_res: [status, ifds, written, entries], and lost:
                \* the state of the source has an error
    walk,       \* history: the directories decoded
    outer,      \* the walk that waits for this one, if any
    pc

frame == <<file, mode, tasks, visited, cur, next, walk, outer>>
vars == <<job, res, pc, frame>>

NoTask == [kind |-> "IFD", index |-> 0, offset |-> 0]
OkRes == [status |-> "OK", ifds |-> 0, written |-> 0, entries |-> 0, lost |-> FALSE]
Fatal == res.status \in {"LIMIT", "NOMEM"} \/ res.lost

Init ==
    /\ job \in Jobs /\ file \in Files
    /\ mode = [source |-> job.source, follow |-> TRUE, single |-> job.single]
    /\ tasks = <<>> /\ visited = <<>> /\ walk = <<>> /\ outer = <<>>
    /\ cur = [task |-> NoTask, i |-> 0, k |-> 0]
    /\ next = [ifd |-> 0, sub |-> 0]
    /\ res = OkRes
    /\ pc = "header"

Stop(status) ==
    /\ pc' = "stopped" /\ res' = [res EXCEPT !.status = status]
    /\ UNCHANGED <<job, frame>>

PushQuietly(queue, t) ==            \* mutant: a full queue drops what does not fit
    IF t.offset = 0 \/ Len(queue) >= TaskCap THEN queue ELSE Append(queue, t)

(* omc_exif_push_task; the caller stops when the queue is longer than it   *)
(* may be.                                                                 *)
Push(queue, t) == IF t.offset = 0 THEN queue ELSE Append(queue, t)

ReadHeader ==
    /\ pc = "header" /\ file.header = "good"
    /\ tasks' = Push(<<>>, [NoTask EXCEPT !.offset = file.first])
    /\ pc' = "pop"
    /\ UNCHANGED <<job, file, mode, visited, cur, next, res, walk, outer>>

HeaderFails ==
    /\ pc = "header" /\ file.header # "good"
    /\ Stop(file.header)

(* A read the callback refuses or fails, at any point: the status follows  *)
(* the kind of the error (omc_exif_dec_source_impl).                       *)
SourceFails ==
    /\ mode.source /\ pc \in {"header", "pop", "entries"}
    /\ \E status \in {"LIMIT", "TRUNCATED", "MALFORMED"} :
           res' = [res EXCEPT !.status = status, !.lost = TRUE]
    /\ pc' = "stopped"
    /\ UNCHANGED <<job, frame>>

-----------------------------------------------------------------------------
(* Taking a directory from the queue.                                      *)
Task == Head(tasks)
AtTask == pc = "pop" /\ tasks # <<>> /\ (mode.follow \/ walk = <<>>)
Known(t) == t.offset \in DOMAIN visited

AgainByKind(t) == t.kind \notin visited[t.offset]       \* mutant: once per kind of pointer

(* An offset is decoded once, but as both GPS and Interop directory if it  *)
(* is named as nothing else.                                               *)
AgainAllowed(t) ==
    \/ t.kind = "GPS" /\ visited[t.offset] = {"INTEROP"}
    \/ t.kind = "INTEROP" /\ visited[t.offset] = {"GPS"}

Seen(t) == mode.source /\ Known(t) /\ ~AgainAllowed(t)

SkipSeen ==
    /\ AtTask /\ Seen(Task)
    /\ tasks' = Tail(tasks)
    /\ UNCHANGED <<job, file, mode, visited, cur, next, res, walk, outer, pc>>

Directory(t) == IF t.offset \in DOMAIN file.dir THEN file.dir[t.offset] ELSE NoDirectory
Size(t) == Len(Directory(t).entries)

Uncounted(t) ==     \* mutant: the entries of earlier directories are not counted
    Size(t) > job.maxEntries \/ Size(t) > job.maxTotal

ExceedsBudget(t) ==
    \/ Size(t) > job.maxEntries
    \/ res.entries > job.maxTotal
    \/ Size(t) > job.maxTotal - res.entries

NoRoomToRemember(t) == mode.source /\ ~Known(t) /\ Cardinality(DOMAIN visited) = TaskCap

(* Why a directory is refused; "OK" if it is not.                          *)
Refusal(t) ==
    IF NoRoomToRemember(t) \/ res.ifds >= job.maxIfds THEN "LIMIT"
    ELSE IF Directory(t).holds = "none" THEN "MALFORMED"
    ELSE IF ExceedsBudget(t) THEN "LIMIT"
    ELSE IF Directory(t).holds = "count" THEN "MALFORMED"
    ELSE "OK"

RefuseTask ==
    /\ AtTask /\ ~Seen(Task) /\ Refusal(Task) # "OK"
    /\ Stop(Refusal(Task))

Remembered(t) ==
    IF ~mode.source THEN visited
    ELSE [o \in DOMAIN visited \cup {t.offset} |->
            (IF o \in DOMAIN visited THEN visited[o] ELSE {})
                \cup (IF o = t.offset THEN {t.kind} ELSE {})]

(* The caller's list of directories: a child's are not listed.             *)
ListRoom == IF outer = <<>> THEN job.ifdCap ELSE 0

CountedOutside(r) ==                \* mutant: directories below Exif are not counted
    IF Task.kind \in Pointer THEN r ELSE [r EXCEPT !.ifds = @ + 1]

(* omc_exif_emit_ifd: TRUNCATED once the caller's list is full.            *)
Counted(r) ==
    LET entered == [r EXCEPT !.ifds = @ + 1]
    IN  IF r.written < ListRoom THEN [entered EXCEPT !.written = @ + 1]
        ELSE IF ListRoom # 0 /\ r.status = "OK" THEN [entered EXCEPT !.status = "TRUNCATED"]
        ELSE entered

(* The history is bounded by the budget, which the code's count respects.  *)
Walked(t) == IF Len(walk) < job.maxIfds THEN Append(walk, t) ELSE walk

EnterDirectory ==
    /\ AtTask /\ ~Seen(Task) /\ Refusal(Task) = "OK"
    /\ tasks' = Tail(tasks)
    /\ visited' = Remembered(Task)
    /\ res' = Counted(res)
    /\ walk' = Walked(Task)
    /\ cur' = [task |-> Task, i |-> 1, k |-> 0]
    /\ pc' = "entries"
    /\ UNCHANGED <<job, file, mode, next, outer>>

-----------------------------------------------------------------------------
(* The entries of a directory, one at a time.                              *)
Entry == Directory(cur.task).entries[cur.i]
AtEntry == pc = "entries" /\ cur.i <= Size(cur.task)
AtEnd == pc = "entries" /\ cur.i > Size(cur.task)

Unreadable == Entry.form = "unreadable"
Shown == Entry.tag \in {"PLAIN", "NOTE"} \/ job.showPointers

(* A value of a source that is longer than may be read, or unreadable in   *)
(* the single directory of a maker: what it points to is not followed.     *)
UnreadIn(e, m) == m.source /\ (e.form = "unreadable" \/ Len(e.to) > job.longest)
Unread == UnreadIn(Entry, mode)

(* An unreadable value ends the walk but in a maker's directory.           *)
EntryUnreadable ==
    /\ AtEntry /\ Unreadable /\ ~mode.single
    /\ Stop("MALFORMED")

(* The name of the directory, an entry, a value, or what a nested decoder  *)
(* or the shared values of GeoTIFF derive may find no room.                *)
NoRoom ==
    /\ pc = "entries" /\ ~job.measure
    /\ AtEntry /\ Unreadable => mode.single
    /\ \E status \in {"NOMEM", "LIMIT"} : Stop(status)

PlainEntry ==
    /\ AtEntry /\ (Unreadable => mode.single)
    /\ Entry.tag \in {"PLAIN", "NOTE"} \/ Unread
    /\ \E n \in 0 .. (IF Entry.tag = "NOTE" /\ outer = <<>> /\ job.notes
                      THEN NestedMax ELSE 0) :
           res' = [res EXCEPT !.entries = @ + n + (IF Shown THEN 1 ELSE 0)]
    /\ cur' = [cur EXCEPT !.i = @ + 1]
    /\ UNCHANGED <<job, file, mode, tasks, visited, next, walk, outer, pc>>

(* A pointer is followed whether or not it is shown among the entries.     *)
PointerEntry ==
    /\ AtEntry /\ Entry.tag \in Pointer \cup {"SUB"} /\ ~Unread
    /\ Unreadable => mode.single
    /\ res' = [res EXCEPT !.entries = @ + (IF Shown THEN 1 ELSE 0)]
    /\ cur' = [cur EXCEPT !.k = 1]
    /\ pc' = "targets"
    /\ UNCHANGED <<job, file, mode, tasks, visited, next, walk, outer>>

Target ==
    [kind |-> Entry.tag, index |-> IF Entry.tag = "SUB" THEN next.sub ELSE 0,
     offset |-> Entry.to[cur.k]]

(* One target is queued at a time; of a list each is given an index, those *)
(* that name no directory too.                                             *)
PushTarget ==
    /\ pc = "targets" /\ cur.k <= Len(Entry.to)
    /\ IF Entry.form # "good" THEN Stop("MALFORMED")
       ELSE IF Len(Push(tasks, Target)) > TaskCap THEN Stop("LIMIT")
       ELSE /\ tasks' = Push(tasks, Target)
            /\ next' = IF Entry.tag = "SUB" THEN [next EXCEPT !.sub = @ + 1] ELSE next
            /\ cur' = [cur EXCEPT !.k = @ + 1]
            /\ UNCHANGED <<job, file, mode, visited, res, walk, outer, pc>>

TargetsQueued ==
    /\ pc = "targets" /\ cur.k > Len(Entry.to)
    /\ cur' = [cur EXCEPT !.i = @ + 1]
    /\ pc' = "entries"
    /\ UNCHANGED <<job, file, mode, tasks, visited, next, res, walk, outer>>

-----------------------------------------------------------------------------
(* A maker note with directories: a child context walks them.  From a      *)
(* source, a note the value buffer holds is memory to its child, and a     *)
(* single directory is decoded without what it points to.                  *)
ChildModes ==
    {[source |-> FALSE, follow |-> TRUE, single |-> FALSE]}
    \cup IF mode.source
         THEN {[source |-> TRUE, follow |-> follow, single |-> ~follow] : follow \in BOOLEAN}
         ELSE {}

NoteEntry ==
    /\ AtEntry /\ Entry.tag = "NOTE" /\ Entry.form = "good" /\ ~Unread
    /\ outer = <<>> /\ job.notes
    /\ mode' \in ChildModes
    /\ file' = file.note
    /\ outer' = <<[file |-> file, mode |-> mode, tasks |-> tasks, visited |-> visited,
                   cur |-> [cur EXCEPT !.i = @ + 1], next |-> next, walk |-> walk,
                   res |-> [res EXCEPT !.entries = @ + 1]]>>
    /\ res' = [res EXCEPT !.entries = @ + 1]
    /\ visited' = <<>> /\ walk' = <<>> /\ next' = [ifd |-> 0, sub |-> 0]
    /\ cur' = [task |-> NoTask, i |-> 0, k |-> 0]
    /\ \/ pc' = "header" /\ tasks' = <<>> /\ mode'.follow
       \/ /\ pc' = "pop" /\ (~mode'.source \/ ~mode'.follow)
          /\ tasks' = <<[NoTask EXCEPT !.offset = file'.first]>>
    /\ UNCHANGED job

(* The parent takes over what the child counted and its maker derives, but *)
(* not its directories.  A note that is malformed is forgotten; one that   *)
(* ran out of room, or lost the source, ends the parent too.               *)
LeaveChild ==
    LET p == outer[1]
        derived == 0 .. (IF Fatal \/ job.measure THEN 0 ELSE NestedMax)
        kept == [p.res EXCEPT !.lost = res.lost]
        ended == IF Fatal THEN [kept EXCEPT !.status = res.status] ELSE kept
    IN /\ outer # <<>> /\ pc \in {"stopped", "drained"}
       /\ file' = p.file /\ mode' = p.mode /\ tasks' = p.tasks /\ visited' = p.visited
       /\ cur' = p.cur /\ next' = p.next /\ walk' = p.walk
       /\ outer' = <<>>
       /\ \E n \in derived : res' = [ended EXCEPT !.entries = res.entries + n]
       /\ pc' = IF Fatal THEN "stopped" ELSE "entries"
       /\ UNCHANGED job

-----------------------------------------------------------------------------
(* After its entries, an image directory leads to the next of its chain.   *)
ChainsIn(t, m) == t.kind = "IFD" /\ ~m.single /\ Directory(t).next # 0

LeaveDirectory ==
    /\ AtEnd
    /\ LET t == [kind |-> "IFD", index |-> next.ifd + 1, offset |-> Directory(cur.task).next]
           queue == Push(tasks, t)
       IN IF ~ChainsIn(cur.task, mode)
          THEN /\ pc' = "pop"
               /\ UNCHANGED <<job, res, frame>>
          ELSE IF Len(queue) > TaskCap THEN Stop("LIMIT")
          ELSE /\ tasks' = queue /\ next' = [next EXCEPT !.ifd = @ + 1] /\ pc' = "pop"
               /\ UNCHANGED <<job, file, mode, visited, cur, res, walk, outer>>

Drain ==
    /\ pc = "pop" /\ ~AtTask
    /\ pc' = "drained"
    /\ UNCHANGED <<job, res, frame>>

(* The walk over, stopped or not, entries derived from those decoded may   *)
(* be added, unless there is no room or no source left.                    *)
Finish ==
    /\ pc \in {"stopped", "drained"} /\ outer = <<>>
    /\ pc' = "done"
    /\ \/ UNCHANGED res
       \/ /\ ~Fatal /\ ~job.measure
          /\ \/ \E n \in 1 .. NestedMax : res' = [res EXCEPT !.entries = @ + n]
             \/ \E status \in {"NOMEM", "LIMIT"} : res' = [res EXCEPT !.status = status]
    /\ UNCHANGED <<job, frame>>

Next ==
    \/ ReadHeader \/ HeaderFails \/ SourceFails
    \/ SkipSeen \/ RefuseTask \/ EnterDirectory
    \/ EntryUnreadable \/ NoRoom \/ PlainEntry \/ PointerEntry \/ NoteEntry
    \/ PushTarget \/ TargetsQueued
    \/ LeaveDirectory \/ LeaveChild \/ Drain \/ Finish

(* The decoder is a loop its caller runs to its end.                       *)
Spec == Init /\ [][Next]_vars /\ WF_vars(Next)
-----------------------------------------------------------------------------
Status == {"OK", "TRUNCATED", "UNSUPPORTED", "MALFORMED", "LIMIT", "NOMEM"}
TaskType(t) == t.kind \in Kind /\ t.index \in Nat /\ t.offset \in Offset \cup {0}

(* Everything has its type, and what a file may demand stays within the    *)
(* decoder's arrays and budgets: the queue and the visited set never       *)
(* outgrow their arrays, the caller's list of directories never outgrows   *)
(* its room, and a directory is entered only if its entries fit into what  *)
(* the budgets leave (omc_exif_push_task, omc_exif_process_ifd).           *)
TypeOK ==
    /\ pc \in {"header", "pop", "entries", "targets", "stopped", "drained", "done"}
    /\ res.status \in Status /\ res.lost \in BOOLEAN
    /\ Len(outer) <= 1
    /\ Len(tasks) <= TaskCap /\ \A i \in DOMAIN tasks : TaskType(tasks[i])
    /\ Cardinality(DOMAIN visited) <= TaskCap
    /\ \A o \in DOMAIN visited : visited[o] # {} /\ visited[o] \subseteq Kind
    /\ res.ifds <= job.maxIfds
    /\ res.written <= job.ifdCap /\ res.written <= res.ifds
    /\ AtEntry /\ cur.i = 1 =>
          Size(cur.task) <= job.maxEntries /\ res.entries + Size(cur.task) <= job.maxTotal

(* A walk that reports success, or no more than a full list, has missed    *)
(* nothing: the first directory was decoded, and so was whatever a decoded *)
(* directory points to or chains to -- as the kind it is named as when     *)
(* read from memory, once for all its names when read from a source.  Only *)
(* the long arrays that a source's value buffer cannot hold, which are     *)
(* marked truncated in the store, may be left unfollowed.                  *)
OkMeansClosed ==
    LET Decoded(kind, offset) ==
            \/ offset = 0
            \/ \E i \in DOMAIN walk :
                    walk[i].offset = offset /\ (mode.source \/ walk[i].kind = kind)
    IN  pc = "done" /\ res.status \in {"OK", "TRUNCATED"} /\ ~res.lost =>
          /\ Decoded("IFD", file.first)
          /\ \A d \in Range(walk) :
                /\ ChainsIn(d, mode) => Decoded("IFD", Directory(d).next)
                /\ \A e \in Range(Directory(d).entries) :
                      e.tag \in Pointer \cup {"SUB"} /\ ~UnreadIn(e, mode) =>
                          \A n \in DOMAIN e.to : Decoded(e.tag, e.to[n])

(* Of a source no directory is decoded twice, but one that is named both   *)
(* as GPS and as Interop directory.  And no two image directories, nor two *)
(* sub-directories, are given the same index, which is what tells their    *)
(* entries apart in the store: not across lists of sub-directories, shared *)
(* nodes or cycles.                                                        *)
DirectoriesAreDistinct ==
    \A i, j \in DOMAIN walk : i < j =>
        /\ mode.source /\ walk[i].offset = walk[j].offset =>
              {walk[i].kind, walk[j].kind} = {"GPS", "INTEROP"}
        /\ walk[i].kind = walk[j].kind /\ walk[i].kind \in {"IFD", "SUB"} =>
              walk[i].index # walk[j].index

(* Whatever the graph of directories, the walk ends: cycles in memory are  *)
(* cut by the budget of directories, cycles in a source by the visited     *)
(* set, and so are those of a maker note.                                  *)
WalkEnds == <>(pc = "done")
=============================================================================
