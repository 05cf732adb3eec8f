------------------------------- MODULE Arena -------------------------------
(***************************************************************************)
(* omc_arena (src/src/base/omc_arena.c): the growable byte store behind    *)
(* every metadata store, edit and transfer output.  Bytes live in one heap *)
(* block; growth copies them to a larger block and keeps the old one on a  *)
(* retired list, so that pointers borrowed from it go on reading.  Any     *)
(* malloc may fail and may return any free address.                        *)
(***************************************************************************)
EXTENDS Integers, Sequences, FiniteSets

CONSTANTS
    Block,          \* the addresses malloc may return
    NULL,           \* the null pointer
    Cell,           \* what one byte may hold
    Junk,           \* a byte of a block that nobody wrote
    Chunks,         \* the byte strings callers append
    FirstCapacity,  \* capacity of the first block (64 in the code)
    MaxRef,         \* largest omc_u32: what a reference field holds
    MaxSize,        \* largest omc_size
    MaxViews        \* bound of the model: views a client holds at one time

ASSUME BlockAssumption == NULL \notin Block
ASSUME CellAssumption == Junk \notin Cell /\ Chunks \subseteq Seq(Cell)
ASSUME SizeAssumption ==
    /\ FirstCapacity \in Nat \ {0} /\ MaxRef \in Nat /\ MaxSize \in Nat
    /\ FirstCapacity <= MaxSize /\ MaxRef <= MaxSize

VARIABLES
    data,       \* the current block, or NULL
    size,       \* bytes in use
    capacity,   \* bytes of the current block
    retired,    \* blocks on the retired list
    heap,       \* contents of every block malloc gave and free did not take
    views,      \* pointers into blocks that clients borrowed since the last reset
    result      \* status and reference of the last call

arenaVars == <<data, size, capacity, retired, heap, views, result>>

NoRef == [offset |-> 0, size |-> 0]
Answer(status, ref) == [status |-> status, ref |-> ref]
Refs == [offset : 0..MaxRef, size : 0..MaxRef]
Span(r) == r.offset .. (r.offset + r.size - 1)

ArenaInit ==
    /\ data = NULL /\ size = 0 /\ capacity = 0 /\ retired = {}
    /\ heap = [b \in {} |-> 0]
    /\ views = {}
    /\ result = Answer("OK", NoRef)

-----------------------------------------------------------------------------
(* Doubling from the current capacity until needed fits; at the last       *)
(* doubling omc_size can hold, exactly what is needed.                     *)
Doublings(start, needed) ==
    {c \in needed..MaxSize : c < 2 * needed /\ \E k \in 1..c : c = start * 2^k}

NextCapacity(current, needed) ==
    LET start == IF current = 0 THEN FirstCapacity ELSE current
        doublings == Doublings(start, needed)
    IN  IF start >= needed THEN start
        ELSE IF doublings = {} THEN needed ELSE CHOOSE c \in doublings : TRUE

GrownEmpty(b, cap) ==           \* mutant: growth does not copy the bytes in use
    [x \in DOMAIN heap \cup {b} |-> IF x = b THEN [i \in 0..(cap - 1) |-> Junk] ELSE heap[x]]
GrownByRealloc(b, cap) ==       \* mutant: growth frees the old block
    [x \in (DOMAIN heap \ {data}) \cup {b} |->
        IF x = b
        THEN [i \in 0..(cap - 1) |-> IF i < size THEN heap[data][i] ELSE Junk]
        ELSE heap[x]]

(* The heap once block b of cap bytes holds a copy of the bytes in use.    *)
Grown(b, cap) ==
    [x \in DOMAIN heap \cup {b} |->
        IF x = b
        THEN [i \in 0..(cap - 1) |-> IF i < size THEN heap[data][i] ELSE Junk]
        ELSE heap[x]]

RetireNothing == retired        \* mutant: the old block is forgotten
Retire == retired \cup ({data} \ {NULL})

(* A block for cap bytes replaces the current one, which is retired.       *)
Move(b, cap) ==
    /\ b \in Block \ DOMAIN heap
    /\ data' = b
    /\ capacity' = cap
    /\ retired' = Retire

Refused(status) ==
    /\ result' = Answer(status, NoRef)
    /\ UNCHANGED <<data, size, capacity, retired, heap, views>>

(* omc_arena_reserve.  A failed malloc of the block, or of the retired     *)
(* node once the block was obtained and copied, leaves the arena alone.    *)
Reserve(cap) ==
    \/ /\ cap <= capacity
       /\ result' = Answer("OK", NoRef)
       /\ UNCHANGED <<data, size, capacity, retired, heap, views>>
    \/ /\ cap > capacity
       /\ \E b \in Block :
              /\ Move(b, cap)
              /\ heap' = Grown(b, cap)
       /\ result' = Answer("OK", NoRef)
       /\ UNCHANGED <<size, views>>
    \/ cap > capacity /\ Refused("NO_MEMORY")

-----------------------------------------------------------------------------
(* An append reads its source after any growth: bytes of the caller, or a  *)
(* view the caller borrowed from this very arena.                          *)
Caller(bytes) == [lent |-> FALSE, size |-> Len(bytes), bytes |-> bytes]
Borrowed(v) == [lent |-> TRUE, size |-> v.size, view |-> v]

Read(h, src) ==
    IF src.lent
    THEN [i \in 1..src.size |->
             IF src.view.block \in DOMAIN h
             THEN h[src.view.block][src.view.offset + i - 1]
             ELSE Junk]
    ELSE src.bytes

Write(h, b, offset, n, bytes) ==
    [h EXCEPT ![b] =
        [i \in DOMAIN h[b] |->
            IF i \in offset..(offset + n - 1)
            THEN bytes[i - offset + 1] ELSE h[b][i]]]

OverflowsUnsummed(n) == size > MaxRef \/ n > MaxRef     \* mutant: the sum is not checked
Overflows(n) == size > MaxRef \/ n > MaxRef \/ size + n > MaxRef

AppendReturnsEnd(src) ==        \* mutant: the reference is taken after the size moved
    /\ ~Overflows(src.size)
    /\ size + src.size <= capacity
    /\ heap' = IF src.size = 0 THEN heap
               ELSE Write(heap, data, size, src.size, Read(heap, src))
    /\ size' = size + src.size
    /\ result' = Answer("OK", [offset |-> size', size |-> src.size])
    /\ UNCHANGED <<data, capacity, retired, views>>
AppendInPlace(src) ==
    /\ ~Overflows(src.size)
    /\ size + src.size <= capacity
    /\ heap' = IF src.size = 0 THEN heap
               ELSE Write(heap, data, size, src.size, Read(heap, src))
    /\ size' = size + src.size
    /\ result' = Answer("OK", [offset |-> size, size |-> src.size])
    /\ UNCHANGED <<data, capacity, retired, views>>

AppendGrowing(src, b) ==
    LET needed == size + src.size
        cap == NextCapacity(capacity, needed)
        grown == Grown(b, cap)
    IN  /\ ~Overflows(src.size)
        /\ needed > capacity
        /\ Move(b, cap)
        /\ heap' = Write(grown, b, size, src.size, Read(grown, src))
        /\ size' = needed
        /\ result' = Answer("OK", [offset |-> size, size |-> src.size])
        /\ UNCHANGED views

AppendFails(src) ==
    \/ Overflows(src.size) /\ Refused("OVERFLOW")
    \/ /\ ~Overflows(src.size)
       /\ size + src.size > capacity
       /\ Refused("NO_MEMORY")

ArenaAppend(src) ==
    \/ AppendInPlace(src)
    \/ \E b \in Block : AppendGrowing(src, b)
    \/ AppendFails(src)

-----------------------------------------------------------------------------
InBounds(ref) == ref.offset <= size /\ ref.size <= size - ref.offset

(* omc_arena_view: a pointer into the current block, or none.              *)
View(ref) ==
    /\ IF InBounds(ref)
       THEN /\ views' = views \cup {[block |-> data, offset |-> ref.offset,
                                     size |-> ref.size]}
            /\ result' = Answer("OK", NoRef)
       ELSE /\ result' = Answer("INVALID_ARGUMENT", NoRef)
            /\ UNCHANGED views
    /\ UNCHANGED <<data, size, capacity, retired, heap>>

(* omc_arena_view_mut, written through before the next call.  Its callers  *)
(* write only ranges they have not lent: bytes just appended               *)
(* (omc_exr.c, omc_exif.c) or the entry table of a batch under             *)
(* construction (omc_transfer.c).                                          *)
Patch(ref, cell) ==
    /\ InBounds(ref)
    /\ \A v \in views : Span(v) \cap Span(ref) = {}
    /\ heap' = IF ref.size = 0 THEN heap
               ELSE Write(heap, data, ref.offset, ref.size, [i \in 1..ref.size |-> cell])
    /\ result' = Answer("OK", NoRef)
    /\ UNCHANGED <<data, size, capacity, retired, views>>

FreeAll(blocks) == [b \in DOMAIN heap \ blocks |-> heap[b]]

(* omc_arena_reset and omc_arena_fini: every borrowed view expires.        *)
Reset ==
    /\ size' = 0
    /\ heap' = FreeAll(retired)
    /\ retired' = {}
    /\ views' = {}
    /\ result' = Answer("OK", NoRef)
    /\ UNCHANGED <<data, capacity>>

Fini ==
    /\ heap' = FreeAll(retired \cup {data})
    /\ data' = NULL /\ size' = 0 /\ capacity' = 0 /\ retired' = {}
    /\ views' = {}
    /\ result' = Answer("OK", NoRef)

ArenaNext ==
    \/ \E cap \in 0..MaxSize : Reserve(cap)
    \/ \E bytes \in Chunks : ArenaAppend(Caller(bytes))
    \/ \E v \in views : ArenaAppend(Borrowed(v))
    \/ Cardinality(views) < MaxViews /\ \E ref \in Refs : View(ref)
    \/ \E ref \in Refs, cell \in Cell : Patch(ref, cell)
    \/ Reset
    \/ Fini

ArenaSpec == ArenaInit /\ [][ArenaNext]_arenaVars

-----------------------------------------------------------------------------
(* Every variable has its type; a block holds as many bytes as malloc was  *)
(* asked for.                                                              *)
ArenaTypes ==
    /\ data \in Block \cup {NULL}
    /\ size \in 0..MaxRef /\ capacity \in 0..MaxSize
    /\ retired \subseteq Block
    /\ DOMAIN heap \subseteq Block
    /\ heap = [b \in DOMAIN heap |-> heap[b]]
    /\ \A b \in DOMAIN heap :
          \E n \in 0..MaxSize : heap[b] \in [0..(n - 1) -> Cell \cup {Junk}]
    /\ views \subseteq [block : Block \cup {NULL}, offset : 0..MaxRef, size : 0..MaxRef]
    /\ result \in [status : {"OK", "NO_MEMORY", "OVERFLOW", "INVALID_ARGUMENT"},
                   ref : Refs]

(* The arena owns exactly what it allocated: the current block and the     *)
(* retired ones, none of them twice.  No path of reserve, append, reset or *)
(* fini leaks a block or leaves one to be freed a second time.             *)
OwnsItsBlocks ==
    /\ DOMAIN heap = retired \cup ({data} \ {NULL})
    /\ data \notin retired

(* The current block is as large as capacity says, holds the bytes in use, *)
(* and every one of them was written: append never exposes memory that     *)
(* malloc returned and nobody filled, whichever growth path it took.       *)
BytesInUseWritten ==
    /\ (data = NULL) => (capacity = 0)
    /\ size <= capacity
    /\ (data # NULL) => (data \in DOMAIN heap /\ DOMAIN heap[data] = 0..(capacity - 1))
    /\ \A i \in 0..(size - 1) : heap[data][i] \in Cell

(* A pointer borrowed from the arena since its last reset stays inside a   *)
(* block that is not freed, and reads what a view of the same reference    *)
(* taken now reads, however often the arena has grown in between.          *)
ViewsStayReadable ==
    \A v \in views :
        /\ v.offset + v.size <= size
        /\ v.size > 0 =>
              /\ v.block \in DOMAIN heap
              /\ \A i \in Span(v) :
                    i \in DOMAIN heap[v.block] /\ heap[v.block][i] = heap[data][i]

ArenaInv == ArenaTypes /\ OwnsItsBlocks /\ BytesInUseWritten /\ ViewsStayReadable

(* The arena as the log its clients see.                                   *)
Log == INSTANCE ArenaLog WITH
    log <- [i \in 0..(size - 1) |-> heap[data][i]],
    end <- size,
    lent <- {[offset |-> v.offset, size |-> v.size] : v \in views}

(* Every call does to the bytes, to the lent references and to the answer  *)
(* what the log does: appended bytes land at the reference returned, even  *)
(* when they came from the arena itself, and a failed call changes nothing.*)
ImplementsLog == Log!Spec
=============================================================================
