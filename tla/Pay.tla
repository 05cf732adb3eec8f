-------------------------------- MODULE Pay --------------------------------
(***************************************************************************)
(* Payload extraction (src/src/read/omc_pay.c): the metadata of one stream *)
(* is put together from the blocks a scan found, which may be one range of *)
(* the file, numbered or placed parts, GIF sub-blocks or a compressed      *)
(* stream.  The client's buffer may be too small, parts may lie outside    *)
(* the file, reads may fail, and output is limited.                        *)
(***************************************************************************)
EXTENDS Integers, Sequences, FiniteSets, SequencesExt

CONSTANTS
    File,           \* the bytes of the file, each a number
    MaxU64,         \* the largest omc_u64; as max_output_bytes: no limit
    Scratch,        \* bytes inflated at a time when they are only counted
    Calls           \* the calls the client makes

ASSUME FileAssumption == MaxU64 \in Nat /\ File \in Seq(0 .. 255) /\ Len(File) <= MaxU64
ASSUME ScratchAssumption == Scratch \in Nat \ {0}

(* A block: its stream (format, kind and id), and the omc_blk_ref fields.  *)
Sizes == 0 .. MaxU64
Chunking == {"NONE", "SEQ", "XMP_EXT", "GIF_SUB"}
Compression == {"NONE", "DEFLATE", "BROTLI"}
Block == [stream : {"a", "b"}, chunking : Chunking, compression : Compression,
          group : Nat, count : Nat, index : Nat,
          off : Sizes, size : Sizes, lOff : Sizes, lSize : Sizes]

(* A call: blocks and seed, capacities, limits, a stream buffer for        *)
(* compressed input, and what a compressed stream turns out to hold: a     *)
(* number of bytes, and then its end, an error, or nothing more.           *)
Call == [blocks : Seq(Block), seed : Nat, cap : Sizes, scratchCap : Nat, maxParts : Nat,
         maxOut : Sizes, decompress : BOOLEAN, buffer : BOOLEAN,
         holds : Nat, ends : {"end", "error", "cut", "no memory"}]

ASSUME CallsAssumption == Calls \subseteq Call

VARIABLES
    job,        \* the omc_pay_ext under way
    pc,         \* where it is
    res,        \* omc_pay_res
    out,        \* the client's buffer
    chain,      \* scratch_indices: the blocks of the parts, in order
    reached,    \* parts copied, or the offset reached in the file
    at,         \* bytes of payload reached (out_offset, total_size, total_out)
    readFailed  \* history: a read of the source has failed

payVars == <<job, pc, res, out, chain, reached, at, readFailed>>

Untouched == -1
Status == {"OK", "TRUNCATED", "UNSUPPORTED", "MALFORMED", "LIMIT", "NOMEM"}
Seed(c) == c.blocks[c.seed]
Lesser(a, b) == IF a < b THEN a ELSE b

PayInit ==
    /\ job \in Calls
    /\ pc = "begin"
    /\ res = [status |-> "OK", written |-> 0, needed |-> 0]
    /\ out = [n \in 1 .. job.cap |-> Untouched]
    /\ chain = <<>> /\ reached = 0 /\ at = 0
    /\ readFailed = FALSE

Fail(status) ==
    /\ pc' = "returned"
    /\ res' = [res EXCEPT !.status = status]

(* Bytes lost to a full buffer are remembered, unless something else was.  *)
Truncated(r) == [r EXCEPT !.status = IF @ = "OK" THEN "TRUNCATED" ELSE @]

-----------------------------------------------------------------------------
(* omc_pay_copy_range: size bytes at off in the file go to position pos of *)
(* the payload, as far as the buffer reaches.                              *)
InFile(off, size) == off <= Len(File) /\ size <= Len(File) - off

Reaches(pos, size) ==               \* the bytes the buffer has room for
    IF pos > job.cap THEN 0 ELSE Lesser(size, job.cap - pos)

Written(r, pos, size) == IF pos + size > r.written /\ pos <= job.cap THEN pos + size ELSE r.written

Copied(r, pos, size) ==
    LET done == [r EXCEPT !.written = Written(r, pos, Reaches(pos, size))]
    IN IF pos > job.cap \/ size > job.cap - pos THEN Truncated(done) ELSE done

CopyRange(r, off, size, pos, next) ==
    IF ~InFile(off, size) \/ pos > r.needed
    THEN /\ pc' = "returned" /\ res' = [r EXCEPT !.status = "MALFORMED"]
         /\ UNCHANGED <<out, readFailed>>
    ELSE LET n == Reaches(pos, size)
         IN \/ /\ n > 0
               /\ readFailed' = TRUE
               /\ pc' = "returned" /\ res' = [r EXCEPT !.status = "MALFORMED"]
               /\ UNCHANGED out
            \/ /\ out' = [p \in DOMAIN out |->
                            IF p - pos \in 1 .. n THEN File[off + p - pos] ELSE out[p]]
               /\ res' = Copied(r, pos, size)
               /\ pc' = next
               /\ UNCHANGED readFailed

-----------------------------------------------------------------------------
(* omc_pay_same_stream.                                                    *)
SameStream(s, b) ==
    /\ s.stream = b.stream /\ s.chunking = b.chunking
    /\ IF s.group # 0 \/ b.group # 0 THEN s.group = b.group
       ELSE s.count # 0 /\ b.count # 0 => s.count = b.count

Parts(c) == {n \in DOMAIN c.blocks : SameStream(Seed(c), c.blocks[n])}

(* The selection sort by part_index, and the stable insertion sort by      *)
(* logical_offset.                                                         *)
Ahead(S, key, m) == {k \in S : key[k] < key[m] \/ (key[k] = key[m] /\ k < m)}
Sorted(S, key) ==
    [n \in 1 .. Cardinality(S) |-> CHOOSE m \in S : Cardinality(Ahead(S, key, m)) = n - 1]

ByIndex(c) == Sorted(Parts(c), [m \in Parts(c) |-> c.blocks[m].index])
ByOffset(c) == Sorted(Parts(c), [m \in Parts(c) |-> c.blocks[m].lOff])

(* The bytes of the first n of some parts.                                 *)
SizeTo(c, parts, n) ==
    LET sum[m \in 0 .. Len(parts)] ==
            IF m = 0 THEN 0 ELSE sum[m - 1] + c.blocks[parts[m]].size
    IN sum[n]
Total(c, parts) == SizeTo(c, parts, Len(parts))

Numbered(c, m, n) == c.blocks[m].index = n - 1

SeqStatus(c) ==
    IF Seed(c).count = 0 THEN "MALFORMED"
    ELSE IF Seed(c).count > c.maxParts \/ Seed(c).count > c.scratchCap
            \/ Cardinality(Parts(c)) > c.scratchCap THEN "LIMIT"
    ELSE IF \/ Cardinality(Parts(c)) # Seed(c).count
            \/ \E m, n \in Parts(c) : m # n /\ c.blocks[m].index = c.blocks[n].index
            \/ \E n \in DOMAIN ByIndex(c) : /\ ~Numbered(c, ByIndex(c)[n], n)
                                           /\ SizeTo(c, ByIndex(c), n - 1) <= MaxU64
         THEN "MALFORMED"
    ELSE IF Total(c, ByIndex(c)) > MaxU64 THEN "LIMIT"
    ELSE "OK"

AdjoinsAny(c, m, n) == c.blocks[m].lSize = Seed(c).lSize    \* mutant: gaps are not looked for
Adjoins(c, m, n) ==
    /\ c.blocks[m].lSize = Seed(c).lSize
    /\ c.blocks[m].lOff = SizeTo(c, ByOffset(c), n - 1)

AllAdjoin(c) ==
    /\ \A n \in DOMAIN ByOffset(c) : Adjoins(c, ByOffset(c)[n], n)
    /\ Total(c, ByOffset(c)) <= MaxU64

ExtStatus(c) ==
    IF Cardinality(Parts(c)) > Lesser(c.scratchCap, c.maxParts) THEN "LIMIT"
    ELSE IF ~AllAdjoin(c) \/ Total(c, ByOffset(c)) # Seed(c).lSize THEN "MALFORMED"
    ELSE "OK"

Announced(c) == IF ExtStatus(c) = "MALFORMED" /\ AllAdjoin(c) THEN Seed(c).lSize ELSE 0

(* All parts are known before the first is copied.  A refusal announces    *)
(* the size only once placed parts were found to adjoin.                   *)
Assemble(parts, status, announced) ==
    LET needed == Total(job, parts)
    IN /\ IF status # "OK"
          THEN /\ pc' = "returned"
               /\ res' = [res EXCEPT !.status = status, !.needed = announced]
          ELSE /\ res' = [res EXCEPT !.needed = needed,
                                     !.status = IF needed > job.maxOut THEN "LIMIT" ELSE "OK"]
               /\ pc' = IF needed > job.maxOut THEN "returned" ELSE "copy"
       /\ chain' = parts
       /\ UNCHANGED <<job, out, reached, at, readFailed>>

CopyPart ==
    /\ pc = "copy"
    /\ IF reached = Len(chain)
       THEN /\ pc' = "returned"
            /\ UNCHANGED <<res, out, at, reached, readFailed>>
       ELSE LET b == job.blocks[chain[reached + 1]]
            IN /\ CopyRange(res, b.off, b.size, at, "copy")
               /\ at' = at + b.size
               /\ reached' = reached + 1
    /\ UNCHANGED <<job, chain>>

-----------------------------------------------------------------------------
(* omc_pay_copy_gif_sub_blocks: a size and that many bytes, until size 0,  *)
(* which must be the end of the block; reached is an offset in the file.   *)
GifEnd(c) == Seed(c).off + Seed(c).size

GifStep ==
    /\ pc = "gif"
    /\ UNCHANGED <<job, chain>>
    /\ \/ /\ reached < GifEnd(job)
          /\ readFailed' = TRUE
          /\ Fail("MALFORMED") /\ UNCHANGED <<out, reached, at>>
       \/ /\ reached = GifEnd(job)
          /\ Fail("MALFORMED") /\ UNCHANGED <<out, reached, at, readFailed>>
       \/ /\ reached < GifEnd(job) /\ File[reached + 1] = 0
          /\ IF reached + 1 = GifEnd(job)
             THEN pc' = "returned" /\ res' = [res EXCEPT !.needed = at]
             ELSE Fail("MALFORMED")
          /\ UNCHANGED <<out, reached, at, readFailed>>
       \/ /\ reached < GifEnd(job) /\ File[reached + 1] # 0
          /\ LET size == File[reached + 1]
                 more == [res EXCEPT !.needed = at + size]
             IN IF size > GifEnd(job) - (reached + 1)
                THEN Fail("MALFORMED") /\ UNCHANGED <<out, reached, at, readFailed>>
                ELSE IF size > job.maxOut - at
                THEN /\ pc' = "returned" /\ res' = [more EXCEPT !.status = "LIMIT"]
                     /\ UNCHANGED <<out, reached, at, readFailed>>
                ELSE /\ CopyRange(more, reached + 1, size, at, "gif")
                     /\ at' = at + size
                     /\ reached' = reached + 1 + size

-----------------------------------------------------------------------------
(* The two decompressors differ in their library only.  The library gives  *)
(* any number of bytes up to the room it is given, and may say only later  *)
(* that the stream is over; every call of it makes progress.  Byte n of    *)
(* what it gives is 256 + n.                                               *)
Remaining == job.maxOut - at

DirectAtLimit == res.written < job.cap     \* mutant: the probe goes to the client's buffer
Direct == res.written < job.cap /\ Remaining # 0

(* At the limit one more byte is asked for, which nobody gets.             *)
Room ==
    IF Remaining = 0 THEN 1
    ELSE IF Direct THEN Lesser(job.cap - res.written, Remaining)
    ELSE Lesser(Scratch, Remaining)

Inflated(n) ==
    /\ at' = at + n
    /\ UNCHANGED reached
    /\ out' = IF Direct
              THEN [p \in DOMAIN out |->
                        IF p - res.written \in 1 .. n THEN 256 + at + p - res.written ELSE out[p]]
              ELSE out

Ended(r) ==
    [r EXCEPT !.needed = at',
        !.status = CASE job.ends = "end" -> @
                     [] job.ends = "no memory" -> "NOMEM"
                     [] OTHER -> "MALFORMED"]

Inflate(n, over) ==
    /\ pc = "inflate" /\ job.buffer
    /\ n <= Lesser(Room, job.holds - at)
    /\ over => at + n = job.holds
    /\ n > 0 \/ over
    /\ Inflated(n)
    /\ IF n > Remaining
       THEN pc' = "returned" /\ res' = [res EXCEPT !.status = "LIMIT", !.needed = at + 1]
       ELSE LET got == IF n = 0 THEN res
                       ELSE IF Direct THEN [res EXCEPT !.written = @ + n]
                       ELSE Truncated(res)
            IN IF over THEN pc' = "returned" /\ res' = Ended(got)
               ELSE pc' = "inflate" /\ res' = got
    /\ UNCHANGED <<job, chain, readFailed>>

(* Callback input without a buffer, or a read of it that fails.            *)
FeedFails ==
    /\ pc = "inflate"
    /\ IF job.buffer THEN Fail("MALFORMED") /\ readFailed' = TRUE
       ELSE Fail("LIMIT") /\ UNCHANGED readFailed
    /\ UNCHANGED <<job, out, chain, reached, at>>

-----------------------------------------------------------------------------
Single(c) == Seed(c).count \in {0, 1}

Begin ==
    /\ pc = "begin"
    /\ IF job.seed \notin DOMAIN job.blocks
       THEN Fail("MALFORMED") /\ UNCHANGED <<job, out, chain, reached, at, readFailed>>
       ELSE IF Seed(job).compression # "NONE"
       THEN /\ IF ~job.decompress \/ ~Single(job) \/ Seed(job).chunking # "NONE" THEN Fail("UNSUPPORTED")
               ELSE IF ~InFile(Seed(job).off, Seed(job).size) THEN Fail("MALFORMED")
               ELSE pc' = "inflate" /\ UNCHANGED res
            /\ UNCHANGED <<job, out, chain, reached, at, readFailed>>
       ELSE IF Seed(job).chunking = "NONE" /\ Single(job)
       THEN Assemble(<<job.seed>>, "OK", 0)
       ELSE IF Seed(job).chunking = "GIF_SUB"
       THEN /\ IF ~Single(job) THEN Fail("UNSUPPORTED")
               ELSE IF ~InFile(Seed(job).off, Seed(job).size) THEN Fail("MALFORMED")
               ELSE pc' = "gif" /\ UNCHANGED res
            /\ reached' = Seed(job).off
            /\ UNCHANGED <<job, out, chain, at, readFailed>>
       ELSE IF Seed(job).chunking = "XMP_EXT" THEN Assemble(ByOffset(job), ExtStatus(job), Announced(job))
       ELSE Assemble(ByIndex(job), SeqStatus(job), 0)

PayNext ==
    \/ Begin
    \/ CopyPart
    \/ GifStep
    \/ \E n \in 0 .. job.holds, over \in BOOLEAN : Inflate(n, over)
    \/ FeedFails

PaySpec == PayInit /\ [][PayNext]_payVars

-----------------------------------------------------------------------------
(* What the payload of a call is, said without steps.                      *)
Bytes(b) == SubSeq(File, b.off + 1, b.off + b.size)
NoPayload == <<Untouched>>

NumberedPayload(c) ==
    IF \/ Seed(c).count = 0 \/ Cardinality(Parts(c)) # Seed(c).count
       \/ {c.blocks[m].index : m \in Parts(c)} # 0 .. Seed(c).count - 1
       \/ \E m \in Parts(c) : ~InFile(c.blocks[m].off, c.blocks[m].size)
    THEN NoPayload
    ELSE FlattenSeq([n \in 1 .. Seed(c).count |->
                        Bytes(c.blocks[CHOOSE m \in Parts(c) : c.blocks[m].index = n - 1])])

Holds(b, k) == k - b.lOff \in 1 .. b.size

(* A part of no bytes, between bytes of another, or behind a part in the   *)
(* file that begins where it lies.                                         *)
Stray(c, m) ==
    /\ c.blocks[m].size = 0
    /\ \E k \in Parts(c) :
        /\ c.blocks[k].size # 0
        /\ c.blocks[m].lOff - c.blocks[k].lOff
                \in (IF k < m THEN 0 ELSE 1) .. c.blocks[k].size - 1

PlacedPayload(c) ==
    IF \/ \E m \in Parts(c) : \/ c.blocks[m].lSize # Seed(c).lSize
                              \/ c.blocks[m].lOff + c.blocks[m].size > Seed(c).lSize
                              \/ ~InFile(c.blocks[m].off, c.blocks[m].size)
                              \/ Stray(c, m)
       \/ \E k \in 1 .. Seed(c).lSize :
            Cardinality({m \in Parts(c) : Holds(c.blocks[m], k)}) # 1
    THEN NoPayload
    ELSE [k \in 1 .. Seed(c).lSize |->
            LET b == c.blocks[CHOOSE m \in Parts(c) : Holds(c.blocks[m], k)]
            IN File[b.off + k - b.lOff]]

SubBlocks(c) ==     \* what the sub-blocks from each offset on hold
    LET from[p \in 0 .. Len(File)] ==
            IF p >= GifEnd(c) THEN NoPayload
            ELSE LET size == File[p + 1]
                 IN IF size = 0 THEN IF p + 1 = GifEnd(c) THEN <<>> ELSE NoPayload
                    ELSE IF p + 1 + size > GifEnd(c) THEN NoPayload
                    ELSE SubSeq(File, p + 2, p + 1 + size) \o from[p + 1 + size]
    IN from

GifPayload(c) ==
    IF InFile(Seed(c).off, Seed(c).size) THEN SubBlocks(c)[Seed(c).off] ELSE NoPayload

Payload(c) ==
    IF c.seed \notin DOMAIN c.blocks THEN NoPayload
    ELSE IF Seed(c).compression # "NONE"
    THEN IF c.ends = "end" /\ InFile(Seed(c).off, Seed(c).size)
         THEN [n \in 1 .. c.holds |-> 256 + n] ELSE NoPayload
    ELSE CASE Seed(c).chunking = "GIF_SUB" -> GifPayload(c)
           [] Seed(c).chunking = "XMP_EXT" -> PlacedPayload(c)
           [] Seed(c).chunking = "NONE" /\ Single(c) ->
                IF InFile(Seed(c).off, Seed(c).size) THEN Bytes(Seed(c)) ELSE NoPayload
           [] OTHER -> NumberedPayload(c)

Complete(c) == Untouched \notin Range(Payload(c))

LacksRoom(c) ==     \* for the indices of the parts, or for compressed input
    IF Seed(c).compression # "NONE" THEN ~c.buffer
    ELSE /\ Seed(c).chunking \in {"SEQ", "XMP_EXT"} \/ ~Single(c)
         /\ Cardinality(Parts(c)) > Lesser(c.scratchCap, c.maxParts)

(* An accepted call answers with the payload its blocks describe, whatever *)
(* their order in the file: all of it, or as much as the buffer holds with *)
(* the size it would need; so measuring and extracting agree.  Nothing     *)
(* that is complete and within the limits is refused but for want of room, *)
(* by a failing read, or because its kind of block is not supported.       *)
AnswerIsPayload ==
    pc = "returned" =>
        IF res.status \in {"OK", "TRUNCATED"}
        THEN /\ Complete(job) /\ Len(Payload(job)) <= job.maxOut
             /\ res.needed = Len(Payload(job))
             /\ res.written = Lesser(job.cap, Len(Payload(job)))
             /\ (res.status = "TRUNCATED") = (job.cap < Len(Payload(job)))
             /\ \A p \in DOMAIN out :
                    out[p] = IF p <= Len(Payload(job)) THEN Payload(job)[p] ELSE Untouched
        ELSE \/ ~Complete(job) \/ Len(Payload(job)) > job.maxOut
             \/ LacksRoom(job) \/ readFailed \/ res.status = "UNSUPPORTED"

(* omc_pay.h 23-24: exact-cap streams succeed, and bytes beyond the cap    *)
(* never reach output, not even those of a call that is refused in the end.*)
(* At no step does the count of bytes written pass the buffer.             *)
LimitHolds ==
    /\ res.written <= job.cap
    /\ \A p \in DOMAIN out : p > job.maxOut => out[p] = Untouched
    /\ pc = "returned" /\ res.status = "LIMIT" /\ ~LacksRoom(job) /\ Complete(job) =>
            Len(Payload(job)) > job.maxOut
=============================================================================
