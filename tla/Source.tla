------------------------------- MODULE Source -------------------------------
(***************************************************************************)
(* Positional reads of an image file: omc_source_read and                  *)
(* omc_source_read_view (src/src/base/omc_source.c) and the cached input   *)
(* of the decoders, omc_input_read and omc_input_slice                     *)
(* (src/src/read/omc_input.c).  The bytes come from memory or from a host  *)
(* callback that may fall short, fail, report a changed file, be cancelled *)
(* or break its contract; requests and bytes are budgeted, and the first   *)
(* failure ends the operation.                                             *)
(***************************************************************************)
EXTENDS Integers, Sequences, FiniteSets

CONSTANTS
    SourceSize,     \* bytes of the source; byte i of it is the number i
    Garbage,        \* a byte that is not the source's
    Capacity,       \* bytes of the window's storage
    CacheBytes,     \* bytes an input caches (32 in the code)
    Limits,         \* budgets a caller may set: records of requests, total, single
    ReadAhead,      \* bytes a caller of a view may ask to fetch at least
    MaxCount,       \* largest value of the omc_u32 request counter
    MaxTotal,       \* largest value of the omc_u64 byte counters
    MaxDepth        \* bound of the model: nesting of slices

ASSUME SizesAreNaturals ==
    /\ {SourceSize, Capacity, CacheBytes, MaxCount, MaxTotal} \subseteq Nat
    /\ ReadAhead \subseteq Nat
    /\ MaxDepth \in Nat \ {0}
ASSUME LimitsAreBudgets ==
    Limits \subseteq [requests : 0..MaxCount, total : 0..MaxTotal, single : Nat]
ASSUME GarbageIsNoByte == Garbage \notin 0..(SourceSize - 1)

VARIABLES
    memory,     \* contiguous data is available, no callback is needed
    limits,     \* the budgets of the operation
    state,      \* omc_source_state of the operation
    window,     \* the caller's window: valid, range offset, stored bytes
    inputs,     \* the decoders' inputs, the innermost slice last
    answer      \* what the last call returned

vars == <<memory, limits, state, window, inputs, answer>>

Offsets == 0..SourceSize
Byte == (0..(SourceSize - 1)) \cup {Garbage}
Codes == {"OK", "OUT_OF_RANGE", "REQUEST_TOO_LARGE", "REQUEST_LIMIT", "BYTE_LIMIT",
          "SHORT_READ", "IO_FAILURE", "CHANGED", "CANCELLED", "CONTRACT_VIOLATION",
          "SCRATCH_TOO_SMALL"}

(* The bytes of the source a caller who asks for this part of a range must *)
(* get.                                                                    *)
BytesAt(range, offset, size) == [i \in 1..size |-> range.start + offset + i - 1]

(* What a call returns for size bytes at a place of the source.            *)
Answer(code, at, size, bytes) ==
    [code |-> code, at |-> IF code = "OK" THEN at ELSE 0, size |-> size, bytes |-> bytes]

Whole == [start |-> 0, size |-> SourceSize]
Inner == inputs[Len(inputs)]
InRange(range, offset, size) == offset <= range.size /\ size <= range.size - offset

Init ==
    /\ memory \in BOOLEAN
    /\ limits \in Limits
    /\ state = [code |-> "OK", requests |-> 0, requested |-> 0, completed |-> 0,
                failure |-> <<0, 0>>]
    /\ window = [valid |-> FALSE, offset |-> 0, bytes |-> <<>>]
    /\ inputs = <<[start |-> 0, size |-> SourceSize, at |-> 0, cache |-> <<>>]>>
    /\ answer = Answer("OK", 0, 0, <<>>)

-----------------------------------------------------------------------------
FailedLast(st, code, offset, size) ==   \* mutant: the last failure is recorded
    [st EXCEPT !.code = code, !.failure = <<offset, size>>]

(* fail(): only the first failure of an operation is recorded.             *)
Failed(st, code, offset, size) ==
    IF st.code = "OK"
    THEN [st EXCEPT !.code = code, !.failure = <<offset, size>>]
    ELSE st

(* What a host callback may report for a request of size bytes.            *)
Reports(size) ==
    [code : {"OK", "ERROR", "CHANGED", "CANCELLED"}, read : 0..size]
    \cup [code : {"OK", "UNKNOWN"}, read : {size + 1}]

ReportedCode(report, size) ==
    IF report.read > size \/ report.code = "UNKNOWN" THEN "CONTRACT_VIOLATION"
    ELSE CASE report.code = "OK" -> IF report.read = size THEN "OK" ELSE "SHORT_READ"
           [] report.code = "ERROR" -> "IO_FAILURE"
           [] report.code = "CHANGED" -> "CHANGED"
           [] report.code = "CANCELLED" -> "CANCELLED"

BudgetPerRead(st, size) ==          \* mutant: the total budget is not cumulative
    IF limits.single # 0 /\ size > limits.single THEN "REQUEST_TOO_LARGE"
    ELSE IF \/ limits.requests # 0 /\ st.requests >= limits.requests
            \/ st.requests = MaxCount THEN "REQUEST_LIMIT"
    ELSE IF \/ size > MaxTotal - st.requested
            \/ limits.total # 0 /\ size > limits.total THEN "BYTE_LIMIT"
    ELSE "OK"

(* The ceilings a request of size bytes must stay under, in the code's     *)
(* order.                                                                  *)
BudgetFailure(st, size) ==
    IF limits.single # 0 /\ size > limits.single THEN "REQUEST_TOO_LARGE"
    ELSE IF \/ limits.requests # 0 /\ st.requests >= limits.requests
            \/ st.requests = MaxCount THEN "REQUEST_LIMIT"
    ELSE IF \/ size > MaxTotal - st.requested
            \/ limits.total # 0 /\ st.requested > limits.total
            \/ limits.total # 0 /\ size > limits.total - st.requested THEN "BYTE_LIMIT"
    ELSE "OK"

(* omc_source_read: the states and destination bytes it may leave.  An     *)
(* argument failure names the request by its offset in the range, a budget *)
(* or I/O failure by its offset in the source.                             *)
SourceRead(st, range, offset, size) ==
    LET absolute == range.start + offset
        garbage == [i \in 1..size |-> Garbage]
        sent == [st EXCEPT !.requests = @ + 1, !.requested = @ + size]
        over == BudgetFailure(st, size)
        Received(report) ==
            LET code == ReportedCode(report, size)
                got == [sent EXCEPT !.completed =
                           IF code = "CONTRACT_VIOLATION" THEN @ ELSE @ + report.read]
            IN  IF code = "OK"
                THEN [code |-> code, st |-> got, bytes |-> BytesAt(range, offset, size)]
                ELSE [code |-> code, st |-> Failed(got, code, absolute, size),
                      bytes |-> garbage]
    IN  CASE st.code # "OK" -> {[code |-> st.code, st |-> st, bytes |-> garbage]}
          [] st.code = "OK" /\ ~InRange(range, offset, size) ->
                {[code |-> "OUT_OF_RANGE", st |-> Failed(st, "OUT_OF_RANGE", offset, size),
                  bytes |-> garbage]}
          [] st.code = "OK" /\ InRange(range, offset, size) /\ size = 0 ->
                {[code |-> "OK", st |-> st, bytes |-> <<>>]}
          [] st.code = "OK" /\ InRange(range, offset, size) /\ size # 0 ->
                IF over # "OK"
                THEN {[code |-> over, st |-> Failed(st, over, absolute, size),
                       bytes |-> garbage]}
                ELSE IF memory
                THEN {[code |-> "OK", st |-> [sent EXCEPT !.completed = @ + size],
                       bytes |-> BytesAt(range, offset, size)]}
                ELSE {Received(report) : report \in Reports(size)}

(* A caller that needs exactly these bytes.                                *)
ExactRead(offset, size) ==
    \E read \in SourceRead(state, Whole, offset, size) :
        /\ state' = read.st
        /\ answer' = Answer(read.code, offset, size,
                            IF read.code = "OK" THEN read.bytes ELSE <<>>)
        /\ UNCHANGED <<memory, limits, window, inputs>>

-----------------------------------------------------------------------------
(* omc_source_read_view: memory is lent, a window hit is lent, and a miss  *)
(* fetches at least minimum bytes as far as storage, range and budgets go. *)
Smaller(m, n) == IF m < n THEN m ELSE n
Larger(m, n) == IF m > n THEN m ELSE n

Cached(offset, size) ==
    /\ window.valid
    /\ Len(window.bytes) <= Capacity
    /\ offset >= window.offset
    /\ offset - window.offset <= Len(window.bytes)
    /\ size <= Len(window.bytes) - (offset - window.offset)

FetchUnclamped(range, offset, size, minimum) ==    \* mutant: budgets do not cut the read-ahead
    Smaller(Smaller(Larger(size, minimum), Capacity), range.size - offset)

Fetch(range, offset, size, minimum) ==
    LET wanted == Smaller(Smaller(Larger(size, minimum), Capacity), range.size - offset)
        single == IF limits.single # 0 THEN Smaller(wanted, limits.single) ELSE wanted
    IN  IF limits.total # 0 /\ state.requested < limits.total
        THEN Smaller(single, limits.total - state.requested) ELSE single

RefuseView(code, offset, size) ==
    /\ state' = Failed(state, code, offset, size)
    /\ answer' = Answer(code, offset, size, <<>>)
    /\ UNCHANGED window

LendView(offset, bytes) ==
    /\ answer' = Answer("OK", offset, Len(bytes), bytes)
    /\ UNCHANGED <<state, window>>

RefillInPlace(offset, size, fetch) ==   \* mutant: the window is not invalidated first
    \E read \in SourceRead(state, Whole, offset, fetch) :
        /\ state' = read.st
        /\ window' = IF read.code = "OK"
                     THEN [valid |-> TRUE, offset |-> offset, bytes |-> read.bytes]
                     ELSE [window EXCEPT !.bytes = read.bytes]
        /\ answer' = Answer(read.code, offset, size,
                            IF read.code = "OK" THEN SubSeq(read.bytes, 1, size) ELSE <<>>)

(* The window is invalid while its storage is refilled.                    *)
Refill(offset, size, fetch) ==
    \E read \in SourceRead(state, Whole, offset, fetch) :
        /\ state' = read.st
        /\ window' = [valid |-> read.code = "OK", offset |-> IF read.code = "OK" THEN offset ELSE 0,
                      bytes |-> IF read.code = "OK" THEN read.bytes ELSE <<>>]
        /\ answer' = Answer(read.code, offset, size,
                            IF read.code = "OK" THEN SubSeq(read.bytes, 1, size) ELSE <<>>)

ReadView(offset, size, minimum) ==
    /\ UNCHANGED <<memory, limits, inputs>>
    /\ IF state.code # "OK" THEN RefuseView(state.code, offset, size)
       ELSE IF ~InRange(Whole, offset, size) THEN RefuseView("OUT_OF_RANGE", offset, size)
       ELSE IF memory THEN LendView(offset, BytesAt(Whole, offset, size))
       ELSE IF size = 0 THEN LendView(offset, <<>>)
       ELSE IF size > Capacity THEN RefuseView("SCRATCH_TOO_SMALL", offset, size)
       ELSE IF Cached(offset, size)
       THEN LendView(offset, SubSeq(window.bytes, offset - window.offset + 1,
                                    offset - window.offset + size))
       ELSE IF Fetch(Whole, offset, size, minimum) < size
       THEN RefuseView("BYTE_LIMIT", offset, size)
       ELSE Refill(offset, size, Fetch(Whole, offset, size, minimum))

-----------------------------------------------------------------------------
(* omc_input_read: a decoder reads through the small cache of its input.   *)
(* On memory it neither consults nor spends the budgets.                   *)
InputCached(input, offset, size) ==
    /\ size <= Len(input.cache)
    /\ offset >= input.at
    /\ offset - input.at <= Len(input.cache) - size

InputAnswer(code, offset, size, bytes) ==
    answer' = Answer(code, Inner.start + offset, size, bytes)

InputRead(offset, size) ==
    /\ UNCHANGED <<memory, limits, window>>
    /\ IF ~InRange(Inner, offset, size)
       THEN InputAnswer("OUT_OF_RANGE", offset, size, <<>>) /\ UNCHANGED <<state, inputs>>
       ELSE IF memory
       THEN InputAnswer("OK", offset, size, BytesAt(Inner, offset, size)) /\ UNCHANGED <<state, inputs>>
       ELSE IF state.code # "OK"
       THEN InputAnswer(state.code, offset, size, <<>>) /\ UNCHANGED <<state, inputs>>
       ELSE IF InputCached(Inner, offset, size)
       THEN /\ InputAnswer("OK", offset, size, SubSeq(Inner.cache, offset - Inner.at + 1,
                                                      offset - Inner.at + size))
            /\ UNCHANGED <<state, inputs>>
       ELSE \E read \in SourceRead(state, Inner, offset, size) :
              /\ state' = read.st
              /\ InputAnswer(read.code, offset, size, IF read.code = "OK" THEN read.bytes ELSE <<>>)
              /\ inputs' = IF read.code = "OK" /\ size # 0 /\ size <= CacheBytes
                           THEN [inputs EXCEPT ![Len(inputs)] =
                                    [@ EXCEPT !.at = offset, !.cache = read.bytes]]
                           ELSE inputs

SlicedWithCache(input, offset, size) ==     \* mutant: the slice keeps its parent's cache
    IF InRange(input, offset, size)
    THEN [input EXCEPT !.start = @ + offset, !.size = size]
    ELSE [input EXCEPT !.size = 0]
SlicedUnchecked(input, offset, size) ==     \* mutant: the size is checked, the end is not
    IF offset <= input.size /\ size <= input.size
    THEN [start |-> input.start + offset, size |-> size, at |-> input.at, cache |-> <<>>]
    ELSE [input EXCEPT !.size = 0, !.cache = <<>>]

(* omc_input_slice: a decoder hands a part of its input, with an empty     *)
(* cache, to a nested decoder, and later goes on with its own.  Parts that *)
(* do not fit become empty.                                                *)
Sliced(input, offset, size) ==
    IF InRange(input, offset, size)
    THEN [start |-> input.start + offset, size |-> size, at |-> input.at, cache |-> <<>>]
    ELSE [input EXCEPT !.size = 0, !.cache = <<>>]

Slice(offset, size) ==
    /\ Len(inputs) < MaxDepth
    /\ inputs' = Append(inputs, Sliced(Inner, offset, size))
    /\ UNCHANGED <<memory, limits, state, window, answer>>

Unslice ==
    /\ Len(inputs) > 1
    /\ inputs' = SubSeq(inputs, 1, Len(inputs) - 1)
    /\ UNCHANGED <<memory, limits, state, window, answer>>

Next ==
    \/ \E offset, size \in Offsets : ExactRead(offset, size)
    \/ \E offset, size \in Offsets, minimum \in ReadAhead : ReadView(offset, size, minimum)
    \/ \E offset, size \in Offsets : InputRead(offset, size)
    \/ \E offset, size \in Offsets : Slice(offset, size)
    \/ Unslice

Spec == Init /\ [][Next]_vars

(* A slice never reaches outside the input it was cut from.                *)
SlicesNest ==
    /\ inputs[1].start = 0 /\ inputs[1].size = SourceSize
    /\ \A d \in 2..Len(inputs) :
          /\ inputs[d - 1].start <= inputs[d].start
          /\ inputs[d].start + inputs[d].size <= inputs[d - 1].start + inputs[d - 1].size

-----------------------------------------------------------------------------
(* Every variable has its type; the counters stay within their widths.     *)
TypeOK ==
    /\ memory \in BOOLEAN /\ limits \in Limits
    /\ state \in [code : Codes, requests : 0..MaxCount, requested : 0..MaxTotal,
                  completed : 0..MaxTotal, failure : (0..SourceSize) \X (0..SourceSize)]
    /\ window \in [valid : BOOLEAN, offset : Offsets, bytes : Seq(Byte)]
    /\ Len(inputs) \in 1..MaxDepth
    /\ \A d \in 1..Len(inputs) :
          inputs[d] \in [start : Offsets, size : Offsets, at : Offsets, cache : Seq(Byte)]
    /\ SlicesNest
    /\ answer \in [code : Codes, at : Offsets, size : Offsets, bytes : Seq(Byte)]

(* The budgets of an operation hold over all its reads together: direct    *)
(* ones, window refills with read-ahead and cached input reads.  Neither   *)
(* counter wraps when a budget is unlimited.                               *)
BudgetsHold ==
    /\ limits.requests # 0 => state.requests <= limits.requests
    /\ limits.total # 0 => state.requested <= limits.total
    /\ state.completed <= state.requested

(* Whatever a call answers with OK are the bytes the source has at the     *)
(* place asked for, whether they came from memory, the window, the cache   *)
(* of the input or the callback.                                           *)
AnswersAreTrue ==
    /\ answer.code = "OK" => Len(answer.bytes) = answer.size
    /\ \A i \in 1..Len(answer.bytes) : answer.bytes[i] = answer.at + i - 1

(* No cache holds a byte that is not the source's at its place: not after  *)
(* a refill that failed half way, not in a slice, not in the input a       *)
(* nested decoder returns to.                                              *)
CachesAreTrue ==
    /\ window.valid =>
          \A i \in 1..Len(window.bytes) : window.bytes[i] = window.offset + i - 1
    /\ \A d \in 1..Len(inputs) :
          \A i \in 1..Len(inputs[d].cache) :
              inputs[d].cache[i] = inputs[d].start + inputs[d].at + i - 1

(* After the first failure the operation is over: the host is never called *)
(* again, and the code and place of the failure stay what they were.       *)
Frozen == state.code # "OK" => state' = state
FailureIsFinal == [][Frozen]_vars

(* Read-ahead costs no caller its bytes: a read or view refused for a      *)
(* budget would have been refused without read-ahead too.  (Only the       *)
(* 64-bit counter of an unlimited operation is not looked at when the      *)
(* read-ahead is cut.)                                                     *)
RefusedForBudget ==
    /\ state.code = "OK"
    /\ state'.code \in {"REQUEST_TOO_LARGE", "REQUEST_LIMIT", "BYTE_LIMIT"}
    /\ ~(limits.total = 0 /\ state'.failure[2] > MaxTotal - state.requested)
ReadAheadIsFree ==
    [][RefusedForBudget => BudgetFailure(state, answer'.size) # "OK"]_vars
=============================================================================
